-------------------------- MODULE RepairJobs_proofs --------------------------
(***************************************************************************)
(* Proofs about RepairJobs: types, what a pending and a completed job      *)
(* mean, and that only those files are deleted that somebody agreed to.    *)
(* The last part is about RepairService: what repair.json has.             *)
(***************************************************************************)
EXTENDS RepairService, FiniteSetTheorems, TLAPS

USE ConstantsAssumption, NoneIsNoJob

(***************************************************************************)
(* Types.                                                                  *)
(***************************************************************************)
RunType == [pc : RunPCs, req : Requests \cup {None}, job : JobIds \cup {None},
            former : BOOLEAN, left : SUBSET Arrs, todo : SUBSET Items, held : SUBSET Items,
            found : SUBSET Items, err : BOOLEAN, agreed : BOOLEAN]
ProcType == [pc : ProcPCs, job : JobIds \cup {None}, former : BOOLEAN, left : SUBSET Items]
LibType == [ver : 1..MaxVersion, there : BOOLEAN, bad : BOOLEAN]

Typed ==
    /\ jobs \in [Keys -> JobIds \cup {None}]
    /\ job \in [JobIds -> JobType \cup {None}]
    /\ run \in [Runs -> RunType]
    /\ proc \in [Procs -> ProcType]
    /\ lib \in [Media -> LibType]
    /\ loaded \in BOOLEAN

\* What a goroutine has in its hands at each control point.
RunHolds(r) ==
    /\ r.pc \in {"idle", "done"} => r.job = None
    /\ r.pc \notin {"idle", "done"} => r.req \in Requests
    /\ r.pc \in {"pre", "scan", "save", "late"} => r.job \in JobIds
    /\ r.pc # "scan" => r.left = {} /\ r.todo = {} /\ r.held = {} /\ r.found = {}

ProcHolds(p) ==
    /\ p.pc \in {"idle", "done"} => p.job = None
    /\ p.pc \notin {"idle", "done"} => p.job \in JobIds
    /\ p.pc \in {"idle", "finalSave", "done"} => p.left = {}

Shape ==
    /\ \A c \in Runs : RunHolds(run[c])
    /\ \A p \in Procs : ProcHolds(proc[p])
    /\ \A j \in JobIds : Live(j) => job[j] # None

Sound == Typed /\ Shape

(***************************************************************************)
(* Whose job it is: a job belongs to one key, so that its Arrs are those   *)
(* the key allows, and what a run holds is theirs.  Its auto-processing    *)
(* was asked for by the run or by one after it.                            *)
(***************************************************************************)
Allowed(k) == (Arrs \ Skipped) \cup Named[k]

OneKey ==
    /\ \A k, l \in Keys : jobs[k] # None /\ jobs[k] = jobs[l] => k = l
    /\ \A c \in Runs, k \in Keys : run[c].job # None /\ run[c].job = jobs[k] => run[c].req.key = k
    /\ \A c, d \in Runs : run[c].job # None /\ run[c].job = run[d].job => run[c].req.key = run[d].req.key

OwnArrs ==
    /\ \A k \in Keys : jobs[k] # None => job[jobs[k]].arrs \subseteq Allowed(k)
    /\ \A c \in Runs : run[c].job # None => job[run[c].job].arrs \subseteq Allowed(run[c].req.key)
    /\ \A c \in Runs : run[c].pc = "scan" =>
         /\ run[c].left \subseteq Allowed(run[c].req.key)
         /\ \A x \in run[c].todo \cup run[c].held : ArrOf[x[1]] \in Allowed(run[c].req.key)

Asked == \A c \in Runs : Active(c) /\ job[run[c].job].auto => run[c].agreed

Agreement == OneKey /\ OwnArrs /\ Asked

(***************************************************************************)
(* What a job says.  As long as no start has overlapped another goroutine, *)
(* one run works on a job or the user's processing does, never both, and   *)
(* whatever the one or the other took off its list is gone.                *)
(***************************************************************************)
Past(x) == x[2] <= lib[x[1]].ver
Gone(x) == Past(x) /\ (lib[x[1]].ver = x[2] => ~lib[x[1]].there)

Versions ==
    /\ \A c \in Runs : \A x \in run[c].todo \cup run[c].held \cup run[c].found : Past(x)
    /\ \A p \in Procs : \A x \in proc[p].left : Past(x)
    /\ \A j \in JobIds : job[j] # None => \A x \in job[j].items : Past(x)

Scanning(r) == r.pc \in {"pre", "scan"}
Working(r)  == Scanning(r) \/ r.pc = "late" \/ (r.pc = "save" /\ r.err)
Deleting(p) == p.pc \in {"begun", "save", "wait"}

WorkOK(j, c) ==
    /\ \A d \in RunsOn(j) : Working(run[d]) => d = c
    /\ \A p \in ProcsOn(j) : ~Deleting(proc[p])
    /\ job[j].status \in {"started", "failed"}
    /\ Scanning(run[c]) => /\ job[j].status = "started" /\ job[j].items = {}
                           /\ ~job[j].completed /\ ~job[j].failed
    /\ job[j].auto => \A x \in run[c].found : Gone(x)

JobOK(j) ==
    job[j] # None =>
      /\ job[j].status = "pending" => job[j].items # {}
      /\ ~job[j].excused =>
           /\ job[j].status = "pending" => ~job[j].completed /\ ~job[j].failed
           /\ job[j].status = "completed" => \A x \in job[j].items : Gone(x)
           /\ \A c \in RunsOn(j) : Working(run[c]) => WorkOK(j, c)
           /\ \A p \in ProcsOn(j) : Deleting(proc[p]) =>
                \A x \in job[j].items : x \in proc[p].left \/ Gone(x)

Meaning == Versions /\ \A j \in JobIds : JobOK(j)

(***************************************************************************)
(* The steps, in the terms the invariants use.                             *)
(***************************************************************************)
LEMMA Kinds ==
  Next => \/ \E c \in Runs : \/ StartJob(c) \/ PreRunChecks(c) \/ PreRunFails(c)
                             \/ Scan(c) \/ Settle(c) \/ Saved(c) \/ MarkFailed(c)
          \/ \E p \in Procs : ProcStep(p)
          \/ Call \/ World
  BY DEF Next, RunStep

\* A path's versions only grow, and what is gone does not come back as itself.
LibGoesOn ==
    /\ lib' \in [Media -> LibType]
    /\ \A x \in Items : (Past(x) => Past(x)') /\ (Gone(x) => Gone(x)')

LEMMA SameLib == ASSUME Sound, UNCHANGED lib PROVE LibGoesOn
  BY DEF Sound, Typed, LibGoesOn, Past, Gone

LEMMA LibDeleted ==
  ASSUME Sound, NEW xs \in SUBSET Items, DeleteFiles(xs)
  PROVE  LibGoesOn /\ \A x \in xs : Past(x) => Gone(x)'
  <1>1. \A n \in Media : lib'[n] \in LibType /\ lib'[n].ver = lib[n].ver /\ (lib'[n].there => lib[n].there)
    <2> SUFFICES ASSUME NEW n \in Media
                 PROVE  lib'[n] \in LibType /\ lib'[n].ver = lib[n].ver /\ (lib'[n].there => lib[n].there)
      OBVIOUS
    <2>1. lib[n] \in LibType
      BY DEF Sound, Typed
    <2>2. lib'[n] = lib[n] \/ lib'[n] = [lib[n] EXCEPT !.there = FALSE, !.bad = FALSE]
      BY DEF DeleteFiles
    <2> QED
      BY <2>1, <2>2 DEF LibType
  <1>2. \A x \in xs : x[1] \in Media /\ ~lib'[x[1]].there
    BY DEF DeleteFiles, Sound, Typed, LibType, Items
  <1>3. lib' \in [Media -> LibType]
    BY <1>1 DEF DeleteFiles
  <1>4. \A x \in Items : x[1] \in Media
    BY DEF Items
  <1> QED
    BY <1>1, <1>2, <1>3, <1>4 DEF LibGoesOn, Past, Gone

LEMMA LibChanges ==
  ASSUME Sound, NEW n \in Media,
         Break(n) \/ Import(n)
  PROVE  LibGoesOn
  <1>1. \A m \in Media : m # n => lib'[m] = lib[m]
    BY DEF Break, Import, Sound, Typed
  <1>2. /\ lib'[n] \in LibType /\ lib' \in [Media -> LibType]
        /\ \/ lib'[n].ver = lib[n].ver /\ lib'[n].there = lib[n].there
           \/ lib'[n].ver = lib[n].ver + 1
    <2>1. lib[n] \in LibType /\ lib \in [Media -> LibType] /\ MaxVersion \in Nat
      BY DEF Sound, Typed
    <2>2. PICK r \in LibType : /\ lib' = [lib EXCEPT ![n] = r]
                               /\ \/ r.ver = lib[n].ver /\ r.there = lib[n].there
                                  \/ r.ver = lib[n].ver + 1
      <3>1. CASE Break(n)
        <4>1. [lib[n] EXCEPT !.bad = TRUE] \in LibType
          BY <2>1 DEF LibType
        <4> QED
          BY <2>1, <3>1, <4>1 DEF Break, LibType
      <3>2. CASE Import(n)
        <4>1. [ver |-> lib[n].ver + 1, there |-> TRUE, bad |-> FALSE] \in LibType
          BY <2>1, <3>2 DEF LibType, Import
        <4> QED
          BY <2>1, <3>2, <4>1 DEF Import, LibType
      <3> QED
        BY <3>1, <3>2
    <2> HIDE DEF LibType
    <2> QED
      BY <2>1, <2>2
  <1>3. \A x \in Items : x[1] \in Media /\ x[2] \in Nat
    BY DEF Items
  <1>4. lib[n].ver \in Nat
    BY DEF Sound, Typed, LibType
  <1> QED
    BY <1>1, <1>2, <1>3, <1>4 DEF LibGoesOn, Past, Gone

\* A re-inserted torrent changes what is bad, and nothing else.
LEMMA LibHealed ==
  ASSUME Sound, NEW p,
         lib' = [n \in Media |-> IF Leads(n, p) THEN [lib[n] EXCEPT !.bad = FALSE] ELSE lib[n]]
  PROVE  LibGoesOn /\ \A n \in Media : lib'[n].there = lib[n].there
  <1>1. \A n \in Media : lib'[n] \in LibType /\ lib'[n].ver = lib[n].ver /\ lib'[n].there = lib[n].there
    <2> SUFFICES ASSUME NEW n \in Media
                 PROVE  lib'[n] \in LibType /\ lib'[n].ver = lib[n].ver /\ lib'[n].there = lib[n].there
      OBVIOUS
    <2>1. lib[n] \in LibType
      BY DEF Sound, Typed
    <2>2. lib'[n] = lib[n] \/ lib'[n] = [lib[n] EXCEPT !.bad = FALSE]
      OBVIOUS
    <2> QED
      BY <2>1, <2>2 DEF LibType
  <1>2. lib' \in [Media -> LibType]
    BY <1>1
  <1>3. \A x \in Items : x[1] \in Media
    BY DEF Items
  <1> QED
    BY <1>1, <1>2, <1>3 DEF LibGoesOn, Past, Gone

\* The steps of a run between its start and its result.
ScanGoesOn(c) ==
    /\ UNCHANGED <<jobs, job, proc, loaded>>
    /\ LibGoesOn
    /\ run' \in [Runs -> RunType] /\ RunHolds(run'[c])
    /\ \A d \in Runs : d # c => run'[d] = run[d]
    /\ Scanning(run[c])
    /\ Scanning(run'[c]) \/ (run'[c].pc = "save" /\ run'[c].err)
    /\ run'[c].job = run[c].job /\ run'[c].req = run[c].req /\ run'[c].agreed = run[c].agreed
    /\ run'[c].left \subseteq run[c].left \cup job[run[c].job].arrs
    /\ \A x \in run'[c].todo \cup run'[c].held :
         \/ x \in run[c].todo \cup run[c].held
         \/ ArrOf[x[1]] \in run[c].left /\ run[c].pc = "scan" /\ Past(x)
    /\ \A x \in run'[c].found :
         x \in run[c].found \/ (x \in run[c].held /\ (job[run[c].job].auto /\ Past(x) => Gone(x)'))

\* What judging a folder leaves of a run.
Judged(c, r) ==
    /\ run' = [run EXCEPT ![c] = r]
    /\ r.pc = "scan" /\ r.left = run[c].left
    /\ r.job = run[c].job /\ r.req = run[c].req /\ r.agreed = run[c].agreed
    /\ r.todo \subseteq run[c].todo /\ r.held \subseteq run[c].todo \cup run[c].held
    /\ r.found = run[c].found

LEMMA Scans ==
  ASSUME Sound, NEW c \in Runs, PreRunChecks(c) \/ PreRunFails(c) \/ Scan(c)
  PROVE  ScanGoesOn(c)
  <1>t. run[c] \in RunType /\ RunHolds(run[c])
    BY DEF Sound, Typed, Shape
  <1>f. ASSUME NEW r \in RunType, run' = [run EXCEPT ![c] = r]
        PROVE  run' \in [Runs -> RunType] /\ run'[c] = r /\ \A d \in Runs : d # c => run'[d] = run[d]
    <2> HIDE DEF RunType
    <2> QED
      BY <1>f DEF Sound, Typed
  <1>1. CASE PreRunChecks(c)
    <2> DEFINE r == [run[c] EXCEPT !.pc = "scan", !.left = job[run[c].job].arrs]
    <2>1. job[run[c].job] \in JobType
      BY <1>1, <1>t DEF PreRunChecks, Sound, Typed, Shape, RunHolds, Live
    <2>2. /\ r \in RunType /\ r.pc = "scan" /\ r.left = job[run[c].job].arrs
          /\ r.job = run[c].job /\ r.req = run[c].req /\ r.agreed = run[c].agreed
          /\ r.todo = run[c].todo /\ r.held = run[c].held /\ r.found = run[c].found
      BY <1>t, <2>1 DEF RunType, JobType, RunPCs
    <2>3. run' = [run EXCEPT ![c] = r] /\ UNCHANGED <<jobs, job, proc, lib, loaded>>
      BY <1>1, <1>t DEF PreRunChecks, Sound, Typed
    <2> HIDE DEF r
    <2>4. RunHolds(r)
      BY <1>1, <1>t, <2>2 DEF RunHolds, PreRunChecks
    <2> QED
      BY <1>1, <1>f, <1>t, <2>2, <2>3, <2>4, SameLib DEF ScanGoesOn, PreRunChecks, Scanning
  <1>2. CASE PreRunFails(c)
    <2> DEFINE r == [run[c] EXCEPT !.pc = "save", !.err = TRUE]
    <2>2. /\ r \in RunType /\ r.pc = "save" /\ r.err = TRUE /\ r.left = run[c].left
          /\ r.job = run[c].job /\ r.req = run[c].req /\ r.agreed = run[c].agreed
          /\ r.todo = run[c].todo /\ r.held = run[c].held /\ r.found = run[c].found
      BY <1>t DEF RunType, RunPCs
    <2>3. run' = [run EXCEPT ![c] = r] /\ UNCHANGED <<jobs, job, proc, lib, loaded>>
      BY <1>2, <1>t DEF PreRunFails, Sound, Typed
    <2> HIDE DEF r
    <2>4. RunHolds(r)
      BY <1>2, <1>t, <2>2 DEF RunHolds, PreRunFails
    <2> QED
      BY <1>2, <1>f, <1>t, <2>2, <2>3, <2>4, SameLib DEF ScanGoesOn, PreRunFails, Scanning
  <1>3. ASSUME NEW a \in Arrs, ListMedia(c, a) \/ SkipArr(c, a) \/ ListFails(c, a) PROVE ScanGoesOn(c)
    <2>1. PICK r \in RunType :
            /\ run' = [run EXCEPT ![c] = r]
            /\ r.pc = "scan" /\ r.left \subseteq run[c].left
            /\ r.job = run[c].job /\ r.req = run[c].req /\ r.agreed = run[c].agreed
            /\ \A x \in r.todo : x \in run[c].todo \/ (ArrOf[x[1]] \in run[c].left /\ Past(x))
            /\ r.held = run[c].held /\ r.found = run[c].found
      <3>1. CASE ListMedia(c, a)
        <4>1. PICK listed \in SUBSET Listed(c, a) :
                run' = [run EXCEPT ![c].left = @ \ {a},
                                   ![c].todo = @ \cup {<<n, lib[n].ver>> : n \in listed}]
          BY <3>1 DEF ListMedia
        <4> DEFINE new == {<<n, lib[n].ver>> : n \in listed}
                   r == [run[c] EXCEPT !.left = @ \ {a}, !.todo = @ \cup new]
        <4>2. \A x \in new : x \in Items /\ ArrOf[x[1]] = a /\ Past(x)
          <5>1. ASSUME NEW n \in listed PROVE n \in Media /\ ArrOf[n] = a /\ lib[n].ver \in 1..MaxVersion
            BY DEF Listed, Sound, Typed, LibType
          <5> QED
            BY <5>1 DEF Items, Past
        <4>3. run[c].pc = "scan" /\ a \in run[c].left
          BY <3>1 DEF ListMedia
        <4> HIDE DEF new
        <4>4. /\ r \in RunType /\ r.pc = run[c].pc /\ r.left = run[c].left \ {a}
              /\ r.todo = run[c].todo \cup new
              /\ r.job = run[c].job /\ r.req = run[c].req /\ r.agreed = run[c].agreed
              /\ r.held = run[c].held /\ r.found = run[c].found
          BY <1>t, <4>2 DEF RunType
        <4>5. run' = [run EXCEPT ![c] = r]
          BY <1>t, <4>1 DEF Sound, Typed, new
        <4> HIDE DEF r
        <4> QED
          BY <4>2, <4>3, <4>4, <4>5
      <3>2. CASE SkipArr(c, a)
        <4> DEFINE r == [run[c] EXCEPT !.left = @ \ {a}]
        <4>1. /\ r \in RunType /\ r.pc = run[c].pc /\ r.left = run[c].left \ {a} /\ r.todo = run[c].todo
              /\ r.job = run[c].job /\ r.req = run[c].req /\ r.agreed = run[c].agreed
              /\ r.held = run[c].held /\ r.found = run[c].found
          BY <1>t DEF RunType
        <4>2. run' = [run EXCEPT ![c] = r] /\ run[c].pc = "scan"
          BY <3>2 DEF SkipArr
        <4> HIDE DEF r
        <4> QED
          BY <4>1, <4>2
      <3>3. CASE ListFails(c, a)
        <4> DEFINE r == [run[c] EXCEPT !.left = @ \ {a}, !.err = TRUE]
        <4>1. /\ r \in RunType /\ r.pc = run[c].pc /\ r.left = run[c].left \ {a} /\ r.todo = run[c].todo
              /\ r.job = run[c].job /\ r.req = run[c].req /\ r.agreed = run[c].agreed
              /\ r.held = run[c].held /\ r.found = run[c].found
          BY <1>t DEF RunType
        <4>2. run' = [run EXCEPT ![c] = r] /\ run[c].pc = "scan"
          BY <3>3, <1>t DEF ListFails, Sound, Typed
        <4> HIDE DEF r
        <4> QED
          BY <4>1, <4>2
      <3> QED
        BY <1>3, <3>1, <3>2, <3>3
    <2>2. run[c].pc = "scan" /\ UNCHANGED <<jobs, job, proc, lib, loaded>>
      BY <1>3 DEF ListMedia, SkipArr, ListFails
    <2>3. RunHolds(r)
      BY <1>t, <2>1, <2>2 DEF RunHolds
    <2> QED
      BY <1>f, <2>1, <2>2, <2>3, SameLib DEF ScanGoesOn, Scanning
  <1>4. ASSUME Judge(c) PROVE ScanGoesOn(c)
    <2>1. PICK r \in RunType :
            /\ run' = [run EXCEPT ![c] = r]
            /\ r.pc = "scan" /\ r.left = run[c].left
            /\ r.job = run[c].job /\ r.req = run[c].req /\ r.agreed = run[c].agreed
            /\ r.todo \subseteq run[c].todo /\ r.held \subseteq run[c].todo \cup run[c].held
            /\ r.found = run[c].found
      <3>1. ASSUME NEW t \in Contents, NEW p \in Folders, FoundBroken(c, t, p)
            PROVE  \E r \in RunType : Judged(c, r)
        <4> DEFINE g == Group(c, t, p)
                   r == [run[c] EXCEPT !.todo = @ \ g, !.held = @ \cup g]
        <4>0. g \subseteq run[c].todo
          BY DEF Group
        <4>2. run' = [run EXCEPT ![c] = r] /\ run[c].pc = "scan"
          BY <3>1, <1>t DEF FoundBroken, Sound, Typed
        <4> HIDE DEF g
        <4>1. /\ r \in RunType /\ r.pc = run[c].pc /\ r.left = run[c].left /\ r.todo = run[c].todo \ g
              /\ r.job = run[c].job /\ r.req = run[c].req /\ r.agreed = run[c].agreed
              /\ r.held = run[c].held \cup g /\ r.found = run[c].found
          BY <1>t, <4>0 DEF RunType
        <4> HIDE DEF r
        <4> QED
          BY <4>0, <4>1, <4>2 DEF Judged
      <3>2. ASSUME NEW g, run' = [run EXCEPT ![c].todo = @ \ g], run[c].pc = "scan"
            PROVE  \E r \in RunType : Judged(c, r)
        <4> DEFINE r == [run[c] EXCEPT !.todo = @ \ g]
        <4>1. /\ r \in RunType /\ r.pc = run[c].pc /\ r.left = run[c].left /\ r.todo = run[c].todo \ g
              /\ r.job = run[c].job /\ r.req = run[c].req /\ r.agreed = run[c].agreed
              /\ r.held = run[c].held /\ r.found = run[c].found
          BY <1>t DEF RunType
        <4>2. run' = [run EXCEPT ![c] = r]
          BY <3>2
        <4> HIDE DEF r
        <4> QED
          BY <3>2, <4>1, <4>2 DEF Judged
      <3>3. ASSUME NEW x \in Items, PassOver(c, x) PROVE \E r \in RunType : Judged(c, r)
        BY <3>2, <3>3 DEF PassOver
      <3>4. ASSUME NEW t \in Contents, NEW p \in Folders, FoundWell(c, t, p) \/ FoundHealed(c, t, p)
            PROVE  \E r \in RunType : Judged(c, r)
        BY <3>2, <3>4 DEF FoundWell, FoundHealed
      <3>5. \E r \in RunType : Judged(c, r)
        BY <1>4, <3>1, <3>3, <3>4 DEF Judge
      <3> QED
        BY <3>5 DEF Judged
    <2>2. run[c].pc = "scan" /\ UNCHANGED <<jobs, job, proc, loaded>>
      BY <1>4 DEF Judge, PassOver, FoundBroken, FoundWell, FoundHealed
    <2>3. LibGoesOn
      <3>1. ASSUME NEW t \in Contents, NEW p \in Folders, FoundHealed(c, t, p) PROVE LibGoesOn
        BY <3>1, LibHealed DEF FoundHealed
      <3> QED
        BY <1>4, <3>1, SameLib DEF Judge, PassOver, FoundBroken, FoundWell
    <2>4. RunHolds(r)
      BY <1>t, <2>1, <2>2 DEF RunHolds
    <2> QED
      BY <1>f, <2>1, <2>2, <2>3, <2>4 DEF ScanGoesOn, Scanning
  <1>5. ASSUME NEW t \in Contents, HandleBroken(c, t) PROVE ScanGoesOn(c)
    <2> DEFINE g == HeldOf(c, t)
               r == [run[c] EXCEPT !.held = @ \ g, !.found = @ \cup g]
    <2>0. g \subseteq run[c].held /\ g \subseteq Items
      BY <1>t DEF HeldOf, RunType
    <2>2. /\ run' = [run EXCEPT ![c] = r] /\ run[c].pc = "scan"
          /\ UNCHANGED <<jobs, job, proc, loaded>>
      BY <1>5, <1>t DEF HandleBroken, Sound, Typed
    <2>3. LibGoesOn /\ \A x \in g : job[run[c].job].auto /\ Past(x) => Gone(x)'
      <3>1. CASE job[run[c].job].auto
        <4>1. DeleteFiles(g)
          BY <1>5, <3>1 DEF HandleBroken
        <4> QED
          BY <2>0, <4>1, LibDeleted
      <3> QED
        BY <1>5, <3>1, SameLib DEF HandleBroken
    <2> HIDE DEF g
    <2>1. /\ r \in RunType /\ r.pc = run[c].pc /\ r.left = run[c].left /\ r.todo = run[c].todo
          /\ r.job = run[c].job /\ r.req = run[c].req /\ r.agreed = run[c].agreed
          /\ r.held = run[c].held \ g /\ r.found = run[c].found \cup g
      BY <1>t, <2>0 DEF RunType
    <2> HIDE DEF r
    <2>4. RunHolds(r)
      BY <1>t, <2>1, <2>2 DEF RunHolds
    <2> QED
      BY <1>f, <2>0, <2>1, <2>2, <2>3, <2>4 DEF ScanGoesOn, Scanning
  <1> QED
    BY <1>1, <1>2, <1>3, <1>4, <1>5 DEF Scan, List

\* The result of a run.
SettlesAs(c, f) ==
    LET g == job[run[c].job] IN
    /\ UNCHANGED <<jobs, proc, lib, loaded>>
    /\ run[c].job \in JobIds /\ g \in JobType /\ job' = [job EXCEPT ![run[c].job] = f]
    /\ run' \in [Runs -> RunType] /\ RunHolds(run'[c])
    /\ \A d \in Runs : d # c => run'[d] = run[d]
    /\ run[c].pc = "scan" /\ run'[c].pc = "save"
    /\ run'[c].job = run[c].job /\ run'[c].req = run[c].req /\ run'[c].agreed = run[c].agreed
    /\ run'[c].err = run[c].err
    /\ f.arrs = g.arrs /\ f.auto = g.auto /\ f.excused = g.excused
    /\ \/ run[c].err /\ f.status = "failed" /\ f.items = g.items
       \/ ~run[c].err /\ f.status = "completed" /\ f.items = g.items
       \/ ~run[c].err /\ f.status = "completed" /\ f.items = run[c].found /\ g.auto
       \/ /\ ~run[c].err /\ f.status = "pending" /\ f.items = run[c].found /\ f.items # {}
          /\ f.completed = g.completed /\ f.failed = g.failed

LEMMA Settling ==
  ASSUME Sound, NEW c \in Runs, Settle(c)
  PROVE  \E f \in JobType : SettlesAs(c, f)
  <1> DEFINE j == run[c].job
             g == job[j]
  <1>t. run[c] \in RunType /\ RunHolds(run[c]) /\ run[c].pc = "scan"
    BY DEF Sound, Typed, Shape, Settle, ScanFailed, NothingFound, FoundSome, Scanned
  <1>j. j \in JobIds /\ g \in JobType
    BY <1>t DEF Sound, Typed, Shape, RunHolds, Live
  <1>f. ASSUME NEW r \in RunType, run' = [run EXCEPT ![c] = r]
        PROVE  run' \in [Runs -> RunType] /\ run'[c] = r /\ \A d \in Runs : d # c => run'[d] = run[d]
    <2> HIDE DEF RunType
    <2> QED
      BY <1>f DEF Sound, Typed
  <1> DEFINE r == [run[c] EXCEPT !.pc = "save", !.found = {}]
             s == [run[c] EXCEPT !.pc = "save"]
  <1>r. /\ r \in RunType /\ r.pc = "save" /\ r.found = {}
        /\ r.left = run[c].left /\ r.todo = run[c].todo /\ r.held = run[c].held
        /\ r.job = run[c].job /\ r.req = run[c].req /\ r.agreed = run[c].agreed /\ r.err = run[c].err
    BY <1>t DEF RunType, RunPCs
  <1>s. /\ s \in RunType /\ s.pc = "save" /\ s.found = run[c].found
        /\ s.left = run[c].left /\ s.todo = run[c].todo /\ s.held = run[c].held
        /\ s.job = run[c].job /\ s.req = run[c].req /\ s.agreed = run[c].agreed /\ s.err = run[c].err
    BY <1>t DEF RunType, RunPCs
  <1>1. CASE ScanFailed(c)
    <2>1. Failed(g) \in JobType /\ Failed(g).status = "failed" /\ Failed(g).items = g.items
          /\ Failed(g).arrs = g.arrs /\ Failed(g).auto = g.auto /\ Failed(g).excused = g.excused
      BY <1>j DEF Failed, JobType
    <2>2. run' = [run EXCEPT ![c] = r] /\ job' = [job EXCEPT ![j] = Failed(g)] /\ Scanned(c) /\ run[c].err
          /\ UNCHANGED <<jobs, proc, lib, loaded>>
      BY <1>1, <1>t DEF ScanFailed, Sound, Typed, Update
    <2> HIDE DEF r
    <2>3. RunHolds(r)
      BY <1>r, <1>t, <2>2 DEF RunHolds, Scanned
    <2>4. SettlesAs(c, Failed(g))
      BY <1>f, <1>j, <1>r, <1>t, <2>1, <2>2, <2>3 DEF SettlesAs
    <2> QED
      BY <2>1, <2>4
  <1>2. CASE NothingFound(c)
    <2>1. Completed(g) \in JobType /\ Completed(g).status = "completed" /\ Completed(g).items = g.items
          /\ Completed(g).arrs = g.arrs /\ Completed(g).auto = g.auto /\ Completed(g).excused = g.excused
      BY <1>j DEF Completed, JobType
    <2>2. run' = [run EXCEPT ![c] = s] /\ job' = [job EXCEPT ![j] = Completed(g)] /\ Scanned(c)
          /\ ~run[c].err /\ run[c].found = {}
          /\ UNCHANGED <<jobs, proc, lib, loaded>>
      BY <1>2, <1>t DEF NothingFound, Sound, Typed, Update
    <2> HIDE DEF s
    <2>3. RunHolds(s)
      BY <1>s, <1>t, <2>2 DEF RunHolds, Scanned
    <2>4. SettlesAs(c, Completed(g))
      BY <1>f, <1>j, <1>s, <1>t, <2>1, <2>2, <2>3 DEF SettlesAs
    <2> QED
      BY <2>1, <2>4
  <1>3. CASE FoundSome(c)
    <2> DEFINE h == [g EXCEPT !.items = run[c].found]
               f == IF h.auto THEN Completed(h) ELSE [h EXCEPT !.status = "pending"]
    <2>1. /\ h \in JobType /\ h.items = run[c].found /\ h.arrs = g.arrs /\ h.auto = g.auto
          /\ h.excused = g.excused /\ h.completed = g.completed /\ h.failed = g.failed
      BY <1>j, <1>t DEF RunType, JobType
    <2>2. run' = [run EXCEPT ![c] = r] /\ job' = [job EXCEPT ![j] = f] /\ Scanned(c)
          /\ ~run[c].err /\ run[c].found # {}
          /\ UNCHANGED <<jobs, proc, lib, loaded>>
      BY <1>3, <1>t DEF FoundSome, Sound, Typed, Update
    <2> HIDE DEF r, h
    <2>3. /\ f \in JobType /\ f.items = run[c].found /\ f.arrs = g.arrs /\ f.auto = g.auto
          /\ f.excused = g.excused
          /\ \/ f.status = "completed" /\ g.auto
             \/ f.status = "pending" /\ f.completed = g.completed /\ f.failed = g.failed
      BY <2>1 DEF Completed, JobType
    <2> HIDE DEF f
    <2>4. RunHolds(r)
      BY <1>r, <1>t, <2>2 DEF RunHolds, Scanned
    <2>5. SettlesAs(c, f)
      BY <1>f, <1>j, <1>r, <1>t, <2>2, <2>3, <2>4 DEF SettlesAs
    <2> QED
      BY <2>3, <2>5
  <1> QED
    BY <1>1, <1>2, <1>3 DEF Settle

\* The end of a save, and of a run.  A struct nothing leads to is collected.
Remains(j, f) == job'[j] \in {f, None} /\ (Live(j)' => job'[j] = f)

LEMMA Collecting ==
  ASSUME Sound, NEW k \in JobIds, NEW f \in JobType, job' = Collected([job EXCEPT ![k] = f])
  PROVE  /\ job' \in [JobIds -> JobType \cup {None}]
         /\ \A i \in JobIds : i # k => Remains(i, job[i])
         /\ Remains(k, f)
  <1> DEFINE js == [job EXCEPT ![k] = f]
  <1> HIDE DEF JobType
  <1>1. js \in [JobIds -> JobType \cup {None}] /\ js[k] = f /\ \A i \in JobIds : i # k => js[i] = job[i]
    BY DEF Sound, Typed
  <1>2. job' = Collected(js)
    OBVIOUS
  <1> HIDE DEF js
  <1>3. \A i \in JobIds : job'[i] = IF Live(i)' THEN js[i] ELSE None
    BY <1>2 DEF Collected
  <1>4. job' \in [JobIds -> JobType \cup {None}]
    <2>1. job' = [i \in JobIds |-> IF Live(i)' THEN js[i] ELSE None]
      BY <1>2 DEF Collected
    <2>2. \A i \in JobIds : (IF Live(i)' THEN js[i] ELSE None) \in JobType \cup {None}
      BY <1>1
    <2> QED
      BY <2>1, <2>2
  <1> QED
    BY <1>1, <1>3, <1>4 DEF Remains

EndsAs(c, j, f) ==
    LET g == job[j] IN
    /\ UNCHANGED <<jobs, proc, lib, loaded>>
    /\ run[c].job = j /\ g \in JobType
    /\ job' \in [JobIds -> JobType \cup {None}]
    /\ \A i \in JobIds : i # j => Remains(i, job[i])
    /\ Remains(j, f)
    /\ run' \in [Runs -> RunType] /\ RunHolds(run'[c])
    /\ \A d \in Runs : d # c => run'[d] = run[d]
    /\ \/ /\ run[c].pc = "save" /\ f = g
          /\ \/ ~run[c].err /\ run'[c].pc = "done"
             \/ /\ run[c].err /\ run'[c].pc = "late"
                /\ run'[c].job = j /\ run'[c].req = run[c].req /\ run'[c].agreed = run[c].agreed
       \/ /\ run[c].pc = "late" /\ run'[c].pc = "done"
          /\ f.status = "failed" /\ f.items = g.items
          /\ f.arrs = g.arrs /\ f.auto = g.auto /\ f.excused = g.excused

LEMMA DoneRunHolds == DoneRun \in RunType /\ RunHolds(DoneRun) /\ DoneRun.pc = "done" /\ DoneRun.job = None
  BY DEF DoneRun, IdleRun, RunType, RunPCs, RunHolds

LEMMA Ending ==
  ASSUME Sound, NEW c \in Runs, Saved(c) \/ MarkFailed(c)
  PROVE  \E j \in JobIds, f \in JobType : EndsAs(c, j, f)
  <1>t. run[c] \in RunType /\ RunHolds(run[c]) /\ run[c].pc \in {"save", "late"}
    BY DEF Sound, Typed, Shape, Saved, MarkFailed
  <1>p. PICK j \in JobIds : j = run[c].job
    BY <1>t DEF RunHolds
  <1> DEFINE g == job[j]
  <1>j. j = run[c].job /\ g \in JobType /\ job \in [JobIds -> JobType \cup {None}]
    BY <1>p, <1>t DEF Sound, Typed, Shape, RunHolds, Live
  <1>f. ASSUME NEW r \in RunType, run' = [run EXCEPT ![c] = r]
        PROVE  run' \in [Runs -> RunType] /\ run'[c] = r /\ \A d \in Runs : d # c => run'[d] = run[d]
    <2> HIDE DEF RunType
    <2> QED
      BY <1>f DEF Sound, Typed
  <1>c. ASSUME NEW f \in JobType, job' = Collected([job EXCEPT ![j] = f])
        PROVE  /\ job' \in [JobIds -> JobType \cup {None}]
               /\ \A i \in JobIds : i # j => Remains(i, job[i])
               /\ Remains(j, f)
    BY <1>c, <1>j, Collecting
  <1>1. CASE Saved(c)
    <2> DEFINE s == [run[c] EXCEPT !.pc = "late"]
    <2>1. /\ s \in RunType /\ s.pc = "late" /\ s.found = run[c].found
          /\ s.left = run[c].left /\ s.todo = run[c].todo /\ s.held = run[c].held
          /\ s.job = run[c].job /\ s.req = run[c].req /\ s.agreed = run[c].agreed
      BY <1>t DEF RunType, RunPCs
    <2>2. job = [job EXCEPT ![j] = g]
      BY <1>j
    <2>3. /\ job' = Collected(job) /\ run[c].pc = "save" /\ UNCHANGED <<jobs, proc, lib, loaded>>
          /\ run' = [run EXCEPT ![c] = IF run[c].err THEN s ELSE DoneRun]
      BY <1>1 DEF Saved, Sound, Typed
    <2> HIDE DEF s
    <2>4. RunHolds(s)
      BY <1>t, <2>1, <2>3 DEF RunHolds
    <2>5. CASE run[c].err
      <3>1. EndsAs(c, j, g)
        BY <1>c, <1>f, <1>j, <2>1, <2>2, <2>3, <2>4, <2>5 DEF EndsAs
      <3> QED
        BY <1>j, <3>1
    <2>6. CASE ~run[c].err
      <3>1. EndsAs(c, j, g)
        BY <1>c, <1>f, <1>j, <2>2, <2>3, <2>6, DoneRunHolds DEF EndsAs
      <3> QED
        BY <1>j, <3>1
    <2> QED
      BY <2>5, <2>6
  <1>2. CASE MarkFailed(c)
    <2>1. Failed(g) \in JobType /\ Failed(g).status = "failed" /\ Failed(g).items = g.items
          /\ Failed(g).arrs = g.arrs /\ Failed(g).auto = g.auto /\ Failed(g).excused = g.excused
      BY <1>j DEF Failed, JobType
    <2>2. /\ job' = Collected([job EXCEPT ![j] = Failed(g)]) /\ run' = [run EXCEPT ![c] = DoneRun]
          /\ run[c].pc = "late" /\ UNCHANGED <<jobs, proc, lib, loaded>>
      BY <1>2, <1>j DEF MarkFailed, Update
    <2>3. EndsAs(c, j, Failed(g))
      BY <1>c, <1>f, <1>j, <2>1, <2>2, DoneRunHolds DEF EndsAs
    <2> QED
      BY <2>1, <2>3
  <1> QED
    BY <1>1, <1>2

\* A call of AddJob: what it found.
ChecksAs(c, q) ==
    /\ UNCHANGED <<jobs, job, proc, lib, loaded>>
    /\ run' \in [Runs -> RunType] /\ RunHolds(run'[c])
    /\ \A d \in Runs : d # c => run'[d] = run[d]
    /\ run[c].pc = "idle" /\ run'[c].pc = "adding"
    /\ run'[c].req = q /\ q.key \in Keys /\ run'[c].job = jobs[q.key]

LEMMA Checking ==
  ASSUME Sound, NEW c \in Runs, NEW q \in Requests, CheckJob(c, q)
  PROVE  ChecksAs(c, q)
  <1> DEFINE r == [run[c] EXCEPT !.pc = "adding", !.req = q, !.job = jobs[q.key]]
  <1>t. run[c] \in RunType /\ RunHolds(run[c]) /\ run[c].pc = "idle" /\ q.key \in Keys
        /\ jobs[q.key] \in JobIds \cup {None}
    BY DEF CheckJob, Sound, Typed, Shape
  <1>1. /\ r \in RunType /\ r.pc = "adding" /\ r.req = q /\ r.job = jobs[q.key]
        /\ r.left = run[c].left /\ r.todo = run[c].todo /\ r.held = run[c].held /\ r.found = run[c].found
    BY <1>t DEF RunType, RunPCs
  <1>2. run' = [run EXCEPT ![c] = r] /\ UNCHANGED <<jobs, job, proc, lib, loaded>>
    BY <1>t DEF CheckJob, Sound, Typed
  <1> HIDE DEF r
  <1>3. run' \in [Runs -> RunType] /\ run'[c] = r /\ \A d \in Runs : d # c => run'[d] = run[d]
    <2> HIDE DEF RunType
    <2> QED
      BY <1>1, <1>2 DEF Sound, Typed
  <1>4. RunHolds(r)
    BY <1>t, <1>1 DEF RunHolds
  <1> QED
    BY <1>t, <1>1, <1>2, <1>3, <1>4 DEF ChecksAs

\* A start: the job f at j is new, or was at hand with other goroutines at it.
StartsAs(c, j, f) ==
    LET q == run[c].req IN
    /\ UNCHANGED <<proc, lib, loaded>>
    /\ q \in Requests /\ q.key \in Keys /\ jobs' = [jobs EXCEPT ![q.key] = j]
    /\ run[c].pc = "adding" /\ run'[c].pc = "pre"
    /\ run' \in [Runs -> RunType] /\ RunHolds(run'[c])
    /\ run'[c].job = j /\ run'[c].req = q /\ run'[c].agreed = q.auto
    /\ \A d \in Runs : d # c =>
         /\ RunHolds(run'[d])
         /\ run'[d].pc = run[d].pc /\ run'[d].req = run[d].req /\ run'[d].job = run[d].job
         /\ run'[d].left = run[d].left /\ run'[d].todo = run[d].todo /\ run'[d].held = run[d].held
         /\ run'[d].found = run[d].found /\ run'[d].err = run[d].err
         /\ run[d].agreed \/ (d \in RunsOn(j) /\ q.auto) => run'[d].agreed
    /\ job' \in [JobIds -> JobType \cup {None}]
    /\ \A i \in JobIds : i # j => Remains(i, job[i])
    /\ job'[j] = f
    /\ f.status = "started" /\ f.items = {} /\ ~f.completed /\ ~f.failed /\ f.auto = q.auto
    /\ \/ run[c].job = None /\ ~Live(j) /\ f.arrs \subseteq Allowed(q.key)
       \/ /\ run[c].job = j
          /\ f.arrs \subseteq Allowed(q.key) \/ f.arrs = job[j].arrs
          /\ ~f.excused => ~Overlaps(j)

LEMMA GetArrsAllowed ==
  ASSUME NEW k \in Keys
  PROVE  /\ \A as \in GetArrs(Named[k]) : as \subseteq Allowed(k) /\ as \subseteq Arrs
         /\ \A as \in GetArrs({}) : as \subseteq Allowed(k) /\ as \subseteq Arrs
  BY DEF GetArrs, Allowed

LEMMA ResetIs ==
  ASSUME NEW f \in JobType, NEW q \in Requests, NEW g \in Reset(f, q)
  PROVE  /\ g \in JobType /\ g.status = "started" /\ g.items = {} /\ ~g.completed /\ ~g.failed
         /\ g.auto = q.auto /\ g.excused = f.excused
         /\ g.arrs \subseteq Allowed(q.key) \/ g.arrs = f.arrs
  <1>1. q.auto \in BOOLEAN /\ q.key \in Keys
    OBVIOUS
  <1>2. PICK as \in IF q.recurrent THEN GetArrs({}) ELSE {f.arrs} :
          g = [f EXCEPT !.status = "started", !.items = {}, !.completed = FALSE, !.failed = FALSE,
                        !.auto = q.auto, !.arrs = as]
    BY DEF Reset
  <1>3. as \subseteq Arrs /\ (as \subseteq Allowed(q.key) \/ as = f.arrs)
    BY <1>1, <1>2, GetArrsAllowed DEF JobType
  <1> QED
    BY <1>1, <1>2, <1>3 DEF JobType

LEMMA Starting ==
  ASSUME Sound, NEW c \in Runs, StartJob(c)
  PROVE  \E j \in JobIds, f \in JobType : StartsAs(c, j, f)
  <1> DEFINE q == run[c].req
             new == run[c].job = None
             at == IF new THEN CHOOSE f \in JobIds : ~Live(f) ELSE run[c].job
  <1>t. /\ run[c] \in RunType /\ RunHolds(run[c]) /\ run[c].pc = "adding"
        /\ jobs \in [Keys -> JobIds \cup {None}] /\ job \in [JobIds -> JobType \cup {None}]
    BY DEF Sound, Typed, Shape, StartJob
  <1>q. q \in Requests /\ q.key \in Keys /\ q.auto \in BOOLEAN /\ run[c].job \in JobIds \cup {None}
    BY <1>t DEF RunHolds, RunType
  <1>k. at \in JobIds /\ (new => ~Live(at)) /\ (~new => at = run[c].job /\ job[at] \in JobType)
    <2>1. CASE new
      <3>1. \E f \in JobIds : ~Live(f)
        BY <2>1 DEF StartJob
      <3>2. (CHOOSE f \in JobIds : ~Live(f)) \in JobIds /\ ~Live(CHOOSE f \in JobIds : ~Live(f))
        BY <3>1, Zenon
      <3> QED
        BY <2>1, <3>2
    <2>2. CASE ~new
      BY <1>q, <1>t, <2>2 DEF Live, Sound, Shape
    <2> QED
      BY <2>1, <2>2
  <1>p. PICK j \in JobIds : j = at
    BY <1>k
  <1>j. (new => ~Live(j)) /\ (~new => j = run[c].job /\ job[j] \in JobType)
    BY <1>k, <1>p
  <1>1. /\ jobs' = [jobs EXCEPT ![q.key] = j]
        /\ run' = [d \in Runs |->
                     IF d = c THEN [run[c] EXCEPT !.pc = "pre", !.job = j, !.agreed = q.auto]
                     ELSE [run[d] EXCEPT !.agreed = @ \/ (d \in RunsOn(j) /\ q.auto)]]
        /\ UNCHANGED <<proc, lib, loaded>>
    BY <1>p, Zenon DEF StartJob
  <1>2. \E f \in IF new THEN NewJobs(q.key) ELSE {[job[j] EXCEPT !.excused = Overlaps(j)]} :
          \E g \in Reset(f, q) : job' = Collected(Update(j, g))
    BY <1>p, Zenon DEF StartJob
  <1> HIDE DEF at
  <1>3. PICK f \in JobType :
          /\ \E g \in Reset(f, q) : job' = Collected([job EXCEPT ![j] = g])
          /\ new => f.arrs \subseteq Allowed(q.key)
          /\ ~new => f.arrs = job[j].arrs /\ (~f.excused => ~Overlaps(j))
    <2>1. CASE new
      <3>1. PICK f \in NewJobs(q.key) : \E g \in Reset(f, q) : job' = Collected(Update(j, g))
        BY <1>2, <2>1
      <3>2. PICK as \in GetArrs(Named[q.key]) :
              f = [status |-> "started", arrs |-> as, items |-> {}, auto |-> FALSE, completed |-> FALSE,
                   failed |-> FALSE, excused |-> FALSE]
        BY <3>1 DEF NewJobs
      <3>3. f \in JobType /\ f.arrs \subseteq Allowed(q.key)
        BY <1>q, <3>2, GetArrsAllowed DEF JobType
      <3> QED
        BY <2>1, <3>1, <3>3 DEF Update
    <2>2. CASE ~new
      <3> DEFINE f == [job[j] EXCEPT !.excused = Overlaps(j)]
      <3>1. Overlaps(j) \in BOOLEAN
        BY DEF Overlaps
      <3>2. f \in JobType /\ f.arrs = job[j].arrs /\ f.excused = Overlaps(j)
        BY <1>j, <2>2, <3>1 DEF JobType
      <3>3. \E g \in Reset(f, q) : job' = Collected([job EXCEPT ![j] = g])
        BY <1>2, <2>2, Zenon DEF Update
      <3> HIDE DEF f
      <3> QED
        BY <2>2, <3>2, <3>3
    <2> QED
      BY <2>1, <2>2
  <1>4. PICK g \in Reset(f, q) : job' = Collected([job EXCEPT ![j] = g])
    BY <1>3
  <1>5. /\ g \in JobType /\ g.status = "started" /\ g.items = {} /\ ~g.completed /\ ~g.failed
        /\ g.auto = q.auto /\ g.excused = f.excused
        /\ g.arrs \subseteq Allowed(q.key) \/ g.arrs = f.arrs
    BY <1>q, ResetIs
  <1>6. /\ job' \in [JobIds -> JobType \cup {None}]
        /\ \A i \in JobIds : i # j => Remains(i, job[i])
        /\ Remains(j, g)
    BY <1>j, <1>4, <1>5, Collecting
  <1>7. job'[j] = g
    <2>1. jobs'[q.key] = j
      BY <1>1, <1>q, <1>t
    <2>2. Live(j)'
      BY <1>q, <2>1 DEF Live
    <2> QED
      BY <1>6, <2>2 DEF Remains
  <1>8. ASSUME NEW d \in Runs, d # c
        PROVE  /\ run'[d] \in RunType /\ RunHolds(run'[d])
               /\ run'[d].pc = run[d].pc /\ run'[d].req = run[d].req /\ run'[d].job = run[d].job
               /\ run'[d].left = run[d].left /\ run'[d].todo = run[d].todo /\ run'[d].held = run[d].held
               /\ run'[d].found = run[d].found /\ run'[d].err = run[d].err
               /\ run[d].agreed \/ (d \in RunsOn(j) /\ q.auto) => run'[d].agreed
    <2> DEFINE b == run[d].agreed \/ (d \in RunsOn(j) /\ q.auto)
    <2>1. run[d] \in RunType /\ RunHolds(run[d]) /\ b \in BOOLEAN
      BY DEF Sound, Typed, Shape
    <2>2. run'[d] = [run[d] EXCEPT !.agreed = b]
      BY <1>1, <1>8
    <2> HIDE DEF b
    <2>3. /\ run'[d] \in RunType
          /\ run'[d].pc = run[d].pc /\ run'[d].req = run[d].req /\ run'[d].job = run[d].job
          /\ run'[d].left = run[d].left /\ run'[d].todo = run[d].todo /\ run'[d].held = run[d].held
          /\ run'[d].found = run[d].found /\ run'[d].err = run[d].err /\ run'[d].agreed = b
      BY <2>1, <2>2 DEF RunType
    <2>4. RunHolds(run'[d])
      BY <2>1, <2>3 DEF RunHolds
    <2> QED
      BY <2>3, <2>4 DEF b
  <1>9. /\ run'[c] \in RunType /\ RunHolds(run'[c])
        /\ run'[c].pc = "pre" /\ run'[c].job = j /\ run'[c].req = q /\ run'[c].agreed = q.auto
    <2>1. run'[c] = [run[c] EXCEPT !.pc = "pre", !.job = j, !.agreed = q.auto]
      BY <1>1
    <2>2. /\ run'[c] \in RunType
          /\ run'[c].pc = "pre" /\ run'[c].job = j /\ run'[c].req = q /\ run'[c].agreed = q.auto
          /\ run'[c].left = run[c].left /\ run'[c].todo = run[c].todo /\ run'[c].held = run[c].held
          /\ run'[c].found = run[c].found
      BY <1>j, <1>q, <1>t, <2>1 DEF RunType, RunPCs
    <2>3. RunHolds(run'[c])
      BY <1>j, <1>q, <1>t, <2>2 DEF RunHolds
    <2> QED
      BY <2>2, <2>3
  <1>a. run' \in [Runs -> RunType]
    <2> HIDE DEF RunType
    <2>1. \A d \in Runs : run'[d] \in RunType
      BY <1>8, <1>9
    <2> QED
      BY <1>1, <2>1
  <1>b. StartsAs(c, j, g)
    BY <1>1, <1>3, <1>5, <1>6, <1>7, <1>8, <1>9, <1>a, <1>j, <1>q, <1>t DEF StartsAs
  <1> QED
    BY <1>5, <1>b, <1>j

\* The user has a job processed.
TakesUp(p, j) ==
    /\ UNCHANGED <<jobs, job, run, lib, loaded>>
    /\ proc' \in [Procs -> ProcType] /\ ProcHolds(proc'[p])
    /\ \A o \in Procs : o # p => proc'[o] = proc[o]
    /\ job[j] \in JobType /\ Live(j) /\ Processable(j)
    /\ proc'[p].pc = "begun" /\ proc'[p].job = j /\ proc'[p].left = job[j].items

LEMMA ProcFrame ==
  ASSUME Sound, NEW p \in Procs, NEW r \in ProcType, proc' = [proc EXCEPT ![p] = r]
  PROVE  proc' \in [Procs -> ProcType] /\ proc'[p] = r /\ \A o \in Procs : o # p => proc'[o] = proc[o]
  <1> HIDE DEF ProcType
  <1> QED
    BY DEF Sound, Typed

LEMMA Taking ==
  ASSUME Sound, NEW p \in Procs, NEW k \in Keys, ProcessJob(p, k)
  PROVE  \E j \in JobIds : TakesUp(p, j)
  <1>1. PICK j \in JobIds : j = jobs[k] /\ Processable(j)
    BY DEF ProcessJob, Sound, Typed
  <1>2. Live(j) /\ job[j] \in JobType /\ proc[p] \in ProcType /\ proc[p].pc = "idle"
    BY <1>1 DEF Live, Sound, Typed, Shape, ProcessJob
  <1> DEFINE r == [proc[p] EXCEPT !.pc = "begun", !.job = j, !.left = job[j].items]
  <1>3. r \in ProcType /\ r.pc = "begun" /\ r.job = j /\ r.left = job[j].items
    BY <1>1, <1>2 DEF ProcType, ProcPCs, JobType
  <1>4. proc' = [proc EXCEPT ![p] = r] /\ UNCHANGED <<jobs, job, run, lib, loaded>>
    BY <1>1, <1>2 DEF ProcessJob, Sound, Typed
  <1> HIDE DEF r
  <1>5. ProcHolds(r)
    BY <1>3 DEF ProcHolds
  <1>6. TakesUp(p, j)
    BY <1>1, <1>2, <1>3, <1>4, <1>5, ProcFrame DEF TakesUp
  <1> QED
    BY <1>6

\* The steps of the goroutines of ProcessJob: j is their job, f what it becomes.
ProcessesAs(p, j, f) ==
    LET g == job[j] IN
    /\ UNCHANGED <<jobs, run, loaded>>
    /\ LibGoesOn
    /\ proc' \in [Procs -> ProcType] /\ ProcHolds(proc'[p])
    /\ \A o \in Procs : o # p => proc'[o] = proc[o]
    /\ proc[p].job = j /\ g \in JobType
    /\ proc'[p].job = j \/ proc'[p].pc = "done"
    /\ Deleting(proc'[p]) => Deleting(proc[p])
    /\ proc'[p].left \subseteq proc[p].left
    /\ job' \in [JobIds -> JobType \cup {None}]
    /\ \A i \in JobIds : i # j => Remains(i, job[i])
    /\ Remains(j, f)
    /\ f.arrs = g.arrs /\ f.auto = g.auto /\ f.items = g.items
    /\ \/ f = g /\ \A x \in proc[p].left : x \in proc'[p].left \/ (Past(x) => Gone(x)')
       \/ f.excused /\ f.status = g.status
       \/ /\ f.status = "processing" /\ f.excused = g.excused
          /\ Deleting(proc[p]) /\ proc'[p].left = proc[p].left
       \/ /\ f.status = "completed" /\ f.excused = g.excused
          /\ Deleting(proc[p]) /\ proc[p].left = {}

LEMMA Processing ==
  ASSUME Sound, NEW p \in Procs, ProcStep(p)
  PROVE  \E j \in JobIds, f \in JobType : ProcessesAs(p, j, f)
  <1>t. proc[p] \in ProcType /\ ProcHolds(proc[p]) /\ proc[p].pc \in {"begun", "save", "wait", "finalSave"}
    <2>1. proc[p] \in ProcType /\ ProcHolds(proc[p])
      BY DEF Sound, Typed, Shape
    <2>2. (\E a \in Arrs : ItemsOf(p, a) # {}) \/ proc[p].pc \in {"begun", "save", "wait", "finalSave"}
      BY DEF ProcStep, DeleteItems, SkipItems, MarkProcessing, MarkProcessed, ProcSaved
    <2> QED
      BY <2>1, <2>2 DEF ItemsOf, ProcHolds, ProcType, ProcPCs
  <1>p. PICK j \in JobIds : j = proc[p].job
    BY <1>t DEF ProcHolds
  <1> DEFINE g == job[j]
  <1>j. j = proc[p].job /\ g \in JobType /\ job \in [JobIds -> JobType \cup {None}] /\ Live(j)
    BY <1>p, <1>t DEF Sound, Typed, Shape, Live
  <1>u. ASSUME NEW f \in JobType, job' = [job EXCEPT ![j] = f]
        PROVE  /\ job' \in [JobIds -> JobType \cup {None}]
               /\ \A i \in JobIds : i # j => Remains(i, job[i])
               /\ Remains(j, f)
    <2> HIDE DEF JobType
    <2> QED
      BY <1>u, <1>j DEF Remains
  <1>s. job = [job EXCEPT ![j] = g]
    BY <1>j
  <1>1. ASSUME NEW a \in Arrs, DeleteItems(p, a) \/ SkipItems(p, a)
        PROVE  \E f \in JobType : ProcessesAs(p, j, f)
    <2> DEFINE r == [proc[p] EXCEPT !.left = @ \ ItemsOf(p, a)]
    <2>1. /\ r \in ProcType /\ r.pc = proc[p].pc /\ r.job = proc[p].job
          /\ r.left = proc[p].left \ ItemsOf(p, a)
      BY <1>t DEF ProcType
    <2>2. ItemsOf(p, a) \subseteq proc[p].left /\ ItemsOf(p, a) \in SUBSET Items
      BY <1>t DEF ItemsOf, ProcType
    <2>3. proc' = [proc EXCEPT ![p] = r] /\ UNCHANGED <<jobs, run, loaded>>
      BY <1>1 DEF DeleteItems, SkipItems
    <2> HIDE DEF r
    <2>4. ProcHolds(r)
      BY <1>t, <2>1 DEF ProcHolds
    <2>5. CASE DeleteItems(p, a)
      <3>1. UNCHANGED job /\ LibGoesOn /\ \A x \in ItemsOf(p, a) : Past(x) => Gone(x)'
        BY <2>2, <2>5, LibDeleted DEF DeleteItems
      <3>2. job' = [job EXCEPT ![j] = g]
        BY <1>s, <3>1
      <3>3. ProcessesAs(p, j, g)
        BY <1>j, <1>u, <2>1, <2>2, <2>3, <2>4, <3>1, <3>2, ProcFrame DEF ProcessesAs, Deleting
      <3> QED
        BY <1>j, <3>3
    <2>6. CASE SkipItems(p, a)
      <3> DEFINE f == [g EXCEPT !.excused = TRUE]
      <3>1. /\ f \in JobType /\ f.excused = TRUE /\ f.status = g.status /\ f.items = g.items
            /\ f.arrs = g.arrs /\ f.auto = g.auto
        BY <1>j DEF JobType
      <3>2. job' = [job EXCEPT ![j] = f] /\ UNCHANGED lib
        BY <1>j, <2>6 DEF SkipItems, Update
      <3> HIDE DEF f
      <3>3. ProcessesAs(p, j, f)
        BY <1>j, <1>u, <2>1, <2>2, <2>3, <2>4, <3>1, <3>2, ProcFrame, SameLib DEF ProcessesAs, Deleting
      <3> QED
        BY <3>1, <3>3
    <2> QED
      BY <1>1, <2>5, <2>6
  <1>2. CASE MarkProcessing(p)
    <2> DEFINE r == [proc[p] EXCEPT !.pc = "save"]
               f == [g EXCEPT !.status = "processing"]
    <2>1. r \in ProcType /\ r.pc = "save" /\ r.job = proc[p].job /\ r.left = proc[p].left
      BY <1>t DEF ProcType, ProcPCs
    <2>2. /\ f \in JobType /\ f.status = "processing" /\ f.excused = g.excused /\ f.items = g.items
          /\ f.arrs = g.arrs /\ f.auto = g.auto
      BY <1>j DEF JobType
    <2>3. /\ proc' = [proc EXCEPT ![p] = r] /\ job' = [job EXCEPT ![j] = f] /\ proc[p].pc = "begun"
          /\ UNCHANGED <<jobs, run, lib, loaded>>
      BY <1>2, <1>j DEF MarkProcessing, Update
    <2> HIDE DEF r, f
    <2>4. ProcHolds(r)
      BY <1>t, <2>1, <2>3 DEF ProcHolds
    <2>5. ProcessesAs(p, j, f)
      BY <1>j, <1>u, <2>1, <2>2, <2>3, <2>4, ProcFrame, SameLib DEF ProcessesAs, Deleting
    <2> QED
      BY <2>2, <2>5
  <1>3. CASE MarkProcessed(p)
    <2> DEFINE r == [proc[p] EXCEPT !.pc = "finalSave"]
    <2>1. r \in ProcType /\ r.pc = "finalSave" /\ r.job = proc[p].job /\ r.left = proc[p].left
      BY <1>t DEF ProcType, ProcPCs
    <2>2. /\ Completed(g) \in JobType /\ Completed(g).status = "completed"
          /\ Completed(g).excused = g.excused /\ Completed(g).items = g.items
          /\ Completed(g).arrs = g.arrs /\ Completed(g).auto = g.auto
      BY <1>j DEF Completed, JobType
    <2>3. /\ proc' = [proc EXCEPT ![p] = r] /\ job' = [job EXCEPT ![j] = Completed(g)]
          /\ proc[p].pc = "wait" /\ proc[p].left = {} /\ UNCHANGED <<jobs, run, lib, loaded>>
      BY <1>3, <1>j DEF MarkProcessed, Update
    <2> HIDE DEF r
    <2>4. ProcHolds(r)
      BY <1>t, <2>1, <2>3 DEF ProcHolds
    <2>5. ProcessesAs(p, j, Completed(g))
      BY <1>j, <1>u, <2>1, <2>2, <2>3, <2>4, ProcFrame, SameLib DEF ProcessesAs, Deleting
    <2> QED
      BY <2>2, <2>5
  <1>4. CASE ProcSaved(p)
    <2> DEFINE r == IF proc[p].pc = "save" THEN [proc[p] EXCEPT !.pc = "wait"] ELSE DoneProc
    <2>1. /\ r \in ProcType /\ ProcHolds(r)
          /\ proc[p].pc = "save" => r.pc = "wait" /\ r.job = proc[p].job /\ r.left = proc[p].left
          /\ proc[p].pc # "save" => r.pc = "done" /\ r.left = {}
      BY <1>t DEF ProcType, ProcPCs, ProcHolds, DoneProc, IdleProc
    <2>2. /\ proc' = [proc EXCEPT ![p] = r] /\ job' = Collected([job EXCEPT ![j] = g])
          /\ proc[p].pc \in {"save", "finalSave"} /\ UNCHANGED <<jobs, run, lib, loaded>>
      BY <1>4, <1>s DEF ProcSaved
    <2> HIDE DEF r
    <2>3. proc[p].pc # "save" => proc[p].left = {}
      BY <1>t, <2>2 DEF ProcHolds
    <2>4. ProcessesAs(p, j, g)
      BY <1>j, <2>1, <2>2, <2>3, ProcFrame, SameLib, Collecting DEF ProcessesAs, Deleting
    <2> QED
      BY <1>j, <2>4
  <1> QED
    BY <1>1, <1>2, <1>3, <1>4 DEF ProcStep

\* What is left: a job is deleted, or the library or the cache changes.
ElseGoesOn ==
    /\ UNCHANGED <<run, proc>> /\ LibGoesOn /\ loaded' \in BOOLEAN
    /\ \A k \in Keys : jobs'[k] \in {jobs[k], None}
    /\ jobs' \in [Keys -> JobIds \cup {None}]
    /\ job' \in [JobIds -> JobType \cup {None}]
    /\ \A i \in JobIds : Remains(i, job[i])

LEMMA Else ==
  ASSUME Sound, (\E k \in Keys : DeleteJob(k)) \/ World
  PROVE  ElseGoesOn
  <1> USE DEF Sound
  <1>1. CASE World
    <2>1. UNCHANGED <<jobs, job, run, proc>> /\ loaded' \in BOOLEAN
      BY <1>1 DEF World, Break, Import, CacheLoads, Typed
    <2>2. LibGoesOn
      BY <1>1, SameLib, LibChanges DEF World, CacheLoads
    <2> QED
      BY <2>1, <2>2 DEF ElseGoesOn, Remains, Typed
  <1>2. ASSUME NEW k \in Keys, DeleteJob(k) PROVE ElseGoesOn
    <2>1. PICK j \in JobIds : j = jobs[k]
      BY <1>2 DEF DeleteJob, Typed
    <2>2. job[j] \in JobType
      BY <2>1 DEF Typed, Shape, Live
    <2>3. PICK f \in JobType : f = job[j]
      BY <2>2
    <2>4. job' = Collected([job EXCEPT ![j] = f])
      <3>1. job = [job EXCEPT ![j] = f]
        BY <2>3 DEF Typed
      <3> QED
        BY <1>2, <3>1 DEF DeleteJob
    <2>5. /\ job' \in [JobIds -> JobType \cup {None}]
          /\ \A i \in JobIds : Remains(i, job[i])
      BY <2>3, <2>4, Collecting
    <2>6. /\ jobs' \in [Keys -> JobIds \cup {None}] /\ \A l \in Keys : jobs'[l] \in {jobs[l], None}
          /\ UNCHANGED <<run, proc, lib, loaded>>
      BY <1>2 DEF DeleteJob, Typed
    <2> QED
      BY <2>5, <2>6, SameLib DEF ElseGoesOn, Typed
  <1> QED
    BY <1>1, <1>2

Moves ==
    \/ \E c \in Runs : \/ ScanGoesOn(c) \/ \E f \in JobType : SettlesAs(c, f)
                       \/ \E j \in JobIds, f \in JobType : EndsAs(c, j, f) \/ StartsAs(c, j, f)
                       \/ \E q \in Requests : ChecksAs(c, q)
    \/ \E p \in Procs : \E j \in JobIds : TakesUp(p, j) \/ \E f \in JobType : ProcessesAs(p, j, f)
    \/ ElseGoesOn

LEMMA NextMoves == Sound /\ Next => Moves
  <1> SUFFICES ASSUME Sound, Next PROVE Moves
    OBVIOUS
  <1>1. ASSUME NEW c \in Runs, RunStep(c) PROVE Moves
    BY <1>1, Scans, Settling, Ending, Starting DEF RunStep, Moves
  <1>2. ASSUME NEW p \in Procs, ProcStep(p) PROVE Moves
    BY <1>2, Processing DEF Moves
  <1>3. CASE Call \/ World
    BY <1>3, Checking, Taking, Else DEF Call, Moves
  <1> QED
    BY <1>1, <1>2, <1>3 DEF Next

LEMMA SoundInit == Init => Sound
  <1> SUFFICES ASSUME Init PROVE Sound
    OBVIOUS
  <1>1. IdleRun \in RunType /\ RunHolds(IdleRun) /\ IdleRun.job = None
    BY DEF IdleRun, RunType, RunPCs, RunHolds
  <1>2. IdleProc \in ProcType /\ ProcHolds(IdleProc) /\ IdleProc.job = None
    BY DEF IdleProc, ProcType, ProcPCs, ProcHolds
  <1>3. \A b \in BOOLEAN : [ver |-> 1, there |-> TRUE, bad |-> b] \in LibType
    BY DEF LibType
  <1> HIDE DEF RunType, ProcType, LibType, IdleRun, IdleProc
  <1>4. lib \in [Media -> LibType]
    BY <1>3 DEF Init, InitialLibrary
  <1>5. loaded \in BOOLEAN
    BY DEF Init
  <1>6. Typed
    BY <1>1, <1>2, <1>4, <1>5 DEF Init, Typed
  <1>7. Shape
    BY <1>1, <1>2 DEF Init, Shape, Live
  <1> QED
    BY <1>6, <1>7 DEF Sound

LEMMA SoundStep == Sound /\ [Next]_vars => Sound'
  <1> SUFFICES ASSUME Sound, [Next]_vars PROVE Sound'
    OBVIOUS
  <1> USE DEF Sound
  <1>0. CASE UNCHANGED vars
    BY <1>0 DEF vars, Typed, Shape, Live
  <1>1. ASSUME NEW c \in Runs, ScanGoesOn(c) PROVE Sound'
    BY <1>1 DEF ScanGoesOn, LibGoesOn, Typed, Shape, Live
  <1>2. ASSUME NEW c \in Runs, NEW f \in JobType, SettlesAs(c, f) PROVE Sound'
    <2>1. Typed'
      BY <1>2 DEF SettlesAs, Typed
    <2>2. Shape'
      BY <1>2 DEF SettlesAs, Typed, Shape, Live
    <2> QED
      BY <2>1, <2>2
  <1>3. ASSUME NEW c \in Runs, NEW j \in JobIds, NEW f \in JobType, EndsAs(c, j, f) PROVE Sound'
    <2>1. Typed'
      BY <1>3 DEF EndsAs, Typed
    <2>2. \A d \in Runs : run'[d].job \in {run[d].job, None}
      BY <1>3 DEF EndsAs, RunHolds
    <2>3. \A i \in JobIds : Live(i)' => Live(i) /\ job'[i] # None
      <3>1. \A i \in JobIds : Live(i)' => Live(i)
        BY <1>3, <2>2 DEF EndsAs, Live
      <3> QED
        BY <1>3, <3>1 DEF EndsAs, Remains, Shape
    <2> QED
      BY <1>3, <2>1, <2>3 DEF EndsAs, Shape
  <1>4. ASSUME NEW c \in Runs, NEW j \in JobIds, NEW f \in JobType, StartsAs(c, j, f) PROVE Sound'
    <2>1. Typed'
      BY <1>4 DEF StartsAs, Typed
    <2>2. \A i \in JobIds : Live(i)' => i = j \/ Live(i)
      BY <1>4 DEF StartsAs, Live, Typed
    <2>3. \A i \in JobIds : Live(i)' => job'[i] # None
      BY <1>4, <2>2 DEF StartsAs, Remains, Shape
    <2> QED
      BY <1>4, <2>1, <2>3 DEF StartsAs, Shape
  <1>5. ASSUME NEW c \in Runs, NEW q \in Requests, ChecksAs(c, q) PROVE Sound'
    <2>1. Typed'
      BY <1>5 DEF ChecksAs, Typed
    <2>2. \A i \in JobIds : Live(i)' => Live(i)
      BY <1>5 DEF ChecksAs, Live
    <2> QED
      BY <1>5, <2>1, <2>2 DEF ChecksAs, Shape
  <1>6. ASSUME NEW p \in Procs, NEW j \in JobIds, TakesUp(p, j) PROVE Sound'
    <2>1. Typed'
      BY <1>6 DEF TakesUp, Typed
    <2>2. \A i \in JobIds : Live(i)' => Live(i)
      BY <1>6 DEF TakesUp, Live
    <2> QED
      BY <1>6, <2>1, <2>2 DEF TakesUp, Shape
  <1>7. ASSUME NEW p \in Procs, NEW j \in JobIds, NEW f \in JobType, ProcessesAs(p, j, f) PROVE Sound'
    <2>1. Typed'
      BY <1>7 DEF ProcessesAs, LibGoesOn, Typed
    <2>2. \A o \in Procs : proc'[o].job \in {proc[o].job, None}
      BY <1>7 DEF ProcessesAs, ProcHolds
    <2>3. \A i \in JobIds : Live(i)' => Live(i)
      BY <1>7, <2>2 DEF ProcessesAs, Live
    <2>4. \A i \in JobIds : Live(i)' => job'[i] # None
      BY <1>7, <2>3 DEF ProcessesAs, Remains, Shape
    <2> QED
      BY <1>7, <2>1, <2>4 DEF ProcessesAs, Shape
  <1>8. CASE ElseGoesOn
    <2>1. Typed'
      BY <1>8 DEF ElseGoesOn, LibGoesOn, Typed
    <2>2. \A i \in JobIds : Live(i)' => Live(i)
      BY <1>8 DEF ElseGoesOn, Live
    <2> QED
      BY <1>8, <2>1, <2>2 DEF ElseGoesOn, Remains, Shape
  <1> QED
    BY <1>0, <1>1, <1>2, <1>3, <1>4, <1>5, <1>6, <1>7, <1>8, NextMoves DEF Moves

\* Repair.Jobs, the jobs and all goroutines keep their types; in particular
\* nobody uses a job that is none.
THEOREM TypeCorrect == Spec => []TypeOK
  <1>1. Sound => TypeOK
    <2> SUFFICES ASSUME Sound PROVE TypeOK
      OBVIOUS
    <2> USE DEF Sound, Typed
    <2>1. \A k \in Keys : jobs[k] # None => job[jobs[k]] # None
      BY DEF Shape, Live
    <2>2. \A c \in Runs :
            /\ run[c].pc \in RunPCs /\ run[c].left \subseteq Arrs
            /\ run[c].todo \cup run[c].held \cup run[c].found \subseteq Items
            /\ Active(c) => job[run[c].job] # None
      <3> SUFFICES ASSUME NEW c \in Runs
                   PROVE  /\ run[c].pc \in RunPCs /\ run[c].left \subseteq Arrs
                          /\ run[c].todo \cup run[c].held \cup run[c].found \subseteq Items
                          /\ Active(c) => job[run[c].job] # None
        OBVIOUS
      <3>1. run[c] \in RunType /\ RunHolds(run[c])
        BY DEF Shape
      <3>2. Active(c) => run[c].job \in JobIds
        BY <3>1 DEF Active, RunHolds, RunType, RunPCs
      <3>3. Active(c) => job[run[c].job] # None
        BY <3>2 DEF Shape, Live
      <3> QED
        BY <3>1, <3>3 DEF RunType
    <2>3. \A p \in Procs :
            /\ proc[p].pc \in ProcPCs /\ proc[p].left \subseteq Items
            /\ proc[p].job # None => job[proc[p].job] # None
      BY DEF Shape, Live, ProcType
    <2> QED
      BY <2>1, <2>2, <2>3 DEF TypeOK, LibType
  <1> QED
    BY <1>1, SoundInit, SoundStep, PTL DEF Spec

LEMMA AgreementInit == Init => Agreement
  BY DEF Init, Agreement, OneKey, OwnArrs, Asked, IdleRun, Active

\* Whoever has a job after a step that starts none had it before, and the job
\* is as it was, but for what it found.
AgreementFrame ==
    /\ \A k \in Keys : jobs'[k] \in {jobs[k], None}
    /\ \A c \in Runs : /\ run'[c].job # None => run'[c].job = run[c].job /\ run'[c].req = run[c].req
                       /\ Active(c)' => Active(c) /\ run'[c].job = run[c].job /\ run'[c].agreed = run[c].agreed
    /\ \A i \in JobIds : Live(i)' =>
         Live(i) /\ job'[i].arrs = job[i].arrs /\ job'[i].auto = job[i].auto

LEMMA AgreementKept ==
  ASSUME Sound, Sound', Agreement, AgreementFrame,
         \A c \in Runs : run'[c].pc = "scan" =>
           /\ run'[c].left \subseteq Allowed(run'[c].req.key)
           /\ \A x \in run'[c].todo \cup run'[c].held : ArrOf[x[1]] \in Allowed(run'[c].req.key)
  PROVE  Agreement'
  <1> USE DEF Sound, Agreement, AgreementFrame
  <1>1. OneKey'
    BY DEF OneKey
  <1>2. \A k \in Keys : jobs'[k] # None => job'[jobs'[k]].arrs \subseteq Allowed(k)
    <2> SUFFICES ASSUME NEW k \in Keys, jobs'[k] # None PROVE job'[jobs'[k]].arrs \subseteq Allowed(k)
      OBVIOUS
    <2>1. PICK i \in JobIds : i = jobs'[k] /\ jobs[k] = i
      BY DEF Typed
    <2>2. Live(i)'
      BY <2>1 DEF Live
    <2>3. job'[i].arrs = job[i].arrs
      BY <2>2
    <2>4. job[i].arrs \subseteq Allowed(k)
      BY <2>1 DEF OwnArrs
    <2> QED
      BY <2>1, <2>3, <2>4
  <1>3. \A c \in Runs : run'[c].job # None => job'[run'[c].job].arrs \subseteq Allowed(run'[c].req.key)
    <2> SUFFICES ASSUME NEW c \in Runs, run'[c].job # None
                 PROVE  job'[run'[c].job].arrs \subseteq Allowed(run'[c].req.key)
      OBVIOUS
    <2>1. PICK i \in JobIds : i = run'[c].job /\ run[c].job = i
      BY DEF Typed, RunType
    <2>2. Live(i)'
      BY <2>1 DEF Live
    <2>3. job'[i].arrs = job[i].arrs
      BY <2>2
    <2>4. run'[c].req = run[c].req
      OBVIOUS
    <2>5. job[i].arrs \subseteq Allowed(run[c].req.key)
      BY <2>1 DEF OwnArrs
    <2> QED
      BY <2>1, <2>3, <2>4, <2>5
  <1>4. Asked'
    <2> SUFFICES ASSUME NEW c \in Runs, Active(c)', job'[run'[c].job].auto PROVE run'[c].agreed
      BY DEF Asked
    <2>1. run'[c].job \in JobIds
      <3>1. run'[c] \in RunType /\ RunHolds(run'[c])
        BY DEF Typed, Shape
      <3> QED
        BY <3>1 DEF Active, RunHolds, RunType, RunPCs
    <2>2. PICK i \in JobIds : i = run'[c].job /\ run[c].job = i
      BY <2>1
    <2>3. Live(i)'
      BY <2>2 DEF Live
    <2> QED
      BY <2>2, <2>3 DEF Asked
  <1> QED
    BY <1>1, <1>2, <1>3, <1>4 DEF OwnArrs

LEMMA AgreementStep == Sound /\ Sound' /\ Agreement /\ [Next]_vars => Agreement'
  <1> SUFFICES ASSUME Sound, Sound', Agreement, [Next]_vars PROVE Agreement'
    OBVIOUS
  <1> USE DEF Sound, Agreement
  <1>0. CASE UNCHANGED vars
    BY <1>0 DEF vars, OneKey, OwnArrs, Asked, Active
  <1>h. ASSUME NEW c \in Runs, run[c].pc = "scan"
        PROVE  /\ run[c].left \subseteq Allowed(run[c].req.key)
               /\ \A x \in run[c].todo \cup run[c].held : ArrOf[x[1]] \in Allowed(run[c].req.key)
    BY <1>h DEF OwnArrs
  <1>1. ASSUME NEW c \in Runs, ScanGoesOn(c) PROVE Agreement'
    <2>1. AgreementFrame
      BY <1>1 DEF AgreementFrame, ScanGoesOn, Active, Scanning, Live
    <2>2. run[c].job # None
      BY <1>1 DEF ScanGoesOn, Shape, RunHolds, Scanning
    <2>3. /\ run'[c].left \subseteq Allowed(run[c].req.key)
          /\ \A x \in run'[c].todo \cup run'[c].held : ArrOf[x[1]] \in Allowed(run[c].req.key)
      <3>1. CASE run[c].pc = "scan"
        BY <1>1, <1>h, <2>2, <3>1 DEF ScanGoesOn, OwnArrs
      <3>2. CASE run[c].pc # "scan"
        BY <1>1, <2>2, <3>2 DEF ScanGoesOn, OwnArrs, Shape, RunHolds
      <3> QED
        BY <3>1, <3>2
    <2> QED
      BY <1>1, <1>h, <2>1, <2>3, AgreementKept DEF ScanGoesOn
  <1>2. ASSUME NEW c \in Runs, NEW f \in JobType, SettlesAs(c, f) PROVE Agreement'
    <2>1. AgreementFrame
      <3>1. \A i \in JobIds : job'[i].arrs = job[i].arrs /\ job'[i].auto = job[i].auto
        BY <1>2 DEF SettlesAs, Typed
      <3>2. \A i \in JobIds : Live(i)' => Live(i)
        BY <1>2 DEF SettlesAs, Live
      <3> QED
        BY <1>2, <3>1, <3>2 DEF AgreementFrame, SettlesAs, Active
    <2> QED
      BY <1>2, <1>h, <2>1, AgreementKept DEF SettlesAs
  <1>3. ASSUME NEW c \in Runs, NEW j \in JobIds, NEW f \in JobType, EndsAs(c, j, f) PROVE Agreement'
    <2>1. AgreementFrame
      <3>1. \A d \in Runs : run'[d].job # None => run'[d] = run[d] \/ (d = c /\ run'[c].pc = "late")
        BY <1>3 DEF EndsAs, RunHolds
      <3>2. \A i \in JobIds : Live(i)' => Live(i)
        BY <1>3, <3>1 DEF EndsAs, Live
      <3>3. \A i \in JobIds : Live(i)' => job'[i].arrs = job[i].arrs /\ job'[i].auto = job[i].auto
        BY <1>3 DEF EndsAs, Remains
      <3> QED
        BY <1>3, <3>1, <3>2, <3>3 DEF AgreementFrame, EndsAs, Active
    <2> QED
      BY <1>3, <1>h, <2>1, AgreementKept DEF EndsAs
  <1>4. ASSUME NEW c \in Runs, NEW j \in JobIds, NEW f \in JobType, StartsAs(c, j, f) PROVE Agreement'
    <2> DEFINE q == run[c].req
    <2>0. PICK key \in Keys : key = q.key
      BY <1>4 DEF StartsAs
    <2>1. /\ \A d \in Runs : d # c /\ run[d].job = j => run[d].req.key = key
          /\ \A k \in Keys : jobs[k] = j => k = key
      <3>1. CASE run[c].job = None /\ ~Live(j)
        BY <3>1 DEF Live
      <3>2. CASE run[c].job = j
        BY <2>0, <3>2 DEF OneKey
      <3> QED
        BY <1>4, <3>1, <3>2 DEF StartsAs
    <2>2. /\ \A k \in Keys : jobs'[k] = IF k = key THEN j ELSE jobs[k]
          /\ run'[c].job = j /\ run'[c].req.key = key
          /\ \A d \in Runs : d # c => run'[d].job = run[d].job /\ run'[d].req = run[d].req
      BY <1>4, <2>0 DEF StartsAs, Typed
    <2>3. OneKey'
      BY <2>1, <2>2 DEF OneKey
    <2>4. f.arrs \subseteq Allowed(key)
      BY <1>4, <2>0 DEF StartsAs, OwnArrs
    <2>5. \A i \in JobIds : Live(i)' => job'[i] = IF i = j THEN f ELSE job[i]
      BY <1>4 DEF StartsAs, Remains
    <2>6. \A k \in Keys : jobs'[k] # None => job'[jobs'[k]].arrs \subseteq Allowed(k)
      <3> SUFFICES ASSUME NEW k \in Keys, jobs'[k] # None PROVE job'[jobs'[k]].arrs \subseteq Allowed(k)
        OBVIOUS
      <3>1. PICK i \in JobIds : i = jobs'[k]
        BY DEF Typed
      <3>2. Live(i)'
        BY <3>1 DEF Live
      <3>3. CASE i = j
        BY <2>1, <2>2, <2>4, <2>5, <3>1, <3>2, <3>3
      <3>4. CASE i # j
        BY <2>2, <2>5, <3>1, <3>2, <3>4 DEF OwnArrs
      <3> QED
        BY <3>3, <3>4
    <2>7. \A d \in Runs : run'[d].job # None => job'[run'[d].job].arrs \subseteq Allowed(run'[d].req.key)
      <3> SUFFICES ASSUME NEW d \in Runs, run'[d].job # None
                   PROVE  job'[run'[d].job].arrs \subseteq Allowed(run'[d].req.key)
        OBVIOUS
      <3>1. PICK i \in JobIds : i = run'[d].job
        BY DEF Typed, RunType
      <3>2. Live(i)'
        BY <3>1 DEF Live
      <3>3. CASE i = j
        BY <2>1, <2>2, <2>4, <2>5, <3>1, <3>2, <3>3
      <3>4. CASE i # j
        BY <2>2, <2>5, <3>1, <3>2, <3>4 DEF OwnArrs
      <3> QED
        BY <3>3, <3>4
    <2>8. \A d \in Runs : run'[d].pc = "scan" =>
            /\ run'[d].left \subseteq Allowed(run'[d].req.key)
            /\ \A x \in run'[d].todo \cup run'[d].held : ArrOf[x[1]] \in Allowed(run'[d].req.key)
      BY <1>4, <1>h DEF StartsAs
    <2>9. Asked'
      <3> SUFFICES ASSUME NEW d \in Runs, Active(d)', job'[run'[d].job].auto PROVE run'[d].agreed
        BY DEF Asked
      <3>1. run'[d].job \in JobIds
        <4>1. run'[d] \in RunType /\ RunHolds(run'[d])
          BY DEF Typed, Shape
        <4> QED
          BY <4>1 DEF Active, RunHolds, RunType, RunPCs
      <3>2. PICK i \in JobIds : i = run'[d].job
        BY <3>1
      <3>3. Live(i)'
        BY <3>2 DEF Live
      <3>4. CASE d = c
        BY <1>4, <2>5, <3>2, <3>3, <3>4 DEF StartsAs
      <3>5. CASE d # c
        <4>1. Active(d) /\ run[d].job = i
          BY <1>4, <3>2, <3>5 DEF StartsAs, Active
        <4>2. CASE i = j
          <5>1. d \in RunsOn(j)
            BY <4>1, <4>2 DEF RunsOn
          <5>2. q.auto
            BY <1>4, <3>2, <4>2 DEF StartsAs
          <5> QED
            BY <1>4, <3>5, <5>1, <5>2 DEF StartsAs
        <4>3. CASE i # j
          <5>1. job'[i] = job[i]
            BY <2>5, <3>3, <4>3
          <5>2. run[d].agreed
            BY <3>2, <4>1, <5>1 DEF Asked
          <5> QED
            BY <1>4, <3>5, <5>2 DEF StartsAs
        <4> QED
          BY <4>2, <4>3
      <3> QED
        BY <3>4, <3>5
    <2> QED
      BY <2>3, <2>6, <2>7, <2>8, <2>9 DEF OwnArrs
  <1>5. ASSUME NEW c \in Runs, NEW q \in Requests, ChecksAs(c, q) PROVE Agreement'
    <2>1. OneKey'
      BY <1>5 DEF ChecksAs, OneKey
    <2>2. OwnArrs'
      <3>1. /\ UNCHANGED <<jobs, job>>
            /\ \A d \in Runs : d # c => run'[d] = run[d]
            /\ run'[c].req.key = q.key /\ q.key \in Keys /\ run'[c].job = jobs[q.key]
            /\ run'[c].pc = "adding"
        BY <1>5 DEF ChecksAs
      <3>2. ASSUME NEW d \in Runs, run'[d].job # None
            PROVE  job'[run'[d].job].arrs \subseteq Allowed(run'[d].req.key)
        <4>1. CASE d = c
          BY <3>1, <3>2, <4>1 DEF OwnArrs
        <4>2. CASE d # c
          BY <3>1, <3>2, <4>2 DEF OwnArrs
        <4> QED
          BY <4>1, <4>2
      <3>3. ASSUME NEW d \in Runs, run'[d].pc = "scan" PROVE d # c /\ run'[d] = run[d]
        BY <3>1, <3>3
      <3> QED
        BY <3>1, <3>2, <3>3 DEF OwnArrs
    <2>3. Asked'
      BY <1>5 DEF ChecksAs, Asked, Active
    <2> QED
      BY <2>1, <2>2, <2>3
  <1>6. ASSUME NEW p \in Procs, NEW j \in JobIds, TakesUp(p, j) PROVE Agreement'
    BY <1>6 DEF TakesUp, OneKey, OwnArrs, Asked, Active
  <1>7. ASSUME NEW p \in Procs, NEW j \in JobIds, NEW f \in JobType, ProcessesAs(p, j, f) PROVE Agreement'
    <2>1. AgreementFrame
      <3>1. \A o \in Procs : proc'[o].job \in {proc[o].job, None}
        BY <1>7 DEF ProcessesAs, ProcHolds
      <3>2. \A i \in JobIds : Live(i)' => Live(i)
        BY <1>7, <3>1 DEF ProcessesAs, Live
      <3>3. \A i \in JobIds : Live(i)' => job'[i].arrs = job[i].arrs /\ job'[i].auto = job[i].auto
        BY <1>7 DEF ProcessesAs, Remains
      <3> QED
        BY <1>7, <3>2, <3>3 DEF AgreementFrame, ProcessesAs, Active
    <2> QED
      BY <1>7, <1>h, <2>1, AgreementKept DEF ProcessesAs
  <1>8. CASE ElseGoesOn
    <2>1. AgreementFrame
      BY <1>8 DEF AgreementFrame, ElseGoesOn, Live, Remains, Active
    <2> QED
      BY <1>8, <1>h, <2>1, AgreementKept DEF ElseGoesOn
  <1> QED
    BY <1>0, <1>1, <1>2, <1>3, <1>4, <1>5, <1>6, <1>7, <1>8, NextMoves DEF Moves

\* The two ways to delete a file.
LEMMA WhoDeletes ==
  ASSUME Sound, Next, NEW n \in Media, lib[n].there, ~lib'[n].there
  PROVE  \/ \E c \in Runs, t \in Contents :
               /\ HandleBroken(c, t) /\ job[run[c].job].auto
               /\ \E x \in HeldOf(c, t) : x[1] = n
         \/ \E p \in Procs, a \in Arrs : \E x \in ItemsOf(p, a) : x[1] = n
  <1> USE DEF Sound
  <1>d. ASSUME NEW xs, DeleteFiles(xs) PROVE \E x \in xs : x[1] = n
    BY <1>d DEF DeleteFiles
  <1>0. lib' # lib
    OBVIOUS
  <1>1. ASSUME NEW c \in Runs, RunStep(c)
        PROVE  \E t \in Contents : /\ HandleBroken(c, t) /\ job[run[c].job].auto
                                   /\ \E x \in HeldOf(c, t) : x[1] = n
    <2>1. \/ \E t \in Contents, p \in Folders : FoundHealed(c, t, p)
          \/ \E t \in Contents : HandleBroken(c, t)
      BY <1>0, <1>1 DEF RunStep, Scan, List, Judge, Settle, StartJob, PreRunChecks, PreRunFails, ListMedia,
         SkipArr, ListFails, PassOver, FoundBroken, FoundWell, ScanFailed, NothingFound, FoundSome, Saved,
         MarkFailed
    <2>2. ASSUME NEW t \in Contents, NEW p \in Folders, FoundHealed(c, t, p) PROVE FALSE
      BY <2>2, LibHealed DEF FoundHealed
    <2>3. ASSUME NEW t \in Contents, HandleBroken(c, t)
          PROVE  job[run[c].job].auto /\ \E x \in HeldOf(c, t) : x[1] = n
      <3>1. job[run[c].job].auto /\ DeleteFiles(HeldOf(c, t))
        BY <1>0, <2>3 DEF HandleBroken
      <3> QED
        BY <1>d, <3>1
    <2> QED
      BY <2>1, <2>2, <2>3
  <1>2. ASSUME NEW p \in Procs, ProcStep(p)
        PROVE  \E a \in Arrs : \E x \in ItemsOf(p, a) : x[1] = n
    <2>1. PICK a \in Arrs : DeleteItems(p, a)
      BY <1>0, <1>2 DEF ProcStep, SkipItems, MarkProcessing, MarkProcessed, ProcSaved
    <2> QED
      BY <1>d, <2>1 DEF DeleteItems
  <1>3. CASE Call
    BY <1>0, <1>3 DEF Call, CheckJob, ProcessJob, DeleteJob
  <1>4. CASE World
    <2>1. ASSUME NEW m \in Media, Break(m) PROVE FALSE
      <3>1. lib[m] \in LibType
        BY DEF Typed
      <3> QED
        BY <2>1, <3>1 DEF Break, Typed, LibType
    <2>2. ASSUME NEW m \in Media, Import(m) PROVE FALSE
      BY <2>2 DEF Import, Typed
    <2> QED
      BY <1>0, <1>4, <2>1, <2>2 DEF World, CacheLoads
  <1> QED
    BY <1>1, <1>2, <1>3, <1>4 DEF Next

\* Nothing is deleted that nobody agreed to: the auto-processing was asked for,
\* the Arr is not one to skip, or the user had the job processed.
THEOREM DeletionsAreAgreed == Spec => DeletesAgreed
  <1> DEFINE Agreed ==
        \A n \in Media :
         lib[n].there /\ ~lib'[n].there =>
            \/ \E c \in Runs :
                 /\ \E x \in run[c].held : x[1] = n
                 /\ run[c].agreed
                 /\ ArrOf[n] \notin Skipped \/ ArrOf[n] \in Named[run[c].req.key]
            \/ \E p \in Procs : \E x \in proc[p].left : x[1] = n
  <1>1. Sound /\ Agreement /\ [Next]_vars => [Agreed]_vars
    <2> SUFFICES ASSUME Sound, Agreement, Next, NEW n \in Media, lib[n].there, ~lib'[n].there
                 PROVE  \/ \E c \in Runs :
                             /\ \E x \in run[c].held : x[1] = n
                             /\ run[c].agreed
                             /\ ArrOf[n] \notin Skipped \/ ArrOf[n] \in Named[run[c].req.key]
                        \/ \E p \in Procs : \E x \in proc[p].left : x[1] = n
      OBVIOUS
    <2>1. CASE \E p \in Procs, a \in Arrs : \E x \in ItemsOf(p, a) : x[1] = n
      BY <2>1 DEF ItemsOf
    <2>2. ASSUME NEW c \in Runs, NEW t \in Contents, HandleBroken(c, t), job[run[c].job].auto,
                 NEW x \in HeldOf(c, t), x[1] = n
          PROVE  /\ x \in run[c].held /\ run[c].agreed
                 /\ ArrOf[n] \notin Skipped \/ ArrOf[n] \in Named[run[c].req.key]
      <3>1. x \in run[c].held /\ run[c].pc = "scan"
        BY <2>2 DEF HandleBroken, HeldOf
      <3>2. run[c].agreed
        BY <2>2, <3>1 DEF Agreement, Asked, Active
      <3>3. ArrOf[n] \in Allowed(run[c].req.key)
        BY <2>2, <3>1 DEF Agreement, OwnArrs
      <3> QED
        BY <3>1, <3>2, <3>3 DEF Allowed
    <2> QED
      BY <2>1, <2>2, WhoDeletes
  <1> QED
    BY <1>1, SoundInit, SoundStep, AgreementInit, AgreementStep, PTL DEF Spec, DeletesAgreed

(***************************************************************************)
(* What a job says, step by step.                                          *)
(***************************************************************************)
LEMMA MeaningInit == Init => Meaning
  BY DEF Init, Meaning, Versions, JobOK, IdleRun, IdleProc

LEMMA VersionsStep == Sound /\ Sound' /\ Versions /\ [Next]_vars => Versions'
  <1> SUFFICES ASSUME Sound, Sound', Versions, [Next]_vars PROVE Versions'
    OBVIOUS
  <1> USE DEF Sound
  <1>0. CASE UNCHANGED vars
    BY <1>0 DEF vars, Versions, Past
  <1>i. /\ \A c \in Runs : run[c].todo \cup run[c].held \cup run[c].found \subseteq Items
        /\ \A p \in Procs : proc[p].left \subseteq Items
        /\ \A j \in JobIds : job[j] # None => job[j].items \subseteq Items
    BY DEF Typed, RunType, ProcType, JobType
  <1>f. ASSUME LibGoesOn,
               \A c \in Runs : \A x \in run'[c].todo \cup run'[c].held \cup run'[c].found :
                 x \in run[c].todo \cup run[c].held \cup run[c].found \/ (x \in Items /\ Past(x)),
               \A p \in Procs : \A x \in proc'[p].left :
                 x \in proc[p].left \/ \E j \in JobIds : job[j] # None /\ x \in job[j].items,
               \A j \in JobIds : job'[j] # None =>
                 \/ job[j] # None /\ job'[j].items \subseteq job[j].items
                 \/ job'[j].items = {}
                 \/ \E c \in Runs : job'[j].items = run[c].found
        PROVE  Versions'
    <2>1. \A x \in Items : Past(x) => Past(x)'
      BY <1>f DEF LibGoesOn
    <2>2. \A c \in Runs : \A x \in run'[c].todo \cup run'[c].held \cup run'[c].found : Past(x)'
      BY <1>f, <1>i, <2>1 DEF Versions
    <2>3. \A p \in Procs : \A x \in proc'[p].left : Past(x)'
      BY <1>f, <1>i, <2>1 DEF Versions
    <2>4. \A j \in JobIds : job'[j] # None => \A x \in job'[j].items : Past(x)'
      BY <1>f, <1>i, <2>1 DEF Versions
    <2> QED
      BY <2>2, <2>3, <2>4 DEF Versions
  <1>1. ASSUME NEW c \in Runs, ScanGoesOn(c) PROVE Versions'
    <2>1. run'[c].todo \cup run'[c].held \cup run'[c].found \subseteq Items
      BY DEF Typed, RunType
    <2> QED
      BY <1>1, <1>f, <2>1 DEF ScanGoesOn
  <1>2. ASSUME NEW c \in Runs, NEW f \in JobType, SettlesAs(c, f) PROVE Versions'
    <2>1. \A j \in JobIds : j # run[c].job => job'[j] = job[j]
      BY <1>2 DEF SettlesAs, Typed
    <2>2. job'[run[c].job] = f /\ job[run[c].job] # None
      BY <1>2 DEF SettlesAs, Typed
    <2>3. f.items = job[run[c].job].items \/ f.items = run[c].found
      BY <1>2 DEF SettlesAs
    <2>4. run'[c].todo \cup run'[c].held \cup run'[c].found = {}
      BY <1>2 DEF SettlesAs, RunHolds
    <2> QED
      BY <1>2, <1>f, <2>1, <2>2, <2>3, <2>4, SameLib DEF SettlesAs
  <1>3. ASSUME NEW c \in Runs, NEW j \in JobIds, NEW f \in JobType, EndsAs(c, j, f) PROVE Versions'
    <2>1. f.items = job[j].items /\ job[j] # None
      BY <1>3 DEF EndsAs
    <2>2. run'[c].todo \cup run'[c].held \cup run'[c].found = {}
      BY <1>3 DEF EndsAs, RunHolds
    <2>3. \A i \in JobIds : job'[i] # None => job[i] # None /\ job'[i].items = job[i].items
      BY <1>3, <2>1 DEF EndsAs, Remains
    <2> QED
      BY <1>3, <1>f, <2>2, <2>3, SameLib DEF EndsAs
  <1>4. ASSUME NEW c \in Runs, NEW j \in JobIds, NEW f \in JobType, StartsAs(c, j, f) PROVE Versions'
    <2>1. run'[c].todo \cup run'[c].held \cup run'[c].found = {}
      BY <1>4 DEF StartsAs, RunHolds
    <2>2. \A i \in JobIds : i # j /\ job'[i] # None => job[i] # None /\ job'[i].items = job[i].items
      BY <1>4 DEF StartsAs, Remains
    <2>3. job'[j].items = {}
      BY <1>4 DEF StartsAs
    <2> QED
      BY <1>4, <1>f, <2>1, <2>2, <2>3, SameLib DEF StartsAs
  <1>5. ASSUME NEW c \in Runs, NEW q \in Requests, ChecksAs(c, q) PROVE Versions'
    <2>1. run'[c].todo \cup run'[c].held \cup run'[c].found = {}
      BY <1>5 DEF ChecksAs, RunHolds
    <2> QED
      BY <1>5, <1>f, <2>1, SameLib DEF ChecksAs
  <1>6. ASSUME NEW p \in Procs, NEW j \in JobIds, TakesUp(p, j) PROVE Versions'
    BY <1>6, <1>f, SameLib DEF TakesUp
  <1>7. ASSUME NEW p \in Procs, NEW j \in JobIds, NEW f \in JobType, ProcessesAs(p, j, f) PROVE Versions'
    <2>1. \A i \in JobIds : job'[i] # None => job[i] # None /\ job'[i].items = job[i].items
      BY <1>7 DEF ProcessesAs, Remains
    <2> QED
      BY <1>7, <1>f, <2>1 DEF ProcessesAs
  <1>8. CASE ElseGoesOn
    BY <1>8, <1>f DEF ElseGoesOn, Remains
  <1> QED
    BY <1>0, <1>1, <1>2, <1>3, <1>4, <1>5, <1>6, <1>7, <1>8, NextMoves DEF Moves

\* A job that nobody gets to work on keeps its meaning.
LEMMA JobKept ==
  ASSUME Sound, LibGoesOn, NEW j \in JobIds, JobOK(j), job'[j] \in {job[j], None},
         \A c \in Runs : c \in RunsOn(j)' /\ Working(run'[c]) =>
           /\ c \in RunsOn(j) /\ Working(run[c]) /\ (Scanning(run'[c]) => Scanning(run[c]))
           /\ \A x \in run'[c].found : x \in run[c].found \/ (job[j].auto => Gone(x)'),
         \A p \in Procs : p \in ProcsOn(j)' /\ Deleting(proc'[p]) =>
           /\ p \in ProcsOn(j) /\ Deleting(proc[p])
           /\ \A x \in proc[p].left : x \in proc'[p].left \/ Gone(x)'
  PROVE  JobOK(j)'
  <1> SUFFICES ASSUME job'[j] # None PROVE JobOK(j)'
    BY DEF JobOK
  <1>1. job'[j] = job[j] /\ job[j] \in JobType /\ job[j].items \subseteq Items
    BY DEF Sound, Typed, JobType
  <1>2. \A x \in Items : Gone(x) => Gone(x)'
    BY DEF LibGoesOn
  <1>3. CASE job[j].excused
    BY <1>1, <1>3 DEF JobOK
  <1>4. CASE ~job[j].excused
    <2>1. job[j].status = "completed" => \A x \in job[j].items : Gone(x)'
      BY <1>1, <1>2, <1>4 DEF JobOK
    <2>2. ASSUME NEW c \in Runs, c \in RunsOn(j)', Working(run'[c]) PROVE WorkOK(j, c)'
      <3>1. WorkOK(j, c)
        BY <1>1, <1>4, <2>2 DEF JobOK
      <3>2. \A d \in RunsOn(j)' : Working(run'[d]) => d = c
        BY <3>1 DEF WorkOK, RunsOn
      <3>3. \A p \in ProcsOn(j)' : ~Deleting(proc'[p])
        BY <3>1 DEF WorkOK, ProcsOn
      <3>4. job[j].auto => \A x \in run'[c].found : Gone(x)'
        <4>1. run[c].found \subseteq Items
          BY DEF Sound, Typed, RunType
        <4> QED
          BY <1>2, <2>2, <3>1, <4>1 DEF WorkOK
      <3> QED
        BY <1>1, <2>2, <3>1, <3>2, <3>3, <3>4 DEF WorkOK
    <2>3. ASSUME NEW p \in Procs, p \in ProcsOn(j)', Deleting(proc'[p])
          PROVE  \A x \in job[j].items : x \in proc'[p].left \/ Gone(x)'
      BY <1>1, <1>2, <1>4, <2>3 DEF JobOK
    <2>4. \A c \in RunsOn(j)' : c \in Runs
      BY DEF RunsOn
    <2>5. \A p \in ProcsOn(j)' : p \in Procs
      BY DEF ProcsOn
    <2>6. job[j].status = "pending" => job[j].items # {} /\ ~job[j].completed /\ ~job[j].failed
      BY <1>1, <1>4 DEF JobOK
    <2> QED
      BY <1>1, <2>1, <2>2, <2>3, <2>4, <2>5, <2>6 DEF JobOK
  <1> QED
    BY <1>3, <1>4

LEMMA JobStep ==
  ASSUME Sound, Sound', Versions, \A i \in JobIds : JobOK(i), Next, NEW i \in JobIds
  PROVE  JobOK(i)'
  <1> USE DEF Sound
  <1>o. JobOK(i)
    OBVIOUS
  <1>s. ASSUME UNCHANGED lib PROVE LibGoesOn /\ \A x \in Items : Gone(x) => Gone(x)'
    BY <1>s, SameLib DEF LibGoesOn
  <1>w. ASSUME NEW c \in Runs, c \in RunsOn(i), Working(run[c]), job[i] # None, ~job[i].excused
        PROVE  WorkOK(i, c)
    BY <1>o, <1>w DEF JobOK
  <1>1. ASSUME NEW c \in Runs, ScanGoesOn(c) PROVE JobOK(i)'
    <2>1. run[c].job = i => c \in RunsOn(i)
      BY <1>1 DEF ScanGoesOn, RunsOn, Active, Scanning
    <2>2. \A x \in run[c].held : Past(x)
      BY DEF Versions
    <2> QED
      BY <1>1, <1>o, <2>1, <2>2, JobKept DEF ScanGoesOn, RunsOn, ProcsOn, Active, Working, Scanning
  <1>2. ASSUME NEW c \in Runs, NEW f \in JobType, SettlesAs(c, f) PROVE JobOK(i)'
    <2>1. CASE i # run[c].job
      <3>1. job'[i] = job[i]
        BY <1>2, <2>1 DEF SettlesAs, Typed
      <3> QED
        BY <1>2, <1>o, <1>s, <2>1, <3>1, JobKept DEF SettlesAs, RunsOn, ProcsOn, Active
    <2>2. CASE i = run[c].job
      <3>1. job'[i] = f /\ job[i] \in JobType /\ job[i] # None
        BY <1>2, <2>2 DEF SettlesAs, Typed
      <3>2. f.status = "pending" => f.items # {}
        BY <1>2 DEF SettlesAs
      <3>3. CASE f.excused
        BY <3>1, <3>2, <3>3 DEF JobOK
      <3>4. CASE ~f.excused
        <4>1. ~job[i].excused /\ c \in RunsOn(i) /\ Working(run[c]) /\ Scanning(run[c])
          BY <1>2, <2>2, <3>4 DEF SettlesAs, RunsOn, Active, Working, Scanning
        <4>2. WorkOK(i, c)
          BY <1>w, <3>1, <4>1
        <4>3. /\ f.status = "pending" => ~f.completed /\ ~f.failed
              /\ f.status = "completed" => \A x \in f.items : Gone(x)'
          <5>1. /\ f.status = "pending" => f.completed = job[i].completed /\ f.failed = job[i].failed
                /\ f.status = "completed" => f.items = job[i].items \/ (f.items = run[c].found /\ job[i].auto)
            BY <1>2, <2>2 DEF SettlesAs
          <5>2. run[c].found \subseteq Items /\ UNCHANGED lib
            BY <1>2 DEF SettlesAs, Typed, RunType
          <5> QED
            BY <1>s, <4>1, <4>2, <5>1, <5>2 DEF WorkOK
        <4>4. \A d \in RunsOn(i)' : Working(run'[d]) => d = c
          BY <1>2, <2>2, <4>2 DEF WorkOK, SettlesAs, RunsOn, Active
        <4>5. \A p \in ProcsOn(i)' : ~Deleting(proc'[p])
          BY <1>2, <4>2 DEF WorkOK, SettlesAs, ProcsOn
        <4>6. Working(run'[c]) => WorkOK(i, c)'
          <5>1. Working(run'[c]) => f.status = "failed"
            BY <1>2 DEF SettlesAs, Working, Scanning
          <5>2. ~Scanning(run'[c]) /\ run'[c].found = {}
            BY <1>2 DEF SettlesAs, Scanning, RunHolds
          <5> QED
            BY <3>1, <4>4, <4>5, <5>1, <5>2 DEF WorkOK
        <4> QED
          BY <3>1, <3>2, <4>3, <4>4, <4>5, <4>6 DEF JobOK
      <3> QED
        BY <3>3, <3>4
    <2> QED
      BY <2>1, <2>2
  <1>3. ASSUME NEW c \in Runs, NEW j \in JobIds, NEW f \in JobType, EndsAs(c, j, f) PROVE JobOK(i)'
    <2>0. \A d \in Runs : d \in RunsOn(i)' => d \in RunsOn(i)
      BY <1>3 DEF EndsAs, RunsOn, Active
    <2>1. CASE i # j \/ run[c].pc = "save"
      <3>1. job'[i] \in {job[i], None}
        BY <1>3, <2>1 DEF EndsAs, Remains
      <3>2. \A d \in Runs : d \in RunsOn(i)' /\ Working(run'[d]) =>
              Working(run[d]) /\ (Scanning(run'[d]) => Scanning(run[d])) /\ run'[d].found \subseteq run[d].found
        BY <1>3 DEF EndsAs, RunsOn, Active, Working, Scanning, RunHolds
      <3> QED
        BY <1>3, <1>o, <1>s, <2>0, <3>1, <3>2, JobKept DEF EndsAs, ProcsOn
    <2>2. CASE i = j /\ run[c].pc = "late"
      <3> SUFFICES ASSUME job'[i] # None PROVE JobOK(i)'
        BY DEF JobOK
      <3>1. job'[i] = f /\ job[i] \in JobType /\ f.status = "failed" /\ f.excused = job[i].excused
            /\ run'[c].pc = "done" /\ c \in RunsOn(i) /\ Working(run[c])
        BY <1>3, <2>2 DEF EndsAs, Remains, RunsOn, Active, Working
      <3>2. CASE ~f.excused
        <4>1. WorkOK(i, c)
          BY <1>w, <3>1, <3>2
        <4>2. \A d \in RunsOn(i)' : ~Working(run'[d])
          BY <1>3, <3>1, <4>1 DEF EndsAs, WorkOK, RunsOn, Active
        <4>3. \A p \in ProcsOn(i)' : ~Deleting(proc'[p])
          BY <1>3, <4>1 DEF EndsAs, WorkOK, ProcsOn
        <4> QED
          BY <3>1, <4>2, <4>3 DEF JobOK
      <3> QED
        BY <3>1, <3>2 DEF JobOK
    <2> QED
      BY <1>3, <2>1, <2>2 DEF EndsAs
  <1>4. ASSUME NEW c \in Runs, NEW j \in JobIds, NEW f \in JobType, StartsAs(c, j, f) PROVE JobOK(i)'
    <2>1. CASE i # j
      <3>1. job'[i] \in {job[i], None}
        BY <1>4, <2>1 DEF StartsAs, Remains
      <3>2. \A d \in Runs : d \in RunsOn(i)' => d \in RunsOn(i) /\ d # c
        BY <1>4, <2>1 DEF StartsAs, RunsOn, Active
      <3>3. \A d \in Runs : d # c =>
              (Working(run'[d]) => Working(run[d])) /\ (Scanning(run'[d]) => Scanning(run[d]))
        BY <1>4 DEF StartsAs, Working, Scanning
      <3> QED
        BY <1>4, <1>o, <1>s, <3>1, <3>2, <3>3, JobKept DEF StartsAs, ProcsOn
    <2>2. CASE i = j
      <3>1. job'[i] = f /\ f.status = "started" /\ f.items = {} /\ ~f.completed /\ ~f.failed
        BY <1>4, <2>2 DEF StartsAs
      <3>2. CASE ~f.excused
        <4>1. /\ \A d \in Runs : d # c => d \notin RunsOn(i)' \/ ~Working(run'[d])
              /\ \A p \in Procs : p \notin ProcsOn(i)' \/ ~Deleting(proc'[p])
          <5>1. CASE ~Live(i)
            BY <1>4, <5>1 DEF StartsAs, Live, RunsOn, ProcsOn
          <5>2. CASE ~Overlaps(i)
            BY <1>4, <5>2 DEF StartsAs, Overlaps, RunsOn, ProcsOn, Active, Working, Scanning, Deleting
          <5> QED
            BY <1>4, <2>2, <3>2, <5>1, <5>2 DEF StartsAs
        <4>2. run'[c].found = {}
          BY <1>4 DEF StartsAs, RunHolds
        <4>3. WorkOK(i, c)'
          BY <3>1, <4>1, <4>2 DEF WorkOK, RunsOn, ProcsOn
        <4> QED
          BY <3>1, <4>1, <4>3 DEF JobOK, RunsOn, ProcsOn
      <3> QED
        BY <3>1, <3>2 DEF JobOK
    <2> QED
      BY <2>1, <2>2
  <1>5. ASSUME NEW c \in Runs, NEW q \in Requests, ChecksAs(c, q) PROVE JobOK(i)'
    BY <1>5, <1>o, <1>s, JobKept DEF ChecksAs, RunsOn, ProcsOn, Active
  <1>6. ASSUME NEW p \in Procs, NEW j \in JobIds, TakesUp(p, j) PROVE JobOK(i)'
    <2>1. CASE i # j
      BY <1>6, <1>o, <1>s, <2>1, JobKept DEF TakesUp, RunsOn, ProcsOn, Active
    <2>2. CASE i = j
      <3>1. /\ job' = job /\ run' = run /\ lib' = lib /\ job[i] \in JobType /\ job[i] # None
            /\ job[i].status = "pending" /\ RunsOn(i)' = RunsOn(i)
        BY <1>6, <2>2 DEF TakesUp, Processable, RunsOn, Active
      <3>2. CASE ~job[i].excused
        <4>1. \A d \in RunsOn(i)' : ~Working(run'[d])
          BY <1>w, <3>1, <3>2 DEF WorkOK, RunsOn
        <4>2. \A o \in ProcsOn(i)' : Deleting(proc'[o]) =>
                \A x \in job[i].items : x \in proc'[o].left \/ Gone(x)'
          <5> SUFFICES ASSUME NEW o \in ProcsOn(i)', Deleting(proc'[o]), NEW x \in job[i].items
                       PROVE  x \in proc'[o].left \/ Gone(x)'
            OBVIOUS
          <5>1. CASE o = p
            BY <1>6, <2>2, <5>1 DEF TakesUp
          <5>2. CASE o # p
            <6>1. proc'[o] = proc[o] /\ o \in ProcsOn(i)
              BY <1>6, <5>2 DEF TakesUp, ProcsOn
            <6>2. Gone(x) => Gone(x)'
              BY <3>1 DEF Gone, Past
            <6> QED
              BY <1>o, <3>1, <3>2, <6>1, <6>2 DEF JobOK
          <5> QED
            BY <5>1, <5>2
        <4> QED
          BY <1>o, <3>1, <4>1, <4>2 DEF JobOK
      <3> QED
        BY <1>o, <3>1, <3>2 DEF JobOK
    <2> QED
      BY <2>1, <2>2
  <1>7. ASSUME NEW p \in Procs, NEW j \in JobIds, NEW f \in JobType, ProcessesAs(p, j, f) PROVE JobOK(i)'
    <2>0. /\ \A o \in Procs : o \in ProcsOn(i)' => o \in ProcsOn(i) /\ (Deleting(proc'[o]) => Deleting(proc[o]))
          /\ RunsOn(i)' = RunsOn(i) /\ run' = run /\ LibGoesOn
      BY <1>7 DEF ProcessesAs, ProcsOn, RunsOn, Active, ProcHolds
    <2>1. CASE i # j
      <3>1. job'[i] \in {job[i], None}
        BY <1>7, <2>1 DEF ProcessesAs, Remains
      <3>2. \A o \in Procs : o \in ProcsOn(i)' => proc'[o] = proc[o] \/ ~Deleting(proc'[o])
        BY <1>7, <2>1 DEF ProcessesAs, ProcsOn, Deleting
      <3> QED
        BY <1>7, <1>o, <2>0, <3>1, <3>2, JobKept
    <2>2. CASE i = j
      <3> SUFFICES ASSUME job'[i] # None PROVE JobOK(i)'
        BY DEF JobOK
      <3>1. job'[i] = f /\ job[i] \in JobType /\ f.items = job[i].items /\ p \in ProcsOn(i)
            /\ job[i].items \subseteq Items
        BY <1>7, <2>2 DEF ProcessesAs, Remains, ProcsOn, JobType
      <3>2. \A x \in proc[p].left : Past(x)
        BY DEF Versions
      <3>3. \A x \in Items : Gone(x) => Gone(x)'
        BY <2>0 DEF LibGoesOn
      <3>4. CASE f = job[i] /\ \A x \in proc[p].left : x \in proc'[p].left \/ (Past(x) => Gone(x)')
        <4>1. \A o \in Procs : o \in ProcsOn(i)' =>
                \A x \in proc[o].left : x \in proc'[o].left \/ Gone(x)'
          BY <1>7, <3>2, <3>4 DEF ProcessesAs
        <4> QED
          BY <1>o, <2>0, <3>1, <3>4, <4>1, JobKept
      <3>5. CASE f.excused /\ f.status = job[i].status
        BY <1>o, <3>1, <3>5 DEF JobOK
      <3>6. CASE /\ f.status \in {"processing", "completed"} /\ f.excused = job[i].excused
                 /\ Deleting(proc[p]) /\ proc'[p].left = proc[p].left
                 /\ f.status = "completed" => proc[p].left = {}
        <4>1. CASE f.excused
          BY <3>1, <3>6, <4>1 DEF JobOK
        <4>2. CASE ~f.excused
          <5>1. \A d \in RunsOn(i)' : ~Working(run'[d])
            BY <1>w, <2>0, <3>1, <3>6, <4>2 DEF WorkOK, RunsOn
          <5>2. f.status = "completed" => \A x \in f.items : Gone(x)'
            BY <1>o, <3>1, <3>3, <3>6, <4>2 DEF JobOK
          <5>3. \A o \in ProcsOn(i)' : Deleting(proc'[o]) => \A x \in f.items : x \in proc'[o].left \/ Gone(x)'
            <6> SUFFICES ASSUME NEW o \in ProcsOn(i)', Deleting(proc'[o]), NEW x \in f.items
                         PROVE  x \in proc'[o].left \/ Gone(x)'
              OBVIOUS
            <6>1. o \in Procs /\ o \in ProcsOn(i) /\ Deleting(proc[o])
              BY <2>0 DEF ProcsOn
            <6>2. proc'[o].left = proc[o].left
              BY <1>7, <3>6, <6>1 DEF ProcessesAs
            <6> QED
              BY <1>o, <3>1, <3>3, <3>6, <4>2, <6>1, <6>2 DEF JobOK
          <5> QED
            BY <3>1, <3>6, <5>1, <5>2, <5>3 DEF JobOK
        <4> QED
          BY <4>1, <4>2
      <3>7. f.status = "completed" /\ proc[p].left = {} => proc'[p].left = proc[p].left
        BY <1>7 DEF ProcessesAs
      <3> QED
        BY <1>7, <2>2, <3>4, <3>5, <3>6, <3>7 DEF ProcessesAs
    <2> QED
      BY <2>1, <2>2
  <1>8. CASE ElseGoesOn
    BY <1>8, <1>o, JobKept DEF ElseGoesOn, Remains, RunsOn, ProcsOn, Active
  <1> QED
    BY <1>1, <1>2, <1>3, <1>4, <1>5, <1>6, <1>7, <1>8, NextMoves DEF Moves

LEMMA MeaningStep == Sound /\ Sound' /\ Meaning /\ [Next]_vars => Meaning'
  <1>1. CASE UNCHANGED vars
    BY <1>1 DEF vars, Meaning, Versions, Past, JobOK, Gone, WorkOK, RunsOn, ProcsOn, Active
  <1> QED
    BY <1>1, VersionsStep, JobStep DEF Meaning

\* A job that says completed has none of its items left, but for the excuses.
THEOREM CompletionIsHandling == Spec => []CompletedMeansHandled
  <1>1. Meaning => CompletedMeansHandled
    BY DEF Meaning, JobOK, Gone, CompletedMeansHandled
  <1> QED
    BY <1>1, SoundInit, SoundStep, MeaningInit, MeaningStep, PTL DEF Spec

\* A pending job has items, and ProcessJob does not refuse it, but for an overlap.
THEOREM PendingCanBeProcessed == Spec => []PendingIsProcessable
  <1>1. Meaning => PendingIsProcessable
    BY DEF Meaning, JobOK, PendingIsProcessable
  <1> QED
    BY <1>1, SoundInit, SoundStep, MeaningInit, MeaningStep, PTL DEF Spec

-----------------------------------------------------------------------------
(***************************************************************************)
(* repair.json.  What a save writes is right for as long as no further job *)
(* becomes pending, and the run that makes one pending marshals at once.   *)
(* The newest of what this service marshalled is therefore up to date,     *)
(* while it waits to be written and once it is the file.  A job of a       *)
(* former service's run is not among the jobs, so that run cannot make one *)
(* of them pending without saving it.                                      *)
(***************************************************************************)
Pending(k) == jobs[k] # None /\ job[jobs[k]].status = "pending"

HasItems == \A k \in Keys : Pending(k) => job[jobs[k]].items # {}

FormerApart ==
    \A c \in Runs : run[c].former =>
        /\ Active(c)
        /\ \A k \in Keys : jobs[k] # run[c].job
        /\ \A d \in Runs : run[d].pc = "adding" => run[d].job # run[c].job

Snapshots == {snap \in [Keys -> JobType \cup {None}] : SnapshotOK(snap)}
SaveType  == [snap : Snapshots, by : Writers, former : BOOLEAN, old : BOOLEAN]
FileType  == [snap : Snapshots, lost : BOOLEAN]

FileTyped ==
    /\ spawned \in 0..MaxSaves
    /\ saves \in Seq(SaveType)
    /\ file \in FileType

UpToDate(snap) ==
    \A k \in Keys : Pending(k) => snap[k] # None /\ snap[k].items = job[jobs[k]].items

\* A newer one of these saves has been written, or is another service's.
Outdone(s) == s.former \/ s.old

SavesOrdered == \A n, m \in 1..Len(saves) : n < m /\ saves[m].old => saves[n].old

NewestIsUpToDate ==
    \A n \in 1..Len(saves) :
        ~Outdone(saves[n]) /\ (\A m \in 1..Len(saves) : m > n => saves[m].former)
        => UpToDate(saves[n].snap)

FileIsUpToDate ==
    ~file.lost /\ (\A n \in 1..Len(saves) : Outdone(saves[n])) => UpToDate(file.snap)

Saving == SavesOrdered /\ NewestIsUpToDate /\ FileIsUpToDate

ServiceInv == Sound /\ HasItems /\ FormerApart /\ FileTyped /\ Saving

(***************************************************************************)
(* What the steps of RepairJobs do to pending jobs.                        *)
(***************************************************************************)
\* No job becomes pending, and no pending job changes its items.
Stays ==
    \A k \in Keys : Pending(k)' =>
        Pending(k) /\ jobs'[k] = jobs[k] /\ job'[jobs[k]].items = job[jobs[k]].items

LEMMA StaysItems == ASSUME Stays, HasItems PROVE HasItems'
  BY DEF Stays, HasItems

LEMMA StaysUpToDate == ASSUME Stays, NEW snap, UpToDate(snap) PROVE UpToDate(snap)'
  BY DEF Stays, UpToDate

LEMMA StaysWhere ==
  ASSUME Sound, \A k \in Keys : jobs'[k] \in {jobs[k], None},
         \A i \in JobIds : job'[i] # None /\ job'[i].status = "pending" =>
            job[i].status = "pending" /\ job'[i].items = job[i].items,
         Sound'
  PROVE  Stays
  <1> SUFFICES ASSUME NEW k \in Keys, Pending(k)'
               PROVE  Pending(k) /\ jobs'[k] = jobs[k] /\ job'[jobs[k]].items = job[jobs[k]].items
    BY DEF Stays
  <1>1. jobs'[k] = jobs[k] /\ jobs[k] \in JobIds
    BY DEF Pending, Sound, Typed
  <1>2. job'[jobs[k]] # None
    BY <1>1 DEF Sound, Shape, Live
  <1> QED
    BY <1>1, <1>2 DEF Pending

LEMMA StaysRun ==
  ASSUME Sound, Sound', NEW c \in Runs,
         \/ PreRunChecks(c) \/ PreRunFails(c) \/ Scan(c)
         \/ Saved(c) \/ MarkFailed(c)
  PROVE  Stays
  <1>1. ASSUME ScanGoesOn(c) PROVE Stays
    BY <1>1, StaysWhere DEF ScanGoesOn
  <1>2. ASSUME NEW j \in JobIds, NEW f \in JobType, EndsAs(c, j, f) PROVE Stays
    <2>1. \A i \in JobIds : job'[i] # None /\ job'[i].status = "pending" =>
            job[i].status = "pending" /\ job'[i].items = job[i].items
      BY <1>2 DEF EndsAs, Remains
    <2> QED
      BY <1>2, <2>1, StaysWhere DEF EndsAs
  <1> QED
    BY <1>1, <1>2, Scans, Ending

LEMMA StaysStart == ASSUME Sound, Sound', NEW c \in Runs, StartJob(c) PROVE Stays
  <1>1. PICK j \in JobIds, f \in JobType : StartsAs(c, j, f)
    BY Starting
  <1> SUFFICES ASSUME NEW k \in Keys, Pending(k)'
               PROVE  Pending(k) /\ jobs'[k] = jobs[k] /\ job'[jobs[k]].items = job[jobs[k]].items
    BY DEF Stays
  <1>2. jobs'[k] # j
    BY <1>1 DEF StartsAs, Pending
  <1>3. jobs'[k] = jobs[k] /\ jobs[k] \in JobIds
    BY <1>1, <1>2 DEF StartsAs, Sound, Typed, Pending
  <1>4. job'[jobs[k]] \in {job[jobs[k]], None} /\ job'[jobs[k]] # None
    BY <1>1, <1>2, <1>3 DEF StartsAs, Remains, Sound, Shape, Live
  <1> QED
    BY <1>3, <1>4 DEF Pending

LEMMA StaysProc == ASSUME Sound, Sound', NEW p \in Procs, ProcStep(p) PROVE Stays
  <1>1. PICK j \in JobIds, f \in JobType : ProcessesAs(p, j, f)
    BY Processing
  <1>2. \A i \in JobIds : job'[i] # None /\ job'[i].status = "pending" =>
          job[i].status = "pending" /\ job'[i].items = job[i].items
    BY <1>1 DEF ProcessesAs, Remains
  <1> QED
    BY <1>1, <1>2, StaysWhere DEF ProcessesAs

LEMMA StaysCall == ASSUME Sound, Sound', Call \/ World PROVE Stays
  <1>1. ASSUME NEW c \in Runs, NEW q \in Requests, CheckJob(c, q) PROVE Stays
    BY <1>1, Checking, StaysWhere DEF ChecksAs
  <1>2. ASSUME NEW p \in Procs, NEW k \in Keys, ProcessJob(p, k) PROVE Stays
    BY <1>2, Taking, StaysWhere DEF TakesUp
  <1>3. CASE (\E k \in Keys : DeleteJob(k)) \/ World
    BY <1>3, Else, StaysWhere DEF ElseGoesOn, Remains
  <1> QED
    BY <1>1, <1>2, <1>3 DEF Call

\* A result, of a run whose job is in the map or no longer.
LEMMA StaysSettle ==
  ASSUME Sound, Sound', NEW c \in Runs, Settle(c), \A k \in Keys : jobs[k] # run[c].job
  PROVE  Stays
  <1>1. PICK f \in JobType : SettlesAs(c, f)
    BY Settling
  <1>2. \A k \in Keys : jobs[k] # None => job'[jobs[k]] = job[jobs[k]]
    BY <1>1 DEF SettlesAs, Sound, Typed
  <1> QED
    BY <1>1, <1>2 DEF SettlesAs, Stays, Pending

LEMMA ItemsSettle ==
  ASSUME Sound, Sound', NEW c \in Runs, Settle(c), HasItems
  PROVE  HasItems'
  <1>1. PICK f \in JobType : SettlesAs(c, f)
    BY Settling
  <1> SUFFICES ASSUME NEW k \in Keys, Pending(k)' PROVE job'[jobs'[k]].items # {}
    BY DEF HasItems
  <1>2. jobs'[k] = jobs[k] /\ jobs[k] \in JobIds /\ run[c].job \in JobIds
    BY <1>1 DEF SettlesAs, Sound, Typed, Pending
  <1>3. CASE jobs[k] = run[c].job
    <2>1. job'[jobs[k]] = f
      BY <1>1, <1>2, <1>3 DEF SettlesAs, Sound, Typed
    <2>2. f.status = "pending" => f.items # {}
      BY <1>1 DEF SettlesAs
    <2> QED
      BY <1>2, <2>1, <2>2 DEF Pending
  <1>4. CASE jobs[k] # run[c].job
    <2>1. job'[jobs[k]] = job[jobs[k]]
      BY <1>1, <1>2, <1>4 DEF SettlesAs, Sound, Typed
    <2> QED
      BY <1>2, <2>1 DEF Pending, HasItems
  <1> QED
    BY <1>3, <1>4

(***************************************************************************)
(* Runs of a former service.                                               *)
(***************************************************************************)
FormerFrame ==
    \A d \in Runs : run'[d].former =>
        run[d].former /\ (run'[d].pc = "done" => run[d].pc = "done")

LEMMA FormerRun == ASSUME Sound, NEW c \in Runs, RunStep(c) PROVE FormerFrame
  <1>t. run \in [Runs -> RunType] /\ run[c] \in RunType
    BY DEF Sound, Typed
  <1>1. ASSUME PreRunChecks(c) \/ PreRunFails(c) \/ Scan(c) \/ Settle(c)
        PROVE  FormerFrame
    <2>1. run' \in [Runs -> RunType] /\ run'[c].pc # "done" /\ \A d \in Runs : d # c => run'[d] = run[d]
      BY <1>1, Scans, Settling DEF ScanGoesOn, SettlesAs, Scanning
    <2>2. run'[c].former = run[c].former
      <3>1. CASE PreRunChecks(c) \/ PreRunFails(c)
        BY <1>t, <3>1 DEF PreRunChecks, PreRunFails, RunType
      <3>2. ASSUME NEW a \in Arrs, ListMedia(c, a) \/ SkipArr(c, a) \/ ListFails(c, a)
            PROVE  run'[c].former = run[c].former
        <4>1. ASSUME ListMedia(c, a) PROVE run'[c].former = run[c].former
          BY <1>t, <4>1 DEF ListMedia, RunType
        <4> QED
          BY <1>t, <3>2, <4>1 DEF SkipArr, ListFails, RunType
      <3>3. CASE Judge(c) \/ \E t \in Contents : HandleBroken(c, t)
        <4> DEFINE Same == run'[c].former = run[c].former
        <4>1. ASSUME NEW x, PassOver(c, x) PROVE Same
          BY <1>t, <4>1 DEF PassOver, RunType
        <4>2. ASSUME NEW t, NEW p, FoundBroken(c, t, p) PROVE Same
          BY <1>t, <4>2 DEF FoundBroken, RunType
        <4>3. ASSUME NEW t, NEW p, FoundWell(c, t, p) \/ FoundHealed(c, t, p) PROVE Same
          BY <1>t, <4>3 DEF FoundWell, FoundHealed, RunType
        <4>4. ASSUME NEW t, HandleBroken(c, t) PROVE Same
          BY <1>t, <4>4 DEF HandleBroken, RunType
        <4> QED
          BY <3>3, <4>1, <4>2, <4>3, <4>4 DEF Judge
      <3>4. CASE Settle(c)
        BY <1>t, <3>4 DEF Settle, ScanFailed, NothingFound, FoundSome, RunType
      <3> QED
        BY <1>1, <3>1, <3>2, <3>3, <3>4 DEF Scan, List
    <2> QED
      BY <2>1, <2>2 DEF FormerFrame
  <1>2. ASSUME Saved(c) \/ MarkFailed(c) PROVE FormerFrame
    <2>1. \A d \in Runs : d # c => run'[d] = run[d]
      BY <1>2, <1>t DEF Saved, MarkFailed
    <2>2. run'[c] = DoneRun \/ run'[c] = [run[c] EXCEPT !.pc = "late"]
      BY <1>2, <1>t DEF Saved, MarkFailed
    <2>3. ~DoneRun.former
      BY DEF DoneRun, IdleRun
    <2>4. [run[c] EXCEPT !.pc = "late"].former = run[c].former /\ [run[c] EXCEPT !.pc = "late"].pc = "late"
      BY <1>t DEF RunType
    <2> QED
      BY <2>1, <2>2, <2>3, <2>4 DEF FormerFrame
  <1>3. CASE StartJob(c)
    <2> DEFINE a == run[c].req.auto
               j == IF run[c].job = None THEN CHOOSE f \in JobIds : ~Live(f) ELSE run[c].job
    <2>1. run' = [d \in Runs |->
                       IF d = c THEN [run[c] EXCEPT !.pc = "pre", !.job = j, !.agreed = a]
                       ELSE [run[d] EXCEPT !.agreed = @ \/ (d \in RunsOn(j) /\ a)]]
      BY <1>3 DEF StartJob
    <2>2. \A d \in Runs : run[d] \in RunType
      BY <1>t
    <2>3. \A d \in Runs : run'[d].former = run[d].former
      BY <2>1, <2>2 DEF RunType
    <2>4. \A d \in Runs : run'[d].pc = run[d].pc \/ run'[d].pc = "pre"
      BY <2>1, <2>2 DEF RunType
    <2> QED
      BY <2>3, <2>4 DEF FormerFrame
  <1> QED
    BY <1>1, <1>2, <1>3 DEF RunStep
LEMMA FormerStep ==
  ASSUME Sound, Sound', Next, FormerApart
  PROVE  FormerApart'
  <1>t. /\ jobs \in [Keys -> JobIds \cup {None}] /\ \A d \in Runs : run[d] \in RunType /\ RunHolds(run[d])
    BY DEF Sound, Typed, Shape
  <1>h. \A d \in Runs : run[d].former => Active(d) /\ run[d].job \in JobIds
    BY <1>t DEF FormerApart, Active, RunHolds, RunType, RunPCs
  <1>s. ASSUME FormerFrame,
               \A d \in Runs : run[d].former /\ run'[d].pc # "done" =>
                   /\ run'[d].pc \notin {"idle", "adding"} /\ run'[d].job = run[d].job
                   /\ \A k \in Keys : jobs'[k] # run[d].job
                   /\ \A e \in Runs : run'[e].pc = "adding" => run'[e].job # run[d].job
        PROVE  FormerApart'
    <2> SUFFICES ASSUME NEW d \in Runs, run'[d].former
                 PROVE  /\ Active(d)'
                        /\ \A k \in Keys : jobs'[k] # run'[d].job
                        /\ \A e \in Runs : run'[e].pc = "adding" => run'[e].job # run'[d].job
      BY DEF FormerApart
    <2>1. run[d].former /\ run'[d].pc # "done"
      BY <1>h, <1>s DEF FormerFrame, Active
    <2> QED
      BY <1>s, <2>1 DEF Active
  <1>f. ASSUME FormerFrame, \A k \in Keys : jobs'[k] \in {jobs[k], None},
               \A e \in Runs : \/ run'[e] = run[e]
                               \/ run'[e].pc = "done"
                               \/ run'[e].pc \notin {"idle", "adding"} /\ run'[e].job = run[e].job
        PROVE  FormerApart'
    <2>1. ASSUME NEW d \in Runs, run[d].former, run'[d].pc # "done"
          PROVE  /\ run'[d].pc \notin {"idle", "adding"} /\ run'[d].job = run[d].job
                 /\ \A k \in Keys : jobs'[k] # run[d].job
                 /\ \A e \in Runs : run'[e].pc = "adding" => run'[e].job # run[d].job
      <3>1. Active(d) /\ run[d].job # None
        BY <1>h, <2>1, ConstantsAssumption
      <3>2. run'[d].pc \notin {"idle", "adding"} /\ run'[d].job = run[d].job
        BY <1>f, <2>1, <3>1 DEF Active
      <3>3. \A k \in Keys : jobs'[k] # run[d].job
        BY <1>f, <2>1, <3>1 DEF FormerApart
      <3>4. \A e \in Runs : run'[e].pc = "adding" => run'[e].job # run[d].job
        BY <1>f, <2>1 DEF FormerApart
      <3> QED
        BY <3>2, <3>3, <3>4
    <2> QED
      BY <1>f, <1>s, <2>1
  <1>1. ASSUME NEW c \in Runs, RunStep(c) PROVE FormerApart'
    <2>0. FormerFrame
      BY <1>1, FormerRun
    <2>1. ASSUME ScanGoesOn(c) PROVE FormerApart'
      BY <1>f, <2>0, <2>1 DEF ScanGoesOn, Scanning
    <2>2. ASSUME NEW f \in JobType, SettlesAs(c, f) PROVE FormerApart'
      BY <1>f, <2>0, <2>2 DEF SettlesAs
    <2>3. ASSUME NEW j \in JobIds, NEW f \in JobType, EndsAs(c, j, f) PROVE FormerApart'
      BY <1>f, <2>0, <2>3 DEF EndsAs
    <2>4. ASSUME NEW j \in JobIds, NEW f \in JobType, StartsAs(c, j, f) PROVE FormerApart'
      <3>1. ~run[c].former
        BY <1>h, <2>4 DEF StartsAs, Active
      <3>2. \A d \in Runs : run[d].former => run[d].job # j
        BY <1>h, <2>4 DEF StartsAs, FormerApart, Live
      <3>3. \A k \in Keys : jobs'[k] \in {jobs[k], j}
        BY <1>t, <2>4 DEF StartsAs
      <3>4. \A e \in Runs : e # c => run'[e].pc = run[e].pc /\ run'[e].job = run[e].job
        BY <2>4 DEF StartsAs
      <3>5. run'[c].pc = "pre"
        BY <2>4 DEF StartsAs
      <3> QED
        BY <1>h, <1>s, <2>0, <3>1, <3>2, <3>3, <3>4, <3>5 DEF FormerApart, Active
    <2> QED
      BY <1>1, <2>1, <2>2, <2>3, <2>4, Scans, Settling, Ending, Starting DEF RunStep
  <1>2. ASSUME NEW c \in Runs, NEW q \in Requests, CheckJob(c, q) PROVE FormerApart'
    <2>1. ChecksAs(c, q)
      BY <1>2, Checking
    <2>2. run'[c].former = run[c].former
      BY <1>2, <1>t DEF CheckJob, Sound, Typed, RunType
    <2>3. FormerFrame
      BY <2>1, <2>2 DEF ChecksAs, FormerFrame
    <2>4. ~run[c].former
      BY <1>h, <2>1 DEF ChecksAs, Active
    <2> QED
      BY <1>h, <1>s, <2>1, <2>3, <2>4 DEF ChecksAs, FormerApart, Active
  <1>3. ASSUME run' = run, \A k \in Keys : jobs'[k] \in {jobs[k], None} PROVE FormerApart'
    BY <1>f, <1>3 DEF FormerFrame
  <1>4. ASSUME NEW p \in Procs, ProcStep(p) PROVE FormerApart'
    BY <1>3, <1>4, Processing DEF ProcessesAs
  <1>5. ASSUME NEW p \in Procs, NEW k \in Keys, ProcessJob(p, k) PROVE FormerApart'
    BY <1>3, <1>5, Taking DEF TakesUp
  <1>6. CASE (\E k \in Keys : DeleteJob(k)) \/ World
    BY <1>3, <1>6, Else DEF ElseGoesOn
  <1> QED
    BY <1>1, <1>2, <1>4, <1>5, <1>6 DEF Next, Call

(***************************************************************************)
(* Saves.                                                                  *)
(***************************************************************************)
\* What a save of this service marshals is up to date, of a former one empty.
LEMMA Marshalled ==
  ASSUME Sound', HasItems', NEW former \in BOOLEAN
  PROVE  \E snap \in Snapshots : snap = Snapshot(former) /\ (~former => UpToDate(snap)')
  <1> HIDE DEF JobType
  <1>t. /\ jobs' \in [Keys -> JobIds \cup {None}] /\ job' \in [JobIds -> JobType \cup {None}]
        /\ \A k \in Keys : jobs'[k] # None => job'[jobs'[k]] \in JobType
    BY DEF Sound, Typed, Shape, Live
  <1>1. CASE former
    <2>1. NoJobs \in Snapshots
      BY DEF NoJobs, Snapshots, SnapshotOK
    <2> QED
      BY <1>1, <2>1 DEF Snapshot
  <1>2. CASE ~former
    <2> DEFINE snap == [k \in Keys |-> IF jobs'[k] # None /\ job'[jobs'[k]].status = "pending"
                                         THEN job'[jobs'[k]] ELSE None]
    <2>1. snap = Snapshot(former)
      BY <1>2 DEF Snapshot
    <2>2. \A k \in Keys : snap[k] = IF Pending(k)' THEN job'[jobs'[k]] ELSE None
      BY DEF Pending
    <2>3. snap \in [Keys -> JobType \cup {None}]
      BY <1>t
    <2> HIDE DEF snap
    <2>4. PICK t \in [Keys -> JobType \cup {None}] : t = snap
      BY <2>3
    <2>5. SnapshotOK(t)
      BY <1>t, <2>2, <2>4 DEF SnapshotOK, HasItems, Pending
    <2>6. \A k \in Keys : Pending(k)' => t[k] # None /\ t[k].items = job'[jobs'[k]].items
      BY <1>t, <2>2, <2>4, NoneIsNoJob DEF Pending
    <2>7. UpToDate(t)'
      BY <2>6 DEF UpToDate
    <2> QED
      BY <2>1, <2>4, <2>5, <2>7 DEF Snapshots
  <1> QED
    BY <1>1, <1>2

LEMMA SavesSame ==
  ASSUME FileTyped, Saving, Stays, saves' = saves, file' = file, spawned' \in 0..MaxSaves
  PROVE  FileTyped' /\ Saving'
  <1>1. \A n \in 1..Len(saves) : UpToDate(saves[n].snap) => UpToDate(saves[n].snap)'
    <2> TAKE n \in 1..Len(saves)
    <2> DEFINE snap == saves[n].snap
    <2>1. saves'[n].snap = saves[n].snap
      OBVIOUS
    <2> QED
      BY <2>1 DEF UpToDate, Stays
  <1>2. UpToDate(file.snap) => UpToDate(file.snap)'
    BY DEF UpToDate, Stays
  <1>3. FileTyped'
    BY DEF FileTyped
  <1>4. SavesOrdered'
    BY DEF Saving, SavesOrdered
  <1>5. NewestIsUpToDate'
    BY <1>1 DEF Saving, NewestIsUpToDate, Outdone
  <1>6. FileIsUpToDate'
    BY <1>2 DEF Saving, FileIsUpToDate, Outdone
  <1> QED
    BY <1>3, <1>4, <1>5, <1>6 DEF Saving

LEMMA SavesMore ==
  ASSUME FileTyped, Saving, NEW s \in SaveType, saves' = Append(saves, s), file' = file,
         spawned' \in 0..MaxSaves, ~s.old,
         s.former => Stays, ~s.former => UpToDate(s.snap)'
  PROVE  FileTyped' /\ Saving'
  <1> HIDE DEF SaveType
  <1>0. /\ saves \in Seq(SaveType) /\ Len(saves) \in Nat /\ Len(saves') = Len(saves) + 1
        /\ saves'[Len(saves) + 1] = s /\ \A n \in 1..Len(saves) : saves'[n] = saves[n]
    BY DEF FileTyped
  <1>1. FileTyped'
    BY <1>0 DEF FileTyped
  <1>2. SavesOrdered'
    <2> SUFFICES ASSUME NEW n \in 1..Len(saves'), NEW m \in 1..Len(saves'), n < m, saves'[m].old
                 PROVE  saves'[n].old
      BY DEF SavesOrdered
    <2>1. m # Len(saves) + 1
      BY <1>0
    <2>2. m \in 1..Len(saves) /\ n \in 1..Len(saves)
      <3>1. PICK L \in Nat : L = Len(saves)
        BY <1>0
      <3>2. n \in 1..(L + 1) /\ m \in 1..(L + 1) /\ m # L + 1
        BY <1>0, <2>1, <3>1
      <3>3. m \in 1..L /\ n \in 1..L
        BY <3>2
      <3> QED
        BY <3>1, <3>3
    <2>3. saves'[m] = saves[m] /\ saves'[n] = saves[n]
      BY <1>0, <2>2
    <2>4. saves[n].old
      BY <2>2, <2>3 DEF Saving, SavesOrdered
    <2> QED
      BY <2>3, <2>4
  <1>3. NewestIsUpToDate'
    <2> SUFFICES ASSUME NEW n \in 1..Len(saves'), ~Outdone(saves'[n]),
                        \A m \in 1..Len(saves') : m > n => saves'[m].former
                 PROVE  \A k \in Keys : Pending(k)' =>
                          saves'[n].snap[k] # None /\ saves'[n].snap[k].items = job'[jobs'[k]].items
      BY DEF NewestIsUpToDate, UpToDate, Outdone
    <2>1. CASE n = Len(saves) + 1
      BY <1>0, <2>1 DEF Outdone, UpToDate
    <2>2. CASE n # Len(saves) + 1
      <3>1. n \in 1..Len(saves) /\ Len(saves) + 1 > n /\ Len(saves) + 1 \in 1..Len(saves')
        BY <1>0, <2>2
      <3>2. s.former
        BY <1>0, <3>1
      <3>3. \A m \in 1..Len(saves) : m > n => saves[m].former
        BY <1>0
      <3>4. UpToDate(saves[n].snap)
        BY <1>0, <3>1, <3>3 DEF Saving, NewestIsUpToDate
      <3> QED
        BY <1>0, <3>1, <3>2, <3>4 DEF UpToDate, Stays
    <2> QED
      BY <2>1, <2>2
  <1>4. FileIsUpToDate'
    <2> SUFFICES ASSUME ~file.lost, \A n \in 1..Len(saves') : Outdone(saves'[n])
                 PROVE  \A k \in Keys : Pending(k)' =>
                          file.snap[k] # None /\ file.snap[k].items = job'[jobs'[k]].items
      BY DEF FileIsUpToDate, UpToDate, Outdone
    <2>1. Len(saves) + 1 \in 1..Len(saves') /\ \A n \in 1..Len(saves) : n \in 1..Len(saves')
      BY <1>0
    <2>2. s.former /\ \A n \in 1..Len(saves) : Outdone(saves[n])
      BY <1>0, <2>1 DEF Outdone
    <2> QED
      BY <2>2 DEF Saving, FileIsUpToDate, UpToDate, Stays
  <1> QED
    BY <1>1, <1>2, <1>3, <1>4 DEF Saving

LEMMA SavesWritten ==
  ASSUME FileTyped, Saving, Stays, NEW w, Write(w)
  PROVE  FileTyped' /\ Saving'
  <1> DEFINE L == Len(saves)
  <1>0. saves \in Seq(SaveType) /\ L \in Nat /\ spawned' = spawned
    BY DEF FileTyped, Write
  <1>n. PICK n \in 1..L :
          /\ file' = [snap |-> saves[n].snap, lost |-> saves[n].old \/ saves[n].former]
          /\ saves' = [m \in 1..(L - 1) |->
                         IF m < n THEN [saves[m] EXCEPT !.old = TRUE] ELSE saves[m + 1]]
    BY DEF Write
  <1>t. \A m \in 1..L : saves[m] \in SaveType
    BY <1>0
  <1>b. \A m \in 1..L : /\ [saves[m] EXCEPT !.old = TRUE] \in SaveType
                        /\ [saves[m] EXCEPT !.old = TRUE].old
                        /\ [saves[m] EXCEPT !.old = TRUE].former = saves[m].former
                        /\ [saves[m] EXCEPT !.old = TRUE].snap = saves[m].snap
    BY <1>t DEF SaveType
  <1>k. /\ file' \in FileType /\ file'.snap = saves[n].snap
        /\ ~file'.lost => ~saves[n].old /\ ~saves[n].former
    BY <1>n, <1>t DEF FileType, SaveType
  <1> HIDE DEF SaveType
  <1>l. L - 1 \in Nat
    BY <1>0
  <1>s. saves' \in Seq(SaveType) /\ Len(saves') = L - 1
    <2>1. \A m \in 1..(L - 1) :
            (IF m < n THEN [saves[m] EXCEPT !.old = TRUE] ELSE saves[m + 1]) \in SaveType
      BY <1>0, <1>t, <1>b
    <2> QED
      BY <1>n, <1>l, <2>1
  <1>e. \A m \in 1..(L - 1) :
          /\ m < n => saves'[m].old /\ saves'[m].former = saves[m].former
          /\ ~(m < n) => saves'[m] = saves[m + 1] /\ m + 1 \in 1..L
    BY <1>n, <1>b, <1>0
  <1>1. FileTyped'
    BY <1>0, <1>k, <1>s DEF FileTyped
  <1>2. SavesOrdered'
    <2> SUFFICES ASSUME NEW i \in 1..(L - 1), NEW m \in 1..(L - 1), i < m, saves'[m].old
                 PROVE  saves'[i].old
      BY <1>s DEF SavesOrdered
    <2>1. CASE i < n
      BY <1>e, <2>1
    <2>2. CASE ~(i < n)
      <3>1. saves'[i] = saves[i + 1] /\ saves'[m] = saves[m + 1] /\ i + 1 \in 1..L /\ m + 1 \in 1..L /\ i + 1 < m + 1
        BY <1>0, <1>e, <2>2
      <3> QED
        BY <3>1 DEF Saving, SavesOrdered
    <2> QED
      BY <2>1, <2>2
  <1>3. NewestIsUpToDate'
    <2> SUFFICES ASSUME NEW i \in 1..(L - 1), ~Outdone(saves'[i]),
                        \A m \in 1..(L - 1) : m > i => saves'[m].former
                 PROVE  \A k \in Keys : Pending(k)' =>
                          saves'[i].snap[k] # None /\ saves'[i].snap[k].items = job'[jobs'[k]].items
      BY <1>s DEF NewestIsUpToDate, UpToDate, Outdone
    <2>1. ~(i < n)
      BY <1>e DEF Outdone
    <2>2. saves'[i] = saves[i + 1] /\ i + 1 \in 1..L
      BY <1>e, <2>1
    <2>3. \A m \in 1..L : m > i + 1 => saves[m].former
      <3> TAKE m \in 1..L
      <3> HAVE m > i + 1
      <3>1. m - 1 \in 1..(L - 1) /\ m - 1 > i /\ ~(m - 1 < n) /\ (m - 1) + 1 = m
        BY <1>0, <2>1
      <3> QED
        BY <1>e, <3>1
    <2>4. UpToDate(saves[i + 1].snap)
      BY <2>2, <2>3 DEF Saving, NewestIsUpToDate
    <2> QED
      BY <2>2, <2>4 DEF UpToDate, Stays
  <1>4. FileIsUpToDate'
    <2> SUFFICES ASSUME ~file'.lost, \A m \in 1..(L - 1) : Outdone(saves'[m])
                 PROVE  \A k \in Keys : Pending(k)' =>
                          file'.snap[k] # None /\ file'.snap[k].items = job'[jobs'[k]].items
      BY <1>s DEF FileIsUpToDate, UpToDate, Outdone
    <2>1. \A m \in 1..L : m > n => saves[m].former
      <3> TAKE m \in 1..L
      <3> HAVE m > n
      <3>1. m - 1 \in 1..(L - 1) /\ ~(m - 1 < n) /\ (m - 1) + 1 = m
        BY <1>0
      <3>2. Outdone(saves[m])
        BY <1>e, <3>1
      <3>3. ~saves[m].old
        BY <1>k DEF Saving, SavesOrdered
      <3> QED
        BY <3>2, <3>3 DEF Outdone
    <2>2. UpToDate(saves[n].snap)
      BY <1>k, <2>1 DEF Saving, NewestIsUpToDate, Outdone
    <2> QED
      BY <1>k, <2>2 DEF UpToDate, Stays
  <1> QED
    BY <1>1, <1>2, <1>3, <1>4 DEF Saving

LEMMA SpawnTyped == ASSUME FileTyped, Spawn PROVE spawned' \in 0..MaxSaves
  <1> DEFINE T == {n \in 1..Len(saves) : saves[n].by[1] = "spawned"}
  <1>1. IsFiniteSet(1..Len(saves)) /\ T \subseteq 1..Len(saves)
    BY FS_Interval DEF FileTyped
  <1> HIDE DEF T
  <1>2. Cardinality(T) \in Nat
    BY <1>1, FS_Subset, FS_CardinalityType
  <1>3. spawned + Cardinality(T) < MaxSaves /\ spawned' = spawned + 1
    BY DEF Spawn, T
  <1> QED
    BY <1>2, <1>3, SavesAssumption DEF FileTyped

(***************************************************************************)
(* Starts.                                                                 *)
(***************************************************************************)
\* A start puts the jobs of the file into structs that are free.
LEMMA Loading ==
  ASSUME FileTyped, NEW free \in SUBSET JobIds, NEW kept \in [JobIds -> JobType \cup {None}],
         \A j \in free : kept[j] = None,
         LoadFromFile(free, kept)
  PROVE  /\ jobs' \in [Keys -> JobIds \cup {None}] /\ job' \in [JobIds -> JobType \cup {None}]
         /\ \A j \in JobIds : kept[j] # None => job'[j] # None
         /\ \A k \in Keys : jobs'[k] # None =>
              jobs'[k] \in free /\ file.snap[k] \in JobType /\ job'[jobs'[k]] = file.snap[k]
  <1> HIDE DEF JobType
  <1> DEFINE at == CHOOSE f \in Injection(Loadable, free) : TRUE
  <1>t. /\ file.snap \in [Keys -> JobType \cup {None}]
        /\ \A k \in Loadable : k \in Keys /\ file.snap[k] \in JobType
    BY DEF FileTyped, FileType, Snapshots, Loadable
  <1>a. at \in Injection(Loadable, free)
    BY DEF LoadFromFile, ExistsInjection
  <1>b. /\ jobs' = [k \in Keys |-> IF k \in Loadable THEN at[k] ELSE None]
        /\ job' = [j \in JobIds |->
                      IF \E k \in Loadable : at[k] = j
                        THEN file.snap[CHOOSE k \in Loadable : at[k] = j] ELSE kept[j]]
    BY DEF LoadFromFile
  <1> HIDE DEF at
  <1>1. /\ at \in [Loadable -> free] /\ \A k \in Loadable : at[k] \in free
        /\ \A k, l \in Loadable : at[k] = at[l] => k = l
    BY <1>a DEF Injection, IsInjective
  <1>2. \A j \in JobIds : (\E k \in Loadable : at[k] = j) =>
           (CHOOSE k \in Loadable : at[k] = j) \in Loadable /\ at[CHOOSE k \in Loadable : at[k] = j] = j
    BY Zenon
  <1>3. \A j \in JobIds : (IF \E k \in Loadable : at[k] = j
                              THEN file.snap[CHOOSE k \in Loadable : at[k] = j] ELSE kept[j])
                           \in JobType \cup {None}
    BY <1>t, <1>2
  <1>4. jobs' \in [Keys -> JobIds \cup {None}] /\ job' \in [JobIds -> JobType \cup {None}]
    BY <1>1, <1>b, <1>3
  <1>5. \A k \in Loadable : at[k] \in JobIds /\ job'[at[k]] = file.snap[k]
    <2> TAKE k \in Loadable
    <2>1. at[k] \in JobIds
      BY <1>1
    <2>2. (CHOOSE l \in Loadable : at[l] = at[k]) = k
      BY <1>1, <1>2, <2>1
    <2> QED
      BY <1>b, <2>1, <2>2
  <1>6. \A k \in Keys : jobs'[k] # None => k \in Loadable /\ jobs'[k] = at[k]
    BY <1>b
  <1>7. \A j \in JobIds : kept[j] # None => job'[j] # None
    BY <1>1, <1>b
  <1> QED
    BY <1>1, <1>4, <1>5, <1>6, <1>7, <1>t

\* What the file has, the jobs are from then on.
LEMMA Loaded ==
  ASSUME FileTyped, file'.snap = file.snap, saves' \in Seq(SaveType),
         \A n \in 1..Len(saves') : saves'[n].former,
         \A n, m \in 1..Len(saves') : n < m /\ saves'[m].old => saves'[n].old,
         \A k \in Keys : jobs'[k] # None => job'[jobs'[k]] = file.snap[k] /\ file.snap[k] \in JobType
  PROVE  HasItems' /\ Saving'
  <1>1. \A k \in Keys : Pending(k)' =>
           file.snap[k] # None /\ file.snap[k].items # {} /\ job'[jobs'[k]] = file.snap[k]
    BY NoneIsNoJob DEF Pending, FileTyped, FileType, Snapshots, SnapshotOK
  <1>2. HasItems'
    BY <1>1 DEF HasItems
  <1>3. SavesOrdered' /\ NewestIsUpToDate'
    BY DEF SavesOrdered, NewestIsUpToDate, Outdone
  <1>4. FileIsUpToDate'
    BY <1>1 DEF FileIsUpToDate, UpToDate
  <1> QED
    BY <1>2, <1>3, <1>4 DEF Saving

LEMMA RestartInv == ASSUME ServiceInv, Restart PROVE ServiceInv'
  <1> USE DEF ServiceInv
  <1> DEFINE free == {j \in JobIds : Held[j] = None}
  <1>t. /\ run \in [Runs -> RunType] /\ proc \in [Procs -> ProcType] /\ job \in [JobIds -> JobType \cup {None}]
        /\ \A c \in Runs : run[c] \in RunType /\ RunHolds(run[c])
        /\ \A p \in Procs : proc[p] \in ProcType /\ ProcHolds(proc[p])
    BY DEF Sound, Typed, Shape
  <1>1. /\ \A c \in Runs : run[c].pc # "adding"
        /\ LoadFromFile(free, Held)
        /\ run' = [c \in Runs |-> [run[c] EXCEPT !.former = @ \/ Active(c)]]
        /\ proc' = [p \in Procs |-> [proc[p] EXCEPT !.former = @ \/ proc[p].job # None]]
        /\ spawned' = 0 /\ file' = [file EXCEPT !.lost = FALSE] /\ loaded' = ~UseWebdav /\ lib' = lib
    BY DEF Restart
  <1>2. Held \in [JobIds -> JobType \cup {None}]
    BY <1>t DEF Held
  <1>3. \A j \in JobIds : Held[j] # None <=> (RunsOn(j) # {} \/ ProcsOn(j) # {}) /\ job[j] # None
    BY DEF Held
  <1> HIDE DEF JobType, RunType, ProcType
  <1>4. /\ jobs' \in [Keys -> JobIds \cup {None}] /\ job' \in [JobIds -> JobType \cup {None}]
        /\ \A j \in JobIds : Held[j] # None => job'[j] # None
        /\ \A k \in Keys : jobs'[k] # None =>
             jobs'[k] \in free /\ file.snap[k] \in JobType /\ job'[jobs'[k]] = file.snap[k]
    <2>1. free \in SUBSET JobIds /\ \A j \in free : Held[j] = None
      OBVIOUS
    <2>2. PICK fr \in SUBSET JobIds : fr = free
      BY <2>1
    <2>3. PICK kept \in [JobIds -> JobType \cup {None}] : kept = Held
      BY <1>2
    <2>4. LoadFromFile(fr, kept)
      BY <1>1, <2>2, <2>3
    <2>5. \A j \in fr : kept[j] = None
      BY <2>1, <2>2, <2>3
    <2> HIDE DEF free
    <2> QED
      BY <2>2, <2>3, <2>4, <2>5, Loading
  <1>5. \A c \in Runs : /\ run'[c] \in RunType /\ run'[c].pc = run[c].pc /\ run'[c].job = run[c].job
                        /\ RunHolds(run'[c])
                        /\ run'[c].former <=> run[c].former \/ Active(c)
    <2> TAKE c \in Runs
    <2> DEFINE r == [run[c] EXCEPT !.former = @ \/ Active(c)]
    <2>1. run'[c] = r
      BY <1>1
    <2>2. /\ r \in RunType /\ r.pc = run[c].pc /\ r.job = run[c].job /\ r.req = run[c].req
          /\ r.left = run[c].left /\ r.todo = run[c].todo /\ r.held = run[c].held /\ r.found = run[c].found
      BY <1>t DEF RunType, Active
    <2>3. r.former <=> run[c].former \/ Active(c)
      BY <1>t DEF RunType
    <2> HIDE DEF r
    <2>4. RunHolds(r)
      BY <1>t, <2>2 DEF RunHolds
    <2> QED
      BY <2>1, <2>2, <2>3, <2>4
  <1>6. \A p \in Procs : /\ proc'[p] \in ProcType /\ proc'[p].job = proc[p].job /\ ProcHolds(proc'[p])
    <2> TAKE p \in Procs
    <2> DEFINE r == [proc[p] EXCEPT !.former = @ \/ proc[p].job # None]
    <2>1. proc'[p] = r
      BY <1>1
    <2>2. r \in ProcType /\ r.pc = proc[p].pc /\ r.job = proc[p].job /\ r.left = proc[p].left
      BY <1>t DEF ProcType
    <2> HIDE DEF r
    <2>3. ProcHolds(r)
      BY <1>t, <2>2 DEF ProcHolds
    <2> QED
      BY <2>1, <2>2, <2>3
  <1>7. Typed'
    <2>1. run' \in [Runs -> RunType] /\ proc' \in [Procs -> ProcType]
      BY <1>1, <1>5, <1>6
    <2>2. lib' \in [Media -> LibType] /\ loaded' \in BOOLEAN
      BY <1>1 DEF Sound, Typed
    <2> QED
      BY <1>4, <2>1, <2>2 DEF Typed
  <1>8. \A c \in Runs : run[c].job \in JobIds => Active(c) /\ job[run[c].job] # None
    BY <1>1, <1>t, ConstantsAssumption DEF Active, RunHolds, Sound, Shape, Live
  <1>9. \A p \in Procs : proc[p].job \in JobIds => job[proc[p].job] # None
    BY DEF Sound, Shape, Live
  <1>10. \A j \in JobIds : (\E c \in Runs : run[c].job = j) \/ (\E p \in Procs : proc[p].job = j) => Held[j] # None
    BY <1>3, <1>8, <1>9 DEF RunsOn, ProcsOn
  <1>11. Shape'
    <2>1. \A j \in JobIds : Live(j)' => job'[j] # None
      <3> TAKE j \in JobIds
      <3> HAVE Live(j)'
      <3>1. CASE \E k \in Keys : jobs'[k] = j
        BY <1>4, <3>1, ConstantsAssumption, NoneIsNoJob
      <3>2. CASE (\E c \in Runs : run'[c].job = j) \/ (\E p \in Procs : proc'[p].job = j)
        BY <1>4, <1>5, <1>6, <1>10, <3>2
      <3> QED
        BY <3>1, <3>2 DEF Live
    <2> QED
      BY <1>5, <1>6, <2>1 DEF Shape
  <1>12. FormerApart'
    <2> SUFFICES ASSUME NEW c \in Runs, run'[c].former
                 PROVE  /\ Active(c)'
                        /\ \A k \in Keys : jobs'[k] # run'[c].job
                        /\ \A d \in Runs : run'[d].pc = "adding" => run'[d].job # run'[c].job
      BY DEF FormerApart
    <2>1. Active(c)
      BY <1>5 DEF FormerApart
    <2>2. run[c].job \in JobIds
      BY <1>t, <2>1 DEF Active, RunHolds, RunType, RunPCs
    <2>3. \A k \in Keys : jobs'[k] # run[c].job
      BY <1>4, <1>10, <2>2, ConstantsAssumption
    <2> QED
      BY <1>1, <1>5, <2>1, <2>3 DEF Active
  <1>13. /\ saves' \in Seq(SaveType) /\ \A n \in 1..Len(saves') : saves'[n].former
         /\ \A n, m \in 1..Len(saves') : n < m /\ saves'[m].old => saves'[n].old
    <2> DEFINE S == [snap |-> NoJobs, by |-> <<"spawned", 0>>, former |-> TRUE, old |-> FALSE]
               T(n) == [saves[n] EXCEPT !.former = TRUE]
               L == Len(saves)
    <2>1. S \in SaveType /\ S.former /\ ~S.old
      <3>1. NoJobs \in Snapshots
        BY DEF NoJobs, Snapshots, SnapshotOK
      <3>2. <<"spawned", 0>> \in Writers
        BY DEF Writers
      <3> QED
        BY <3>1, <3>2 DEF SaveType
    <2>2. L \in Nat /\ spawned \in Nat /\ \A n \in 1..L : saves[n] \in SaveType
      BY SavesAssumption DEF FileTyped
    <2>3. \A n \in 1..L : T(n) \in SaveType /\ T(n).former /\ T(n).old = saves[n].old
      BY <2>2 DEF SaveType
    <2>4. saves' = [n \in 1..(L + spawned) |-> IF n <= L THEN T(n) ELSE S]
      BY DEF Restart
    <2> HIDE DEF S, T, SaveType
    <2>5. saves' \in Seq(SaveType) /\ Len(saves') = L + spawned
      <3>1. \A n \in 1..(L + spawned) : (IF n <= L THEN T(n) ELSE S) \in SaveType
        BY <2>1, <2>2, <2>3
      <3>2. L + spawned \in Nat
        BY <2>2
      <3> QED
        BY <2>4, <3>1, <3>2
    <2>6. \A n \in 1..(L + spawned) : saves'[n].former /\ (saves'[n].old => n <= L /\ saves[n].old)
          /\ (n <= L => saves'[n].old = saves[n].old)
      BY <2>1, <2>2, <2>3, <2>4
    <2>7. \A n, m \in 1..(L + spawned) : n < m /\ saves'[m].old => saves'[n].old
      <3> SUFFICES ASSUME NEW n \in 1..(L + spawned), NEW m \in 1..(L + spawned), n < m, saves'[m].old
                   PROVE  saves'[n].old
        OBVIOUS
      <3>1. m \in 1..L /\ n \in 1..L /\ saves[m].old
        BY <2>2, <2>6
      <3> QED
        BY <2>2, <2>6, <3>1 DEF Saving, SavesOrdered
    <2> QED
      BY <2>5, <2>6, <2>7
  <1>14. file' \in FileType /\ file'.snap = file.snap
    BY <1>1 DEF FileTyped, FileType
  <1>15. FileTyped'
    BY <1>1, <1>13, <1>14, SavesAssumption DEF FileTyped
  <1>16. HasItems' /\ Saving'
    BY <1>4, <1>13, <1>14, Loaded
  <1> QED
    BY <1>7, <1>11, <1>12, <1>15, <1>16 DEF Sound

\* After the process has died no goroutine is left.
LEMMA DeadInv ==
  ASSUME ServiceInv, Dies, file' \in FileType,
         jobs' \in [Keys -> JobIds \cup {None}], job' \in [JobIds -> JobType \cup {None}],
         \A k \in Keys : jobs'[k] # None => job'[jobs'[k]] = file'.snap[k] /\ file'.snap[k] \in JobType
  PROVE  ServiceInv'
  <1> USE DEF ServiceInv
  <1>1. IdleRun \in RunType /\ RunHolds(IdleRun) /\ IdleRun.job = None /\ ~IdleRun.former
    BY DEF IdleRun, RunType, RunPCs, RunHolds
  <1>2. IdleProc \in ProcType /\ ProcHolds(IdleProc) /\ IdleProc.job = None
    BY DEF IdleProc, ProcType, ProcPCs, ProcHolds
  <1>3. /\ run' = [c \in Runs |-> IdleRun] /\ proc' = [p \in Procs |-> IdleProc]
        /\ spawned' = 0 /\ saves' = <<>> /\ loaded' \in BOOLEAN /\ lib' = lib
    BY DEF Dies
  <1> HIDE DEF RunType, ProcType, JobType, IdleRun, IdleProc
  <1>4. Typed'
    BY <1>1, <1>2, <1>3 DEF Sound, Typed
  <1>5. Shape'
    <2>1. \A j \in JobIds : Live(j)' => job'[j] # None
      BY <1>1, <1>2, <1>3, ConstantsAssumption, NoneIsNoJob DEF Live
    <2> QED
      BY <1>1, <1>2, <1>3, <2>1 DEF Shape
  <1>6. FormerApart'
    BY <1>1, <1>3 DEF FormerApart
  <1>7. saves' \in Seq(SaveType) /\ Len(saves') = 0
    BY <1>3
  <1>8. FileTyped'
    BY <1>3, <1>7, SavesAssumption DEF FileTyped
  <1>9. \A k \in Keys : Pending(k)' =>
           file'.snap[k] # None /\ file'.snap[k].items # {} /\ job'[jobs'[k]] = file'.snap[k]
    BY NoneIsNoJob DEF Pending, FileType, Snapshots, SnapshotOK
  <1>10. HasItems'
    BY <1>9 DEF HasItems
  <1>11. Saving'
    BY <1>7, <1>9 DEF Saving, SavesOrdered, NewestIsUpToDate, FileIsUpToDate, UpToDate
  <1> QED
    BY <1>4, <1>5, <1>6, <1>8, <1>10, <1>11 DEF Sound

LEMMA CrashInv == ASSUME ServiceInv, Crash \/ CrashWriting PROVE ServiceInv'
  <1> USE DEF ServiceInv
  <1> DEFINE none == [j \in JobIds |-> None]
  <1>1. CASE Crash
    <2>1. Dies /\ LoadFromFile(JobIds, none) /\ file' = [file EXCEPT !.lost = FALSE]
      BY <1>1 DEF Crash
    <2>2. file' \in FileType /\ file'.snap = file.snap
      BY <2>1 DEF FileTyped, FileType
    <2>3. none \in [JobIds -> JobType \cup {None}] /\ \A j \in JobIds : none[j] = None
      OBVIOUS
    <2> HIDE DEF none
    <2>4. /\ jobs' \in [Keys -> JobIds \cup {None}] /\ job' \in [JobIds -> JobType \cup {None}]
          /\ \A k \in Keys : jobs'[k] # None => file.snap[k] \in JobType /\ job'[jobs'[k]] = file.snap[k]
      BY <2>1, <2>3, Loading
    <2> QED
      BY <2>1, <2>2, <2>4, DeadInv
  <1>2. CASE CrashWriting
    <2>1. Dies /\ jobs' = NoJobs /\ job' = none /\ file' = [snap |-> NoJobs, lost |-> FALSE]
      BY <1>2 DEF CrashWriting
    <2>2. NoJobs \in Snapshots /\ NoJobs \in [Keys -> JobIds \cup {None}] /\ \A k \in Keys : NoJobs[k] = None
      BY DEF NoJobs, Snapshots, SnapshotOK
    <2>3. file' \in FileType
      BY <2>1, <2>2 DEF FileType
    <2>4. none \in [JobIds -> JobType \cup {None}]
      OBVIOUS
    <2> HIDE DEF none
    <2> QED
      BY <2>1, <2>2, <2>3, <2>4, DeadInv
  <1> QED
    BY <1>1, <1>2

(***************************************************************************)
(* The specification.                                                      *)
(***************************************************************************)
\* A step of RepairJobs that makes no job pending, with what it does to the saves.
LEMMA StayingInv ==
  ASSUME ServiceInv, Next, Stays,
         \/ UNCHANGED fileVars
         \/ Spawn
         \/ \E w : Write(w)
         \/ \E w \in Writers, former \in BOOLEAN : Marshal(w, former)
  PROVE  ServiceInv'
  <1> USE DEF ServiceInv
  <1>1. Sound' /\ FormerApart' /\ HasItems'
    <2>1. Sound'
      BY SoundStep
    <2> QED
      BY <2>1, FormerStep, StaysItems
  <1>2. CASE UNCHANGED fileVars
    <2>1. saves' = saves /\ file' = file /\ spawned' \in 0..MaxSaves
      BY <1>2 DEF fileVars, FileTyped
    <2> QED
      BY <1>1, <2>1, SavesSame
  <1>3. CASE Spawn
    <2>1. saves' = saves /\ file' = file /\ spawned' \in 0..MaxSaves
      BY <1>3, SpawnTyped DEF Spawn
    <2> QED
      BY <1>1, <2>1, SavesSame
  <1>4. ASSUME NEW w, Write(w) PROVE ServiceInv'
    BY <1>1, <1>4, SavesWritten
  <1>5. ASSUME NEW w \in Writers, NEW former \in BOOLEAN, Marshal(w, former) PROVE ServiceInv'
    <2>1. PICK snap \in Snapshots : snap = Snapshot(former) /\ (~former => UpToDate(snap)')
      BY <1>1, Marshalled
    <2>2. PICK s \in SaveType : s = [snap |-> snap, by |-> w, former |-> former, old |-> FALSE]
      BY DEF SaveType
    <2>3. /\ saves' = Append(saves, s) /\ file' = file /\ spawned' \in 0..MaxSaves
          /\ ~s.old /\ s.former = former /\ s.snap = snap
      BY <1>5, <2>1, <2>2 DEF Marshal, FileTyped
    <2>4. ~s.former => UpToDate(s.snap)'
      BY <2>1, <2>3 DEF UpToDate
    <2> HIDE DEF SaveType
    <2> QED
      BY <1>1, <2>3, <2>4, SavesMore
  <1> QED
    BY <1>2, <1>3, <1>4, <1>5

\* A run's result: the only step that makes a job pending.
LEMMA SettlingInv ==
  ASSUME ServiceInv, NEW c \in Runs, Settle(c), Marshal(<<"run", c>>, run[c].former)
  PROVE  ServiceInv'
  <1> USE DEF ServiceInv
  <1>1. Next
    BY DEF Next, RunStep
  <1>2. Sound' /\ FormerApart'
    BY <1>1, SoundStep, FormerStep
  <1>3. HasItems'
    BY <1>2, ItemsSettle
  <1>4. run[c].former \in BOOLEAN /\ <<"run", c>> \in Writers
    BY DEF Sound, Typed, RunType, Writers
  <1>5. PICK former \in BOOLEAN : former = run[c].former
    BY <1>4
  <1>6. former => Stays
    BY <1>2, <1>5, StaysSettle DEF FormerApart
  <1>7. PICK snap \in Snapshots : snap = Snapshot(former) /\ (~former => UpToDate(snap)')
    BY <1>2, <1>3, Marshalled
  <1>8. PICK s \in SaveType : s = [snap |-> snap, by |-> <<"run", c>>, former |-> former, old |-> FALSE]
    BY <1>4 DEF SaveType
  <1>9. /\ saves' = Append(saves, s) /\ file' = file /\ spawned' \in 0..MaxSaves
        /\ ~s.old /\ s.former = former /\ s.snap = snap
    BY <1>5, <1>7, <1>8 DEF Marshal, FileTyped
  <1>10. ~s.former => UpToDate(s.snap)'
    BY <1>7, <1>9 DEF UpToDate
  <1> HIDE DEF SaveType
  <1>11. FileTyped' /\ Saving'
    BY <1>6, <1>9, <1>10, SavesMore
  <1> QED
    BY <1>2, <1>3, <1>11

\* A step of the saves alone.
LEMMA SpawnedInv ==
  ASSUME ServiceInv, UNCHANGED vars, SaveSpawned \/ WriteSpawned \/ UNCHANGED fileVars
  PROVE  ServiceInv'
  <1> USE DEF ServiceInv
  <1>1. Sound'
    BY SoundStep
  <1>2. Stays
    BY DEF vars, Stays, Pending
  <1>3. HasItems' /\ FormerApart'
    BY <1>2, StaysItems DEF vars, FormerApart, Active
  <1>4. CASE SaveSpawned
    <2>1. PICK snap \in Snapshots : snap = Snapshot(FALSE) /\ UpToDate(snap)'
      BY <1>1, <1>3, Marshalled
    <2>2. <<"spawned", 0>> \in Writers
      BY DEF Writers
    <2>3. PICK s \in SaveType : s = [snap |-> snap, by |-> <<"spawned", 0>>, former |-> FALSE, old |-> FALSE]
      BY <2>2 DEF SaveType
    <2>4. /\ saves' = Append(saves, s) /\ file' = file /\ spawned' \in 0..MaxSaves
          /\ ~s.old /\ ~s.former /\ s.snap = snap
      BY <1>4, <2>1, <2>3, SavesAssumption DEF SaveSpawned, FileTyped
    <2>5. UpToDate(s.snap)'
      BY <2>1, <2>4 DEF UpToDate
    <2> HIDE DEF SaveType
    <2> QED
      BY <1>1, <1>3, <2>4, <2>5, SavesMore
  <1>5. CASE WriteSpawned
    BY <1>1, <1>2, <1>3, <1>5, SavesWritten DEF WriteSpawned
  <1>6. CASE UNCHANGED fileVars
    <2>1. saves' = saves /\ file' = file /\ spawned' \in 0..MaxSaves
      BY <1>6 DEF fileVars, FileTyped
    <2> QED
      BY <1>1, <1>2, <1>3, <2>1, SavesSame
  <1> QED
    BY <1>4, <1>5, <1>6

LEMMA ServiceInvInit == ServiceInit => ServiceInv
  <1> SUFFICES ASSUME ServiceInit PROVE ServiceInv
    OBVIOUS
  <1>1. Sound /\ \A k \in Keys : ~Pending(k)
    BY SoundInit DEF ServiceInit, Init, Pending
  <1>2. FormerApart
    BY DEF ServiceInit, Init, FormerApart, IdleRun
  <1>3. NoJobs \in Snapshots
    BY DEF NoJobs, Snapshots, SnapshotOK
  <1>4. FileTyped
    BY <1>3, SavesAssumption DEF ServiceInit, FileTyped, FileType
  <1>5. HasItems /\ Saving
    BY <1>1 DEF ServiceInit, HasItems, Saving, SavesOrdered, NewestIsUpToDate, FileIsUpToDate, UpToDate
  <1> QED
    BY <1>1, <1>2, <1>4, <1>5 DEF ServiceInv

LEMMA ServiceInvStep == ServiceInv /\ [ServiceNext]_allVars => ServiceInv'
  <1> SUFFICES ASSUME ServiceInv, [ServiceNext]_allVars PROVE ServiceInv'
    OBVIOUS
  <1>s. Sound /\ (Next => Sound')
    BY SoundStep DEF ServiceInv
  <1>0. CASE UNCHANGED allVars
    BY <1>0, SpawnedInv DEF allVars
  <1>1. ASSUME NEW c \in Runs, ServiceRun(c) PROVE ServiceInv'
    <2>1. CASE StartJob(c) /\ Spawn
      <3>1. Next
        BY <2>1 DEF Next, RunStep
      <3> QED
        BY <1>s, <2>1, <3>1, StaysStart, StayingInv
    <2>2. CASE (PreRunChecks(c) \/ Scan(c) \/ MarkFailed(c)) /\ UNCHANGED fileVars
      <3>1. Next
        BY <2>2 DEF Next, RunStep
      <3> QED
        BY <1>s, <2>2, <3>1, StaysRun, StayingInv
    <2>3. CASE PreRunFails(c) /\ Marshal(<<"run", c>>, run[c].former)
      <3>1. Next
        BY <2>3 DEF Next, RunStep
      <3>2. run[c].former \in BOOLEAN /\ <<"run", c>> \in Writers
        BY <1>s DEF Sound, Typed, RunType, Writers
      <3> QED
        BY <1>s, <2>3, <3>1, <3>2, StaysRun, StayingInv
    <2>4. CASE Settle(c) /\ Marshal(<<"run", c>>, run[c].former)
      BY <2>4, SettlingInv
    <2>5. CASE Saved(c) /\ Write(<<"run", c>>)
      <3>1. Next
        BY <2>5 DEF Next, RunStep
      <3> QED
        BY <1>s, <2>5, <3>1, StaysRun, StayingInv
    <2> QED
      BY <1>1, <2>1, <2>2, <2>3, <2>4, <2>5 DEF ServiceRun, Returns, Settle
  <1>2. ASSUME NEW p \in Procs, ServiceProc(p) PROVE ServiceInv'
    <2>1. ProcStep(p)
      BY <1>2 DEF ServiceProc, ProcStep
    <2>2. Next
      BY <2>1 DEF Next
    <2>3. Stays
      BY <1>s, <2>1, <2>2, StaysProc
    <2>4. proc[p].former \in BOOLEAN /\ <<"proc", p>> \in Writers
      BY <1>s DEF Sound, Typed, ProcType, Writers
    <2>5. \/ UNCHANGED fileVars \/ Marshal(<<"proc", p>>, proc[p].former) \/ Write(<<"proc", p>>)
      BY <1>2 DEF ServiceProc
    <2> QED
      BY <2>2, <2>3, <2>4, <2>5, StayingInv
  <1>3. CASE ServiceCall \/ (World /\ UNCHANGED fileVars)
    <2>1. Call \/ World
      BY <1>3 DEF ServiceCall, Call
    <2>2. Next
      BY <2>1 DEF Next
    <2>3. Stays
      BY <1>s, <2>1, <2>2, StaysCall
    <2>4. UNCHANGED fileVars \/ Spawn
      BY <1>3 DEF ServiceCall
    <2> QED
      BY <2>2, <2>3, <2>4, StayingInv
  <1>4. CASE SaveSpawned \/ WriteSpawned
    BY <1>4, SpawnedInv DEF SaveSpawned, WriteSpawned
  <1> QED
    BY <1>0, <1>1, <1>2, <1>3, <1>4, RestartInv, CrashInv DEF ServiceNext

THEOREM ServiceInvHolds == ServiceSpec => []ServiceInv
  BY ServiceInvInit, ServiceInvStep, PTL DEF ServiceSpec

\* Whatever is written in whatever order, and whenever the service stops,
\* restarts or dies, repair.json and the contents on their way to it hold
\* pending jobs with items only: a start restores no other (saveToFile,
\* loadFromFile).
THEOREM FileTypeCorrect == ServiceSpec => []FileTypeOK
  <1>1. ServiceInv => FileTypeOK
    <2> SUFFICES ASSUME ServiceInv PROVE FileTypeOK
      OBVIOUS
    <2>1. \A n \in 1..Len(saves) : saves[n] \in SaveType
      BY DEF ServiceInv, FileTyped
    <2> QED
      BY <2>1 DEF ServiceInv, FileTyped, SaveType, FileType, Snapshots, FileTypeOK
  <1> QED
    BY <1>1, ServiceInvHolds, PTL

\* No pending job is lost to a restart or a crash, unless older contents or a
\* former service's were written last (saveToFile).
THEOREM PendingSurvives == ServiceSpec => []PendingIsSaved
  <1>1. ServiceInv => PendingIsSaved
    BY DEF ServiceInv, Saving, FileIsUpToDate, UpToDate, Pending, Outdone, PendingIsSaved
  <1> QED
    BY <1>1, ServiceInvHolds, PTL
=============================================================================
