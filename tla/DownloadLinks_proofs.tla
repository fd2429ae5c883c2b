------------------------ MODULE DownloadLinks_proofs ------------------------
(***************************************************************************)
(* For any number of open files, links and urls: whoever waits is waiting  *)
(* for a reader that is fetching; where files have links, each is read     *)
(* from a url of its own; and a url that was marked is not taken again,    *)
(* unless the client gives it again and again.                             *)
(***************************************************************************)
EXTENDS DownloadLinks, TLAPS

\* The urls in a reader's hands are its file's.
OwnUrls(r) ==
    /\ r.own \in Urls => r.own.file = r.file
    /\ r.got \in Urls => r.got.file = r.file

\* What a control point needs of the locals.
InPlace(r) ==
    /\ r.pc # "closed" => r.file \in Files /\ r.key \in Keys
    /\ r.pc # "closed" /\ Linked => r.key # Empty /\ r.key[1] = r.file
    /\ r.pc \in {"update", "request", "mark"} => r.got \in Urls
    /\ r.pc \in {"unrestrict", "reinsert"} => r.fetch \in 1..MaxLinks
    /\ Linked => OwnUrls(r)

Fetches(r) == r.pc \in {"unrestrict", "reinsert", "update", "complete"}
Holds(r) == Fetches(r) \/ r.pc = "delete"

\* A reader waits for one that fetches under the same key.
Waits(L, r) == r.pc = "wait" => r.on \in Readers /\ Fetches(L[r.on]) /\ L[r.on].key = r.key

\* An entry of downloadLinkRequests is of a reader that has not deleted it yet.
Entry(L, Q, k) == Q[k] # None => Holds(L[Q[k]]) /\ L[Q[k]].key = k

\* Readers L and requests Q fit each other.
Good(L, Q) ==
    /\ L \in [Readers -> Locals]
    /\ Q \in [Keys -> Readers \cup {None}]
    /\ \A t \in Readers : InPlace(L[t]) /\ Waits(L, L[t])
    /\ \A k \in Keys : Entry(L, Q, k)

\* A url is cached under its own link.
Cached(C) ==
    /\ C \in [Keys -> Urls \cup {None}]
    /\ Linked => \A k \in Keys \ {Empty} : C[k] \in Urls => C[k].file = k[1]

Sound ==
    /\ current \in 1..MaxLinks /\ invalid \in SUBSET Urls
    /\ Good(loc, requests) /\ Cached(links)

-----------------------------------------------------------------------------
(* Facts about the constants                                               *)

LEMMA NoneApart ==
    /\ None \notin Files /\ None \notin Readers /\ None \notin Urls /\ None \notin Keys
BY ConstantsAssumption

LEMMA UrlParts == \A u \in Urls : u.file \in Files /\ u.link \in 1..MaxLinks
BY ConstantsAssumption

LEMMA KeyParts ==
    ASSUME NEW f \in Files, NEW l \in 1..MaxLinks
    PROVE  /\ FileLink(f, l) \in Keys
           /\ Linked => FileLink(f, l) # Empty /\ FileLink(f, l)[1] = f
BY DEF FileLink, Keys, Empty

LEMMA ClosedOK == Closed \in Locals /\ InPlace(Closed)
BY NoneApart DEF Closed, Locals, PCs, InPlace, OwnUrls

-----------------------------------------------------------------------------
(* What the helpers make of a reader's locals                              *)

LEMMA GotoOK ==
    ASSUME NEW r \in Locals, InPlace(r), r.pc # "closed", NEW p \in PCs,
           p \in {"update", "request", "mark"} => r.got \in Urls,
           p \in {"unrestrict", "reinsert"} => r.fetch \in 1..MaxLinks
    PROVE  LET s == [r EXCEPT !.pc = p]
           IN  s \in Locals /\ InPlace(s) /\ s.pc = p /\ s.key = r.key
<1> DEFINE s == [r EXCEPT !.pc = p]
<1>1. /\ s \in Locals /\ s.pc = p /\ s.key = r.key
      /\ s.file = r.file /\ s.own = r.own /\ s.got = r.got /\ s.fetch = r.fetch
  BY DEF Locals
<1> HIDE DEF s
<1>2. InPlace(s)
  BY <1>1 DEF InPlace, OwnUrls
<1> QED
  BY <1>1, <1>2 DEF s

LEMMA AtRestOK ==
    ASSUME NEW r \in Locals, InPlace(r), r.pc # "closed"
    PROVE  LET s == AtRest(r)
           IN  s \in Locals /\ InPlace(s) /\ s.pc = "idle" /\ s.key = r.key
<1> DEFINE s == AtRest(r)
<1>1. /\ s \in Locals /\ s.pc = "idle" /\ s.key = r.key
      /\ s.file = r.file /\ s.own = r.own /\ s.got = None
  BY DEF AtRest, Closed, Locals, PCs
<1> HIDE DEF s
<1>2. InPlace(s)
  BY <1>1, NoneApart DEF InPlace, OwnUrls
<1> QED
  BY <1>1, <1>2 DEF s

LEMMA AnswerOK ==
    ASSUME NEW r \in Locals, InPlace(r), r.pc # "closed", NEW u \in Urls \cup {None},
           Linked /\ u # None => u.file = r.file
    PROVE  LET s == Answer(r, u)
           IN  s \in Locals /\ InPlace(s) /\ s.pc \in {"idle", "request"} /\ s.key = r.key
<1> DEFINE s == Answer(r, u)
<1>1. CASE u = None
  BY <1>1, AtRestOK DEF Answer
<1>2. CASE u # None
  <2> DEFINE q == [pc |-> "request", file |-> r.file, key |-> r.key, own |-> u, got |-> u,
                   bad |-> r.bad, fetch |-> None, on |-> None, again |-> r.again, late |-> FALSE]
  <2>1. s = q
    BY <1>2 DEF Answer, AtRest, Closed
  <2> HIDE DEF s
  <2>2. u \in Urls
    BY <1>2
  <2>3. /\ q \in Locals /\ q.pc = "request" /\ q.key = r.key
        /\ q.file = r.file /\ q.own = u /\ q.got = u
    BY <2>2 DEF Locals, PCs
  <2> HIDE DEF q
  <2>4. InPlace(q)
    BY <1>2, <2>3, NoneApart DEF InPlace, OwnUrls
  <2> QED
    BY <2>1, <2>3, <2>4 DEF s
<1> QED
  BY <1>1, <1>2

LEMMA AgainOK ==
    ASSUME NEW r \in Locals, InPlace(r), r.pc # "closed",
           NEW b \in Urls \cup {None}, NEW c \in BOOLEAN
    PROVE  LET s == [r EXCEPT !.pc = "check", !.bad = b, !.again = c]
           IN  s \in Locals /\ InPlace(s) /\ s.pc = "check"
<1> DEFINE s == [r EXCEPT !.pc = "check", !.bad = b, !.again = c]
<1>1. /\ s \in Locals /\ s.pc = "check" /\ s.key = r.key
      /\ s.file = r.file /\ s.own = r.own /\ s.got = r.got
  <2> DEFINE n == [r EXCEPT !.bad = b]
             m == [n EXCEPT !.again = c]
  <2>0. /\ n \in Locals /\ n.key = r.key
        /\ n.file = r.file /\ n.own = r.own /\ n.got = r.got
    BY DEF Locals
  <2>2. s = [m EXCEPT !.pc = "check"]
    BY DEF Locals
  <2> HIDE DEF n
  <2>1. /\ m \in Locals /\ m.key = r.key
        /\ m.file = r.file /\ m.own = r.own /\ m.got = r.got
    BY <2>0 DEF Locals
  <2> HIDE DEF m, s
  <2> QED
    BY <2>1, <2>2 DEF Locals, PCs
<1> HIDE DEF s
<1>2. InPlace(s)
  BY <1>1 DEF InPlace, OwnUrls
<1> QED
  BY <1>1, <1>2 DEF s

-----------------------------------------------------------------------------
(* What keeps readers and requests fitting                                 *)

\* One reader goes on: it does not leave a fetch except by Complete, nor its
\* entry except by DeleteRequest, and it begins to wait only for a fetch.
LEMMA GoodStep ==
    ASSUME NEW L, NEW Q, Good(L, Q), NEW t \in Readers, NEW r \in Locals, InPlace(r),
           Fetches(L[t]) => Fetches(r) /\ r.key = L[t].key,
           L[t].pc # "delete", Waits(L, r)
    PROVE  Good([L EXCEPT ![t] = r], Q)
<1> DEFINE M == [L EXCEPT ![t] = r]
<1>1. /\ M \in [Readers -> Locals] /\ M[t] = r
      /\ \A u \in Readers : u # t => M[u] = L[u]
  BY DEF Good
<1> HIDE DEF M
<1>2. \A u \in Readers : Fetches(L[u]) => Fetches(M[u]) /\ M[u].key = L[u].key
  BY <1>1
<1>3. \A u \in Readers : Holds(L[u]) => Holds(M[u]) /\ M[u].key = L[u].key
  BY <1>1, <1>2 DEF Holds
<1>4. ASSUME NEW u \in Readers PROVE InPlace(M[u]) /\ Waits(M, M[u])
  <2>1. InPlace(M[u]) /\ Waits(L, M[u])
    BY <1>1 DEF Good
  <2> QED
    BY <1>2, <2>1 DEF Waits
<1>5. ASSUME NEW k \in Keys PROVE Entry(M, Q, k)
  <2>1. Q[k] \in Readers \cup {None} /\ Entry(L, Q, k)
    BY DEF Good
  <2> QED
    BY <1>3, <2>1 DEF Entry
<1>6. Q \in [Keys -> Readers \cup {None}]
  BY DEF Good
<1> QED
  BY <1>1, <1>4, <1>5, <1>6 DEF Good, M

\* bad is of no account.
LEMMA GoodRenew ==
    ASSUME NEW L, NEW M, NEW Q, Good(L, Q), M \in [Readers -> Locals],
           \A u \in Readers : M[u] = L[u] \/ M[u] = [L[u] EXCEPT !.bad = None]
    PROVE  Good(M, Q)
<1>1. L \in [Readers -> Locals]
  BY DEF Good
<1>2. ASSUME NEW u \in Readers
      PROVE  /\ M[u].pc = L[u].pc /\ M[u].file = L[u].file /\ M[u].key = L[u].key
             /\ M[u].own = L[u].own /\ M[u].got = L[u].got /\ M[u].fetch = L[u].fetch
             /\ M[u].on = L[u].on
  <2>1. L[u] \in Locals
    BY <1>1
  <2> QED
    BY <2>1 DEF Locals
<1>3. ASSUME NEW u \in Readers
      PROVE  (Fetches(M[u]) <=> Fetches(L[u])) /\ (Holds(M[u]) <=> Holds(L[u]))
  BY <1>2 DEF Fetches, Holds
<1>4. ASSUME NEW u \in Readers PROVE InPlace(M[u]) /\ Waits(M, M[u])
  <2>1. InPlace(L[u]) /\ Waits(L, L[u])
    BY DEF Good
  <2>2. InPlace(M[u])
    BY <1>2, <2>1 DEF InPlace, OwnUrls
  <2>3. Waits(M, M[u])
    BY <1>2, <1>3, <2>1 DEF Waits
  <2> QED
    BY <2>2, <2>3
<1>5. ASSUME NEW k \in Keys PROVE Entry(M, Q, k)
  <2>1. Q[k] \in Readers \cup {None} /\ Entry(L, Q, k)
    BY DEF Good
  <2> QED
    BY <1>2, <1>3, <2>1 DEF Entry
<1>6. Q \in [Keys -> Readers \cup {None}]
  BY DEF Good
<1> QED
  BY <1>4, <1>5, <1>6 DEF Good

LEMMA RenewedOK ==
    ASSUME Good(loc, requests), NEW u \in Urls
    PROVE  Good(Renewed(u), requests)
<1>1. loc \in [Readers -> Locals]
  BY DEF Good
<1>2. ASSUME NEW t \in Readers
      PROVE  /\ Renewed(u)[t] = loc[t] \/ Renewed(u)[t] = [loc[t] EXCEPT !.bad = None]
             /\ Renewed(u)[t] \in Locals
  <2>1. loc[t] \in Locals
    BY <1>1
  <2> QED
    BY <2>1 DEF Renewed, Locals
<1>3. Renewed(u) \in [Readers -> Locals]
  BY <1>2 DEF Renewed
<1> QED
  BY <1>2, <1>3, GoodRenew

\* A step of one reader that leaves the requests alone.
Goes(t, r) ==
    /\ r \in Locals /\ InPlace(r)
    /\ Fetches(loc[t]) => Fetches(r) /\ r.key = loc[t].key
    /\ loc[t].pc # "delete" /\ Waits(loc, r)
    /\ loc' = [loc EXCEPT ![t] = r] /\ requests' = requests

LEMMA GoesOK ==
    ASSUME Good(loc, requests), NEW t \in Readers, NEW r, Goes(t, r)
    PROVE  Good(loc', requests')
BY GoodStep DEF Goes

LEMMA ReaderOK ==
    ASSUME Good(loc, requests), NEW t \in Readers
    PROVE  loc[t] \in Locals /\ InPlace(loc[t])
BY DEF Good

LEMMA OpenGood ==
    ASSUME Sound, NEW t \in Readers, Open(t)
    PROVE  Good(loc', requests')
<1>1. PICK f \in Files :
         loc' = [loc EXCEPT ![t] = [Closed EXCEPT !.pc = "idle", !.file = f,
                                                  !.key = FileLink(f, current)]]
  BY DEF Open
<1> DEFINE r == [Closed EXCEPT !.pc = "idle", !.file = f, !.key = FileLink(f, current)]
<1>2. /\ FileLink(f, current) \in Keys
      /\ Linked => FileLink(f, current) # Empty /\ FileLink(f, current)[1] = f
  BY KeyParts DEF Sound
<1>3. /\ r \in Locals /\ r.pc = "idle" /\ r.file = f /\ r.key = FileLink(f, current)
      /\ r.own = None /\ r.got = None
  BY <1>2 DEF Closed, Locals, PCs
<1>4. loc' = [loc EXCEPT ![t] = r] /\ requests' = requests /\ loc[t].pc = "closed"
  BY <1>1 DEF Open, cacheVars
<1> HIDE DEF r
<1>5. InPlace(r)
  BY <1>2, <1>3, NoneApart DEF InPlace, OwnUrls
<1>6. Goes(t, r)
  BY <1>3, <1>4, <1>5 DEF Goes, Fetches, Waits
<1> QED
  BY <1>6, GoesOK DEF Sound

LEMMA CloseGood ==
    ASSUME Sound, NEW t \in Readers, Close(t)
    PROVE  Good(loc', requests')
<1>1. Closed.pc = "closed"
  BY DEF Closed
<1>2. Goes(t, Closed)
  BY <1>1, ClosedOK DEF Close, cacheVars, Goes, Fetches, Waits
<1> QED
  BY <1>2, GoesOK DEF Sound

\* Goto, where it is allowed.
LEMMA GotoGood ==
    ASSUME Sound, NEW t \in Readers, NEW p \in PCs, Goto(t, p), requests' = requests,
           loc[t].pc \notin {"closed", "delete"}, p # "wait",
           loc[t].pc \in {"unrestrict", "reinsert", "update", "complete"}
             => p \in {"unrestrict", "reinsert", "update", "complete"},
           p \in {"update", "request", "mark"} => loc[t].got \in Urls,
           p \in {"unrestrict", "reinsert"} => loc[t].fetch \in 1..MaxLinks
    PROVE  Good(loc', requests')
<1>1. Good(loc, requests) /\ loc[t] \in Locals /\ InPlace(loc[t])
  BY ReaderOK DEF Sound
<1> DEFINE r == [loc[t] EXCEPT !.pc = p]
<1>2. r \in Locals /\ InPlace(r) /\ r.pc = p /\ r.key = loc[t].key
  BY <1>1, GotoOK
<1>3. loc' = [loc EXCEPT ![t] = r]
  BY <1>1 DEF Goto, Good
<1> HIDE DEF r
<1>4. Goes(t, r)
  BY <1>2, <1>3 DEF Goes, Fetches, Waits
<1> QED
  BY <1>1, <1>4, GoesOK

\* A reader that holds no request takes an answer.
LEMMA AnswerGood ==
    ASSUME Sound, NEW t \in Readers, NEW u \in Urls \cup {None},
           loc' = [loc EXCEPT ![t] = Answer(@, u)], requests' = requests,
           loc[t].pc # "closed", ~Holds(loc[t]),
           Linked /\ u # None => u.file = loc[t].file
    PROVE  Good(loc', requests')
<1>1. Good(loc, requests) /\ loc[t] \in Locals /\ InPlace(loc[t])
  BY ReaderOK DEF Sound
<1> DEFINE r == Answer(loc[t], u)
<1>2. r \in Locals /\ InPlace(r) /\ r.pc \in {"idle", "request"}
  BY <1>1, AnswerOK
<1>3. loc' = [loc EXCEPT ![t] = r]
  OBVIOUS
<1> HIDE DEF r
<1>4. Goes(t, r)
  BY <1>2, <1>3 DEF Goes, Fetches, Holds, Waits
<1> QED
  BY <1>1, <1>4, GoesOK

\* The cache's url for a reader's key is one of its file.
LEMMA CachedIsOwn ==
    ASSUME Sound, NEW t \in Readers, loc[t].pc # "closed"
    PROVE  LET u == links[loc[t].key]
           IN  /\ loc[t].key \in Keys /\ u \in Urls \cup {None}
               /\ Linked /\ u # None => u.file = loc[t].file
<1>1. InPlace(loc[t])
  BY ReaderOK DEF Sound
<1> QED
  BY <1>1 DEF InPlace, Sound, Cached

LEMMA ReadGood ==
    ASSUME Sound, NEW t \in Readers, Read(t)
    PROVE  Good(loc', requests')
<1>1. Good(loc, requests) /\ loc[t] \in Locals /\ InPlace(loc[t])
  BY ReaderOK DEF Sound
<1>2. CASE loc[t].own = None
  BY <1>2, GotoGood DEF Read, cacheVars, PCs
<1>3. CASE loc[t].own # None
  <2> DEFINE r == [loc[t] EXCEPT !.pc = "request", !.got = loc[t].own]
  <2>1. loc[t].own \in Urls
    BY <1>1, <1>3 DEF Locals
  <2>2. /\ r \in Locals /\ r.pc = "request" /\ r.key = loc[t].key /\ r.file = loc[t].file
        /\ r.own = loc[t].own /\ r.got = loc[t].own
    BY <1>1, <2>1 DEF Locals, PCs
  <2>3. loc' = [loc EXCEPT ![t] = r] /\ requests' = requests /\ loc[t].pc = "idle"
    BY <1>1, <1>3 DEF Read, cacheVars, Good
  <2> HIDE DEF r
  <2>4. InPlace(r)
    BY <1>1, <2>1, <2>2, <2>3 DEF InPlace, OwnUrls
  <2>5. Goes(t, r)
    BY <2>2, <2>3, <2>4 DEF Goes, Fetches, Waits
  <2> QED
    BY <1>1, <2>5, GoesOK
<1> QED
  BY <1>2, <1>3

LEMMA CheckGood ==
    ASSUME Sound, NEW t \in Readers, Check(t)
    PROVE  Good(loc', requests')
<1> DEFINE u == links[loc[t].key]
<1>1. loc[t].pc = "check" /\ requests' = requests
  BY DEF Check, cacheVars
<1>2. u \in Urls \cup {None} /\ (Linked /\ u # None => u.file = loc[t].file)
  BY <1>1, CachedIsOwn
<1>3. CASE u \notin invalid \cup {None}
  <2>1. loc' = [loc EXCEPT ![t] = Answer(@, u)] /\ ~Holds(loc[t])
    BY <1>1, <1>3 DEF Check, Holds, Fetches
  <2> HIDE DEF u
  <2> QED
    BY <1>1, <1>2, <2>1, AnswerGood
<1>4. CASE ~(u \notin invalid \cup {None})
  <2>1. Goto(t, "load")
    BY <1>4 DEF Check
  <2> QED
    BY <1>1, <2>1, GotoGood DEF PCs
<1> QED
  BY <1>3, <1>4

LEMMA LoadRequestGood ==
    ASSUME Sound, NEW t \in Readers, LoadRequest(t)
    PROVE  Good(loc', requests')
<1> DEFINE o == requests[loc[t].key]
<1>1. Good(loc, requests) /\ loc[t] \in Locals /\ InPlace(loc[t])
  BY ReaderOK DEF Sound
<1>2. loc[t].pc = "load" /\ requests' = requests
  BY DEF LoadRequest, cacheVars
<1>3. loc[t].key \in Keys
  BY <1>1, <1>2 DEF InPlace
<1>4. CASE o = None
  <2>1. Goto(t, "store")
    BY <1>4 DEF LoadRequest
  <2> QED
    BY <1>2, <2>1, GotoGood DEF PCs
<1>5. CASE o # None
  <2>1. o \in Readers /\ Holds(loc[o]) /\ loc[o].key = loc[t].key
    BY <1>1, <1>3, <1>5 DEF Good, Entry
  <2>2. loc[o] \in Locals /\ InPlace(loc[o])
    BY <1>1, <2>1, ReaderOK
  <2>3. CASE loc[o].pc = "delete"
    <3> DEFINE u == loc[o].got
    <3>1. u \in Urls \cup {None}
      BY <2>2 DEF Locals
    <3>2. Linked /\ u # None => u.file = loc[t].file
      BY <1>1, <1>2, <2>1, <2>2, <2>3, <3>1 DEF InPlace, OwnUrls
    <3>3. loc' = [loc EXCEPT ![t] = Answer(@, u)] /\ ~Holds(loc[t])
      BY <1>2, <1>5, <2>3 DEF LoadRequest, Holds, Fetches
    <3> HIDE DEF u
    <3> QED
      BY <1>2, <3>1, <3>2, <3>3, AnswerGood
  <2>4. CASE loc[o].pc # "delete"
    <3> DEFINE r == [loc[t] EXCEPT !.pc = "wait", !.on = o]
    <3>1. /\ r \in Locals /\ r.pc = "wait" /\ r.on = o /\ r.key = loc[t].key
          /\ r.file = loc[t].file /\ r.own = loc[t].own /\ r.got = loc[t].got
      BY <1>1, <2>1 DEF Locals, PCs
    <3>2. loc' = [loc EXCEPT ![t] = r]
      BY <1>1, <1>5, <2>4 DEF LoadRequest, Good
    <3> HIDE DEF r, o
    <3>3. InPlace(r)
      BY <1>1, <1>2, <3>1 DEF InPlace, OwnUrls
    <3>4. Waits(loc, r)
      BY <2>1, <2>4, <3>1 DEF Waits, Holds
    <3>5. Goes(t, r)
      BY <1>2, <3>1, <3>2, <3>3, <3>4 DEF Goes, Fetches
    <3> QED
      BY <1>1, <3>5, GoesOK
  <2> QED
    BY <2>3, <2>4
<1> QED
  BY <1>4, <1>5

LEMMA StoreRequestGood ==
    ASSUME Sound, NEW t \in Readers, StoreRequest(t)
    PROVE  Good(loc', requests')
<1> DEFINE r == [loc[t] EXCEPT !.pc = "unrestrict", !.fetch = current]
           k == loc[t].key
           Q == [requests EXCEPT ![k] = t]
<1>1. Good(loc, requests) /\ loc[t] \in Locals /\ InPlace(loc[t])
  BY ReaderOK DEF Sound
<1>2. loc[t].pc = "store" /\ current \in 1..MaxLinks
  BY DEF StoreRequest, Sound
<1>3. /\ r \in Locals /\ r.pc = "unrestrict" /\ r.key = k /\ r.fetch = current
      /\ r.file = loc[t].file /\ r.own = loc[t].own /\ r.got = loc[t].got
  BY <1>1, <1>2 DEF Locals, PCs
<1>4. loc' = [loc EXCEPT ![t] = r] /\ requests' = Q
  BY <1>1 DEF StoreRequest, Good
<1> HIDE DEF r
<1>5. InPlace(r)
  BY <1>1, <1>2, <1>3 DEF InPlace, OwnUrls
<1> DEFINE M == [loc EXCEPT ![t] = r]
<1>6. Good(M, requests)
  BY <1>1, <1>2, <1>3, <1>5, GoodStep DEF Fetches, Waits
<1>7. M \in [Readers -> Locals] /\ M[t] = r
  BY <1>1, <1>3 DEF Good
<1> HIDE DEF M
<1>8. k \in Keys
  BY <1>1, <1>2 DEF InPlace
<1>9. ASSUME NEW j \in Keys PROVE Entry(M, Q, j)
  <2>1. Entry(M, requests, j) /\ requests \in [Keys -> Readers \cup {None}]
    BY <1>6 DEF Good
  <2>2. CASE j = k
    <3>1. Q[j] = t
      BY <1>8, <2>1, <2>2
    <3> HIDE DEF Q
    <3> QED
      BY <1>3, <1>7, <2>2, <3>1 DEF Entry, Holds, Fetches
  <2>3. CASE j # k
    BY <2>1, <2>3 DEF Entry
  <2> QED
    BY <2>2, <2>3
<1>10. Q \in [Keys -> Readers \cup {None}]
  BY <1>1 DEF Good
<1>11. \A u \in Readers : InPlace(M[u]) /\ Waits(M, M[u])
  BY <1>6 DEF Good
<1>12. Good(M, Q)
  BY <1>7, <1>9, <1>10, <1>11 DEF Good
<1> QED
  BY <1>4, <1>12 DEF M

\* The fetch is over: no one waits for it any more, but its entry stays.
LEMMA CompleteGood ==
    ASSUME Sound, NEW t \in Readers, Complete(t)
    PROVE  Good(loc', requests')
<1> DEFINE M == Completing(t, Waiting(t))
<1>1. Good(loc, requests) /\ loc[t] \in Locals /\ InPlace(loc[t])
  BY ReaderOK DEF Sound
<1>2. loc[t].pc = "complete" /\ loc' = M /\ requests' = requests
  BY DEF Complete, cacheVars
<1>3. loc[t].key \in Keys /\ loc[t].got \in Urls \cup {None}
  BY <1>1, <1>2 DEF InPlace, Locals
<1>4. /\ M[t] = [loc[t] EXCEPT !.pc = "delete"]
      /\ \A w \in Readers : w # t /\ w \in Waiting(t) => M[w] = Answer(loc[w], loc[t].got)
      /\ \A w \in Readers : w # t /\ w \notin Waiting(t) => M[w] = loc[w]
      /\ M = [w \in Readers |-> M[w]]
  BY DEF Completing
<1> HIDE DEF M
<1>5. M[t] \in Locals /\ InPlace(M[t]) /\ M[t].pc = "delete" /\ M[t].key = loc[t].key
  <2> DEFINE s == [loc[t] EXCEPT !.pc = "delete"]
  <2>1. "delete" \in PCs
    BY DEF PCs
  <2>2. s \in Locals /\ InPlace(s) /\ s.pc = "delete" /\ s.key = loc[t].key
    BY <1>1, <1>2, <2>1, GotoOK
  <2>3. M[t] = s
    BY <1>4
  <2> HIDE DEF s
  <2> QED
    BY <2>2, <2>3
<1>6. ASSUME NEW w \in Readers, w # t, w \in Waiting(t)
      PROVE  M[w] \in Locals /\ InPlace(M[w]) /\ M[w].pc \in {"idle", "request"}
  <2>1. loc[w].pc = "wait" /\ loc[w].on = t
    BY <1>6 DEF Waiting
  <2>2. loc[w] \in Locals /\ InPlace(loc[w])
    BY <1>1, ReaderOK
  <2>3. loc[w].key = loc[t].key
    BY <1>1, <2>1 DEF Good, Waits
  <2>4. Linked /\ loc[t].got # None => loc[t].got.file = loc[w].file
    BY <1>1, <1>2, <1>3, <2>1, <2>2, <2>3 DEF InPlace, OwnUrls
  <2>5. M[w] = Answer(loc[w], loc[t].got)
    BY <1>4, <1>6
  <2> QED
    BY <1>3, <2>1, <2>2, <2>4, <2>5, AnswerOK
<1>7. ASSUME NEW w \in Readers, w # t, w \notin Waiting(t)
      PROVE  /\ M[w] = loc[w] /\ M[w] \in Locals /\ InPlace(M[w])
             /\ M[w].pc = "wait" => M[w].on \in Readers /\ M[w].on # t /\ Fetches(loc[M[w].on])
                                    /\ loc[M[w].on].key = M[w].key
  <2>1. loc[w] \in Locals /\ InPlace(loc[w]) /\ Waits(loc, loc[w])
    BY <1>1 DEF Good
  <2> QED
    BY <1>4, <1>7, <2>1 DEF Waits, Waiting
<1>8. M \in [Readers -> Locals]
  BY <1>4, <1>5, <1>6, <1>7
<1>9. ASSUME NEW o \in Readers, o # t, Fetches(loc[o]) PROVE M[o] = loc[o]
  <2>1. o \notin Waiting(t)
    BY <1>9 DEF Waiting, Fetches
  <2> QED
    BY <1>4, <1>9, <2>1
<1>10. ASSUME NEW w \in Readers PROVE InPlace(M[w]) /\ Waits(M, M[w])
  <2>1. CASE w = t \/ w \in Waiting(t)
    BY <1>5, <1>6, <2>1 DEF Waits
  <2>2. CASE w # t /\ w \notin Waiting(t)
    BY <1>7, <1>9, <2>2 DEF Waits
  <2> QED
    BY <2>1, <2>2
<1>11. ASSUME NEW k \in Keys PROVE Entry(M, requests, k)
  <2>1. requests[k] \in Readers \cup {None} /\ Entry(loc, requests, k)
    BY <1>1 DEF Good
  <2>2. CASE requests[k] = t
    BY <1>5, <2>1, <2>2 DEF Entry, Holds
  <2>3. CASE requests[k] \notin {t, None}
    <3>1. requests[k] \notin Waiting(t) /\ requests[k] \in Readers
      BY <2>1, <2>3 DEF Entry, Holds, Fetches, Waiting
    <3>2. M[requests[k]] = loc[requests[k]]
      BY <1>4, <2>3, <3>1
    <3> QED
      BY <2>1, <3>2 DEF Entry
  <2> QED
    BY <2>2, <2>3 DEF Entry
<1>12. requests \in [Keys -> Readers \cup {None}]
  BY <1>1 DEF Good
<1>13. Good(M, requests)
  BY <1>8, <1>10, <1>11, <1>12 DEF Good
<1> QED
  BY <1>2, <1>13

\* No entry of this reader's is left, whoever else's is deleted with it.
LEMMA DeleteRequestGood ==
    ASSUME Sound, NEW t \in Readers, DeleteRequest(t)
    PROVE  Good(loc', requests')
<1> DEFINE u == loc[t].got
           r == Answer(loc[t], u)
           k == loc[t].key
           Q == [requests EXCEPT ![k] = None]
           M == [loc EXCEPT ![t] = r]
<1>1. Good(loc, requests) /\ loc[t] \in Locals /\ InPlace(loc[t])
  BY ReaderOK DEF Sound
<1>2. loc[t].pc = "delete" /\ requests' = Q /\ loc' = M
  BY DEF DeleteRequest
<1>3. k \in Keys /\ u \in Urls \cup {None} /\ (Linked /\ u # None => u.file = loc[t].file)
  BY <1>1, <1>2 DEF InPlace, OwnUrls, Locals
<1>4. r \in Locals /\ InPlace(r) /\ r.pc \in {"idle", "request"}
  BY <1>1, <1>2, <1>3, AnswerOK
<1>5. /\ M \in [Readers -> Locals] /\ M[t] = r
      /\ \A v \in Readers : v # t => M[v] = loc[v]
  BY <1>1, <1>4 DEF Good
<1>6. /\ Q \in [Keys -> Readers \cup {None}] /\ Q[k] = None
      /\ \A j \in Keys : j # k => Q[j] = requests[j]
  BY <1>1, <1>3 DEF Good
<1> HIDE DEF r, M, Q
<1>7. ASSUME NEW v \in Readers PROVE InPlace(M[v]) /\ Waits(M, M[v])
  <2>1. InPlace(loc[v]) /\ Waits(loc, loc[v])
    BY <1>1 DEF Good
  <2>2. CASE v = t
    BY <1>4, <1>5, <2>2 DEF Waits
  <2>3. CASE v # t
    BY <1>2, <1>5, <2>1, <2>3 DEF Waits, Fetches
  <2> QED
    BY <2>2, <2>3
<1>8. ASSUME NEW j \in Keys PROVE Entry(M, Q, j)
  <2>1. requests[j] \in Readers \cup {None} /\ Entry(loc, requests, j)
    BY <1>1 DEF Good
  <2>2. j # k /\ requests[j] # None => requests[j] # t
    BY <2>1 DEF Entry
  <2> QED
    BY <1>5, <1>6, <2>1, <2>2 DEF Entry
<1>9. Good(M, Q)
  BY <1>5, <1>6, <1>7, <1>8 DEF Good
<1> QED
  BY <1>2, <1>9

-----------------------------------------------------------------------------
(* fetchDownloadLink and stream keep them fitting                          *)

LEMMA UnrestrictGood ==
    ASSUME Sound, NEW t \in Readers, Unrestrict(t)
    PROVE  Good(loc', requests')
<1>1. loc[t].pc = "unrestrict" /\ Linked /\ requests' = requests
  BY DEF Unrestrict, cacheVars
<1>2. PICK u \in Given(loc[t].file, loc[t].fetch) :
         loc' = [Renewed(u) EXCEPT ![t].pc = "update", ![t].got = u]
  BY DEF Unrestrict
<1>3. u \in Urls /\ u.file = loc[t].file
  BY DEF Given
<1>4. Good(Renewed(u), requests)
  BY <1>3, RenewedOK DEF Sound
<1>5. loc[t] \in Locals
  BY ReaderOK DEF Sound
<1> DEFINE L == Renewed(u)
           r == [L[t] EXCEPT !.pc = "update", !.got = u]
<1>6. /\ L[t].pc = "unrestrict" /\ L[t].file = loc[t].file
  BY <1>1, <1>5 DEF Renewed, Locals
<1> HIDE DEF L
<1>7. L \in [Readers -> Locals] /\ L[t] \in Locals /\ InPlace(L[t])
  BY <1>4 DEF Good, L
<1>8. loc' = [L EXCEPT ![t] = r]
  BY <1>2, <1>7 DEF L
<1>9. /\ r \in Locals /\ r.pc = "update" /\ r.got = u /\ r.key = L[t].key
      /\ r.file = L[t].file /\ r.own = L[t].own /\ r.fetch = L[t].fetch
  BY <1>3, <1>7 DEF Locals, PCs
<1> HIDE DEF r
<1>10. InPlace(r)
  BY <1>3, <1>6, <1>7, <1>9 DEF InPlace, OwnUrls
<1>11. Good([L EXCEPT ![t] = r], requests)
  <2>1. Good(L, requests)
    BY <1>4 DEF L
  <2> QED
    BY <2>1, <1>6, <1>9, <1>10, GoodStep DEF Fetches, Waits
<1> QED
  BY <1>1, <1>8, <1>11

LEMMA ReinsertedGood ==
    ASSUME Sound, NEW t \in Readers, Reinserted(t)
    PROVE  Good(loc', requests') /\ current' \in 1..MaxLinks
<1>1. Good(loc, requests) /\ loc[t] \in Locals /\ InPlace(loc[t])
  BY ReaderOK DEF Sound
<1>2. loc[t].pc = "reinsert" /\ requests' = requests
  BY DEF Reinserted, cacheVars
<1>3. loc[t].fetch \in 1..MaxLinks /\ MaxLinks \in Nat
  BY <1>1, <1>2, ConstantsAssumption DEF InPlace
<1>4. PICK l \in (loc[t].fetch + 1)..MaxLinks :
         /\ current' = l
         /\ loc' = [loc EXCEPT ![t].pc = "unrestrict", ![t].fetch = l, ![t].late = TRUE]
  BY DEF Reinserted
<1>5. l \in 1..MaxLinks
  BY <1>3
<1> DEFINE r == [loc[t] EXCEPT !.pc = "unrestrict", !.fetch = l, !.late = TRUE]
<1>6. /\ r \in Locals /\ r.pc = "unrestrict" /\ r.fetch = l /\ r.key = loc[t].key
      /\ r.file = loc[t].file /\ r.own = loc[t].own /\ r.got = loc[t].got
  BY <1>1, <1>5 DEF Locals, PCs
<1>7. loc' = [loc EXCEPT ![t] = r]
  BY <1>1, <1>4 DEF Good
<1> HIDE DEF r
<1>8. InPlace(r)
  BY <1>1, <1>2, <1>5, <1>6 DEF InPlace, OwnUrls
<1>9. Goes(t, r)
  BY <1>2, <1>6, <1>7, <1>8 DEF Goes, Fetches, Waits
<1> QED
  BY <1>1, <1>4, <1>5, <1>9, GoesOK

\* A url is stored under a link of its own file.
LEMMA StoredOK ==
    ASSUME Cached(links), NEW u \in Urls
    PROVE  Cached([links EXCEPT ![LinkOf(u)] = u])
<1>1. u.file \in Files /\ u.link \in 1..MaxLinks
  BY UrlParts
<1>2. LinkOf(u) \in Keys /\ (Linked => LinkOf(u) # Empty /\ LinkOf(u)[1] = u.file)
  BY <1>1, KeyParts DEF LinkOf
<1> QED
  BY <1>2 DEF Cached

LEMMA RemovedOK ==
    ASSUME Cached(links), NEW k \in Keys
    PROVE  Cached([links EXCEPT ![k] = None])
BY NoneApart DEF Cached

LEMMA UpdateGood ==
    ASSUME Sound, NEW t \in Readers, Update(t)
    PROVE  Good(loc', requests') /\ Cached(links')
<1> DEFINE g == IF loc[t].late THEN None ELSE loc[t].got
           r == [loc[t] EXCEPT !.pc = "complete", !.got = g]
<1>1. Good(loc, requests) /\ loc[t] \in Locals /\ InPlace(loc[t])
  BY ReaderOK DEF Sound
<1>2. loc[t].pc = "update" /\ requests' = requests
  BY DEF Update
<1>3. loc[t].got \in Urls
  BY <1>1, <1>2 DEF InPlace
<1>4. Cached(links')
  BY <1>3, StoredOK DEF Update, Sound
<1>5. g \in {None, loc[t].got}
  OBVIOUS
<1>6. loc' = [loc EXCEPT ![t] = r]
  BY <1>1 DEF Update, Good
<1> HIDE DEF g
<1>7. /\ r \in Locals /\ r.pc = "complete" /\ r.got = g /\ r.key = loc[t].key
      /\ r.file = loc[t].file /\ r.own = loc[t].own
  BY <1>1, <1>3, <1>5 DEF Locals, PCs
<1> HIDE DEF r
<1>8. InPlace(r)
  BY <1>1, <1>2, <1>5, <1>7, NoneApart DEF InPlace, OwnUrls
<1>9. Goes(t, r)
  BY <1>2, <1>6, <1>7, <1>8 DEF Goes, Fetches, Waits
<1> QED
  BY <1>1, <1>4, <1>9, GoesOK

\* A reader past its request goes on with r.
LEMMA StreamGood ==
    ASSUME Sound, NEW t \in Readers, NEW r \in Locals, InPlace(r), r.pc # "wait",
           loc[t].pc \in {"request", "mark", "remove"},
           loc' = [loc EXCEPT ![t] = r], requests' = requests
    PROVE  Good(loc', requests')
<1>1. Goes(t, r)
  BY DEF Goes, Fetches, Waits
<1> QED
  BY <1>1, GoesOK DEF Sound

LEMMA ServedGood ==
    ASSUME Sound, NEW t \in Readers, Served(t)
    PROVE  Good(loc', requests')
<1>1. loc[t].pc = "request" /\ requests' = requests /\ loc' = [loc EXCEPT ![t] = AtRest(@)]
  BY DEF Served, cacheVars
<1>2. LET r == AtRest(loc[t]) IN r \in Locals /\ InPlace(r) /\ r.pc = "idle"
  BY <1>1, ReaderOK, AtRestOK DEF Sound
<1> QED
  BY <1>1, <1>2, StreamGood

LEMMA RefusedGood ==
    ASSUME Sound, NEW t \in Readers, Refused(t)
    PROVE  Good(loc', requests')
<1>1. loc[t].pc = "request" /\ requests' = requests
  BY DEF Refused, cacheVars
<1>2. PICK notFound \in BOOLEAN :
         loc' = [loc EXCEPT ![t].pc = "mark", ![t].own = None, ![t].again = notFound]
  BY DEF Refused
<1>3. Good(loc, requests) /\ loc[t] \in Locals /\ InPlace(loc[t])
  BY ReaderOK DEF Sound
<1> DEFINE r == [loc[t] EXCEPT !.pc = "mark", !.own = None, !.again = notFound]
<1>4. /\ r \in Locals /\ r.pc = "mark" /\ r.own = None /\ r.got = loc[t].got
      /\ r.key = loc[t].key /\ r.file = loc[t].file
  BY <1>3 DEF Locals, PCs
<1>5. loc' = [loc EXCEPT ![t] = r]
  BY <1>2, <1>3 DEF Good
<1> HIDE DEF r
<1>6. InPlace(r)
  BY <1>1, <1>3, <1>4, NoneApart DEF InPlace, OwnUrls
<1> QED
  BY <1>1, <1>4, <1>5, <1>6, StreamGood

LEMMA GivenUpGood ==
    ASSUME Sound, NEW t \in Readers, GivenUp(t)
    PROVE  Good(loc', requests')
<1>1. loc[t].pc = "request" /\ requests' = requests
  BY DEF GivenUp, cacheVars
<1>2. Good(loc, requests) /\ loc[t] \in Locals /\ InPlace(loc[t])
  BY ReaderOK DEF Sound
<1> DEFINE r == [AtRest(loc[t]) EXCEPT !.own = None]
<1>3. /\ r \in Locals /\ r.pc = "idle" /\ r.own = None /\ r.got = None
      /\ r.key = loc[t].key /\ r.file = loc[t].file
  BY <1>2 DEF AtRest, Closed, Locals, PCs
<1>4. loc' = [loc EXCEPT ![t] = r]
  BY DEF GivenUp
<1> HIDE DEF r
<1>5. InPlace(r)
  BY <1>1, <1>2, <1>3, NoneApart DEF InPlace, OwnUrls
<1> QED
  BY <1>1, <1>3, <1>4, <1>5, StreamGood

LEMMA MarkGood ==
    ASSUME Sound, NEW t \in Readers, Mark(t)
    PROVE  Good(loc', requests') /\ invalid' \in SUBSET Urls
<1>1. loc[t].pc = "mark" /\ requests' = requests
  BY DEF Mark
<1>2. Good(loc, requests) /\ loc[t] \in Locals /\ InPlace(loc[t])
  BY ReaderOK DEF Sound
<1>3. loc[t].got \in Urls
  BY <1>1, <1>2 DEF InPlace
<1> DEFINE r == [loc[t] EXCEPT !.pc = "remove", !.got = None, !.bad = loc[t].got]
<1>4. /\ r \in Locals /\ r.pc = "remove" /\ r.own = loc[t].own /\ r.got = None
      /\ r.key = loc[t].key /\ r.file = loc[t].file
  BY <1>2, <1>3 DEF Locals, PCs
<1>5. loc' = [loc EXCEPT ![t] = r]
  BY <1>2 DEF Mark, Good
<1> HIDE DEF r
<1>6. InPlace(r)
  BY <1>1, <1>2, <1>4, NoneApart DEF InPlace, OwnUrls
<1>7. invalid' \in SUBSET Urls
  BY <1>3 DEF Mark, Sound
<1> QED
  BY <1>1, <1>4, <1>5, <1>6, <1>7, StreamGood

LEMMA RemoveGood ==
    ASSUME Sound, NEW t \in Readers, Remove(t)
    PROVE  Good(loc', requests') /\ Cached(links')
<1>1. loc[t].pc = "remove" /\ requests' = requests
  BY DEF Remove
<1>2. Good(loc, requests) /\ loc[t] \in Locals /\ InPlace(loc[t])
  BY ReaderOK DEF Sound
<1>3. Cached(links')
  <2>1. loc[t].key \in Keys
    BY <1>1, <1>2 DEF InPlace
  <2> QED
    BY <2>1, RemovedOK DEF Remove, Sound
<1> DEFINE s == AtRest(loc[t])
           q == [s EXCEPT !.pc = "check", !.bad = loc[t].bad, !.again = loc[t].again]
           r == IF loc[t].own # None THEN s ELSE q
<1>4. s \in Locals /\ InPlace(s) /\ s.pc = "idle"
  BY <1>1, <1>2, AtRestOK
<1>5. q \in Locals /\ InPlace(q) /\ q.pc = "check"
  <2>1. loc[t].bad \in Urls \cup {None} /\ loc[t].again \in BOOLEAN
    BY <1>2 DEF Locals
  <2> HIDE DEF s
  <2> QED
    BY <1>4, <2>1, AgainOK
<1>6. loc' = [loc EXCEPT ![t] = r]
  BY DEF Remove
<1> HIDE DEF s, q
<1>7. r \in Locals /\ InPlace(r) /\ r.pc # "wait"
  BY <1>4, <1>5
<1> HIDE DEF r
<1> QED
  BY <1>1, <1>3, <1>6, <1>7, StreamGood

LEMMA GenerateGood ==
    ASSUME Sound, NEW f \in Files, Generate(f)
    PROVE  Good(loc', requests') /\ Cached(links')
<1>1. PICK u \in Given(f, current) :
         links' = [links EXCEPT ![LinkOf(u)] = u] /\ loc' = Renewed(u)
  BY DEF Generate
<1>2. u \in Urls /\ requests' = requests
  BY DEF Given, Generate
<1> QED
  BY <1>1, <1>2, StoredOK, RenewedOK DEF Sound

LEMMA ResetInvalidGood ==
    ASSUME Sound, ResetInvalid
    PROVE  Good(loc', requests')
<1>1. Good(loc, requests) /\ loc \in [Readers -> Locals]
  BY DEF Sound, Good
<1>2. /\ loc' = [t \in Readers |-> [loc[t] EXCEPT !.bad = None]]
      /\ requests' = requests
  BY DEF ResetInvalid
<1>3. \A t \in Readers : [loc[t] EXCEPT !.bad = None] \in Locals
  BY <1>1 DEF Locals
<1>4. /\ loc' \in [Readers -> Locals]
      /\ \A t \in Readers : loc'[t] = [loc[t] EXCEPT !.bad = None]
  BY <1>2, <1>3
<1> QED
  BY <1>1, <1>2, <1>4, GoodRenew

-----------------------------------------------------------------------------
(* The inductive invariant                                                 *)

LEMMA SoundInit == Init => Sound
<1> SUFFICES ASSUME Init PROVE Sound
  OBVIOUS
<1>1. current \in 1..MaxLinks /\ invalid \in SUBSET Urls
  BY ConstantsAssumption DEF Init
<1>2. loc \in [Readers -> Locals] /\ \A t \in Readers : loc[t] = Closed
  BY ClosedOK DEF Init
<1>3. /\ requests \in [Keys -> Readers \cup {None}] /\ \A k \in Keys : requests[k] = None
      /\ links \in [Keys -> Urls \cup {None}] /\ \A k \in Keys : links[k] = None
  BY DEF Init
<1>4. Closed.pc = "closed"
  BY DEF Closed
<1>5. Good(loc, requests)
  BY <1>2, <1>3, <1>4, ClosedOK DEF Good, Waits, Entry
<1>6. Cached(links)
  BY <1>3, NoneApart DEF Cached
<1> QED
  BY <1>1, <1>5, <1>6 DEF Sound

\* The steps of fetchDownloadLink and stream which only move on.
LEMMA PlainGood ==
    ASSUME Sound, NEW t \in Readers,
           HosterUnavailable(t) \/ FetchFails(t) \/ RefusedAgain(t)
    PROVE  Good(loc', requests')
<1>1. InPlace(loc[t])
  BY ReaderOK DEF Sound
<1>2. CASE HosterUnavailable(t)
  BY <1>1, <1>2, GotoGood DEF HosterUnavailable, cacheVars, PCs, InPlace
<1>3. CASE FetchFails(t)
  BY <1>3, GotoGood DEF FetchFails, cacheVars, PCs
<1>4. CASE RefusedAgain(t)
  BY <1>1, <1>4, GotoGood DEF RefusedAgain, cacheVars, PCs, InPlace
<1> QED
  BY <1>2, <1>3, <1>4

LEMMA ContinueSound ==
    ASSUME Sound, NEW t \in Readers, Continue(t)
    PROVE  Sound'
<1>1. current \in 1..MaxLinks /\ invalid \in SUBSET Urls /\ Cached(links)
  BY DEF Sound
<1>2. CASE Check(t)
  BY <1>1, <1>2, CheckGood DEF Check, cacheVars, Sound
<1>3. CASE LoadRequest(t)
  BY <1>1, <1>3, LoadRequestGood DEF LoadRequest, cacheVars, Sound
<1>4. CASE StoreRequest(t)
  BY <1>1, <1>4, StoreRequestGood DEF StoreRequest, Sound
<1>5. CASE Complete(t)
  BY <1>1, <1>5, CompleteGood DEF Complete, cacheVars, Sound
<1>6. CASE DeleteRequest(t)
  BY <1>1, <1>6, DeleteRequestGood DEF DeleteRequest, Sound
<1>7. CASE Unrestrict(t)
  BY <1>1, <1>7, UnrestrictGood DEF Unrestrict, cacheVars, Sound
<1>8. CASE HosterUnavailable(t)
  BY <1>1, <1>8, PlainGood DEF HosterUnavailable, cacheVars, Sound
<1>9. CASE Reinserted(t)
  BY <1>1, <1>9, ReinsertedGood DEF Reinserted, cacheVars, Sound
<1>10. CASE FetchFails(t)
  BY <1>1, <1>10, PlainGood DEF FetchFails, cacheVars, Sound
<1>11. CASE Update(t)
  BY <1>1, <1>11, UpdateGood DEF Update, Sound
<1>12. CASE Served(t)
  BY <1>1, <1>12, ServedGood DEF Served, cacheVars, Sound
<1>13. CASE Refused(t)
  BY <1>1, <1>13, RefusedGood DEF Refused, cacheVars, Sound
<1>14. CASE GivenUp(t)
  BY <1>1, <1>14, GivenUpGood DEF GivenUp, cacheVars, Sound
<1>15. CASE RefusedAgain(t)
  BY <1>1, <1>15, PlainGood DEF RefusedAgain, cacheVars, Sound
<1>16. CASE Mark(t)
  BY <1>1, <1>16, MarkGood DEF Mark, Sound
<1>17. CASE Remove(t)
  BY <1>1, <1>17, RemoveGood DEF Remove, Sound
<1> QED
  BY <1>2, <1>3, <1>4, <1>5, <1>6, <1>7, <1>8, <1>9, <1>10, <1>11, <1>12, <1>13,
     <1>14, <1>15, <1>16, <1>17 DEF Continue

LEMMA SoundNext == Sound /\ [Next]_vars => Sound'
<1> SUFFICES ASSUME Sound, [Next]_vars PROVE Sound'
  OBVIOUS
<1>1. /\ current \in 1..MaxLinks /\ invalid \in SUBSET Urls /\ Cached(links)
      /\ Good(loc, requests)
  BY DEF Sound
<1>2. ASSUME NEW t \in Readers, Open(t) PROVE Sound'
  BY <1>1, <1>2, OpenGood DEF Open, cacheVars, Sound
<1>3. ASSUME NEW t \in Readers, Close(t) PROVE Sound'
  BY <1>1, <1>3, CloseGood DEF Close, cacheVars, Sound
<1>4. ASSUME NEW t \in Readers, Read(t) PROVE Sound'
  BY <1>1, <1>4, ReadGood DEF Read, cacheVars, Sound
<1>5. ASSUME NEW t \in Readers, Continue(t) PROVE Sound'
  BY <1>5, ContinueSound
<1>6. ASSUME NEW f \in Files, Generate(f) PROVE Sound'
  BY <1>1, <1>6, GenerateGood DEF Generate, Sound
<1>7. ASSUME NEW u \in Urls, RefreshLink(u) PROVE Sound'
  BY <1>1, <1>7, StoredOK DEF RefreshLink, Sound
<1>8. ASSUME NEW k \in Keys, Expire(k) PROVE Sound'
  BY <1>1, <1>8, RemovedOK DEF Expire, Sound
<1>9. CASE ResetInvalid
  BY <1>1, <1>9, ResetInvalidGood DEF ResetInvalid, Sound
<1>10. CASE UNCHANGED vars
  BY <1>1, <1>10 DEF vars, cacheVars, Sound
<1> QED
  BY <1>2, <1>3, <1>4, <1>5, <1>6, <1>7, <1>8, <1>9, <1>10 DEF Next

-----------------------------------------------------------------------------
(* A url that was marked stays away                                        *)

\* What a Read marked is among the invalid urls I, unless the service gave it
\* again, and is not the url that the reader brings from its own fetch.
Fresh(r, I) ==
    /\ r.bad \in I \cup {None}
    /\ r.pc \notin {"request", "mark"} /\ r.got # None => r.got # r.bad

\* Of the readers L.
AllFresh(L, I) == \A t \in Readers : Fresh(L[t], I)

\* A url taken while the stream is not at one already is not the marked one.
NotBack(t) ==
    loc[t].pc \in {"check", "delete"} /\ loc'[t].pc = "request" => loc'[t].got # loc[t].bad

LEMMA ShapeOK == Sound => loc \in [Readers -> Locals]
BY DEF Sound, Good

\* One reader goes on with r; marks are only added.
LEMMA OneFresh ==
    ASSUME NEW L \in [Readers -> Locals], NEW I, NEW J, AllFresh(L, I), I \subseteq J,
           NEW t \in Readers, NEW r, Fresh(r, J)
    PROVE  AllFresh([L EXCEPT ![t] = r], J)
<1> SUFFICES ASSUME NEW v \in Readers PROVE Fresh([L EXCEPT ![t] = r][v], J)
  BY DEF AllFresh
<1>1. Fresh(L[v], J)
  BY DEF AllFresh, Fresh
<1> QED
  BY <1>1

LEMMA AtRestFresh ==
    ASSUME NEW r \in Locals, NEW I
    PROVE  Fresh(AtRest(r), I) /\ AtRest(r).pc = "idle"
<1>1. AtRest(r).pc = "idle" /\ AtRest(r).bad = None /\ AtRest(r).got = None
  BY DEF AtRest, Closed
<1> QED
  BY <1>1 DEF Fresh

\* Whatever the answer, the mark goes on with it or is over.
LEMMA AnswerFresh ==
    ASSUME NEW r \in Locals, NEW u, NEW I, Fresh(r, I)
    PROVE  LET s == Answer(r, u)
           IN  Fresh(s, I) /\ (s.pc = "request" => u # None /\ s.got = u)
<1>1. CASE u = None
  BY <1>1, AtRestFresh DEF Answer
<1>2. CASE u # None
  <2> DEFINE s == Answer(r, u)
  <2>1. s.pc = "request" /\ s.bad = r.bad /\ s.got = u
    BY <1>2 DEF Answer, AtRest, Closed
  <2> HIDE DEF s
  <2>2. Fresh(s, I)
    BY <2>1 DEF Fresh
  <2> QED
    BY <1>2, <2>1, <2>2 DEF s
<1> QED
  BY <1>1, <1>2

\* A step of one reader after which the mark and what it brings are as before.
LEMMA SameFresh ==
    ASSUME Sound, AllFresh(loc, invalid), invalid' = invalid,
           NEW t \in Readers, NEW r \in Locals, loc' = [loc EXCEPT ![t] = r],
           r.bad = loc[t].bad, r.got = loc[t].got,
           loc[t].pc \in {"request", "mark"} => r.pc \in {"request", "mark"},
           loc[t].pc \in {"check", "delete"} => r.pc # "request"
    PROVE  AllFresh(loc', invalid') /\ \A v \in Readers : NotBack(v)
<1>1. Fresh(r, invalid)
  BY DEF AllFresh, Fresh
<1>2. loc \in [Readers -> Locals]
  BY ShapeOK
<1>3. AllFresh(loc', invalid')
  BY <1>1, <1>2, OneFresh
<1>4. \A v \in Readers : NotBack(v)
  BY <1>2 DEF NotBack
<1> QED
  BY <1>3, <1>4

\* A step of one reader to locals that are not at a request.
LEMMA NewFresh ==
    ASSUME Sound, AllFresh(loc, invalid), invalid \subseteq invalid',
           NEW t \in Readers, NEW r, loc' = [loc EXCEPT ![t] = r],
           Fresh(r, invalid'), r.pc # "request"
    PROVE  AllFresh(loc', invalid') /\ \A v \in Readers : NotBack(v)
<1>1. loc \in [Readers -> Locals]
  BY ShapeOK
<1>2. AllFresh(loc', invalid')
  BY <1>1, OneFresh
<1>3. \A v \in Readers : NotBack(v)
  BY <1>1 DEF NotBack
<1> QED
  BY <1>2, <1>3

\* A step of one reader that takes an answer other than the url it marked.
LEMMA TakenFresh ==
    ASSUME Sound, AllFresh(loc, invalid), invalid' = invalid,
           NEW t \in Readers, NEW u, loc' = [loc EXCEPT ![t] = Answer(@, u)],
           loc[t].pc \in {"check", "delete"} /\ u # None => u # loc[t].bad
    PROVE  AllFresh(loc', invalid') /\ \A v \in Readers : NotBack(v)
<1> DEFINE r == Answer(loc[t], u)
<1>1. loc \in [Readers -> Locals] /\ loc[t] \in Locals /\ Fresh(loc[t], invalid)
  BY ShapeOK DEF AllFresh
<1>2. Fresh(r, invalid) /\ (r.pc = "request" => u # None /\ r.got = u)
  BY <1>1, AnswerFresh
<1>3. loc' = [loc EXCEPT ![t] = r]
  OBVIOUS
<1> HIDE DEF r
<1>4. AllFresh(loc', invalid')
  <2>1. AllFresh([loc EXCEPT ![t] = r], invalid)
    BY <1>1, <1>2, OneFresh
  <2> QED
    BY <1>3, <2>1
<1>5. \A v \in Readers : NotBack(v)
  BY <1>1, <1>2, <1>3 DEF NotBack
<1> QED
  BY <1>4, <1>5

\* No reader's control point moves, and its mark stays or is lifted.
LEMMA LiftedFresh ==
    ASSUME Sound, NEW L, AllFresh(loc, invalid), invalid' \in {invalid, {}},
           L = [v \in Readers |-> L[v]],
           \A v \in Readers : \/ L[v] = loc[v] /\ invalid' = invalid
                              \/ L[v] = [loc[v] EXCEPT !.bad = None]
    PROVE  /\ AllFresh(L, invalid') /\ L \in [Readers -> Locals]
           /\ \A v \in Readers : L[v].pc = loc[v].pc
<1>1. ASSUME NEW v \in Readers
      PROVE  L[v] \in Locals /\ Fresh(L[v], invalid') /\ L[v].pc = loc[v].pc
  <2>1. loc[v] \in Locals /\ Fresh(loc[v], invalid)
    BY ShapeOK DEF AllFresh
  <2>2. CASE L[v] = loc[v] /\ invalid' = invalid
    BY <2>1, <2>2
  <2>3. CASE L[v] = [loc[v] EXCEPT !.bad = None]
    <3>1. L[v] \in Locals /\ L[v].bad = None /\ L[v].pc = loc[v].pc /\ L[v].got = loc[v].got
      BY <2>1, <2>3 DEF Locals
    <3> QED
      BY <3>1 DEF Fresh
  <2> QED
    BY <2>2, <2>3
<1>2. L \in [Readers -> Locals]
  BY <1>1
<1> QED
  BY <1>1, <1>2 DEF AllFresh

LEMMA GotoFresh ==
    ASSUME Sound, AllFresh(loc, invalid), invalid' = invalid,
           NEW t \in Readers, NEW p \in PCs, Goto(t, p),
           loc[t].pc = "request" => p = "mark", loc[t].pc # "mark",
           loc[t].pc \in {"check", "delete"} => p # "request"
    PROVE  AllFresh(loc', invalid') /\ \A v \in Readers : NotBack(v)
<1> DEFINE r == [loc[t] EXCEPT !.pc = p]
<1>1. loc \in [Readers -> Locals] /\ loc[t] \in Locals
  BY ShapeOK
<1>2. r \in Locals /\ r.pc = p /\ r.bad = loc[t].bad /\ r.got = loc[t].got
  BY <1>1 DEF Locals
<1>3. loc' = [loc EXCEPT ![t] = r]
  BY <1>1 DEF Goto
<1> HIDE DEF r
<1> QED
  BY <1>2, <1>3, SameFresh

LEMMA OpenFresh ==
    ASSUME Sound, AllFresh(loc, invalid), NEW t \in Readers, Open(t)
    PROVE  AllFresh(loc', invalid') /\ \A v \in Readers : NotBack(v)
<1>1. PICK f \in Files :
         loc' = [loc EXCEPT ![t] = [Closed EXCEPT !.pc = "idle", !.file = f,
                                                  !.key = FileLink(f, current)]]
  BY DEF Open
<1> DEFINE r == [Closed EXCEPT !.pc = "idle", !.file = f, !.key = FileLink(f, current)]
<1>2. r.pc = "idle" /\ r.bad = None /\ r.got = None
  BY DEF Closed
<1>3. loc' = [loc EXCEPT ![t] = r] /\ invalid' = invalid
  BY <1>1 DEF Open, cacheVars
<1> HIDE DEF r
<1>4. Fresh(r, invalid')
  BY <1>2 DEF Fresh
<1> QED
  BY <1>2, <1>3, <1>4, NewFresh

LEMMA CloseFresh ==
    ASSUME Sound, AllFresh(loc, invalid), NEW t \in Readers, Close(t)
    PROVE  AllFresh(loc', invalid') /\ \A v \in Readers : NotBack(v)
<1>1. Closed.pc = "closed" /\ Fresh(Closed, invalid')
  BY DEF Closed, Fresh
<1> QED
  BY <1>1, NewFresh DEF Close, cacheVars

\* A Read begins anew: nothing keeps it from the url the file has.
LEMMA ReadFresh ==
    ASSUME Sound, AllFresh(loc, invalid), NEW t \in Readers, Read(t)
    PROVE  AllFresh(loc', invalid') /\ \A v \in Readers : NotBack(v)
<1>1. loc \in [Readers -> Locals] /\ loc[t] \in Locals /\ Fresh(loc[t], invalid)
  BY ShapeOK DEF AllFresh
<1>2. loc[t].pc = "idle" /\ invalid' = invalid
  BY DEF Read, cacheVars
<1>3. CASE loc[t].own = None
  BY <1>2, <1>3, GotoFresh DEF Read, PCs
<1>4. CASE loc[t].own # None
  <2> DEFINE r == [loc[t] EXCEPT !.pc = "request", !.got = loc[t].own]
  <2>1. r.pc = "request" /\ r.bad = loc[t].bad
    BY <1>1 DEF Locals
  <2>2. loc' = [loc EXCEPT ![t] = r]
    BY <1>1, <1>4 DEF Read
  <2> HIDE DEF r
  <2>3. Fresh(r, invalid)
    BY <1>1, <2>1 DEF Fresh
  <2>4. AllFresh(loc', invalid')
    BY <1>1, <1>2, <2>2, <2>3, OneFresh
  <2>5. \A v \in Readers : NotBack(v)
    BY <1>1, <1>2, <2>2 DEF NotBack
  <2> QED
    BY <2>4, <2>5
<1> QED
  BY <1>3, <1>4

\* The cache's answer is not invalid, and what was marked is.
LEMMA CheckFresh ==
    ASSUME Sound, AllFresh(loc, invalid), NEW t \in Readers, Check(t)
    PROVE  AllFresh(loc', invalid') /\ \A v \in Readers : NotBack(v)
<1> DEFINE u == links[loc[t].key]
<1>1. Fresh(loc[t], invalid) /\ loc[t].pc = "check" /\ invalid' = invalid
  BY DEF AllFresh, Check, cacheVars
<1>2. CASE u \notin invalid \cup {None}
  <2>1. loc' = [loc EXCEPT ![t] = Answer(@, u)] /\ (u # None => u # loc[t].bad)
    BY <1>1, <1>2 DEF Check, Fresh
  <2> HIDE DEF u
  <2> QED
    BY <1>1, <2>1, TakenFresh
<1>3. CASE ~(u \notin invalid \cup {None})
  <2>1. Goto(t, "load")
    BY <1>3 DEF Check
  <2> QED
    BY <1>1, <2>1, GotoFresh DEF PCs
<1> QED
  BY <1>2, <1>3

LEMMA LoadRequestFresh ==
    ASSUME Sound, AllFresh(loc, invalid), NEW t \in Readers, LoadRequest(t)
    PROVE  AllFresh(loc', invalid') /\ \A v \in Readers : NotBack(v)
<1> DEFINE o == requests[loc[t].key]
<1>1. Good(loc, requests) /\ loc[t] \in Locals /\ InPlace(loc[t])
  BY ReaderOK DEF Sound
<1>2. loc[t].pc = "load" /\ invalid' = invalid
  BY DEF LoadRequest, cacheVars
<1>3. CASE o = None
  <2>1. Goto(t, "store")
    BY <1>3 DEF LoadRequest
  <2> QED
    BY <1>2, <2>1, GotoFresh DEF PCs
<1>4. CASE o # None /\ loc[o].pc = "delete"
  <2> DEFINE u == loc[o].got
  <2>1. loc' = [loc EXCEPT ![t] = Answer(@, u)]
    BY <1>4 DEF LoadRequest
  <2> HIDE DEF u
  <2> QED
    BY <1>2, <2>1, TakenFresh
<1>5. CASE o # None /\ loc[o].pc # "delete"
  <2> DEFINE r == [loc[t] EXCEPT !.pc = "wait", !.on = o]
  <2>1. o \in Readers
    BY <1>1, <1>2, <1>5 DEF Good, InPlace
  <2>2. r \in Locals /\ r.pc = "wait" /\ r.bad = loc[t].bad /\ r.got = loc[t].got
    BY <1>1, <2>1 DEF Locals, PCs
  <2>3. loc' = [loc EXCEPT ![t] = r]
    BY <1>1, <1>5 DEF LoadRequest, Good
  <2> HIDE DEF r, o
  <2> QED
    BY <1>2, <2>2, <2>3, SameFresh
<1> QED
  BY <1>3, <1>4, <1>5

LEMMA StoreRequestFresh ==
    ASSUME Sound, AllFresh(loc, invalid), NEW t \in Readers, StoreRequest(t)
    PROVE  AllFresh(loc', invalid') /\ \A v \in Readers : NotBack(v)
<1> DEFINE r == [loc[t] EXCEPT !.pc = "unrestrict", !.fetch = current]
<1>1. loc \in [Readers -> Locals] /\ loc[t] \in Locals
  BY ShapeOK
<1>2. loc[t].pc = "store" /\ current \in 1..MaxLinks /\ invalid' = invalid
  BY DEF StoreRequest, Sound
<1>3. r \in Locals /\ r.pc = "unrestrict" /\ r.bad = loc[t].bad /\ r.got = loc[t].got
  BY <1>1, <1>2 DEF Locals, PCs
<1>4. loc' = [loc EXCEPT ![t] = r]
  BY <1>1 DEF StoreRequest
<1> HIDE DEF r
<1> QED
  BY <1>2, <1>3, <1>4, SameFresh

\* Whoever waited may take any url, but was waiting.
LEMMA CompleteFresh ==
    ASSUME Sound, AllFresh(loc, invalid), NEW t \in Readers, Complete(t)
    PROVE  AllFresh(loc', invalid') /\ \A v \in Readers : NotBack(v)
<1> DEFINE M == Completing(t, Waiting(t))
<1>1. loc[t].pc = "complete" /\ loc' = M /\ invalid' = invalid
  BY DEF Complete, cacheVars
<1>2. /\ M[t] = [loc[t] EXCEPT !.pc = "delete"]
      /\ \A w \in Readers : w # t /\ w \in Waiting(t) => M[w] = Answer(loc[w], loc[t].got)
      /\ \A w \in Readers : w # t /\ w \notin Waiting(t) => M[w] = loc[w]
  BY DEF Completing
<1> HIDE DEF M
<1>3. ASSUME NEW v \in Readers PROVE Fresh(M[v], invalid) /\ NotBack(v)
  <2>1. loc[v] \in Locals /\ Fresh(loc[v], invalid)
    BY ShapeOK DEF AllFresh
  <2>2. CASE v = t
    <3>1. M[t].pc = "delete" /\ M[t].bad = loc[t].bad /\ M[t].got = loc[t].got
      BY <1>2, <2>1, <2>2 DEF Locals
    <3> QED
      BY <1>1, <2>1, <2>2, <3>1 DEF Fresh, NotBack
  <2>3. CASE v # t /\ v \in Waiting(t)
    <3>1. loc[v].pc = "wait" /\ M[v] = Answer(loc[v], loc[t].got)
      BY <1>2, <2>3 DEF Waiting
    <3> QED
      BY <2>1, <3>1, AnswerFresh DEF NotBack
  <2>4. CASE v # t /\ v \notin Waiting(t)
    BY <1>1, <1>2, <2>1, <2>4 DEF NotBack
  <2> QED
    BY <2>2, <2>3, <2>4
<1> QED
  BY <1>1, <1>3 DEF AllFresh

\* The fetch was its own, and began after the mark.
LEMMA DeleteRequestFresh ==
    ASSUME Sound, AllFresh(loc, invalid), NEW t \in Readers, DeleteRequest(t)
    PROVE  AllFresh(loc', invalid') /\ \A v \in Readers : NotBack(v)
<1> DEFINE u == loc[t].got
<1>1. Fresh(loc[t], invalid) /\ loc[t].pc = "delete" /\ invalid' = invalid
  BY DEF AllFresh, DeleteRequest
<1>2. loc' = [loc EXCEPT ![t] = Answer(@, u)] /\ (u # None => u # loc[t].bad)
  BY <1>1 DEF DeleteRequest, Fresh
<1> HIDE DEF u
<1> QED
  BY <1>1, <1>2, TakenFresh

\* The service gives u just now, to whichever reader.
LEMMA RenewedFresh ==
    ASSUME Sound, AllFresh(loc, invalid), invalid' = invalid, NEW u
    PROVE  /\ AllFresh(Renewed(u), invalid') /\ Renewed(u) \in [Readers -> Locals]
           /\ \A v \in Readers : Renewed(u)[v].pc = loc[v].pc
<1>1. /\ Renewed(u) = [v \in Readers |-> Renewed(u)[v]]
      /\ \A v \in Readers : \/ Renewed(u)[v] = loc[v]
                            \/ Renewed(u)[v] = [loc[v] EXCEPT !.bad = None]
  BY DEF Renewed
<1> QED
  BY <1>1, LiftedFresh

LEMMA UnrestrictFresh ==
    ASSUME ~Fixed, Sound, AllFresh(loc, invalid), NEW t \in Readers, Unrestrict(t)
    PROVE  AllFresh(loc', invalid') /\ \A v \in Readers : NotBack(v)
<1>1. invalid' = invalid
  BY DEF Unrestrict, cacheVars
<1>2. PICK u \in Given(loc[t].file, loc[t].fetch) :
         loc' = [Renewed(u) EXCEPT ![t].pc = "update", ![t].got = u]
  BY DEF Unrestrict
<1>3. u \in Urls /\ u # None
  BY NoneApart DEF Given
<1> DEFINE L == Renewed(u)
           r == [L[t] EXCEPT !.pc = "update", !.got = u]
<1>4. loc[t] \in Locals
  BY ShapeOK
<1>5. L[t].bad # u
  BY <1>3, <1>4 DEF Renewed, Locals
<1>6. AllFresh(L, invalid) /\ L \in [Readers -> Locals] /\ \A v \in Readers : L[v].pc = loc[v].pc
  BY <1>1, RenewedFresh
<1>7. loc' = [L EXCEPT ![t] = r]
  BY <1>2, <1>6
<1> HIDE DEF L
<1>8. r.pc = "update" /\ r.got = u /\ r.bad = L[t].bad
  BY <1>6 DEF Locals
<1> HIDE DEF r
<1>9. Fresh(r, invalid)
  BY <1>5, <1>6, <1>8 DEF AllFresh, Fresh
<1>10. AllFresh(loc', invalid')
  BY <1>1, <1>6, <1>7, <1>9, OneFresh
<1>11. \A v \in Readers : NotBack(v)
  BY <1>6, <1>7, <1>8 DEF NotBack
<1> QED
  BY <1>10, <1>11

LEMMA ReinsertedFresh ==
    ASSUME Sound, AllFresh(loc, invalid), NEW t \in Readers, Reinserted(t)
    PROVE  AllFresh(loc', invalid') /\ \A v \in Readers : NotBack(v)
<1>1. Good(loc, requests) /\ loc[t] \in Locals /\ InPlace(loc[t])
  BY ReaderOK DEF Sound
<1>2. loc[t].pc = "reinsert" /\ invalid' = invalid
  BY DEF Reinserted, cacheVars
<1>3. PICK l \in (loc[t].fetch + 1)..MaxLinks :
         loc' = [loc EXCEPT ![t].pc = "unrestrict", ![t].fetch = l, ![t].late = TRUE]
  BY DEF Reinserted
<1>4. l \in 1..MaxLinks
  BY <1>1, <1>2, ConstantsAssumption DEF InPlace
<1> DEFINE r == [loc[t] EXCEPT !.pc = "unrestrict", !.fetch = l, !.late = TRUE]
<1>5. r \in Locals /\ r.pc = "unrestrict" /\ r.bad = loc[t].bad /\ r.got = loc[t].got
  BY <1>1, <1>4 DEF Locals, PCs
<1>6. loc' = [loc EXCEPT ![t] = r]
  BY <1>1, <1>3 DEF Good
<1> HIDE DEF r
<1> QED
  BY <1>2, <1>5, <1>6, SameFresh

LEMMA UpdateFresh ==
    ASSUME Sound, AllFresh(loc, invalid), NEW t \in Readers, Update(t)
    PROVE  AllFresh(loc', invalid') /\ \A v \in Readers : NotBack(v)
<1> DEFINE g == IF loc[t].late THEN None ELSE loc[t].got
           r == [loc[t] EXCEPT !.pc = "complete", !.got = g]
<1>1. loc \in [Readers -> Locals] /\ loc[t] \in Locals /\ Fresh(loc[t], invalid)
  BY ShapeOK DEF AllFresh
<1>2. loc[t].pc = "update" /\ invalid' = invalid /\ g \in {None, loc[t].got}
  BY DEF Update
<1>3. loc' = [loc EXCEPT ![t] = r]
  BY <1>1 DEF Update
<1> HIDE DEF g
<1>4. r.pc = "complete" /\ r.got = g /\ r.bad = loc[t].bad
  BY <1>1 DEF Locals
<1> HIDE DEF r
<1>5. Fresh(r, invalid')
  BY <1>1, <1>2, <1>4 DEF Fresh
<1> QED
  BY <1>2, <1>3, <1>4, <1>5, NewFresh

LEMMA RefusedFresh ==
    ASSUME Sound, AllFresh(loc, invalid), NEW t \in Readers, Refused(t)
    PROVE  AllFresh(loc', invalid') /\ \A v \in Readers : NotBack(v)
<1>1. loc \in [Readers -> Locals] /\ loc[t] \in Locals /\ Fresh(loc[t], invalid)
  BY ShapeOK DEF AllFresh
<1>2. PICK notFound \in BOOLEAN :
         loc' = [loc EXCEPT ![t].pc = "mark", ![t].own = None, ![t].again = notFound]
  BY DEF Refused
<1> DEFINE r == [loc[t] EXCEPT !.pc = "mark", !.own = None, !.again = notFound]
<1>3. r.pc = "mark" /\ r.bad = loc[t].bad
  BY <1>1 DEF Locals
<1>4. loc' = [loc EXCEPT ![t] = r] /\ invalid' = invalid
  BY <1>1, <1>2 DEF Refused, cacheVars
<1> HIDE DEF r
<1>5. Fresh(r, invalid')
  BY <1>1, <1>3, <1>4 DEF Fresh
<1> QED
  BY <1>3, <1>4, <1>5, NewFresh

\* Served and GivenUp end the Read, and with it the mark.
LEMMA EndedFresh ==
    ASSUME Sound, AllFresh(loc, invalid), NEW t \in Readers, Served(t) \/ GivenUp(t)
    PROVE  AllFresh(loc', invalid') /\ \A v \in Readers : NotBack(v)
<1> DEFINE s == AtRest(loc[t])
           r == [s EXCEPT !.own = None]
<1>1. loc[t] \in Locals
  BY ShapeOK
<1>2. s.pc = "idle" /\ Fresh(s, invalid)
  BY <1>1, AtRestFresh
<1>3. r.pc = "idle" /\ Fresh(r, invalid)
  <2>1. r.pc = "idle" /\ r.bad = None /\ r.got = None
    BY DEF AtRest, Closed
  <2> HIDE DEF r
  <2> QED
    BY <2>1 DEF Fresh
<1>4. invalid' = invalid /\ (loc' = [loc EXCEPT ![t] = s] \/ loc' = [loc EXCEPT ![t] = r])
  BY DEF Served, GivenUp, cacheVars
<1> HIDE DEF s, r
<1> QED
  BY <1>2, <1>3, <1>4, NewFresh

LEMMA MarkFresh ==
    ASSUME Sound, AllFresh(loc, invalid), NEW t \in Readers, Mark(t)
    PROVE  AllFresh(loc', invalid') /\ \A v \in Readers : NotBack(v)
<1> DEFINE r == [loc[t] EXCEPT !.pc = "remove", !.got = None, !.bad = loc[t].got]
<1>1. loc \in [Readers -> Locals] /\ loc[t] \in Locals
  BY ShapeOK
<1>2. loc' = [loc EXCEPT ![t] = r] /\ invalid' = invalid \cup {loc[t].got}
  BY <1>1 DEF Mark
<1>3. r.pc = "remove" /\ r.got = None /\ r.bad = loc[t].got
  BY <1>1 DEF Locals
<1> HIDE DEF r
<1>4. Fresh(r, invalid')
  BY <1>2, <1>3 DEF Fresh
<1>5. invalid \subseteq invalid'
  BY <1>2
<1> QED
  BY <1>2, <1>3, <1>4, <1>5, NewFresh

LEMMA RemoveFresh ==
    ASSUME Sound, AllFresh(loc, invalid), NEW t \in Readers, Remove(t)
    PROVE  AllFresh(loc', invalid') /\ \A v \in Readers : NotBack(v)
<1> DEFINE s == AtRest(loc[t])
           q == [s EXCEPT !.pc = "check", !.bad = loc[t].bad, !.again = loc[t].again]
           r == IF loc[t].own # None THEN s ELSE q
<1>1. loc[t] \in Locals /\ Fresh(loc[t], invalid)
  BY ShapeOK DEF AllFresh
<1>2. s.pc = "idle" /\ Fresh(s, invalid)
  BY <1>1, AtRestFresh
<1>3. q.pc = "check" /\ Fresh(q, invalid)
  <2>1. q.pc = "check" /\ q.bad = loc[t].bad /\ q.got = None
    BY DEF AtRest, Closed
  <2> HIDE DEF q
  <2> QED
    BY <1>1, <2>1 DEF Fresh
<1>4. loc' = [loc EXCEPT ![t] = r] /\ invalid' = invalid
  BY DEF Remove
<1> HIDE DEF s, q
<1>5. r.pc # "request" /\ Fresh(r, invalid')
  BY <1>2, <1>3, <1>4
<1> HIDE DEF r
<1> QED
  BY <1>4, <1>5, NewFresh

LEMMA GenerateFresh ==
    ASSUME Sound, AllFresh(loc, invalid), NEW f \in Files, Generate(f)
    PROVE  AllFresh(loc', invalid') /\ \A v \in Readers : NotBack(v)
<1>1. PICK u : loc' = Renewed(u) /\ invalid' = invalid
  BY DEF Generate
<1> QED
  BY <1>1, RenewedFresh DEF NotBack

LEMMA ResetInvalidFresh ==
    ASSUME Sound, AllFresh(loc, invalid), ResetInvalid
    PROVE  AllFresh(loc', invalid') /\ \A v \in Readers : NotBack(v)
<1> DEFINE L == [v \in Readers |-> [loc[v] EXCEPT !.bad = None]]
<1>1. loc' = L /\ invalid' = {}
  BY DEF ResetInvalid
<1>2. L = [v \in Readers |-> L[v]] /\ \A v \in Readers : L[v] = [loc[v] EXCEPT !.bad = None]
  OBVIOUS
<1> HIDE DEF L
<1>3. AllFresh(L, invalid') /\ \A v \in Readers : L[v].pc = loc[v].pc
  BY <1>1, <1>2, LiftedFresh
<1> QED
  BY <1>1, <1>3 DEF NotBack

LEMMA ContinueFresh ==
    ASSUME ~Fixed, Sound, AllFresh(loc, invalid), NEW t \in Readers, Continue(t)
    PROVE  AllFresh(loc', invalid') /\ \A v \in Readers : NotBack(v)
<1>1. CASE HosterUnavailable(t) \/ FetchFails(t) \/ RefusedAgain(t)
  BY <1>1, GotoFresh DEF HosterUnavailable, FetchFails, RefusedAgain, cacheVars, PCs
<1> QED
  BY <1>1, CheckFresh, LoadRequestFresh, StoreRequestFresh, CompleteFresh, DeleteRequestFresh,
     UnrestrictFresh, ReinsertedFresh, UpdateFresh, RefusedFresh, EndedFresh, MarkFresh,
     RemoveFresh DEF Continue

LEMMA FreshInit == Init => AllFresh(loc, invalid)
<1>1. Closed.pc = "closed" /\ Closed.bad = None /\ Closed.got = None
  BY DEF Closed
<1> QED
  BY <1>1 DEF Init, AllFresh, Fresh

LEMMA FreshNext ==
    ASSUME ~Fixed, Sound, AllFresh(loc, invalid), [Next]_vars
    PROVE  AllFresh(loc', invalid') /\ \A v \in Readers : NotBack(v)
<1>1. ASSUME NEW u \in Urls, RefreshLink(u)
      PROVE  AllFresh(loc', invalid') /\ \A v \in Readers : NotBack(v)
  BY <1>1 DEF RefreshLink, NotBack
<1>2. ASSUME NEW k \in Keys, Expire(k)
      PROVE  AllFresh(loc', invalid') /\ \A v \in Readers : NotBack(v)
  BY <1>2 DEF Expire, NotBack
<1>3. CASE UNCHANGED vars
  BY <1>3 DEF vars, cacheVars, NotBack
<1> QED
  BY <1>1, <1>2, <1>3, OpenFresh, CloseFresh, ReadFresh, ContinueFresh, GenerateFresh,
     ResetInvalidFresh DEF Next

-----------------------------------------------------------------------------

\* The maps, the marks and every reader's locals hold what the Go types allow.
THEOREM TypeCorrect == Spec => []TypeOK
<1>1. Sound => TypeOK
  BY DEF Sound, Good, Cached, TypeOK
<1> QED
  BY <1>1, SoundInit, SoundNext, PTL DEF Spec

\* downloadLinkRequest: a reader waits only for one whose Complete is to come.
THEOREM WaitersAreServed == Spec => []WaitersServed
<1>1. Sound => WaitersServed
  BY DEF Sound, Good, Waits, Fetches, Fetching, WaitersServed
<1> QED
  BY <1>1, SoundInit, SoundNext, PTL DEF Spec

\* GetDownloadLink: with restricted links, no reader requests another file's url.
THEOREM OwnFiles == Linked => (Spec => []RightFile)
<1> SUFFICES ASSUME Linked PROVE Spec => []RightFile
  OBVIOUS
<1>1. Sound => RightFile
  BY DEF Sound, Good, InPlace, OwnUrls, RightFile
<1> QED
  BY <1>1, SoundInit, SoundNext, PTL DEF Spec

\* MarkDownloadLinkAsInvalid: unless the client returns one url for ever, as
\* DebridLink's does, a Read gets the url it marked neither from the cache nor
\* from its own fetch.
THEOREM MarkedStaysAway == ~Fixed => (Spec => NotAgain)
<1> SUFFICES ASSUME ~Fixed PROVE Spec => NotAgain
  OBVIOUS
<1> DEFINE Inv == Sound /\ AllFresh(loc, invalid)
           Kept == \A t \in Readers :
                      loc[t].pc \in {"check", "delete"} /\ loc'[t].pc = "request"
                        => loc'[t].got # loc[t].bad
<1>1. Init => Inv
  BY SoundInit, FreshInit
<1>2. Inv /\ [Next]_vars => Inv' /\ Kept
  <2> SUFFICES ASSUME Inv, [Next]_vars PROVE Inv' /\ Kept
    OBVIOUS
  <2>1. Sound'
    BY SoundNext
  <2>2. AllFresh(loc', invalid') /\ \A t \in Readers : NotBack(t)
    BY FreshNext
  <2>3. AllFresh(loc, invalid)'
    BY <2>2 DEF AllFresh, Fresh
  <2> QED
    BY <2>1, <2>2, <2>3 DEF NotBack
<1> HIDE DEF Inv, Kept
<1>3. Spec => [][Kept]_vars
  BY <1>1, <1>2, PTL DEF Spec
<1> QED
  BY <1>3, PTL DEF NotAgain, Kept
=============================================================================
