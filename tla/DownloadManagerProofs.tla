----------------------- MODULE DownloadManagerProofs -----------------------
(***************************************************************************)
(* Proofs about DownloadManager, for every number of calls, peers, files   *)
(* and tokens, every limit and every truncated hash.                       *)
(***************************************************************************)
EXTENDS DownloadManager, FiniteSetTheorems, TLAPS

\* The parts of the inductive invariant that speak of one manager record.
Slots(m)     == m.active_slots \subseteq Known(m)
Limit(m)     == MaxConcurrent # Unlimited => Cardinality(m.active_slots) <= MaxConcurrent
Reachable(m) == \A t \in Known(m) : t \in m.active_slots \/ \E e \in m.pending : e.token = t
Open(m)      == \A t \in Known(m) : /\ m.shown[m.downloads[t].req] \in Waiting \cup {"Nothing"}
                                    /\ TokenFor(m.downloads[t].req) = t

OK(m) == /\ m \in Manager
         /\ IsFiniteSet(m.pending)
         /\ Slots(m)
         /\ Limit(m)
         /\ Reachable(m)
         /\ Open(m)

\* The same while the downloads of T are on their way from the queue to a slot.
Moving(m, T) == /\ m \in Manager
                /\ IsFiniteSet(m.pending)
                /\ Slots(m)
                /\ Limit(m)
                /\ \A t \in Known(m) \ T : t \in m.active_slots \/ \E e \in m.pending : e.token = t
                /\ Open(m)

Tokens(E) == {e.token : e \in E}

USE DEF Waiting, Terminal

-----------------------------------------------------------------------------
(* Popping entries and starting their downloads. *)

LEMMA InitiateType ==
  ASSUME NEW m, m \in Manager, NEW E, IsFiniteSet(E)
  PROVE  TryInitiate(m, E) \in Manager
<1> DEFINE started == Tokens(E) \cap Known(m)
           hits(t) == Cardinality({e \in E : e.token = t})
<1>1. \A t \in started : hits(t) \in Nat \ {0}
  <2> SUFFICES ASSUME NEW t \in started PROVE hits(t) \in Nat \ {0}
    OBVIOUS
  <2>1. {e \in E : e.token = t} \in SUBSET E /\ {e \in E : e.token = t} # {}
    BY DEF Tokens
  <2> HIDE DEF started
  <2> QED
    BY <2>1, FS_Subset, FS_CardinalityType, FS_EmptySet
<1>2. \A t \in Token : LiveTimer(m, t) \in {0, 1}
  BY DEF LiveTimer
<1>3. \A t \in started : m.downloads[t] \in Download
  BY DEF Known, Manager
<1>4. Reqs(m, started) \subseteq Request
  BY <1>3 DEF Reqs, Download
<1> DEFINE strays == [t \in Token |-> IF t \in started
                                      THEN m.strays[t] + LiveTimer(m, t) + hits(t) - 1
                                      ELSE m.strays[t]]
           downs  == [t \in Token |-> IF t \in started
                                      THEN [m.downloads[t] EXCEPT !.status = "QueuedLocally", !.timer = TRUE]
                                      ELSE m.downloads[t]]
           slots  == m.active_slots \cup started
           asked  == m.asked \cup {r \in Reqs(m, started) : UserOf[r] \in m.registry}
<1>5. TryInitiate(m, E) = [m EXCEPT !.active_slots = slots, !.asked = asked, !.strays = strays, !.downloads = downs]
  BY DEF TryInitiate, Tokens
<1>6. strays \in [Token -> Nat]
  <2> SUFFICES ASSUME NEW t \in Token PROVE strays[t] \in Nat
    OBVIOUS
  <2>1. m.strays[t] \in Nat
    BY DEF Manager
  <2>2. CASE t \in started
    <3> DEFINE h == hits(t)
               l == LiveTimer(m, t)
    <3>1. h \in Nat \ {0} /\ l \in {0, 1}
      BY <2>2, <1>1, <1>2
    <3>2. strays[t] = m.strays[t] + l + h - 1
      BY <2>2
    <3> HIDE DEF h, l, strays
    <3> QED
      BY <2>1, <3>1, <3>2
  <2>3. CASE t \notin started
    BY <2>1, <2>3
  <2> QED
    BY <2>2, <2>3
<1>7. downs \in [Token -> Download \cup {NoDownload}]
  <2> SUFFICES ASSUME NEW t \in Token PROVE downs[t] \in Download \cup {NoDownload}
    OBVIOUS
  <2>1. CASE t \in started
    BY <2>1, <1>3 DEF Download
  <2>2. CASE t \notin started
    BY <2>2 DEF Manager
  <2> QED
    BY <2>1, <2>2
<1>8. slots \in SUBSET Token
  BY DEF Manager, Known
<1>9. asked \in SUBSET Request
  BY <1>4 DEF Manager
<1> HIDE DEF strays, downs, slots, asked
<1> QED
  BY <1>5, <1>6, <1>7, <1>8, <1>9 DEF Manager

LEMMA InitiateFields ==
  ASSUME NEW m, m \in Manager, NEW E, IsFiniteSet(E)
  PROVE  LET n == TryInitiate(m, E)
         IN  /\ n.pending = m.pending
             /\ n.active_slots = m.active_slots \cup (Tokens(E) \cap Known(m))
             /\ n.shown = m.shown
             /\ n.logged_in = m.logged_in
             /\ Known(n) = Known(m)
<1> DEFINE n == TryInitiate(m, E)
<1>1. \A t \in Known(m) : m.downloads[t] \in Download
  BY DEF Manager, Known
<1> DEFINE started == Tokens(E) \cap Known(m)
           downs == [t \in Token |-> IF t \in started
                      THEN [m.downloads[t] EXCEPT !.status = "QueuedLocally", !.timer = TRUE]
                      ELSE m.downloads[t]]
           strays == [t \in Token |-> IF t \in started
                      THEN m.strays[t] + LiveTimer(m, t) + Cardinality({e \in E : e.token = t}) - 1
                      ELSE m.strays[t]]
<1>2. /\ n.pending = m.pending /\ n.active_slots = m.active_slots \cup started
      /\ n.shown = m.shown /\ n.logged_in = m.logged_in
      /\ n.downloads = downs /\ n.strays = strays
  <2> HIDE DEF n, started, downs, strays
  <2>1. n = [m EXCEPT !.active_slots = m.active_slots \cup started,
                      !.asked = m.asked \cup {r \in Reqs(m, started) : UserOf[r] \in m.registry},
                      !.strays = strays, !.downloads = downs]
    BY DEF n, TryInitiate, Tokens, started, downs, strays
  <2> QED
    BY <2>1 DEF Manager
<1>3. Known(n) = Known(m)
  <2>1. \A t \in started : [m.downloads[t] EXCEPT !.status = "QueuedLocally", !.timer = TRUE] \in Download
    BY <1>1 DEF Download
  <2>2. \A t \in Token : downs[t] # NoDownload <=> m.downloads[t] # NoDownload
    BY <2>1, SentinelAssumption DEF Known
  <2> QED
    BY <1>2, <2>2 DEF Known
<1> QED
  BY <1>2, <1>3

\* What it does to one download.
LEMMA InitiateDownload ==
  ASSUME NEW m, m \in Manager, NEW E, NEW t \in Token
  PROVE  LET n == TryInitiate(m, E)
         IN  /\ t \in Known(m) => n.downloads[t].req = m.downloads[t].req
             /\ t \notin Tokens(E) => /\ n.downloads[t] = m.downloads[t]
                                     /\ n.strays[t] = m.strays[t]
             /\ t \in Tokens(E) \cap Known(m) => n.downloads[t].timer = TRUE
<1> DEFINE n == TryInitiate(m, E)
           started == Tokens(E) \cap Known(m)
<1>1. t \in Known(m) => m.downloads[t] \in Download
  BY DEF Manager, Known
<1>2. n.downloads[t] = IF t \in started
                       THEN [m.downloads[t] EXCEPT !.status = "QueuedLocally", !.timer = TRUE]
                       ELSE m.downloads[t]
  BY DEF TryInitiate, Tokens, Manager
<1>3. t \notin started => n.strays[t] = m.strays[t]
  BY DEF TryInitiate, Tokens, Manager
<1> HIDE DEF n
<1> QED
  BY <1>1, <1>2, <1>3 DEF Download, n

\* It completes the move, as long as the slots it ends with are within the limit.
LEMMA InitiateOK ==
  ASSUME NEW m, NEW E, IsFiniteSet(E), Moving(m, Tokens(E)),
         MaxConcurrent # Unlimited =>
           Cardinality(m.active_slots \cup (Tokens(E) \cap Known(m))) <= MaxConcurrent
  PROVE  OK(TryInitiate(m, E))
<1> DEFINE n == TryInitiate(m, E)
<1>1. m \in Manager
  BY DEF Moving
<1>2. n \in Manager
  BY <1>1, InitiateType
<1>3. n = TryInitiate(m, E)
  OBVIOUS
<1> HIDE DEF n
<1>4. /\ n.pending = m.pending
      /\ n.active_slots = m.active_slots \cup (Tokens(E) \cap Known(m))
      /\ n.shown = m.shown
      /\ Known(n) = Known(m)
  BY <1>1, InitiateFields DEF n
<1>5. IsFiniteSet(n.pending)
  BY <1>4 DEF Moving
<1>6. Slots(n)
  BY <1>4 DEF Moving, Slots
<1>7. Limit(n)
  BY <1>4 DEF Limit
<1>8. Reachable(n)
  BY <1>4 DEF Moving, Reachable
<1>9. Open(n)
  <2>1. \A t \in Known(m) : n.downloads[t].req = m.downloads[t].req
    BY <1>1, InitiateDownload DEF n, Known
  <2> QED
    BY <1>4, <2>1 DEF Moving, Open
<1> QED
  BY <1>2, <1>3, <1>5, <1>6, <1>7, <1>8, <1>9 DEF OK

LEMMA StartOK ==
  ASSUME NEW m, OK(m), NEW E, IsFiniteSet(E),
         MaxConcurrent # Unlimited =>
           Cardinality(m.active_slots \cup (Tokens(E) \cap Known(m))) <= MaxConcurrent
  PROVE  OK(Start(m, E))
<1> DEFINE p == [m EXCEPT !.pending = @ \ E]
<1>1. /\ p \in Manager /\ p.pending = m.pending \ E
      /\ p.downloads = m.downloads /\ p.active_slots = m.active_slots /\ p.shown = m.shown
  BY DEF OK, Manager
<1>2. Start(m, E) = TryInitiate(p, E)
  BY DEF Start
<1> HIDE DEF p
<1>3. Known(p) = Known(m)
  BY <1>1 DEF Known
<1>4. IsFiniteSet(p.pending)
  BY <1>1, FS_Subset DEF OK
<1>5. Slots(p) /\ Limit(p) /\ Open(p)
  BY <1>1, <1>3 DEF OK, Slots, Limit, Open
<1>6. \A t \in Known(p) \ Tokens(E) : t \in p.active_slots \/ \E e \in p.pending : e.token = t
  BY <1>1, <1>3 DEF OK, Reachable, Tokens
<1>7. Moving(p, Tokens(E))
  BY <1>1, <1>4, <1>5, <1>6 DEF Moving
<1> QED
  BY <1>1, <1>2, <1>3, <1>7, InitiateOK

LEMMA SlotsFinite ==
  ASSUME NEW m, m \in Manager, NEW T
  PROVE  /\ IsFiniteSet(m.active_slots)
         /\ IsFiniteSet(m.active_slots \cup (T \cap Known(m)))
BY FiniteAssumption, FS_Subset DEF Manager, Known

LEMMA TryDequeueNextOK ==
  ASSUME NEW m, OK(m)
  PROVE  OK(TryDequeueNext(m))
<1> DEFINE front == CHOOSE e \in m.pending : \A f \in m.pending : e.stamp <= f.stamp
           slots == m.active_slots \cup (Tokens({front}) \cap Known(m))
<1> HIDE DEF front
<1>1. CASE m.logged_in /\ HasRoom(m.active_slots) /\ m.pending # {}
  <2>1. TryDequeueNext(m) = Start(m, {front})
    BY <1>1 DEF TryDequeueNext, front
  <2>2. IsFiniteSet({front})
    BY FS_Singleton
  <2>3. slots = m.active_slots \/ slots = m.active_slots \cup {front.token}
    BY DEF Tokens
  <2>4. MaxConcurrent # Unlimited => Cardinality(slots) <= MaxConcurrent
    <3> HIDE DEF slots
    <3>1. IsFiniteSet(m.active_slots) /\ Cardinality(m.active_slots) \in Nat
      BY SlotsFinite, FS_CardinalityType DEF OK
    <3> QED
      BY <1>1, <2>3, <3>1, FS_AddElement, LimitAssumption DEF HasRoom
  <2> QED
    BY <2>1, <2>2, <2>4, StartOK
<1>2. CASE ~(m.logged_in /\ HasRoom(m.active_slots) /\ m.pending # {})
  BY <1>2 DEF TryDequeueNext
<1> QED
  BY <1>1, <1>2

\* The drain stops at the entry that fills the last slot.
LEMMA DrainOK ==
  ASSUME NEW m, OK(m), NEW n \in DrainPendingQueue(m)
  PROVE  OK(n)
<1>1. CASE m.pending = {} \/ ~HasRoom(m.active_slots)
  BY <1>1 DEF DrainPendingQueue
<1>2. CASE ~(m.pending = {} \/ ~HasRoom(m.active_slots))
  <2>1. PICK e \in m.pending : DrainEndsWith(m, e) /\
               n = Start(m, {f \in m.pending : f.stamp < e.stamp} \cup {e})
    BY <1>2 DEF DrainPendingQueue
  <2> DEFINE before == {f \in m.pending : f.stamp < e.stamp}
             slots(E) == m.active_slots \cup (Tokens(E) \cap Known(m))
  <2>2. HasRoom(slots(before))
    BY <2>1 DEF DrainEndsWith, Tokens
  <2>3. slots(before \cup {e}) = slots(before) \/ slots(before \cup {e}) = slots(before) \cup {e.token}
    BY DEF Tokens
  <2>4. IsFiniteSet(slots(before))
    BY SlotsFinite DEF OK
  <2>5. MaxConcurrent # Unlimited => Cardinality(slots(before \cup {e})) <= MaxConcurrent
    <3> DEFINE s == slots(before)
               z == slots(before \cup {e})
    <3>1. IsFiniteSet(s) /\ Cardinality(s) \in Nat
      BY <2>4, FS_CardinalityType
    <3>2. HasRoom(s) /\ (z = s \/ z = s \cup {e.token})
      BY <2>2, <2>3
    <3> HIDE DEF s, z
    <3>3. MaxConcurrent # Unlimited => Cardinality(z) <= MaxConcurrent
      BY <3>1, <3>2, FS_AddElement, LimitAssumption DEF HasRoom
    <3> QED
      BY <3>3 DEF z
  <2>6. IsFiniteSet(before \cup {e})
    BY FS_Subset DEF OK
  <2> QED
    BY <2>1, <2>5, <2>6, StartOK
<1> QED
  BY <1>1, <1>2

-----------------------------------------------------------------------------
(* Ending downloads: completion, failure, cancellation, timeout. *)

\* Whatever path ends the downloads of T, if the rest of the record keeps its
\* queue entries, slots, downloads and statuses, the invariant holds again.
LEMMA EndingOK ==
  ASSUME NEW m, OK(m), NEW n, n \in Manager, NEW T,
         n.pending \subseteq m.pending,
         \A e \in m.pending : e.token \notin T => e \in n.pending,
         n.active_slots = m.active_slots \ T,
         \A t \in Token : n.downloads[t] = IF t \in T THEN NoDownload ELSE m.downloads[t],
         \A r \in Request \ Reqs(m, T) : n.shown[r] = m.shown[r]
  PROVE  OK(n)
<1>1. Known(n) = Known(m) \ T
  BY DEF Known
<1>2. IsFiniteSet(n.pending)
  BY FS_Subset DEF OK
<1>3. Slots(n)
  BY <1>1 DEF OK, Slots
<1>4. Limit(n)
  <2>1. IsFiniteSet(m.active_slots) /\ n.active_slots \in SUBSET m.active_slots
    BY SlotsFinite DEF OK
  <2>2. /\ Cardinality(n.active_slots) <= Cardinality(m.active_slots)
        /\ Cardinality(n.active_slots) \in Nat /\ Cardinality(m.active_slots) \in Nat
    BY <2>1, FS_Subset, FS_CardinalityType
  <2> QED
    BY <2>2, LimitAssumption DEF OK, Limit
<1>5. Reachable(n)
  BY <1>1 DEF OK, Reachable
<1>6. Open(n)
  <2> SUFFICES ASSUME NEW t \in Known(n)
               PROVE  /\ n.shown[n.downloads[t].req] \in Waiting \cup {"Nothing"}
                      /\ TokenFor(n.downloads[t].req) = t
    BY DEF Open
  <2>1. t \in Known(m) /\ t \notin T /\ n.downloads[t] = m.downloads[t] /\ t \in Token
    BY <1>1 DEF Known
  <2>2. m.downloads[t].req \in Request
    BY <2>1 DEF OK, Manager, Known, Download
  <2>3. m.downloads[t].req \notin Reqs(m, T)
    BY <2>1 DEF OK, Open, Reqs
  <2> QED
    BY <2>1, <2>2, <2>3 DEF OK, Open
<1> QED
  BY <1>2, <1>3, <1>4, <1>5, <1>6 DEF OK

LEMMA TellType ==
  ASSUME NEW m, m \in Manager, NEW R, NEW s \in Shown
  PROVE  /\ Tell(m, R, s) \in Manager
         /\ Tell(m, R, s) = [m EXCEPT !.shown = Tell(m, R, s).shown]
         /\ \A r \in Request : Tell(m, R, s).shown[r] = IF r \in R THEN s ELSE m.shown[r]
BY DEF Tell, Manager

LEMMA StrayType ==
  ASSUME NEW m, m \in Manager, NEW t \in Token
  PROVE  /\ Stray(m, t) \in Manager
         /\ Stray(m, t) = [m EXCEPT !.strays = Stray(m, t).strays]
         /\ \A x \in Token : Stray(m, t).strays[x] >= m.strays[x]
         /\ \A x \in Token \ {t} : Stray(m, t).strays[x] = m.strays[x]
<1>1. LiveTimer(m, t) \in {0, 1}
  BY DEF LiveTimer
<1>2. m.strays[t] \in Nat /\ m.strays \in [Token -> Nat]
  BY DEF Manager
<1> DEFINE l == LiveTimer(m, t)
           y == [m.strays EXCEPT ![t] = m.strays[t] + l]
<1>3. /\ y \in [Token -> Nat] /\ \A x \in Token : y[x] >= m.strays[x]
      /\ \A x \in Token \ {t} : y[x] = m.strays[x]
  <2> HIDE DEF l
  <2> QED
    BY <1>1, <1>2 DEF l
<1>4. Stray(m, t) = [m EXCEPT !.strays = y]
  BY DEF Stray
<1> HIDE DEF y
<1> QED
  BY <1>3, <1>4 DEF Manager

LEMMA DropType ==
  ASSUME NEW m, m \in Manager, NEW T
  PROVE  /\ Drop(m, T) \in Manager
         /\ Drop(m, T).active_slots = m.active_slots \ T
         /\ \A t \in Token : Drop(m, T).downloads[t] = IF t \in T THEN NoDownload ELSE m.downloads[t]
         /\ Drop(m, T).pending = m.pending
         /\ Drop(m, T).shown = m.shown
         /\ Drop(m, T).strays = m.strays
         /\ Drop(m, T).logged_in = m.logged_in
         /\ Drop(m, T).asked = m.asked
BY DEF Drop, Manager

LEMMA UnqueueType ==
  ASSUME NEW m, m \in Manager, NEW T
  PROVE  /\ Unqueue(m, T) \in Manager
         /\ Unqueue(m, T).pending \subseteq m.pending
         /\ \A e \in m.pending : e.token \notin T => e \in Unqueue(m, T).pending
         /\ Unqueue(m, T).active_slots = m.active_slots
         /\ Unqueue(m, T).downloads = m.downloads
         /\ Unqueue(m, T).strays = m.strays
         /\ Unqueue(m, T).shown = m.shown
         /\ Unqueue(m, T).logged_in = m.logged_in
         /\ Unqueue(m, T).asked = m.asked
BY DEF Unqueue, Manager

\* n is m after the downloads of T have ended and their callers were told s.
Ended(m, n, T, s) ==
  /\ n \in Manager
  /\ n.pending \subseteq m.pending
  /\ \A e \in m.pending : e.token \notin T => e \in n.pending
  /\ n.active_slots = m.active_slots \ T
  /\ \A t \in Token : n.downloads[t] = IF t \in T THEN NoDownload ELSE m.downloads[t]
  /\ \A t \in Token : n.strays[t] >= m.strays[t]
  /\ \A r \in Request : n.shown[r] = IF r \in Reqs(m, T) THEN s ELSE m.shown[r]
  /\ n.asked = m.asked /\ n.logged_in = m.logged_in

LEMMA EndedOK ==
  ASSUME NEW m, OK(m), NEW n, NEW T, NEW s, Ended(m, n, T, s)
  PROVE  OK(n)
BY EndingOK DEF Ended

LEMMA AbandonEnds ==
  ASSUME NEW m, OK(m), NEW t \in Token, NEW s \in Terminal
  PROVE  Ended(m, Abandon(Tell(m, Reqs(m, {t}), s), t), {t}, s)
<1> DEFINE a == Tell(m, Reqs(m, {t}), s)
           b == Stray(a, t)
           n == Drop(b, {t})
<1>1. m \in Manager /\ s \in Shown
  BY DEF OK, Shown
<1>2. /\ a \in Manager /\ a = [m EXCEPT !.shown = a.shown]
      /\ \A r \in Request : a.shown[r] = IF r \in Reqs(m, {t}) THEN s ELSE m.shown[r]
  BY <1>1, TellType
<1> HIDE DEF a
<1>3. /\ b \in Manager /\ b = [a EXCEPT !.strays = b.strays]
      /\ \A x \in Token : b.strays[x] >= a.strays[x]
  BY <1>2, StrayType
<1> HIDE DEF b
<1>4. /\ b.pending = m.pending /\ b.active_slots = m.active_slots
      /\ b.downloads = m.downloads /\ b.shown = a.shown /\ a.strays = m.strays
      /\ b.asked = m.asked /\ b.logged_in = m.logged_in
  BY <1>1, <1>2, <1>3 DEF Manager
<1>5. /\ n \in Manager /\ n.pending = m.pending
      /\ n.active_slots = m.active_slots \ {t}
      /\ \A x \in Token : n.downloads[x] = IF x \in {t} THEN NoDownload ELSE m.downloads[x]
      /\ n.shown = a.shown /\ n.strays = b.strays
      /\ n.asked = m.asked /\ n.logged_in = m.logged_in
  BY <1>3, <1>4, DropType
<1> HIDE DEF n
<1>6. Ended(m, n, {t}, s)
  BY <1>2, <1>3, <1>4, <1>5 DEF Ended
<1> QED
  BY <1>6 DEF Abandon, n, b, a

LEMMA FailEnds ==
  ASSUME NEW m, OK(m), NEW T, NEW s \in Terminal
  PROVE  /\ Ended(m, Drop(Unqueue(Tell(m, Reqs(m, T), s), T), T), T, s)
         /\ Ended(m, Drop(Tell(Unqueue(m, T), Reqs(m, T), s), T), T, s)
<1> DEFINE a == Tell(m, Reqs(m, T), s)
           b == Unqueue(a, T)
           n == Drop(b, T)
           c == Unqueue(m, T)
           d == Tell(c, Reqs(m, T), s)
           o == Drop(d, T)
<1>1. m \in Manager /\ s \in Shown /\ \A t \in Token : m.strays[t] \in Nat
  BY DEF OK, Shown, Manager
<1>2. /\ a \in Manager /\ a = [m EXCEPT !.shown = a.shown]
      /\ \A r \in Request : a.shown[r] = IF r \in Reqs(m, T) THEN s ELSE m.shown[r]
  BY <1>1, TellType
<1> HIDE DEF a
<1>3. /\ b \in Manager /\ b.pending \subseteq a.pending
      /\ \A e \in a.pending : e.token \notin T => e \in b.pending
      /\ b.active_slots = a.active_slots /\ b.downloads = a.downloads /\ b.shown = a.shown
      /\ b.strays = a.strays /\ b.asked = a.asked /\ b.logged_in = a.logged_in
  BY <1>2, UnqueueType
<1> HIDE DEF b
<1>4. /\ n \in Manager /\ n.pending = b.pending
      /\ n.active_slots = b.active_slots \ T
      /\ \A x \in Token : n.downloads[x] = IF x \in T THEN NoDownload ELSE b.downloads[x]
      /\ n.shown = b.shown /\ n.strays = b.strays
      /\ n.asked = b.asked /\ n.logged_in = b.logged_in
  BY <1>3, DropType
<1> HIDE DEF n
<1>5. /\ a.pending = m.pending /\ a.active_slots = m.active_slots /\ a.downloads = m.downloads
      /\ a.strays = m.strays /\ a.asked = m.asked /\ a.logged_in = m.logged_in
  BY <1>1, <1>2 DEF Manager
<1>6. Ended(m, n, T, s)
  BY <1>1, <1>2, <1>3, <1>4, <1>5 DEF Ended
<1>7. /\ c \in Manager /\ c.pending \subseteq m.pending
      /\ \A e \in m.pending : e.token \notin T => e \in c.pending
      /\ c.active_slots = m.active_slots /\ c.downloads = m.downloads /\ c.shown = m.shown
      /\ c.strays = m.strays /\ c.asked = m.asked /\ c.logged_in = m.logged_in
  BY <1>1, UnqueueType
<1> HIDE DEF c
<1>8. /\ d \in Manager /\ d = [c EXCEPT !.shown = d.shown]
      /\ \A r \in Request : d.shown[r] = IF r \in Reqs(m, T) THEN s ELSE c.shown[r]
  BY <1>1, <1>7, TellType
<1> HIDE DEF d
<1>9. /\ d.pending = c.pending /\ d.active_slots = c.active_slots /\ d.downloads = c.downloads
      /\ d.strays = c.strays /\ d.asked = c.asked /\ d.logged_in = c.logged_in
  BY <1>7, <1>8 DEF Manager
<1>10. /\ o \in Manager /\ o.pending = d.pending
       /\ o.active_slots = d.active_slots \ T
       /\ \A x \in Token : o.downloads[x] = IF x \in T THEN NoDownload ELSE d.downloads[x]
       /\ o.shown = d.shown /\ o.strays = d.strays
       /\ o.asked = d.asked /\ o.logged_in = d.logged_in
  BY <1>8, DropType
<1> HIDE DEF o
<1>11. Ended(m, o, T, s)
  BY <1>1, <1>7, <1>8, <1>9, <1>10 DEF Ended
<1> QED
  BY <1>6, <1>11 DEF n, b, a, o, d, c

LEMMA AbandonOK ==
  ASSUME NEW m, OK(m), NEW t \in Token, NEW s \in Terminal
  PROVE  OK(Abandon(Tell(m, Reqs(m, {t}), s), t))
BY AbandonEnds, EndedOK

LEMMA FailOK ==
  ASSUME NEW m, OK(m), NEW T, NEW s \in Terminal
  PROVE  /\ OK(Drop(Unqueue(Tell(m, Reqs(m, T), s), T), T))
         /\ OK(Drop(Tell(Unqueue(m, T), Reqs(m, T), s), T))
BY FailEnds, EndedOK

LEMMA OnCompletedOK ==
  ASSUME NEW m, OK(m), NEW t \in Token, NEW s \in Terminal
  PROVE  OK(OnCompleted(m, t, s))
BY AbandonOK, TryDequeueNextOK DEF OnCompleted

LEMMA FailMatchingOK ==
  ASSUME NEW m, OK(m), NEW T
  PROVE  OK(FailMatching(m, T))
BY FailOK, TryDequeueNextOK DEF FailMatching

LEMMA OnTimeoutOK ==
  ASSUME NEW m, OK(m), NEW t \in Token
  PROVE  OK(OnTimeout(m, t))
BY AbandonOK, TryDequeueNextOK DEF OnTimeout

\* Without a download of the token there is only an entry to take out.
LEMMA UnqueueEnds ==
  ASSUME NEW m, OK(m), NEW t \in Token \ Known(m)
  PROVE  Ended(m, Unqueue(m, {t}), {t}, "Cancelled")
<1> DEFINE n == Unqueue(m, {t})
<1>1. m \in Manager /\ Reqs(m, {t}) = {} /\ \A x \in Token : m.strays[x] \in Nat
  BY DEF OK, Reqs, Manager
<1>2. /\ n \in Manager /\ n.pending \subseteq m.pending
      /\ \A e \in m.pending : e.token \notin {t} => e \in n.pending
      /\ n.active_slots = m.active_slots /\ n.downloads = m.downloads /\ n.shown = m.shown
      /\ n.strays = m.strays /\ n.asked = m.asked /\ n.logged_in = m.logged_in
  BY <1>1, UnqueueType
<1>3. \A x \in Token : n.downloads[x] = IF x \in {t} THEN NoDownload ELSE m.downloads[x]
  BY <1>2 DEF Known
<1>4. n.active_slots = m.active_slots \ {t}
  BY <1>2 DEF OK, Slots
<1> HIDE DEF n
<1>5. \A x \in Token : n.strays[x] >= m.strays[x]
  BY <1>1, <1>2
<1>6. \A r \in Request : n.shown[r] = IF r \in Reqs(m, {t}) THEN "Cancelled" ELSE m.shown[r]
  BY <1>1, <1>2
<1>7. Ended(m, n, {t}, "Cancelled")
  BY <1>2, <1>3, <1>4, <1>5, <1>6 DEF Ended
<1> QED
  BY <1>7 DEF n

LEMMA OnCancelOK ==
  ASSUME NEW m, OK(m), NEW t \in Token
  PROVE  OK(OnCancel(m, t))
<1>1. CASE t \notin Known(m)
  BY <1>1, UnqueueEnds, EndedOK DEF OnCancel
<1>2. CASE t \in Known(m)
  <2> DEFINE n == Drop(Tell(Unqueue(m, {t}), Reqs(m, {t}), "Cancelled"), {t})
  <2>1. OK(n)
    BY FailOK
  <2>2. OK(TryDequeueNext(n))
    BY <2>1, TryDequeueNextOK
  <2> QED
    BY <1>2, <2>1, <2>2 DEF OnCancel
<1> QED
  BY <1>1, <1>2

-----------------------------------------------------------------------------
(* Accepting downloads. *)

\* A new call overwrites the download with its token, if there is one; the new
\* download is then on its way to the queue or to a slot.
LEMMA InsertMoving ==
  ASSUME NEW m, OK(m), NEW r \in Request, m.shown[r] = "NotRequested",
         NEW s \in {"Nothing", "QueuedLocally"}
  PROVE  LET n == Insert(Tell(m, {r}, s), r)
         IN  /\ Moving(n, {TokenFor(r)})
             /\ n.active_slots = m.active_slots
             /\ n.pending = m.pending
             /\ n.asked = m.asked /\ n.logged_in = m.logged_in
             /\ \A x \in Request \ {r} : n.shown[x] = m.shown[x]
             /\ \A x \in Token \ {TokenFor(r)} : /\ n.downloads[x] = m.downloads[x]
                                               /\ n.strays[x] = m.strays[x]
<1> DEFINE t == TokenFor(r)
           a == Tell(m, {r}, s)
           b == Stray(a, t)
           n == Insert(a, r)
<1>1. m \in Manager /\ s \in Shown /\ t \in Token
  BY CallAssumption DEF OK, Shown, TokenFor
<1>2. /\ a \in Manager /\ a = [m EXCEPT !.shown = a.shown]
      /\ \A x \in Request : a.shown[x] = IF x \in {r} THEN s ELSE m.shown[x]
  BY <1>1, TellType
<1>3. /\ a.downloads = m.downloads /\ a.pending = m.pending /\ a.active_slots = m.active_slots
      /\ a.strays = m.strays /\ a.asked = m.asked /\ a.logged_in = m.logged_in
  BY <1>1, <1>2 DEF Manager
<1> HIDE DEF a
<1>4. /\ b \in Manager /\ b = [a EXCEPT !.strays = b.strays]
      /\ \A x \in Token \ {t} : b.strays[x] = a.strays[x]
  BY <1>1, <1>2, StrayType
<1>5. /\ b.downloads = m.downloads /\ b.pending = m.pending
      /\ b.active_slots = m.active_slots /\ b.shown = a.shown
      /\ b.asked = m.asked /\ b.logged_in = m.logged_in
  BY <1>2, <1>3, <1>4 DEF Manager
<1>6. NewDownload(r) \in Download
  BY DEF NewDownload, Download
<1>7. n = [b EXCEPT !.downloads = [b.downloads EXCEPT ![t] = NewDownload(r)]]
  BY DEF Insert, b
<1> HIDE DEF b, n, t
<1>8. /\ n \in Manager /\ n.pending = m.pending /\ n.active_slots = m.active_slots
      /\ n.shown = a.shown /\ n.downloads = [m.downloads EXCEPT ![t] = NewDownload(r)]
      /\ n.strays = b.strays /\ n.asked = m.asked /\ n.logged_in = m.logged_in
  BY <1>1, <1>4, <1>5, <1>6, <1>7 DEF Manager
<1>9. Known(n) = Known(m) \cup {t} /\ n.downloads[t] = NewDownload(r)
      /\ \A x \in Known(m) \ {t} : n.downloads[x] = m.downloads[x]
  BY <1>1, <1>6, <1>8, SentinelAssumption DEF Known, Manager
<1>10. Slots(n) /\ Limit(n) /\ IsFiniteSet(n.pending)
  BY <1>8, <1>9 DEF OK, Slots, Limit
<1>11. \A x \in Known(n) \ {t} : x \in n.active_slots \/ \E e \in n.pending : e.token = x
  BY <1>8, <1>9 DEF OK, Reachable
<1>12. Open(n)
  <2> SUFFICES ASSUME NEW x \in Known(n)
               PROVE  /\ n.shown[n.downloads[x].req] \in Waiting \cup {"Nothing"}
                      /\ TokenFor(n.downloads[x].req) = x
    BY DEF Open
  <2>1. CASE x = t
    <3>1. n.downloads[x].req = r
      BY <2>1, <1>9 DEF NewDownload
    <3>2. a.shown[r] = s
      BY <1>2
    <3> QED
      BY <2>1, <3>1, <3>2, <1>8 DEF t
  <2>2. CASE x # t
    <3>1. x \in Known(m) /\ n.downloads[x] = m.downloads[x]
      BY <2>2, <1>9
    <3>2. m.downloads[x].req \in Request
      BY <3>1, <1>1 DEF Manager, Known, Download
    <3>3. m.downloads[x].req # r
      BY <2>2, <3>1 DEF OK, Open, t
    <3>4. a.shown[m.downloads[x].req] = m.shown[m.downloads[x].req]
      BY <1>2, <3>2, <3>3
    <3> QED
      BY <3>1, <3>4, <1>8 DEF OK, Open
  <2> QED
    BY <2>1, <2>2
<1>13. Moving(n, {t})
  BY <1>8, <1>10, <1>11, <1>12 DEF Moving
<1>14. \A x \in Request \ {r} : n.shown[x] = m.shown[x]
  BY <1>2, <1>8
<1>15. \A x \in Token \ {t} : n.downloads[x] = m.downloads[x] /\ n.strays[x] = m.strays[x]
  BY <1>1, <1>3, <1>4, <1>8 DEF Manager
<1> QED
  BY <1>8, <1>13, <1>14, <1>15 DEF n, a, t

LEMMA PushBackOK ==
  ASSUME NEW m, NEW t \in Token, Moving(m, {t})
  PROVE  OK(PushBack(m, t))
<1> DEFINE called == {r \in Request : m.shown[r] # "NotRequested"}
           entry  == [stamp |-> Cardinality(called), token |-> t]
           n      == PushBack(m, t)
<1>1. m \in Manager /\ IsFiniteSet(m.pending)
  BY DEF Moving
<1>2. entry \in Entry /\ entry.token = t
  BY FiniteAssumption, FS_Subset, FS_CardinalityType DEF Entry
<1>3. n = [m EXCEPT !.pending = m.pending \cup {entry}]
  BY DEF PushBack
<1> HIDE DEF n, entry
<1>4. /\ n \in Manager /\ n.pending = m.pending \cup {entry} /\ n.downloads = m.downloads
      /\ n.active_slots = m.active_slots /\ n.shown = m.shown
  BY <1>1, <1>2, <1>3 DEF Manager
<1>5. IsFiniteSet(n.pending)
  BY <1>1, <1>4, FS_AddElement
<1>6. Known(n) = Known(m)
  BY <1>4 DEF Known
<1>7. Slots(n) /\ Limit(n) /\ Open(n)
  BY <1>4, <1>6 DEF Moving, Slots, Limit, Open
<1>8. Reachable(n)
  BY <1>2, <1>4, <1>6 DEF Moving, Reachable
<1> QED
  BY <1>4, <1>5, <1>7, <1>8 DEF OK, n

LEMMA BufferOK ==
  ASSUME NEW m, OK(m), NEW r \in Request, m.shown[r] = "NotRequested"
  PROVE  OK(Buffer(m, r))
<1>1. TokenFor(r) \in Token
  BY CallAssumption DEF TokenFor
<1> QED
  BY <1>1, InsertMoving, PushBackOK DEF Buffer

LEMMA EnqueueOK ==
  ASSUME NEW m, OK(m), NEW r \in Request, m.shown[r] = "NotRequested"
  PROVE  OK(Enqueue(m, r))
<1> DEFINE t == TokenFor(r)
           n == Insert(Tell(m, {r}, "QueuedLocally"), r)
           E == {[stamp |-> 0, token |-> t]}
<1>1. t \in Token
  BY CallAssumption DEF TokenFor
<1>2. Moving(n, {t}) /\ n.active_slots = m.active_slots
  BY InsertMoving
<1> HIDE DEF n, t
<1>3. IsFiniteSet(E) /\ Tokens(E) = {t}
  <2>1. [stamp |-> 0, token |-> t].token = t
    OBVIOUS
  <2> QED
    BY <2>1, FS_Singleton DEF Tokens
<1>4. CASE m.logged_in /\ HasRoom(m.active_slots)
  <2> DEFINE z == n.active_slots \cup (Tokens(E) \cap Known(n))
  <2>1. z = m.active_slots \/ z = m.active_slots \cup {t}
    BY <1>2, <1>3
  <2>2. IsFiniteSet(m.active_slots) /\ Cardinality(m.active_slots) \in Nat
    BY SlotsFinite, FS_CardinalityType DEF OK
  <2>3. MaxConcurrent # Unlimited => Cardinality(z) <= MaxConcurrent
    <3> HIDE DEF z
    <3>1. Cardinality(z) = Cardinality(m.active_slots) \/ Cardinality(z) = Cardinality(m.active_slots) + 1
      BY <2>1, <2>2, FS_AddElement
    <3> QED
      BY <1>4, <2>2, <3>1, LimitAssumption DEF HasRoom
  <2>4. OK(TryInitiate(n, E))
    BY <1>2, <1>3, <2>3, InitiateOK
  <2> QED
    BY <1>4, <2>4 DEF Enqueue, n, t
<1>5. CASE ~(m.logged_in /\ HasRoom(m.active_slots))
  <2>1. OK(PushBack(n, t))
    BY <1>1, <1>2, PushBackOK
  <2> QED
    BY <1>5, <2>1 DEF Enqueue, n, t
<1> QED
  BY <1>4, <1>5

-----------------------------------------------------------------------------
(* The messages that change one download in place. *)

\* A download keeps its caller when its status, peer token or timer changes, and
\* the caller is told a status that is not an end.
LEMMA InPlaceOK ==
  ASSUME NEW m, OK(m), NEW n, n \in Manager, NEW t \in Known(m), NEW d \in Download,
         n.pending = m.pending, n.active_slots = m.active_slots,
         n.downloads = [m.downloads EXCEPT ![t] = d], d.req = m.downloads[t].req,
         \A r \in Request : n.shown[r] # m.shown[r] => n.shown[r] \in Waiting
  PROVE  OK(n)
<1>1. Known(n) = Known(m)
  BY SentinelAssumption DEF Known, OK, Manager
<1>2. \A x \in Known(m) : n.downloads[x].req = m.downloads[x].req
  BY DEF Known, OK, Manager
<1>3. \A x \in Known(m) : m.downloads[x].req \in Request
  BY DEF Known, OK, Manager, Download
<1>4. Open(n)
  BY <1>1, <1>2, <1>3 DEF OK, Open
<1> QED
  BY <1>1, <1>4 DEF OK, Slots, Limit, Reachable

LEMMA ToQueuedRemotelyOK ==
  ASSUME NEW m, OK(m), NEW t \in Known(m), NEW p \in PeerToken \cup {NoPeerToken},
         NEW rearm \in BOOLEAN
  PROVE  OK(ToQueuedRemotely(m, t, p, rearm))
<1> DEFINE a == Tell(m, Reqs(m, {t}), "QueuedRemotely")
           d == [m.downloads[t] EXCEPT !.status = "QueuedRemotely", !.peer_token = p, !.timer = rearm]
           n == ToQueuedRemotely(m, t, p, rearm)
<1>1. m \in Manager /\ "QueuedRemotely" \in Shown /\ t \in Token /\ m.downloads[t] \in Download
  BY DEF OK, Shown, Known, Manager
<1>2. /\ a \in Manager /\ a = [m EXCEPT !.shown = a.shown]
      /\ \A r \in Request : a.shown[r] = IF r \in Reqs(m, {t}) THEN "QueuedRemotely" ELSE m.shown[r]
  BY <1>1, TellType
<1>3. a.downloads = m.downloads /\ a.pending = m.pending /\ a.active_slots = m.active_slots
  BY <1>1, <1>2 DEF Manager
<1>4. n = [a EXCEPT !.downloads = [a.downloads EXCEPT ![t] =
            [a.downloads[t] EXCEPT !.status = "QueuedRemotely", !.peer_token = p, !.timer = rearm]]]
  BY DEF ToQueuedRemotely
<1> HIDE DEF a, n
<1>5. d \in Download /\ d.req = m.downloads[t].req
  BY <1>1 DEF Download
<1>6. n = [a EXCEPT !.downloads = [m.downloads EXCEPT ![t] = d]]
  BY <1>3, <1>4
<1> HIDE DEF d
<1>7. /\ n \in Manager /\ n.pending = m.pending /\ n.active_slots = m.active_slots
      /\ n.downloads = [m.downloads EXCEPT ![t] = d] /\ n.shown = a.shown
  BY <1>1, <1>2, <1>3, <1>5, <1>6 DEF Manager
<1>8. OK(n)
  BY <1>2, <1>5, <1>7, InPlaceOK
<1> QED
  BY <1>8 DEF n

\* The invariant does not depend on the other fields.
LEMMA OthersOK ==
  ASSUME NEW m, OK(m), NEW n, n \in Manager,
         n.pending = m.pending, n.active_slots = m.active_slots,
         n.downloads = m.downloads, n.shown = m.shown
  PROVE  OK(n)
BY DEF OK, Slots, Limit, Reachable, Open, Known

-----------------------------------------------------------------------------
(* The invariant of the specification. *)

Inv == OK(dm) /\ due \in [Token -> Nat]

LEMMA InitInv == Init => Inv
<1> SUFFICES ASSUME Init PROVE Inv
  OBVIOUS
<1>1. dm \in Manager /\ due \in [Token -> Nat]
  BY DEF Init, Manager, Shown
<1>2. dm.pending = {} /\ dm.active_slots = {} /\ Known(dm) = {}
  BY DEF Init, Known
<1>3. Slots(dm) /\ Reachable(dm) /\ Open(dm)
  BY <1>2 DEF Slots, Reachable, Open
<1>4. IsFiniteSet(dm.pending) /\ Limit(dm)
  BY <1>2, FS_EmptySet, LimitAssumption DEF Limit
<1> QED
  BY <1>1, <1>3, <1>4 DEF Inv, OK

LEMMA TimerFiresInv == ASSUME Inv, NEW t \in Token, TimerFires(t) PROVE Inv'
<1>1. dm \in Manager
  BY DEF Inv, OK
<1>2. due' \in [Token -> Nat]
  BY DEF Inv, TimerFires
<1>3. CASE LiveTimer(dm, t) = 1 /\
           dm' = [dm EXCEPT !.downloads[t] = [@ EXCEPT !.timer = FALSE]]
  <2> DEFINE d == [dm.downloads[t] EXCEPT !.timer = FALSE]
  <2>1. t \in Known(dm) /\ dm.downloads[t] \in Download
    BY <1>1, <1>3 DEF LiveTimer, Known, Manager
  <2>2. d \in Download /\ d.req = dm.downloads[t].req
    BY <2>1 DEF Download
  <2>3. dm' = [dm EXCEPT !.downloads = [dm.downloads EXCEPT ![t] = d]]
    BY <1>3
  <2> HIDE DEF d
  <2>4. /\ dm' \in Manager /\ dm'.pending = dm.pending /\ dm'.active_slots = dm.active_slots
        /\ dm'.shown = dm.shown /\ dm'.downloads = [dm.downloads EXCEPT ![t] = d]
    BY <1>1, <2>1, <2>2, <2>3 DEF Manager
  <2>5. OK(dm')
    BY <2>1, <2>2, <2>4, InPlaceOK DEF Inv
  <2> QED
    BY <1>2, <2>5 DEF Inv
<1>4. CASE dm.strays[t] > 0 /\ dm' = [dm EXCEPT !.strays[t] = @ - 1]
  <2> DEFINE y == [dm.strays EXCEPT ![t] = dm.strays[t] - 1]
  <2>1. dm.strays \in [Token -> Nat] /\ dm' = [dm EXCEPT !.strays = y]
    BY <1>1, <1>4 DEF Manager
  <2>2. y \in [Token -> Nat]
    BY <1>4, <2>1
  <2> HIDE DEF y
  <2>3. /\ dm' \in Manager /\ dm'.pending = dm.pending /\ dm'.active_slots = dm.active_slots
        /\ dm'.shown = dm.shown /\ dm'.downloads = dm.downloads
    BY <1>1, <2>1, <2>2 DEF Manager
  <2>4. OK(dm')
    BY <2>3, OthersOK DEF Inv
  <2> QED
    BY <1>2, <2>4 DEF Inv
<1> QED
  BY <1>3, <1>4 DEF TimerFires

LEMMA TokenEventInv == ASSUME Inv, TokenEvent PROVE Inv'
<1> PICK t \in Token :
      \/ CancelDownload(t) \/ TimerFires(t) \/ DownloadResponseTimeout(t)
      \/ \E status \in Results : DownloadCompleted(t, status)
  BY DEF TokenEvent
<1>1. CASE CancelDownload(t)
  BY <1>1, OnCancelOK DEF CancelDownload, Inv
<1>2. CASE TimerFires(t)
  BY <1>2, TimerFiresInv
<1>3. CASE DownloadResponseTimeout(t)
  <2>1. due' \in [Token -> Nat]
    BY <1>3 DEF DownloadResponseTimeout, Inv
  <2>2. OK(dm')
    BY <1>3, OnTimeoutOK DEF DownloadResponseTimeout, Inv
  <2> QED
    BY <2>1, <2>2 DEF Inv
<1>4. CASE \E status \in Results : DownloadCompleted(t, status)
  BY <1>4, OnCompletedOK, ResultAssumption DEF DownloadCompleted, Inv
<1> QED
  BY <1>1, <1>2, <1>3, <1>4

LEMMA RegistryOK ==
  ASSUME NEW m, OK(m), NEW R \in SUBSET User
  PROVE  OK([m EXCEPT !.registry = R])
<1> DEFINE n == [m EXCEPT !.registry = R]
<1>1. /\ n \in Manager /\ n.pending = m.pending /\ n.active_slots = m.active_slots
      /\ n.downloads = m.downloads /\ n.shown = m.shown
  BY DEF OK, Manager
<1> HIDE DEF n
<1>2. OK(n)
  BY <1>1, OthersOK
<1> QED
  BY <1>2 DEF n

LEMMA PeerEventInv == ASSUME Inv, PeerEvent PROVE Inv'
<1>0. OK(dm) /\ dm \in Manager /\ dm.registry \in SUBSET User
  BY DEF Inv, OK, Manager
<1>1. ASSUME NEW u \in User, PeerDisconnected(u) PROVE Inv'
  <2>1. OK([dm EXCEPT !.registry = dm.registry \ {u}])
    BY <1>0, RegistryOK
  <2>2. OK(dm')
    BY <1>1, <2>1, FailMatchingOK DEF PeerDisconnected, OnPeerDisconnected
  <2> QED
    BY <1>1, <2>2 DEF PeerDisconnected, Inv
<1>2. ASSUME NEW u \in User, PeerRegistered(u) PROVE Inv'
  <2>1. OK([dm EXCEPT !.registry = dm.registry \cup {u}])
    BY <1>0, RegistryOK
  <2> QED
    BY <1>2, <2>1 DEF PeerRegistered, Inv
<1>3. ASSUME NEW u \in User, NEW f \in File, QueuePositionUpdated(u, f) PROVE Inv'
  <2>1. PICK t \in OfFile(dm, u, f) : dm' = OnQueuePosition(dm, t)
    BY <1>3 DEF QueuePositionUpdated
  <2>2. t \in Known(dm)
    BY DEF OfFile, OfUser
  <2>3. dm.downloads[t].peer_token \in PeerToken \cup {NoPeerToken}
    BY <1>0, <2>2 DEF Known, Manager, Download
  <2>4. OK(dm')
    BY <1>0, <2>1, <2>2, <2>3, ToQueuedRemotelyOK DEF OnQueuePosition
  <2> QED
    BY <1>3, <2>4 DEF QueuePositionUpdated, Inv
<1>4. ASSUME NEW u \in User, NEW f \in File, UploadFailed(u, f) PROVE Inv'
  BY <1>0, <1>4, FailMatchingOK DEF UploadFailed, OnUploadFailed, Inv
<1>5. ASSUME NEW u \in User, NEW f \in File, NEW p \in PeerToken, UpdateDownloadTokens(u, f, p)
      PROVE  Inv'
  <2>1. PICK t \in OfFile(dm, u, f) : dm' = OnTransferRequest(dm, t, p)
    BY <1>5 DEF UpdateDownloadTokens
  <2>2. t \in Known(dm)
    BY DEF OfFile, OfUser
  <2>3. OK(dm')
    BY <1>0, <2>1, <2>2, ToQueuedRemotelyOK DEF OnTransferRequest
  <2> QED
    BY <1>5, <2>3 DEF UpdateDownloadTokens, Inv
<1>6. ASSUME NEW p \in PeerToken, TransferRejected(p) PROVE Inv'
  <2>1. PICK t \in OfPeerToken(dm, p) : dm' = OnTransferRejected(dm, t)
    BY <1>6 DEF TransferRejected
  <2>2. t \in Known(dm)
    BY DEF OfPeerToken
  <2>3. dm.downloads[t].peer_token \in PeerToken \cup {NoPeerToken}
    BY <1>0, <2>2 DEF Known, Manager, Download
  <2>4. OK(dm')
    BY <1>0, <2>1, <2>2, <2>3, ToQueuedRemotelyOK DEF OnTransferRejected
  <2> QED
    BY <1>6, <2>4 DEF TransferRejected, Inv
<1> QED
  BY <1>1, <1>2, <1>3, <1>4, <1>5, <1>6 DEF PeerEvent

\* A field the invariant does not mention may take any value of its type.
LEMMA FlagOK ==
  ASSUME NEW m, OK(m), NEW b \in BOOLEAN
  PROVE  OK([m EXCEPT !.logged_in = b]) /\ OK([m EXCEPT !.connected = b])
<1> DEFINE n == [m EXCEPT !.logged_in = b]
           o == [m EXCEPT !.connected = b]
<1>1. /\ n \in Manager /\ n.pending = m.pending /\ n.active_slots = m.active_slots
      /\ n.downloads = m.downloads /\ n.shown = m.shown
      /\ o \in Manager /\ o.pending = m.pending /\ o.active_slots = m.active_slots
      /\ o.downloads = m.downloads /\ o.shown = m.shown
  BY DEF OK, Manager
<1> HIDE DEF n, o
<1>2. OK(n) /\ OK(o)
  BY <1>1, OthersOK
<1> QED
  BY <1>2 DEF n, o

LEMMA NextInv == Inv /\ [Next]_vars => Inv'
<1> SUFFICES ASSUME Inv, [Next]_vars PROVE Inv'
  OBVIOUS
<1>1. CASE UserCall
  <2> PICK r \in Request : DownloadBeforeConnect(r) \/ RequestDownload(r)
    BY <1>1 DEF UserCall
  <2>1. CASE DownloadBeforeConnect(r)
    BY <2>1, BufferOK DEF DownloadBeforeConnect, Inv
  <2>2. CASE RequestDownload(r)
    BY <2>2, EnqueueOK DEF RequestDownload, Inv
  <2> QED
    BY <2>1, <2>2
<1>2. CASE Connect
  BY <1>2, FlagOK DEF Connect, Inv
<1>3. CASE TokenEvent
  BY <1>3, TokenEventInv
<1>4. CASE PeerEvent
  BY <1>4, PeerEventInv
<1>5. CASE ServerDisconnected
  BY <1>5, FlagOK DEF ServerDisconnected, OnServerDisconnected, Inv
<1>6. CASE LoginSucceeded
  BY <1>6, FlagOK, DrainOK DEF LoginSucceeded, OnLoginSucceeded, Inv
<1>7. CASE UNCHANGED vars
  BY <1>7 DEF vars, Inv, OK, Slots, Limit, Reachable, Open, Known
<1> QED
  BY <1>1, <1>2, <1>3, <1>4, <1>5, <1>6, <1>7 DEF Next, ServerEvent

LEMMA Invariance == Spec => []Inv
BY InitInv, NextInv, PTL DEF Spec

\* Every reachable state is well typed.
THEOREM TypeCorrect == Spec => []TypeOK
<1>1. Inv => TypeOK
  BY DEF Inv, OK, TypeOK
<1> QED
  BY <1>1, Invariance, PTL

\* The slots in use never exceed concurrent_downloads, for any limit.
THEOREM SlotLimitHolds == Spec => []SlotLimit
<1>1. Inv => SlotLimit
  BY DEF Inv, OK, Limit, SlotLimit
<1> QED
  BY <1>1, Invariance, PTL

\* No slot is left behind by a download that ended.
THEOREM SlotsHaveDownloadsHolds == Spec => []SlotsHaveDownloads
<1>1. Inv => SlotsHaveDownloads
  BY DEF Inv, OK, Slots, SlotsHaveDownloads
<1> QED
  BY <1>1, Invariance, PTL

\* Every download in the map holds a slot or waits in the queue.
THEOREM NoneForgottenHolds == Spec => []NoneForgotten
<1>1. Inv => NoneForgotten
  BY DEF Inv, OK, Reachable, NoneForgotten
<1> QED
  BY <1>1, Invariance, PTL

=============================================================================
