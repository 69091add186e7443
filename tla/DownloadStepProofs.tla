------------------------- MODULE DownloadStepProofs -------------------------
(***************************************************************************)
(* What a step of DownloadManager may do, for every value of the constants *)
(* and every truncated hash: to a caller, to the requests sent and to the  *)
(* timeouts, then to the slots and to the order of the queue.  Proofs on   *)
(* top of the invariant of DownloadManagerProofs.                          *)
(***************************************************************************)
EXTENDS DownloadManagerProofs, WellFoundedInduction

USE DEF Waiting, Terminal

\* A handler that leaves n tells nobody anything after the end of a download, and
\* starts downloads only when logged in.
Keeps(m, n) ==
  /\ n.logged_in = m.logged_in
  /\ n.asked # m.asked => n.logged_in
  /\ \A r \in Request : m.shown[r] \in Terminal => n.shown[r] = m.shown[r]

\* WaitingIsTimed of a record, when timeouts are in the channel for the tokens of
\* D, and but for the tokens of T.
Timed(m, D, T) ==
  \A t \in m.active_slots \ T :
    m.downloads[t].status = "QueuedLocally" =>
      \/ m.downloads[t].timer = TRUE \/ m.strays[t] > 0 \/ t \in D
      \/ \E e \in m.pending : e.token = t

-----------------------------------------------------------------------------
(* Starting downloads. *)

LEMMA InitiateKeeps ==
  ASSUME NEW m, m \in Manager, NEW E, IsFiniteSet(E), m.logged_in
  PROVE  Keeps(m, TryInitiate(m, E))
BY InitiateFields DEF Keeps

\* Every download that is started gets a timer.
LEMMA InitiateTimed ==
  ASSUME NEW m, m \in Manager, Slots(m), NEW E, IsFiniteSet(E), NEW D,
         Timed(m, D, Tokens(E))
  PROVE  Timed(TryInitiate(m, E), D, {})
<1> DEFINE n == TryInitiate(m, E)
<1>1. /\ n.pending = m.pending
      /\ n.active_slots = m.active_slots \cup (Tokens(E) \cap Known(m))
  BY InitiateFields
<1> SUFFICES ASSUME NEW t \in n.active_slots, n.downloads[t].status = "QueuedLocally"
             PROVE  \/ n.downloads[t].timer = TRUE \/ n.strays[t] > 0 \/ t \in D
                    \/ \E e \in n.pending : e.token = t
  BY DEF Timed
<1>2. t \in Token /\ t \in Known(m)
  BY <1>1 DEF Slots, Known
<1> HIDE DEF n
<1>3. CASE t \in Tokens(E)
  BY <1>2, <1>3, InitiateDownload DEF n
<1>4. CASE t \notin Tokens(E)
  <2>1. t \in m.active_slots
    BY <1>1, <1>4
  <2>2. n.downloads[t] = m.downloads[t] /\ n.strays[t] = m.strays[t]
    BY <1>2, <1>4, InitiateDownload DEF n
  <2> QED
    BY <1>1, <1>4, <2>1, <2>2 DEF Timed
<1> QED
  BY <1>3, <1>4

LEMMA StartSteps ==
  ASSUME NEW m, OK(m), m.logged_in, NEW E, IsFiniteSet(E), NEW D, Timed(m, D, {})
  PROVE  Keeps(m, Start(m, E)) /\ Timed(Start(m, E), D, {})
<1> DEFINE p == [m EXCEPT !.pending = @ \ E]
<1>1. /\ p \in Manager /\ p.pending = m.pending \ E /\ p.asked = m.asked
      /\ p.downloads = m.downloads /\ p.active_slots = m.active_slots /\ p.shown = m.shown
      /\ p.strays = m.strays /\ p.logged_in = m.logged_in
  BY DEF OK, Manager
<1>2. Start(m, E) = TryInitiate(p, E)
  BY DEF Start
<1> HIDE DEF p
<1>3. Slots(p)
  BY <1>1 DEF OK, Slots, Known
<1>4. Timed(p, D, Tokens(E))
  BY <1>1 DEF Timed, Tokens
<1>5. Keeps(p, TryInitiate(p, E)) /\ Timed(TryInitiate(p, E), D, {})
  BY <1>1, <1>3, <1>4, InitiateKeeps, InitiateTimed
<1> QED
  BY <1>1, <1>2, <1>5 DEF Keeps

LEMMA TryDequeueNextSteps ==
  ASSUME NEW m, OK(m), NEW D, Timed(m, D, {})
  PROVE  Keeps(m, TryDequeueNext(m)) /\ Timed(TryDequeueNext(m), D, {})
<1> DEFINE front == CHOOSE e \in m.pending : \A f \in m.pending : e.stamp <= f.stamp
<1> HIDE DEF front
<1>1. CASE m.logged_in /\ HasRoom(m.active_slots) /\ m.pending # {}
  <2>1. TryDequeueNext(m) = Start(m, {front})
    BY <1>1 DEF TryDequeueNext, front
  <2>2. IsFiniteSet({front})
    BY FS_Singleton
  <2> QED
    BY <1>1, <2>1, <2>2, StartSteps
<1>2. CASE ~(m.logged_in /\ HasRoom(m.active_slots) /\ m.pending # {})
  BY <1>2 DEF TryDequeueNext, Keeps
<1> QED
  BY <1>1, <1>2

LEMMA DrainSteps ==
  ASSUME NEW m, OK(m), m.logged_in, NEW D, Timed(m, D, {}), NEW n \in DrainPendingQueue(m)
  PROVE  Keeps(m, n) /\ Timed(n, D, {})
<1>1. CASE m.pending = {} \/ ~HasRoom(m.active_slots)
  BY <1>1 DEF DrainPendingQueue, Keeps
<1>2. CASE ~(m.pending = {} \/ ~HasRoom(m.active_slots))
  <2>1. PICK e \in m.pending : n = Start(m, {f \in m.pending : f.stamp < e.stamp} \cup {e})
    BY <1>2 DEF DrainPendingQueue
  <2> DEFINE popped == {f \in m.pending : f.stamp < e.stamp} \cup {e}
  <2>2. IsFiniteSet(popped)
    BY FS_Subset DEF OK
  <2> HIDE DEF popped
  <2>3. n = Start(m, popped)
    BY <2>1 DEF popped
  <2> QED
    BY <2>2, <2>3, StartSteps
<1> QED
  BY <1>1, <1>2

-----------------------------------------------------------------------------
(* Ending downloads. *)

\* The caller of a download that ends was not told an end before, because the
\* download was in the map (Open).
LEMMA EndedSteps ==
  ASSUME NEW m, OK(m), NEW n, NEW T, NEW s, Ended(m, n, T, s), NEW D, Timed(m, D, T)
  PROVE  Keeps(m, n) /\ Timed(n, D, {})
<1>1. Keeps(m, n)
  <2>1. \A r \in Reqs(m, T) : m.shown[r] \notin Terminal
    BY DEF OK, Open, Reqs
  <2> QED
    BY <2>1 DEF Ended, Keeps
<1>2. ASSUME NEW t \in n.active_slots, n.downloads[t].status = "QueuedLocally"
      PROVE  \/ n.downloads[t].timer = TRUE \/ n.strays[t] > 0 \/ t \in D
             \/ \E e \in n.pending : e.token = t
  <2>1. t \in m.active_slots /\ t \notin T /\ t \in Token
    BY DEF Ended, OK, Manager
  <2>2. n.downloads[t] = m.downloads[t] /\ n.strays[t] >= m.strays[t]
    BY <2>1 DEF Ended
  <2>3. m.strays[t] \in Nat /\ n.strays[t] \in Nat
    BY <2>1 DEF Ended, OK, Manager
  <2>4. \A e \in m.pending : e.token = t => e \in n.pending
    BY <2>1 DEF Ended
  <2> QED
    BY <1>2, <2>1, <2>2, <2>3, <2>4 DEF Timed
<1> QED
  BY <1>1, <1>2 DEF Timed

\* Ending downloads and offering the slot: one after the other.
LEMMA EndedThenNext ==
  ASSUME NEW m, OK(m), NEW n, NEW T, NEW s, Ended(m, n, T, s), NEW D, Timed(m, D, T)
  PROVE  Keeps(m, TryDequeueNext(n)) /\ Timed(TryDequeueNext(n), D, {})
<1>1. OK(n) /\ Keeps(m, n) /\ Timed(n, D, {})
  BY EndedOK, EndedSteps
<1>2. Keeps(n, TryDequeueNext(n)) /\ Timed(TryDequeueNext(n), D, {})
  BY <1>1, TryDequeueNextSteps
<1> QED
  BY <1>1, <1>2 DEF Keeps

LEMMA OnCompletedSteps ==
  ASSUME NEW m, OK(m), NEW t \in Token, NEW s \in Terminal, NEW D, Timed(m, D, {t})
  PROVE  Keeps(m, OnCompleted(m, t, s)) /\ Timed(OnCompleted(m, t, s), D, {})
BY AbandonEnds, EndedThenNext DEF OnCompleted

LEMMA FailMatchingSteps ==
  ASSUME NEW m, OK(m), NEW T, NEW D, Timed(m, D, {})
  PROVE  Keeps(m, FailMatching(m, T)) /\ Timed(FailMatching(m, T), D, {})
<1>1. CASE T = {}
  BY <1>1 DEF FailMatching, Keeps
<1>2. CASE T # {}
  <2>1. Timed(m, D, T)
    BY DEF Timed
  <2>2. Ended(m, Drop(Unqueue(Tell(m, Reqs(m, T), "Failed"), T), T), T, "Failed")
    BY FailEnds
  <2> QED
    BY <1>2, <2>1, <2>2, EndedThenNext DEF FailMatching
<1> QED
  BY <1>1, <1>2

LEMMA OnCancelSteps ==
  ASSUME NEW m, OK(m), NEW t \in Token, NEW D, Timed(m, D, {})
  PROVE  Keeps(m, OnCancel(m, t)) /\ Timed(OnCancel(m, t), D, {})
<1>0. Timed(m, D, {t})
  BY DEF Timed
<1>1. CASE t \notin Known(m)
  BY <1>0, <1>1, UnqueueEnds, EndedSteps DEF OnCancel
<1>2. CASE t \in Known(m)
  <2> DEFINE n == Drop(Tell(Unqueue(m, {t}), Reqs(m, {t}), "Cancelled"), {t})
  <2>1. Ended(m, n, {t}, "Cancelled")
    BY FailEnds
  <2> HIDE DEF n
  <2>2. Keeps(m, n) /\ Timed(n, D, {})
    BY <1>0, <2>1, EndedSteps
  <2>3. Keeps(m, TryDequeueNext(n)) /\ Timed(TryDequeueNext(n), D, {})
    BY <1>0, <2>1, EndedThenNext
  <2> QED
    BY <1>2, <2>2, <2>3 DEF OnCancel, n
<1> QED
  BY <1>1, <1>2

\* The timeout that is taken out of the channel may have been the only one left of
\* its token: on_timeout ends the download in the one case that would need it.
LEMMA OnTimeoutSteps ==
  ASSUME NEW m, OK(m), NEW t \in Token, NEW D, Timed(m, D, {t})
  PROVE  Keeps(m, OnTimeout(m, t)) /\ Timed(OnTimeout(m, t), D, {})
<1> DEFINE gone == Abandon(Tell(m, Reqs(m, {t}), "TimedOut"), t)
<1>1. CASE t \notin Known(m) \/ m.downloads[t].status # "QueuedLocally"
  <2>1. OnTimeout(m, t) = m
    BY <1>1 DEF OnTimeout
  <2>2. t \in m.active_slots => m.downloads[t].status # "QueuedLocally"
    BY <1>1 DEF OK, Slots
  <2>3. Timed(m, D, {})
    BY <2>2 DEF Timed
  <2> QED
    BY <2>1, <2>3 DEF Keeps
<1>2. CASE ~(t \notin Known(m) \/ m.downloads[t].status # "QueuedLocally")
  <2>1. Ended(m, gone, {t}, "TimedOut")
    BY AbandonEnds
  <2>2. OnTimeout(m, t) \in {TryDequeueNext(gone), gone}
    BY <1>2 DEF OnTimeout
  <2> HIDE DEF gone
  <2>3. Keeps(m, gone) /\ Timed(gone, D, {})
    BY <2>1, EndedSteps
  <2>4. Keeps(m, TryDequeueNext(gone)) /\ Timed(TryDequeueNext(gone), D, {})
    BY <2>1, EndedThenNext
  <2> QED
    BY <2>2, <2>3, <2>4
<1> QED
  BY <1>1, <1>2

-----------------------------------------------------------------------------
(* Accepting downloads, and the messages that change one in place. *)

LEMMA InsertSteps ==
  ASSUME NEW m, OK(m), NEW r \in Request, m.shown[r] = "NotRequested",
         NEW s \in {"Nothing", "QueuedLocally"}, NEW D, Timed(m, D, {})
  PROVE  LET n == Insert(Tell(m, {r}, s), r)
         IN  Keeps(m, n) /\ n.asked = m.asked /\ Timed(n, D, {TokenFor(r)})
<1> DEFINE t == TokenFor(r)
           n == Insert(Tell(m, {r}, s), r)
<1>1. /\ n.active_slots = m.active_slots /\ n.pending = m.pending
      /\ n.asked = m.asked /\ n.logged_in = m.logged_in
      /\ \A x \in Request \ {r} : n.shown[x] = m.shown[x]
      /\ \A x \in Token \ {t} : n.downloads[x] = m.downloads[x] /\ n.strays[x] = m.strays[x]
  BY InsertMoving
<1> HIDE DEF n, t
<1>2. Keeps(m, n)
  BY <1>1 DEF Keeps
<1>3. m.active_slots \subseteq Token
  BY DEF OK, Manager
<1>4. Timed(n, D, {t})
  BY <1>1, <1>3 DEF Timed
<1> QED
  BY <1>1, <1>2, <1>4 DEF n, t

\* A download that goes to the queue has its entry instead of a timer.
LEMMA PushBackSteps ==
  ASSUME NEW m, m \in Manager, NEW t, NEW D, Timed(m, D, {t})
  PROVE  Keeps(m, PushBack(m, t)) /\ Timed(PushBack(m, t), D, {})
<1> DEFINE entry == [stamp |-> Cardinality({r \in Request : m.shown[r] # "NotRequested"}),
                     token |-> t]
           n == PushBack(m, t)
<1>1. entry.token = t
  OBVIOUS
<1>2. n = [m EXCEPT !.pending = m.pending \cup {entry}]
  BY DEF PushBack
<1> HIDE DEF entry, n
<1>3. /\ n.pending = m.pending \cup {entry} /\ n.downloads = m.downloads
      /\ n.active_slots = m.active_slots /\ n.shown = m.shown /\ n.strays = m.strays
      /\ n.asked = m.asked /\ n.logged_in = m.logged_in
  BY <1>2 DEF Manager
<1>4. Timed(n, D, {})
  BY <1>1, <1>3 DEF Timed
<1> QED
  BY <1>3, <1>4 DEF Keeps, n

LEMMA CallSteps ==
  ASSUME NEW m, OK(m), NEW r \in Request, m.shown[r] = "NotRequested",
         NEW D, Timed(m, D, {})
  PROVE  /\ Keeps(m, Buffer(m, r)) /\ Timed(Buffer(m, r), D, {})
         /\ Keeps(m, Enqueue(m, r)) /\ Timed(Enqueue(m, r), D, {})
<1> DEFINE t == TokenFor(r)
           a == Insert(Tell(m, {r}, "Nothing"), r)
           b == Insert(Tell(m, {r}, "QueuedLocally"), r)
           E == {[stamp |-> 0, token |-> t]}
<1>1. /\ Moving(a, {t}) /\ Keeps(m, a) /\ Timed(a, D, {t})
      /\ Moving(b, {t}) /\ Keeps(m, b) /\ Timed(b, D, {t})
  BY InsertMoving, InsertSteps
<1>2. IsFiniteSet(E) /\ Tokens(E) = {t}
  <2>1. [stamp |-> 0, token |-> t].token = t
    OBVIOUS
  <2> QED
    BY <2>1, FS_Singleton DEF Tokens
<1>3. Buffer(m, r) = PushBack(a, t)
  BY DEF Buffer
<1>4. Enqueue(m, r) = IF m.logged_in /\ HasRoom(m.active_slots)
                      THEN TryInitiate(b, E) ELSE PushBack(b, t)
  BY DEF Enqueue
<1> HIDE DEF a, b, E, t
<1>5. a \in Manager /\ b \in Manager /\ Slots(b) /\ b.logged_in = m.logged_in
  BY <1>1 DEF Moving, Keeps
<1>6. Keeps(a, PushBack(a, t)) /\ Timed(PushBack(a, t), D, {})
  BY <1>1, <1>5, PushBackSteps
<1>7. Keeps(b, PushBack(b, t)) /\ Timed(PushBack(b, t), D, {})
  BY <1>1, <1>5, PushBackSteps
<1>8. m.logged_in => Keeps(b, TryInitiate(b, E)) /\ Timed(TryInitiate(b, E), D, {})
  BY <1>1, <1>2, <1>5, InitiateKeeps, InitiateTimed
<1> QED
  BY <1>1, <1>3, <1>4, <1>6, <1>7, <1>8 DEF Keeps

\* A download that the peer has answered needs no timeout.
LEMMA ToQueuedRemotelySteps ==
  ASSUME NEW m, OK(m), NEW t \in Known(m), NEW p \in PeerToken \cup {NoPeerToken},
         NEW rearm \in BOOLEAN, NEW D, Timed(m, D, {})
  PROVE  /\ Keeps(m, ToQueuedRemotely(m, t, p, rearm))
         /\ Timed(ToQueuedRemotely(m, t, p, rearm), D, {})
<1> DEFINE a == Tell(m, Reqs(m, {t}), "QueuedRemotely")
           n == ToQueuedRemotely(m, t, p, rearm)
<1>1. m \in Manager /\ "QueuedRemotely" \in Shown /\ t \in Token /\ m.downloads[t] \in Download
  BY DEF OK, Shown, Known, Manager
<1>2. /\ a \in Manager /\ a = [m EXCEPT !.shown = a.shown]
      /\ \A r \in Request : a.shown[r] = IF r \in Reqs(m, {t}) THEN "QueuedRemotely" ELSE m.shown[r]
  BY <1>1, TellType
<1>3. /\ a.downloads = m.downloads /\ a.pending = m.pending /\ a.active_slots = m.active_slots
      /\ a.strays = m.strays /\ a.asked = m.asked /\ a.logged_in = m.logged_in
  BY <1>1, <1>2 DEF Manager
<1>4. n = [a EXCEPT !.downloads = [a.downloads EXCEPT ![t] =
            [a.downloads[t] EXCEPT !.status = "QueuedRemotely", !.peer_token = p, !.timer = rearm]]]
  BY DEF ToQueuedRemotely
<1> HIDE DEF a, n
<1>5. /\ n.pending = m.pending /\ n.active_slots = m.active_slots /\ n.shown = a.shown
      /\ n.strays = m.strays /\ n.asked = m.asked /\ n.logged_in = m.logged_in
      /\ \A x \in Token \ {t} : n.downloads[x] = m.downloads[x]
      /\ n.downloads[t].status = "QueuedRemotely"
  BY <1>1, <1>2, <1>3, <1>4 DEF Manager, Download
<1>6. \A r \in Reqs(m, {t}) : m.shown[r] \notin Terminal
  BY DEF OK, Open, Reqs
<1>7. Keeps(m, n)
  BY <1>2, <1>5, <1>6 DEF Keeps
<1>8. m.active_slots \subseteq Token
  BY <1>1 DEF Manager
<1>9. Timed(n, D, {})
  BY <1>5, <1>8 DEF Timed
<1> QED
  BY <1>7, <1>9 DEF n

-----------------------------------------------------------------------------
(* Every step of the specification. *)

Due == {t \in Token : due[t] > 0}

TimedInv == Inv /\ Timed(dm, Due, {})

\* What TerminalIsFinal and StartsOnlyLoggedIn say of a step.
Sound ==
  /\ dm'.asked # dm.asked => dm'.logged_in
  /\ \A r \in Request : dm.shown[r] \in Terminal => dm'.shown[r] = dm.shown[r]

LEMMA HandlerSteps ==
  ASSUME Keeps(dm, dm'), Timed(dm', Due, {}), UNCHANGED due
  PROVE  Sound /\ Timed(dm', Due', {})
BY DEF Keeps, Sound, Due

LEMMA TimerFiresSteps ==
  ASSUME TimedInv, NEW t \in Token, TimerFires(t)
  PROVE  Sound /\ Timed(dm', Due', {})
<1>1. dm \in Manager /\ due \in [Token -> Nat]
  BY DEF TimedInv, Inv, OK
<1>2. Due' = Due \cup {t}
  BY <1>1 DEF TimerFires, Due
<1>3. /\ dm'.active_slots = dm.active_slots /\ dm'.pending = dm.pending
      /\ dm'.shown = dm.shown /\ dm'.asked = dm.asked
      /\ \A x \in Token \ {t} : dm'.downloads[x] = dm.downloads[x] /\ dm'.strays[x] = dm.strays[x]
  BY <1>1 DEF TimerFires, Manager
<1>4. dm.active_slots \subseteq Token
  BY <1>1 DEF Manager
<1> QED
  BY <1>2, <1>3, <1>4 DEF TimedInv, Timed, Sound

LEMMA TokenEventSteps ==
  ASSUME TimedInv, TokenEvent
  PROVE  Sound /\ Timed(dm', Due', {})
<1>0. OK(dm) /\ Timed(dm, Due, {}) /\ due \in [Token -> Nat]
  BY DEF TimedInv, Inv
<1> PICK t \in Token :
      \/ CancelDownload(t) \/ TimerFires(t) \/ DownloadResponseTimeout(t)
      \/ \E status \in Results : DownloadCompleted(t, status)
  BY DEF TokenEvent
<1>1. CASE CancelDownload(t)
  BY <1>0, <1>1, OnCancelSteps, HandlerSteps DEF CancelDownload
<1>2. CASE TimerFires(t)
  BY <1>2, TimerFiresSteps
<1>3. CASE DownloadResponseTimeout(t)
  <2>1. \A x \in Due : x = t \/ x \in Due'
    BY <1>0, <1>3 DEF DownloadResponseTimeout, Due
  <2>2. Timed(dm, Due', {t})
    BY <1>0, <2>1 DEF Timed
  <2>3. Keeps(dm, OnTimeout(dm, t)) /\ Timed(OnTimeout(dm, t), Due', {})
    BY <1>0, <2>2, OnTimeoutSteps
  <2> QED
    BY <1>3, <2>3 DEF DownloadResponseTimeout, Keeps, Sound
<1>4. CASE \E status \in Results : DownloadCompleted(t, status)
  <2>1. PICK status \in Results : DownloadCompleted(t, status)
    BY <1>4
  <2>2. Timed(dm, Due, {t})
    BY <1>0 DEF Timed
  <2>3. status \in Terminal
    BY ResultAssumption
  <2> QED
    BY <1>0, <2>1, <2>2, <2>3, OnCompletedSteps, HandlerSteps DEF DownloadCompleted
<1> QED
  BY <1>1, <1>2, <1>3, <1>4

LEMMA PeerEventSteps ==
  ASSUME TimedInv, PeerEvent
  PROVE  Sound /\ Timed(dm', Due', {})
<1>0. OK(dm) /\ dm \in Manager /\ Timed(dm, Due, {}) /\ dm.registry \in SUBSET User
  BY DEF TimedInv, Inv, OK, Manager
<1>1. ASSUME NEW u \in User, PeerDisconnected(u) PROVE Sound /\ Timed(dm', Due', {})
  <2> DEFINE k == [dm EXCEPT !.registry = dm.registry \ {u}]
  <2>1. OK(k)
    BY <1>0, RegistryOK
  <2>2. /\ k.active_slots = dm.active_slots /\ k.downloads = dm.downloads
        /\ k.strays = dm.strays /\ k.pending = dm.pending /\ k.shown = dm.shown
        /\ k.asked = dm.asked /\ k.logged_in = dm.logged_in
    BY <1>0 DEF Manager
  <2>3. dm' = FailMatching(k, OfUser(k, u)) /\ UNCHANGED due
    BY <1>1 DEF PeerDisconnected, OnPeerDisconnected
  <2> HIDE DEF k
  <2>4. Timed(k, Due, {})
    BY <1>0, <2>2 DEF Timed
  <2>5. Keeps(k, dm') /\ Timed(dm', Due, {})
    BY <2>1, <2>3, <2>4, FailMatchingSteps
  <2>6. Keeps(dm, dm')
    BY <2>2, <2>5 DEF Keeps
  <2> QED
    BY <2>3, <2>5, <2>6, HandlerSteps
<1>2. ASSUME NEW u \in User, PeerRegistered(u) PROVE Sound /\ Timed(dm', Due', {})
  <2>1. /\ dm'.active_slots = dm.active_slots /\ dm'.downloads = dm.downloads
        /\ dm'.strays = dm.strays /\ dm'.pending = dm.pending /\ dm'.shown = dm.shown
        /\ dm'.asked = dm.asked /\ dm'.logged_in = dm.logged_in /\ UNCHANGED due
    BY <1>0, <1>2 DEF PeerRegistered, Manager
  <2> QED
    BY <1>0, <2>1, HandlerSteps DEF Timed, Keeps
<1>3. ASSUME NEW u \in User, NEW f \in File, QueuePositionUpdated(u, f)
      PROVE  Sound /\ Timed(dm', Due', {})
  <2>1. PICK t \in OfFile(dm, u, f) : dm' = OnQueuePosition(dm, t)
    BY <1>3 DEF QueuePositionUpdated
  <2>2. t \in Known(dm)
    BY DEF OfFile, OfUser
  <2>3. dm.downloads[t].peer_token \in PeerToken \cup {NoPeerToken}
    BY <1>0, <2>2 DEF Known, Manager, Download
  <2>4. Keeps(dm, dm') /\ Timed(dm', Due, {})
    BY <1>0, <2>1, <2>2, <2>3, ToQueuedRemotelySteps DEF OnQueuePosition
  <2> QED
    BY <1>3, <2>4, HandlerSteps DEF QueuePositionUpdated
<1>4. ASSUME NEW u \in User, NEW f \in File, UploadFailed(u, f)
      PROVE  Sound /\ Timed(dm', Due', {})
  BY <1>0, <1>4, FailMatchingSteps, HandlerSteps DEF UploadFailed, OnUploadFailed
<1>5. ASSUME NEW u \in User, NEW f \in File, NEW p \in PeerToken, UpdateDownloadTokens(u, f, p)
      PROVE  Sound /\ Timed(dm', Due', {})
  <2>1. PICK t \in OfFile(dm, u, f) : dm' = OnTransferRequest(dm, t, p)
    BY <1>5 DEF UpdateDownloadTokens
  <2>2. t \in Known(dm)
    BY DEF OfFile, OfUser
  <2>3. Keeps(dm, dm') /\ Timed(dm', Due, {})
    BY <1>0, <2>1, <2>2, ToQueuedRemotelySteps DEF OnTransferRequest
  <2> QED
    BY <1>5, <2>3, HandlerSteps DEF UpdateDownloadTokens
<1>6. ASSUME NEW p \in PeerToken, TransferRejected(p) PROVE Sound /\ Timed(dm', Due', {})
  <2>1. PICK t \in OfPeerToken(dm, p) : dm' = OnTransferRejected(dm, t)
    BY <1>6 DEF TransferRejected
  <2>2. t \in Known(dm)
    BY DEF OfPeerToken
  <2>3. dm.downloads[t].peer_token \in PeerToken \cup {NoPeerToken}
    BY <1>0, <2>2 DEF Known, Manager, Download
  <2>4. Keeps(dm, dm') /\ Timed(dm', Due, {})
    BY <1>0, <2>1, <2>2, <2>3, ToQueuedRemotelySteps DEF OnTransferRejected
  <2> QED
    BY <1>6, <2>4, HandlerSteps DEF TransferRejected
<1> QED
  BY <1>1, <1>2, <1>3, <1>4, <1>5, <1>6 DEF PeerEvent

LEMMA NextSteps == TimedInv /\ [Next]_vars => Sound /\ Timed(dm', Due', {})
<1> SUFFICES ASSUME TimedInv, [Next]_vars PROVE Sound /\ Timed(dm', Due', {})
  OBVIOUS
<1>0. OK(dm) /\ dm \in Manager /\ Timed(dm, Due, {})
  BY DEF TimedInv, Inv, OK
<1>1. CASE UserCall
  <2> PICK r \in Request : DownloadBeforeConnect(r) \/ RequestDownload(r)
    BY <1>1 DEF UserCall
  <2>1. CASE DownloadBeforeConnect(r)
    BY <1>0, <2>1, CallSteps, HandlerSteps DEF DownloadBeforeConnect
  <2>2. CASE RequestDownload(r)
    BY <1>0, <2>2, CallSteps, HandlerSteps DEF RequestDownload
  <2> QED
    BY <2>1, <2>2
<1>2. CASE Connect \/ ServerDisconnected \/ UNCHANGED vars
  <2>1. /\ dm'.active_slots = dm.active_slots /\ dm'.downloads = dm.downloads
        /\ dm'.strays = dm.strays /\ dm'.pending = dm.pending /\ dm'.shown = dm.shown
        /\ dm'.asked = dm.asked /\ UNCHANGED due
    BY <1>0, <1>2 DEF Connect, ServerDisconnected, OnServerDisconnected, Manager, vars
  <2> QED
    BY <1>0, <2>1 DEF Timed, Sound, Due
<1>3. CASE TokenEvent
  BY <1>3, TokenEventSteps
<1>4. CASE PeerEvent
  BY <1>4, PeerEventSteps
<1>5. CASE LoginSucceeded
  <2> DEFINE k == [dm EXCEPT !.logged_in = TRUE]
  <2>1. OK(k) /\ k.logged_in
    BY <1>0, FlagOK DEF Manager
  <2>2. /\ k.active_slots = dm.active_slots /\ k.downloads = dm.downloads
        /\ k.strays = dm.strays /\ k.pending = dm.pending /\ k.shown = dm.shown
    BY <1>0 DEF Manager
  <2>3. dm' \in DrainPendingQueue(k) /\ UNCHANGED due
    BY <1>5 DEF LoginSucceeded, OnLoginSucceeded
  <2> HIDE DEF k
  <2>4. Timed(k, Due, {})
    BY <1>0, <2>2 DEF Timed
  <2>5. Keeps(k, dm') /\ Timed(dm', Due, {})
    BY <2>1, <2>3, <2>4, DrainSteps
  <2> QED
    BY <2>1, <2>2, <2>3, <2>5 DEF Keeps, Sound, Due
<1> QED
  BY <1>1, <1>2, <1>3, <1>4, <1>5 DEF Next, ServerEvent

LEMMA TimedInvariance == Spec => []TimedInv
<1>1. Init => TimedInv
  <2>1. Init => Inv
    BY InitInv
  <2>2. Init => dm.active_slots = {}
    BY DEF Init
  <2> QED
    BY <2>1, <2>2 DEF TimedInv, Timed
<1>2. TimedInv /\ [Next]_vars => TimedInv'
  BY NextInv, NextSteps DEF TimedInv
<1> QED
  BY <1>1, <1>2, PTL DEF Spec

\* A started download that nobody has answered has a timeout coming, whatever
\* overwrites, aborts or forgets the handles of its timers.
THEOREM WaitingIsTimedHolds == Spec => []WaitingIsTimed
<1>1. TimedInv => WaitingIsTimed
  <2> SUFFICES ASSUME TimedInv, NEW t \in dm.active_slots,
                      dm.downloads[t].status = "QueuedLocally"
               PROVE  \/ LiveTimer(dm, t) = 1 \/ dm.strays[t] > 0 \/ due[t] > 0
                      \/ \E e \in dm.pending : e.token = t
    BY DEF WaitingIsTimed
  <2>1. dm.downloads[t] # NoDownload
    BY DEF TimedInv, Inv, OK, Slots, Known
  <2> QED
    BY <2>1 DEF TimedInv, Timed, LiveTimer, Due
<1> QED
  BY <1>1, TimedInvariance, PTL

\* A caller that was told the end of its download is told nothing after it: a
\* late report or timeout of its token finds no download of its own.
THEOREM TerminalIsFinalHolds == Spec => TerminalIsFinal
<1>1. TimedInv /\ [Next]_vars
        => [\A r \in Request : dm.shown[r] \in Terminal => dm'.shown[r] = dm.shown[r]]_vars
  BY NextSteps DEF Sound
<1> QED
  BY <1>1, TimedInvariance, PTL DEF Spec, TerminalIsFinal

\* No QueueUpload is sent in a step that leaves the manager without a login.
THEOREM StartsOnlyLoggedInHolds == Spec => StartsOnlyLoggedIn
<1>1. TimedInv /\ [Next]_vars => [dm'.asked # dm.asked => dm'.logged_in]_vars
  BY NextSteps DEF Sound
<1> QED
  BY <1>1, TimedInvariance, PTL DEF Spec, StartsOnlyLoggedIn

-----------------------------------------------------------------------------
(* The refinement of DownloadLifecycle. *)

Underway(m) == {r \in Request : m.shown[r] \in Waiting \cup {"Nothing"}}

\* From m to n only slots were given: requests were sent for calls under way.
Starts(m, n) ==
  /\ n.shown = m.shown
  /\ \E S \in SUBSET Underway(m) : n.asked = m.asked \cup S

\* From m to n the downloads of some calls ended alike, and slots were given.
Releases(m, n) ==
  \E R \in SUBSET Underway(m), s \in Terminal :
    /\ n.shown = [r \in Request |-> IF r \in R THEN s ELSE m.shown[r]]
    /\ \E S \in SUBSET (Underway(m) \ R) : n.asked = m.asked \cup S

\* From m to n the peer of a call under way has answered.
Answers(m, n) ==
  /\ n.asked = m.asked
  /\ \E r \in Underway(m) : n.shown = [m.shown EXCEPT ![r] = "QueuedRemotely"]

\* The call of a download in the map is under way.
LEMMA ReqsUnderway ==
  ASSUME NEW m, m \in Manager, Open(m), NEW T
  PROVE  Reqs(m, T) \subseteq Underway(m)
<1> SUFFICES ASSUME NEW t \in T \cap Known(m)
             PROVE  m.downloads[t].req \in Underway(m)
  BY DEF Reqs
<1>1. m.downloads[t].req \in Request
  BY DEF Manager, Known, Download
<1> QED
  BY <1>1 DEF Open, Underway

LEMMA InitiateStarts ==
  ASSUME NEW m, m \in Manager, Open(m), NEW E, IsFiniteSet(E)
  PROVE  Starts(m, TryInitiate(m, E))
<1> DEFINE n == TryInitiate(m, E)
           S == {r \in Reqs(m, Tokens(E) \cap Known(m)) : UserOf[r] \in m.registry}
<1>1. n.shown = m.shown
  BY InitiateFields
<1>2. n.asked = m.asked \cup S
  BY DEF TryInitiate, Tokens, Manager
<1>3. S \in SUBSET Underway(m)
  BY ReqsUnderway
<1> HIDE DEF n, S
<1>4. Starts(m, n)
  BY <1>1, <1>2, <1>3 DEF Starts
<1> QED
  BY <1>4 DEF n

LEMMA StartStarts ==
  ASSUME NEW m, OK(m), NEW E, IsFiniteSet(E)
  PROVE  Starts(m, Start(m, E))
<1> DEFINE p == [m EXCEPT !.pending = @ \ E]
<1>1. /\ p \in Manager /\ p.asked = m.asked
      /\ p.downloads = m.downloads /\ p.shown = m.shown
  BY DEF OK, Manager
<1>2. Start(m, E) = TryInitiate(p, E)
  BY DEF Start
<1> HIDE DEF p
<1>3. Open(p)
  BY <1>1 DEF OK, Open, Known
<1>4. Starts(p, TryInitiate(p, E))
  BY <1>1, <1>3, InitiateStarts
<1> QED
  BY <1>1, <1>2, <1>4 DEF Starts, Underway

\* Nothing sent is a start too.
LEMMA StandsStill == ASSUME NEW m PROVE Starts(m, m)
<1>1. {} \in SUBSET Underway(m) /\ m.asked = m.asked \cup {}
  OBVIOUS
<1> QED
  BY <1>1 DEF Starts

LEMMA TryDequeueNextStarts ==
  ASSUME NEW m, OK(m)
  PROVE  Starts(m, TryDequeueNext(m))
<1> DEFINE front == CHOOSE e \in m.pending : \A f \in m.pending : e.stamp <= f.stamp
<1>1. TryDequeueNext(m) \in {Start(m, {front}), m}
  BY DEF TryDequeueNext
<1> HIDE DEF front
<1>2. IsFiniteSet({front})
  BY FS_Singleton
<1> QED
  BY <1>1, <1>2, StartStarts, StandsStill

LEMMA DrainStarts ==
  ASSUME NEW m, OK(m), NEW n \in DrainPendingQueue(m)
  PROVE  Starts(m, n)
<1>1. CASE m.pending = {} \/ ~HasRoom(m.active_slots)
  BY <1>1, StandsStill DEF DrainPendingQueue
<1>2. CASE ~(m.pending = {} \/ ~HasRoom(m.active_slots))
  <2>1. PICK e \in m.pending : n = Start(m, {f \in m.pending : f.stamp < e.stamp} \cup {e})
    BY <1>2 DEF DrainPendingQueue
  <2> DEFINE popped == {f \in m.pending : f.stamp < e.stamp} \cup {e}
  <2>2. IsFiniteSet(popped)
    BY FS_Subset DEF OK
  <2> HIDE DEF popped
  <2>3. n = Start(m, popped)
    BY <2>1 DEF popped
  <2> QED
    BY <2>2, <2>3, StartStarts
<1> QED
  BY <1>1, <1>2

-----------------------------------------------------------------------------
(* Ends: the calls told an end are under way, and what starts after them is   *)
(* none of them, because the map is open again (EndedOK).                     *)

LEMMA EndedReleases ==
  ASSUME NEW m, OK(m), NEW n, NEW T, NEW s \in Terminal, Ended(m, n, T, s),
         NEW k, Starts(n, k)
  PROVE  Releases(m, k)
<1> DEFINE R == Reqs(m, T)
<1>1. R \in SUBSET Underway(m)
  BY ReqsUnderway DEF OK
<1>2. n.shown = [r \in Request |-> IF r \in R THEN s ELSE m.shown[r]]
  <2>1. n.shown \in [Request -> Shown]
    BY DEF Ended, Manager
  <2> QED
    BY <2>1 DEF Ended
<1> HIDE DEF R
<1>3. PICK S \in SUBSET Underway(n) : k.asked = n.asked \cup S
  BY DEF Starts
<1>4. Underway(n) \subseteq Underway(m) \ R
  <2>1. s \notin Waiting \cup {"Nothing"}
    OBVIOUS
  <2> QED
    BY <1>2, <2>1 DEF Underway
<1>5. k.asked = m.asked \cup S /\ k.shown = n.shown /\ S \in SUBSET (Underway(m) \ R)
  BY <1>3, <1>4 DEF Ended, Starts
<1> QED
  BY <1>1, <1>2, <1>5 DEF Releases

\* With the slot offered or without.
LEMMA EndedThenStarts ==
  ASSUME NEW m, OK(m), NEW n, NEW T, NEW s \in Terminal, Ended(m, n, T, s)
  PROVE  Releases(m, n) /\ Releases(m, TryDequeueNext(n))
BY EndedOK, EndedReleases, TryDequeueNextStarts, StandsStill

LEMMA NothingReleased == ASSUME NEW m, m \in Manager PROVE Releases(m, m)
<1>1. m.shown = [r \in Request |-> IF r \in {} THEN "Failed" ELSE m.shown[r]]
  BY DEF Manager
<1>2. {} \in SUBSET (Underway(m) \ {}) /\ m.asked = m.asked \cup {}
  OBVIOUS
<1>3. {} \in SUBSET Underway(m) /\ "Failed" \in Terminal
  OBVIOUS
<1> QED
  BY <1>1, <1>2, <1>3 DEF Releases

LEMMA OnCompletedReleases ==
  ASSUME NEW m, OK(m), NEW t \in Token, NEW s \in Terminal
  PROVE  Releases(m, OnCompleted(m, t, s))
BY AbandonEnds, EndedThenStarts DEF OnCompleted

LEMMA FailMatchingReleases ==
  ASSUME NEW m, OK(m), NEW T
  PROVE  Releases(m, FailMatching(m, T))
<1>1. Ended(m, Drop(Unqueue(Tell(m, Reqs(m, T), "Failed"), T), T), T, "Failed")
  BY FailEnds
<1>2. Releases(m, TryDequeueNext(Drop(Unqueue(Tell(m, Reqs(m, T), "Failed"), T), T)))
  BY <1>1, EndedThenStarts
<1>3. Releases(m, m)
  BY NothingReleased DEF OK
<1> QED
  BY <1>2, <1>3 DEF FailMatching

LEMMA OnCancelReleases ==
  ASSUME NEW m, OK(m), NEW t \in Token
  PROVE  Releases(m, OnCancel(m, t))
<1> DEFINE n == Drop(Tell(Unqueue(m, {t}), Reqs(m, {t}), "Cancelled"), {t})
<1>1. CASE t \notin Known(m)
  <2>1. PICK s \in Terminal : Ended(m, Unqueue(m, {t}), {t}, s)
    BY <1>1, UnqueueEnds
  <2> QED
    BY <1>1, <2>1, EndedThenStarts DEF OnCancel
<1>2. CASE t \in Known(m)
  <2>1. Ended(m, n, {t}, "Cancelled")
    BY FailEnds
  <2>2. OnCancel(m, t) \in {TryDequeueNext(n), n}
    BY <1>2 DEF OnCancel
  <2> HIDE DEF n
  <2>3. Releases(m, n) /\ Releases(m, TryDequeueNext(n))
    BY <2>1, EndedThenStarts
  <2> QED
    BY <2>2, <2>3
<1> QED
  BY <1>1, <1>2

LEMMA OnTimeoutReleases ==
  ASSUME NEW m, OK(m), NEW t \in Token
  PROVE  Releases(m, OnTimeout(m, t))
<1> DEFINE gone == Abandon(Tell(m, Reqs(m, {t}), "TimedOut"), t)
<1>1. OnTimeout(m, t) \in {TryDequeueNext(gone), gone, m}
  BY DEF OnTimeout
<1>2. Ended(m, gone, {t}, "TimedOut")
  BY AbandonEnds
<1> HIDE DEF gone
<1>3. Releases(m, gone) /\ Releases(m, TryDequeueNext(gone)) /\ Releases(m, m)
  BY <1>2, EndedThenStarts, NothingReleased DEF OK
<1> QED
  BY <1>1, <1>3

-----------------------------------------------------------------------------
(* Calls and answers. *)

LEMMA InsertShown ==
  ASSUME NEW m, OK(m), NEW r \in Request, m.shown[r] = "NotRequested",
         NEW s \in {"Nothing", "QueuedLocally"}
  PROVE  LET n == Insert(Tell(m, {r}, s), r)
         IN  n.shown = [m.shown EXCEPT ![r] = s] /\ n.asked = m.asked
<1> DEFINE a == Tell(m, {r}, s)
           b == Stray(a, TokenFor(r))
           n == Insert(a, r)
<1>1. m \in Manager /\ s \in Shown /\ TokenFor(r) \in Token
  BY CallAssumption DEF OK, Shown, TokenFor
<1>2. /\ a \in Manager
      /\ \A x \in Request : a.shown[x] = IF x \in {r} THEN s ELSE m.shown[x]
  BY <1>1, TellType
<1>3. a.shown = [m.shown EXCEPT ![r] = s]
  BY <1>1, <1>2 DEF Manager
<1> HIDE DEF a
<1>4. b \in Manager /\ b = [a EXCEPT !.strays = b.strays]
  BY <1>1, <1>2, StrayType
<1>5. b.shown = a.shown
  BY <1>2, <1>4 DEF Manager
<1>6. n = [b EXCEPT !.downloads = [b.downloads EXCEPT ![TokenFor(r)] = NewDownload(r)]]
  BY DEF Insert
<1> HIDE DEF b
<1>7. n.shown = b.shown
  BY <1>4, <1>6 DEF Manager
<1>8. n.asked = m.asked
  BY InsertMoving DEF n, a
<1> QED
  BY <1>3, <1>5, <1>7, <1>8 DEF n, a

LEMMA PushBackShown ==
  ASSUME NEW m, m \in Manager, NEW t
  PROVE  PushBack(m, t).shown = m.shown /\ PushBack(m, t).asked = m.asked
<1> DEFINE entry == [stamp |-> Cardinality({r \in Request : m.shown[r] # "NotRequested"}),
                     token |-> t]
<1>1. PushBack(m, t) = [m EXCEPT !.pending = m.pending \cup {entry}]
  BY DEF PushBack
<1> HIDE DEF entry
<1> QED
  BY <1>1 DEF Manager

LEMMA BufferCalls ==
  ASSUME NEW m, OK(m), NEW r \in Request, m.shown[r] = "NotRequested"
  PROVE  /\ Buffer(m, r).shown = [m.shown EXCEPT ![r] = "Nothing"]
         /\ Buffer(m, r).asked = m.asked
<1> DEFINE n == Insert(Tell(m, {r}, "Nothing"), r)
<1>1. n \in Manager
  BY InsertMoving DEF Moving
<1>2. n.shown = [m.shown EXCEPT ![r] = "Nothing"] /\ n.asked = m.asked
  BY InsertShown
<1>3. Buffer(m, r) = PushBack(n, TokenFor(r))
  BY DEF Buffer
<1> HIDE DEF n
<1> QED
  BY <1>1, <1>2, <1>3, PushBackShown

\* A download started at once is the one just inserted under its token.
LEMMA EnqueueCalls ==
  ASSUME NEW m, OK(m), NEW r \in Request, m.shown[r] = "NotRequested"
  PROVE  /\ Enqueue(m, r).shown = [m.shown EXCEPT ![r] = "QueuedLocally"]
         /\ Enqueue(m, r).asked \in {m.asked, m.asked \cup {r}}
<1> DEFINE t == TokenFor(r)
           n == Insert(Tell(m, {r}, "QueuedLocally"), r)
           E == {[stamp |-> 0, token |-> t]}
<1>1. n \in Manager
  BY InsertMoving DEF Moving
<1>2. n.shown = [m.shown EXCEPT ![r] = "QueuedLocally"] /\ n.asked = m.asked
  BY InsertShown
<1>3. Enqueue(m, r) \in {TryInitiate(n, E), PushBack(n, t)}
  BY DEF Enqueue
<1>4. n.downloads[t].req = r
  <2>1. n = [Stray(Tell(m, {r}, "QueuedLocally"), t) EXCEPT !.downloads[t] = NewDownload(r)]
    BY DEF Insert
  <2>2. Tell(m, {r}, "QueuedLocally") \in Manager /\ t \in Token
    BY TellType, CallAssumption DEF OK, Shown, TokenFor
  <2>3. Stray(Tell(m, {r}, "QueuedLocally"), t) \in Manager
    BY <2>2, StrayType
  <2> HIDE DEF n, t
  <2> QED
    BY <2>1, <2>2, <2>3 DEF Manager, NewDownload
<1>5. Reqs(n, {t}) \subseteq {r}
  BY <1>4 DEF Reqs
<1>6. IsFiniteSet(E) /\ Tokens(E) = {t}
  <2>1. [stamp |-> 0, token |-> t].token = t
    OBVIOUS
  <2> QED
    BY <2>1, FS_Singleton DEF Tokens
<1> HIDE DEF n, t, E
<1>7. TryInitiate(n, E).shown = n.shown
  BY <1>1, <1>6, InitiateFields
<1>8. TryInitiate(n, E).asked
        = n.asked \cup {x \in Reqs(n, Tokens(E) \cap Known(n)) : UserOf[x] \in n.registry}
  BY <1>1 DEF TryInitiate, Tokens, Manager
<1>9. Reqs(n, Tokens(E) \cap Known(n)) \subseteq {r}
  BY <1>5, <1>6 DEF Reqs
<1>10. TryInitiate(n, E).asked \in {n.asked, n.asked \cup {r}}
  BY <1>8, <1>9
<1>11. PushBack(n, t).shown = n.shown /\ PushBack(n, t).asked = n.asked
  BY <1>1, PushBackShown
<1> QED
  BY <1>2, <1>3, <1>7, <1>10, <1>11

LEMMA ToQueuedRemotelyAnswers ==
  ASSUME NEW m, OK(m), NEW t \in Known(m), NEW p, NEW rearm
  PROVE  Answers(m, ToQueuedRemotely(m, t, p, rearm))
<1> DEFINE n == ToQueuedRemotely(m, t, p, rearm)
           r == m.downloads[t].req
<1>1. m \in Manager /\ "QueuedRemotely" \in Shown /\ Reqs(m, {t}) = {r}
  BY DEF OK, Shown, Reqs
<1>2. r \in Underway(m)
  BY <1>1, ReqsUnderway DEF OK
<1>3. n.shown = [x \in Request |-> IF x \in {r} THEN "QueuedRemotely" ELSE m.shown[x]]
  BY <1>1 DEF ToQueuedRemotely, Tell, Manager
<1>4. n.shown = [m.shown EXCEPT ![r] = "QueuedRemotely"]
  BY <1>1, <1>3 DEF Manager
<1>5. n.asked = m.asked
  BY <1>1 DEF ToQueuedRemotely, Tell, Manager
<1> QED
  BY <1>2, <1>4, <1>5 DEF Answers

-----------------------------------------------------------------------------
(* Each action of the manager is one of the lifecycle, or a stutter. *)

LEMMA ReleasesStep ==
  ASSUME Releases(dm, dm')
  PROVE  L!Next
<1>1. PICK R \in SUBSET Underway(dm), s \in Terminal :
        /\ dm'.shown = [r \in Request |-> IF r \in R THEN s ELSE dm.shown[r]]
        /\ \E S \in SUBSET (Underway(dm) \ R) : dm'.asked = dm.asked \cup S
  BY DEF Releases
<1>2. L!Underway = Underway(dm) /\ L!End = Terminal
  BY DEF L!Underway, L!End, Underway
<1>3. L!Release(R, s)
  BY <1>1, <1>2 DEF L!Release
<1> QED
  BY <1>2, <1>3 DEF L!Next

LEMMA AnswerStep ==
  ASSUME Answers(dm, dm')
  PROVE  L!Next
<1> PICK r \in Underway(dm) : dm'.shown = [dm.shown EXCEPT ![r] = "QueuedRemotely"]
  BY DEF Answers
<1>1. L!Underway = Underway(dm)
  BY DEF L!Underway, Underway
<1>2. L!Answer(r)
  BY <1>1 DEF L!Answer, Answers
<1> QED
  BY <1>2 DEF L!Next, Underway

LEMMA UserCallStep ==
  ASSUME OK(dm), UserCall
  PROVE  L!Next
<1> PICK r \in Request : DownloadBeforeConnect(r) \/ RequestDownload(r)
  BY DEF UserCall
<1>1. CASE DownloadBeforeConnect(r)
  BY <1>1, BufferCalls DEF DownloadBeforeConnect, L!Next, L!Call
<1>2. CASE RequestDownload(r)
  BY <1>2, EnqueueCalls DEF RequestDownload, L!Next, L!Call
<1> QED
  BY <1>1, <1>2

LEMMA TokenEventStep ==
  ASSUME OK(dm), TokenEvent
  PROVE  [L!Next]_L!vars
<1> PICK t \in Token :
      \/ CancelDownload(t) \/ TimerFires(t) \/ DownloadResponseTimeout(t)
      \/ \E status \in Results : DownloadCompleted(t, status)
  BY DEF TokenEvent
<1>1. CASE CancelDownload(t)
  BY <1>1, OnCancelReleases, ReleasesStep DEF CancelDownload
<1>2. CASE TimerFires(t)
  <2>1. dm'.shown = dm.shown /\ dm'.asked = dm.asked
    BY <1>2 DEF TimerFires, OK, Manager
  <2> QED
    BY <2>1 DEF L!vars
<1>3. CASE DownloadResponseTimeout(t)
  BY <1>3, OnTimeoutReleases, ReleasesStep DEF DownloadResponseTimeout
<1>4. CASE \E status \in Results : DownloadCompleted(t, status)
  BY <1>4, OnCompletedReleases, ReleasesStep, ResultAssumption DEF DownloadCompleted
<1> QED
  BY <1>1, <1>2, <1>3, <1>4

LEMMA PeerEventStep ==
  ASSUME OK(dm), PeerEvent
  PROVE  [L!Next]_L!vars
<1>0. dm \in Manager /\ dm.registry \in SUBSET User
  BY DEF OK, Manager
<1>1. ASSUME NEW u \in User, PeerDisconnected(u) PROVE L!Next
  <2> DEFINE k == [dm EXCEPT !.registry = dm.registry \ {u}]
  <2>1. OK(k)
    BY <1>0, RegistryOK
  <2>2. k.shown = dm.shown /\ k.asked = dm.asked
    BY <1>0 DEF Manager
  <2>3. dm' = FailMatching(k, OfUser(k, u))
    BY <1>1 DEF PeerDisconnected, OnPeerDisconnected
  <2> HIDE DEF k
  <2>4. Releases(k, dm')
    BY <2>1, <2>3, FailMatchingReleases
  <2>5. Releases(dm, dm')
    BY <2>2, <2>4 DEF Releases, Underway
  <2> QED
    BY <2>5, ReleasesStep
<1>2. ASSUME NEW u \in User, PeerRegistered(u) PROVE UNCHANGED L!vars
  BY <1>0, <1>2 DEF PeerRegistered, Manager, L!vars
<1>3. ASSUME NEW u \in User, NEW f \in File, QueuePositionUpdated(u, f) PROVE L!Next
  <2>1. PICK t \in OfFile(dm, u, f) : dm' = OnQueuePosition(dm, t)
    BY <1>3 DEF QueuePositionUpdated
  <2>2. t \in Known(dm)
    BY DEF OfFile, OfUser
  <2> QED
    BY <1>0, <2>1, <2>2, ToQueuedRemotelyAnswers, AnswerStep DEF OnQueuePosition
<1>4. ASSUME NEW u \in User, NEW f \in File, UploadFailed(u, f) PROVE L!Next
  BY <1>4, FailMatchingReleases, ReleasesStep DEF UploadFailed, OnUploadFailed
<1>5. ASSUME NEW u \in User, NEW f \in File, NEW p \in PeerToken, UpdateDownloadTokens(u, f, p)
      PROVE  L!Next
  <2>1. PICK t \in OfFile(dm, u, f) : dm' = OnTransferRequest(dm, t, p)
    BY <1>5 DEF UpdateDownloadTokens
  <2>2. t \in Known(dm)
    BY DEF OfFile, OfUser
  <2> QED
    BY <1>0, <2>1, <2>2, ToQueuedRemotelyAnswers, AnswerStep DEF OnTransferRequest
<1>6. ASSUME NEW p \in PeerToken, TransferRejected(p) PROVE L!Next
  <2>1. PICK t \in OfPeerToken(dm, p) : dm' = OnTransferRejected(dm, t)
    BY <1>6 DEF TransferRejected
  <2>2. t \in Known(dm)
    BY DEF OfPeerToken
  <2> QED
    BY <1>0, <2>1, <2>2, ToQueuedRemotelyAnswers, AnswerStep DEF OnTransferRejected
<1> QED
  BY <1>1, <1>2, <1>3, <1>4, <1>5, <1>6 DEF PeerEvent

LEMMA LifecycleStep == Inv /\ [Next]_vars => [L!Next]_L!vars
<1> SUFFICES ASSUME Inv, [Next]_vars PROVE [L!Next]_L!vars
  OBVIOUS
<1>0. OK(dm) /\ dm \in Manager
  BY DEF Inv, OK
<1>1. CASE UserCall
  BY <1>0, <1>1, UserCallStep
<1>2. CASE Connect \/ ServerDisconnected \/ UNCHANGED vars
  BY <1>0, <1>2 DEF Connect, ServerDisconnected, OnServerDisconnected, Manager, vars, L!vars
<1>3. CASE TokenEvent
  BY <1>0, <1>3, TokenEventStep
<1>4. CASE PeerEvent
  BY <1>0, <1>4, PeerEventStep
<1>5. CASE LoginSucceeded
  <2> DEFINE k == [dm EXCEPT !.logged_in = TRUE]
  <2>1. OK(k)
    BY <1>0, FlagOK
  <2>2. k.shown = dm.shown /\ k.asked = dm.asked
    BY <1>0 DEF Manager
  <2>3. dm' \in DrainPendingQueue(k)
    BY <1>5 DEF LoginSucceeded, OnLoginSucceeded
  <2> HIDE DEF k
  <2>4. Starts(k, dm')
    BY <2>1, <2>3, DrainStarts
  <2>5. dm.shown = [r \in Request |-> IF r \in {} THEN "Failed" ELSE dm.shown[r]]
    BY <1>0 DEF Manager
  <2>6. Releases(dm, dm')
    <3>1. PICK S \in SUBSET Underway(dm) : dm'.asked = dm.asked \cup S
      BY <2>2, <2>4 DEF Starts, Underway
    <3>2. dm'.shown = [r \in Request |-> IF r \in {} THEN "Failed" ELSE dm.shown[r]]
      BY <2>2, <2>4, <2>5 DEF Starts
    <3>3. S \in SUBSET (Underway(dm) \ {}) /\ {} \in SUBSET Underway(dm) /\ "Failed" \in Terminal
      OBVIOUS
    <3> QED
      BY <3>1, <3>2, <3>3 DEF Releases
  <2> QED
    BY <2>6, ReleasesStep
<1> QED
  BY <1>1, <1>2, <1>3, <1>4, <1>5 DEF Next, ServerEvent

\* What a caller is promised: the manager, with its tokens that may collide, its
\* leftover queue entries and its late timeouts, shows each caller the way of one
\* download, and asks a peer for a file only while its caller waits for it.
THEOREM LifecycleRefined == Spec => RefinesLifecycle
<1>1. Init => L!Init
  BY DEF Init, L!Init
<1>2. Inv /\ [Next]_vars => [L!Next]_L!vars
  BY LifecycleStep
<1> QED
  BY <1>1, <1>2, Invariance, PTL DEF Spec, RefinesLifecycle, L!Spec

-----------------------------------------------------------------------------
(* The slots are those of the downloads in flight, and downloads start in   *)
(* the order they came.                                                     *)

\* A download whose request was sent has a slot; a request is sent of calls only.
InFlight(m) ==
  /\ \A t \in Known(m) : m.downloads[t].req \in m.asked => t \in m.active_slots
  /\ \A r \in m.asked : m.shown[r] # "NotRequested"

\* From m to n slots are given to the front of the queue only.
FromQueue(m, n) ==
  /\ n.pending \subseteq m.pending
  /\ \A t \in n.active_slots \ m.active_slots :
       \E g \in m.pending :
         /\ g.token = t
         /\ \A e \in m.pending : e.stamp < g.stamp => e \notin n.pending

LEMMA FromQueueInOrder ==
  ASSUME NEW m, NEW n, FromQueue(m, n)
  PROVE  InOrder(m, n)
BY DEF FromQueue, InOrder

-----------------------------------------------------------------------------
(* Starting downloads. *)

\* The requests a start sends are of the downloads it gives a slot to.
LEMMA InitiateInFlight ==
  ASSUME NEW m, m \in Manager, Open(m), InFlight(m), NEW E, IsFiniteSet(E)
  PROVE  InFlight(TryInitiate(m, E))
<1> DEFINE n == TryInitiate(m, E)
           started == Tokens(E) \cap Known(m)
<1>1. n.active_slots = m.active_slots \cup started /\ n.shown = m.shown
  BY InitiateFields
<1>2. n.asked \subseteq m.asked \cup Reqs(m, started)
  BY DEF TryInitiate, Tokens, Manager
<1>3. ASSUME NEW t \in Known(n)
      PROVE  t \in Known(m) /\ n.downloads[t].req = m.downloads[t].req
  <2>1. t \in Token /\ n.downloads[t] # NoDownload
    BY <1>3 DEF Known
  <2>2. t \notin Known(m) => n.downloads[t] = m.downloads[t]
    BY <2>1 DEF TryInitiate, Manager
  <2>3. t \in Known(m)
    BY <2>1, <2>2 DEF Known
  <2> QED
    BY <2>1, <2>3, InitiateDownload
<1>4. ASSUME NEW r \in Reqs(m, started)
      PROVE  m.shown[r] # "NotRequested" /\ TokenFor(r) \in started
  <2>1. PICK t \in started : r = m.downloads[t].req
    BY DEF Reqs
  <2> QED
    BY <2>1 DEF Open
<1> HIDE DEF n, started
<1>5. ASSUME NEW t \in Known(n), n.downloads[t].req \in n.asked
      PROVE  t \in n.active_slots
  <2>1. t \in Known(m) /\ TokenFor(m.downloads[t].req) = t
    BY <1>3 DEF Open
  <2> QED
    BY <1>1, <1>2, <1>3, <1>4, <1>5, <2>1 DEF InFlight
<1> QED
  BY <1>1, <1>2, <1>4, <1>5 DEF InFlight, n

LEMMA StartInFlight ==
  ASSUME NEW m, OK(m), InFlight(m), NEW E \in SUBSET m.pending,
         \A g \in E : \A e \in m.pending : e.stamp < g.stamp => e \in E
  PROVE  InFlight(Start(m, E)) /\ FromQueue(m, Start(m, E))
<1> DEFINE p == [m EXCEPT !.pending = @ \ E]
           n == Start(m, E)
<1>1. /\ p \in Manager /\ p.pending = m.pending \ E /\ p.asked = m.asked
      /\ p.downloads = m.downloads /\ p.active_slots = m.active_slots /\ p.shown = m.shown
  BY DEF OK, Manager
<1>2. n = TryInitiate(p, E)
  BY DEF Start
<1> HIDE DEF p, n
<1>3. IsFiniteSet(E)
  BY FS_Subset DEF OK
<1>4. Open(p) /\ InFlight(p)
  BY <1>1 DEF OK, Open, InFlight, Known
<1>5. InFlight(n)
  BY <1>1, <1>2, <1>3, <1>4, InitiateInFlight
<1>6. /\ n.pending = m.pending \ E /\ n.shown = m.shown
      /\ n.active_slots = m.active_slots \cup (Tokens(E) \cap Known(p))
  BY <1>1, <1>2, <1>3, InitiateFields
<1>7. FromQueue(m, n)
  BY <1>6 DEF FromQueue, Tokens
<1> QED
  BY <1>5, <1>7 DEF n

Less == {p \in Nat \X Nat : p[1] < p[2]}

\* The queue has a front unless it is empty.
LEMMA FrontOfQueue ==
  ASSUME NEW m, m \in Manager, m.pending # {}
  PROVE  \E e \in m.pending : \A f \in m.pending : e.stamp <= f.stamp
<1>1. IsWellFoundedOn(Less, Nat)
  BY NatLessThanWellFounded DEF OpToRel, Less
<1> DEFINE stamps == {e.stamp : e \in m.pending}
<1>2. m.pending \subseteq Entry
  BY DEF Manager
<1>3. stamps \subseteq Nat /\ stamps # {}
  BY <1>2 DEF Entry
<1>4. PICK x \in stamps : \A y \in stamps : ~(<<y, x>> \in Less)
  BY <1>1, <1>3, WFMin
<1>5. \A y \in stamps : <<y, x>> \in Nat \X Nat /\ <<y, x>>[1] = y /\ <<y, x>>[2] = x
  BY <1>3
<1>6. \A y \in stamps : ~(y < x)
  BY <1>4, <1>5 DEF Less
<1>7. \A y \in stamps : x <= y
  BY <1>3, <1>6
<1> QED
  BY <1>7

LEMMA TryDequeueNextInFlight ==
  ASSUME NEW m, OK(m), InFlight(m)
  PROVE  InFlight(TryDequeueNext(m)) /\ FromQueue(m, TryDequeueNext(m))
<1> DEFINE front == CHOOSE e \in m.pending : \A f \in m.pending : e.stamp <= f.stamp
<1>1. m.pending # {} => front \in m.pending /\ \A f \in m.pending : front.stamp <= f.stamp
  BY FrontOfQueue DEF OK
<1> HIDE DEF front
<1>2. CASE m.logged_in /\ HasRoom(m.active_slots) /\ m.pending # {}
  <2>1. TryDequeueNext(m) = Start(m, {front})
    BY <1>2 DEF TryDequeueNext, front
  <2>2. {front} \in SUBSET m.pending
    BY <1>1, <1>2
  <2>3. \A e \in m.pending : e.stamp \in Nat
    BY DEF OK, Manager, Entry
  <2>4. \A g \in {front} : \A e \in m.pending : e.stamp < g.stamp => e \in {front}
    BY <1>1, <1>2, <2>3
  <2> QED
    BY <2>1, <2>2, <2>4, StartInFlight
<1>3. CASE ~(m.logged_in /\ HasRoom(m.active_slots) /\ m.pending # {})
  BY <1>3 DEF TryDequeueNext, FromQueue
<1> QED
  BY <1>2, <1>3

LEMMA DrainInFlight ==
  ASSUME NEW m, OK(m), InFlight(m), NEW n \in DrainPendingQueue(m)
  PROVE  InFlight(n) /\ FromQueue(m, n)
<1>1. CASE m.pending = {} \/ ~HasRoom(m.active_slots)
  BY <1>1 DEF DrainPendingQueue, FromQueue
<1>2. CASE ~(m.pending = {} \/ ~HasRoom(m.active_slots))
  <2>1. PICK e \in m.pending : n = Start(m, {f \in m.pending : f.stamp < e.stamp} \cup {e})
    BY <1>2 DEF DrainPendingQueue
  <2> DEFINE popped == {f \in m.pending : f.stamp < e.stamp} \cup {e}
  <2>2. \A f \in m.pending : f.stamp \in Nat
    BY DEF OK, Manager, Entry
  <2>3. popped \in SUBSET m.pending
    OBVIOUS
  <2>4. \A g \in popped : \A f \in m.pending : f.stamp < g.stamp => f \in popped
    BY <2>2
  <2>5. n = Start(m, popped)
    BY <2>1
  <2> HIDE DEF popped
  <2> QED
    BY <2>3, <2>4, <2>5, StartInFlight
<1> QED
  BY <1>1, <1>2

-----------------------------------------------------------------------------
(* Ending downloads. *)

LEMMA EndedInFlight ==
  ASSUME NEW m, OK(m), InFlight(m),
         NEW n, NEW T, NEW s \in Terminal, Ended(m, n, T, s)
  PROVE  InFlight(n) /\ FromQueue(m, n)
<1>1. ASSUME NEW t \in Known(n)
      PROVE  t \in Known(m) /\ t \notin T /\ n.downloads[t] = m.downloads[t]
  BY <1>1 DEF Ended, Known
<1>2. m.asked \subseteq Request
  BY DEF OK, Manager
<1>3. InFlight(n)
  BY <1>1, <1>2 DEF InFlight, Ended
<1>4. FromQueue(m, n)
  BY DEF FromQueue, Ended
<1> QED
  BY <1>3, <1>4

LEMMA EndedThenNextInFlight ==
  ASSUME NEW m, OK(m), InFlight(m),
         NEW n, NEW T, NEW s \in Terminal, Ended(m, n, T, s)
  PROVE  InFlight(TryDequeueNext(n)) /\ FromQueue(m, TryDequeueNext(n))
<1> DEFINE o == TryDequeueNext(n)
<1>1. OK(n) /\ InFlight(n)
  BY EndedOK, EndedInFlight
<1>2. InFlight(o) /\ FromQueue(n, o)
  BY <1>1, TryDequeueNextInFlight
<1>3. n.pending \subseteq m.pending /\ n.active_slots \subseteq m.active_slots
  BY DEF Ended
<1> HIDE DEF o
<1>4. FromQueue(m, o)
  BY <1>2, <1>3 DEF FromQueue
<1> QED
  BY <1>2, <1>4 DEF o

LEMMA OnCompletedInFlight ==
  ASSUME NEW m, OK(m), InFlight(m), NEW t \in Token, NEW s \in Terminal
  PROVE  InFlight(OnCompleted(m, t, s)) /\ FromQueue(m, OnCompleted(m, t, s))
BY AbandonEnds, EndedThenNextInFlight DEF OnCompleted

LEMMA FailMatchingInFlight ==
  ASSUME NEW m, OK(m), InFlight(m), NEW T
  PROVE  InFlight(FailMatching(m, T)) /\ FromQueue(m, FailMatching(m, T))
<1>1. CASE T = {}
  BY <1>1 DEF FailMatching, FromQueue
<1>2. CASE T # {}
  <2>1. Ended(m, Drop(Unqueue(Tell(m, Reqs(m, T), "Failed"), T), T), T, "Failed")
    BY FailEnds
  <2> QED
    BY <1>2, <2>1, EndedThenNextInFlight DEF FailMatching
<1> QED
  BY <1>1, <1>2

LEMMA OnCancelInFlight ==
  ASSUME NEW m, OK(m), InFlight(m), NEW t \in Token
  PROVE  InFlight(OnCancel(m, t)) /\ FromQueue(m, OnCancel(m, t))
<1>1. CASE t \notin Known(m)
  BY <1>1, UnqueueEnds, EndedInFlight DEF OnCancel
<1>2. CASE t \in Known(m)
  <2> DEFINE n == Drop(Tell(Unqueue(m, {t}), Reqs(m, {t}), "Cancelled"), {t})
  <2>1. Ended(m, n, {t}, "Cancelled")
    BY FailEnds
  <2>2. OnCancel(m, t) \in {TryDequeueNext(n), n}
    BY <1>2 DEF OnCancel
  <2> HIDE DEF n
  <2> QED
    BY <2>1, <2>2, EndedInFlight, EndedThenNextInFlight
<1> QED
  BY <1>1, <1>2

LEMMA OnTimeoutInFlight ==
  ASSUME NEW m, OK(m), InFlight(m), NEW t \in Token
  PROVE  InFlight(OnTimeout(m, t)) /\ FromQueue(m, OnTimeout(m, t))
<1> DEFINE gone == Abandon(Tell(m, Reqs(m, {t}), "TimedOut"), t)
<1>1. Ended(m, gone, {t}, "TimedOut")
  BY AbandonEnds
<1>2. OnTimeout(m, t) \in {m, TryDequeueNext(gone), gone}
  BY DEF OnTimeout
<1>3. FromQueue(m, m)
  BY DEF FromQueue
<1> HIDE DEF gone
<1> QED
  BY <1>1, <1>2, <1>3, EndedInFlight, EndedThenNextInFlight

-----------------------------------------------------------------------------
(* Accepting downloads. *)

\* No request was sent of a call that is only made now.
LEMMA InsertInFlight ==
  ASSUME NEW m, OK(m), InFlight(m), NEW r \in Request, m.shown[r] = "NotRequested",
         NEW s \in {"Nothing", "QueuedLocally"}
  PROVE  InFlight(Insert(Tell(m, {r}, s), r))
<1> DEFINE t == TokenFor(r)
           a == Tell(m, {r}, s)
           n == Insert(a, r)
<1>1. /\ n.active_slots = m.active_slots /\ n.asked = m.asked
      /\ \A x \in Request \ {r} : n.shown[x] = m.shown[x]
      /\ \A x \in Token \ {t} : n.downloads[x] = m.downloads[x]
  BY InsertMoving
<1>2. m \in Manager /\ s \in Shown /\ t \in Token
  BY CallAssumption DEF OK, Shown, TokenFor
<1>3. a \in Manager
  BY <1>2, TellType
<1>4. n.downloads[t].req = r
  <2>1. Stray(a, t) \in Manager
    BY <1>2, <1>3, StrayType
  <2> QED
    BY <1>2, <2>1 DEF Insert, NewDownload, Manager
<1>5. m.asked \subseteq Request /\ r \notin m.asked
  BY DEF OK, Manager, InFlight
<1> HIDE DEF n, a, t
<1>6. ASSUME NEW x \in Known(n), n.downloads[x].req \in n.asked
      PROVE  x \in n.active_slots
  <2>1. x # t /\ x \in Token
    BY <1>1, <1>4, <1>5, <1>6 DEF Known
  <2>2. x \in Known(m) /\ n.downloads[x] = m.downloads[x]
    BY <1>1, <1>6, <2>1 DEF Known
  <2> QED
    BY <1>1, <1>6, <2>2 DEF InFlight
<1> QED
  BY <1>1, <1>5, <1>6 DEF InFlight, n, a

LEMMA PushBackInFlight ==
  ASSUME NEW m, m \in Manager, InFlight(m), NEW t
  PROVE  InFlight(PushBack(m, t)) /\ PushBack(m, t).active_slots = m.active_slots
<1> DEFINE n == PushBack(m, t)
<1>1. n = [m EXCEPT !.pending = n.pending]
  BY DEF PushBack, Manager
<1> HIDE DEF n
<1>2. /\ n.active_slots = m.active_slots /\ n.shown = m.shown
      /\ n.asked = m.asked /\ n.downloads = m.downloads
  BY <1>1 DEF Manager
<1> QED
  BY <1>2 DEF InFlight, Known, n

LEMMA CallInFlight ==
  ASSUME NEW m, OK(m), InFlight(m), NEW r \in Request, m.shown[r] = "NotRequested",
         NEW n \in {Buffer(m, r), Enqueue(m, r)}
  PROVE  InFlight(n) /\ InOrder(m, n)
<1> DEFINE t == TokenFor(r)
           a == Insert(Tell(m, {r}, "Nothing"), r)
           b == Insert(Tell(m, {r}, "QueuedLocally"), r)
           E == {[stamp |-> 0, token |-> t]}
<1>1. /\ Moving(a, {t}) /\ InFlight(a) /\ a.active_slots = m.active_slots
      /\ Moving(b, {t}) /\ InFlight(b) /\ b.active_slots = m.active_slots
  BY InsertMoving, InsertInFlight
<1>2. IsFiniteSet(E) /\ Tokens(E) = {t}
  <2>1. [stamp |-> 0, token |-> t].token = t
    OBVIOUS
  <2> QED
    BY <2>1, FS_Singleton DEF Tokens
<1>3. n \in {PushBack(a, t), PushBack(b, t), TryInitiate(b, E)}
  BY DEF Buffer, Enqueue
<1>4. m.shown[r] = "NotRequested" /\ n.shown[r] # "NotRequested"
  <2>1. m.shown \in [Request -> Shown]
    BY DEF OK, Manager
  <2>2. \/ n.shown = [m.shown EXCEPT ![r] = "Nothing"]
        \/ n.shown = [m.shown EXCEPT ![r] = "QueuedLocally"]
    <3> HIDE DEF a, b, E, t
    <3> QED
      BY BufferCalls, EnqueueCalls
  <2> HIDE DEF a, b, E, t
  <2> QED
    BY <2>1, <2>2
<1> HIDE DEF a, b, E
<1>5. a \in Manager /\ b \in Manager /\ Open(b)
  BY <1>1 DEF Moving
<1>6. CASE n = PushBack(a, t)
  BY <1>1, <1>5, <1>6, PushBackInFlight DEF InOrder
<1>7. CASE n = PushBack(b, t)
  BY <1>1, <1>5, <1>7, PushBackInFlight DEF InOrder
<1>8. CASE n = TryInitiate(b, E)
  <2>1. InFlight(n)
    BY <1>1, <1>2, <1>5, <1>8, InitiateInFlight
  <2>2. n.active_slots \subseteq m.active_slots \cup {t}
    BY <1>1, <1>2, <1>5, <1>8, InitiateFields
  <2>3. InOrder(m, n)
    BY <1>4, <2>2 DEF InOrder
  <2> QED
    BY <2>1, <2>3
<1> QED
  BY <1>3, <1>6, <1>7, <1>8

-----------------------------------------------------------------------------
(* Every step of the specification. *)

SlotInv == Inv /\ InFlight(dm)

\* A step that leaves the queue and the slots as they are.
LEMMA InPlaceInFlight ==
  ASSUME NEW m, m \in Manager, InFlight(m), NEW n,
         n.active_slots = m.active_slots, n.asked = m.asked,
         \A t \in Known(n) : t \in Known(m) /\ n.downloads[t].req = m.downloads[t].req,
         \A r \in Request : m.shown[r] # "NotRequested" => n.shown[r] # "NotRequested"
  PROVE  InFlight(n) /\ InOrder(m, n)
<1>1. m.asked \subseteq Request
  BY DEF Manager
<1>2. InFlight(n)
  BY <1>1 DEF InFlight
<1> QED
  BY <1>2 DEF InOrder

LEMMA ToQueuedRemotelyInFlight ==
  ASSUME NEW m, OK(m), InFlight(m), NEW t \in Known(m),
         NEW p \in PeerToken \cup {NoPeerToken}, NEW rearm \in BOOLEAN
  PROVE  /\ InFlight(ToQueuedRemotely(m, t, p, rearm))
         /\ InOrder(m, ToQueuedRemotely(m, t, p, rearm))
<1> DEFINE a == Tell(m, Reqs(m, {t}), "QueuedRemotely")
           n == ToQueuedRemotely(m, t, p, rearm)
<1>1. m \in Manager /\ "QueuedRemotely" \in Shown
  BY DEF OK, Shown
<1>2. /\ a \in Manager /\ a = [m EXCEPT !.shown = a.shown]
      /\ \A r \in Request : a.shown[r] = IF r \in Reqs(m, {t}) THEN "QueuedRemotely" ELSE m.shown[r]
  BY <1>1, TellType
<1>3. a.pending = m.pending /\ a.active_slots = m.active_slots /\ a.asked = m.asked
  BY <1>1, <1>2 DEF Manager
<1>4. n = [a EXCEPT !.downloads = [a.downloads EXCEPT ![t] =
            [a.downloads[t] EXCEPT !.status = "QueuedRemotely", !.peer_token = p, !.timer = rearm]]]
  BY DEF ToQueuedRemotely
<1> HIDE DEF a, n
<1>5. n.active_slots = m.active_slots /\ n.asked = m.asked /\ n.shown = a.shown
  BY <1>2, <1>3, <1>4 DEF Manager
<1>6. \A x \in Known(n) : x \in Known(m) /\ n.downloads[x].req = m.downloads[x].req
  <2>1. t \in Token /\ m.downloads[t] \in Download /\ a.downloads = m.downloads
    BY <1>1, <1>2 DEF Known, Manager
  <2>2. /\ n.downloads[t].req = m.downloads[t].req
        /\ \A x \in Token \ {t} : n.downloads[x] = m.downloads[x]
    BY <1>1, <1>2, <1>4, <2>1 DEF Manager, Download
  <2> QED
    BY <2>2 DEF Known
<1>7. InFlight(n) /\ InOrder(m, n)
  BY <1>1, <1>2, <1>5, <1>6, InPlaceInFlight
<1> QED
  BY <1>7 DEF n

LEMMA TokenEventInFlight ==
  ASSUME OK(dm), InFlight(dm), TokenEvent
  PROVE  InFlight(dm') /\ InOrder(dm, dm')
<1> PICK t \in Token :
      \/ CancelDownload(t) \/ TimerFires(t) \/ DownloadResponseTimeout(t)
      \/ \E status \in Results : DownloadCompleted(t, status)
  BY DEF TokenEvent
<1>0. dm \in Manager
  BY DEF OK
<1>1. CASE CancelDownload(t)
  BY <1>0, <1>1, OnCancelInFlight, FromQueueInOrder DEF CancelDownload
<1>2. CASE TimerFires(t)
  <2>1. dm'.active_slots = dm.active_slots /\ dm'.shown = dm.shown /\ dm'.asked = dm.asked
    BY <1>0, <1>2 DEF TimerFires, Manager
  <2>2. ASSUME NEW x \in Known(dm)'
        PROVE  x \in Known(dm) /\ dm'.downloads[x].req = dm.downloads[x].req
    <3>1. t \in Known(dm) => dm.downloads[t] \in Download
      BY <1>0 DEF Known, Manager
    <3>2. LiveTimer(dm, t) = 1 => t \in Known(dm)
      BY DEF LiveTimer, Known
    <3>3. x = t \/ dm'.downloads[x] = dm.downloads[x]
      BY <1>0, <1>2, <2>2 DEF TimerFires, Manager, Known
    <3>4. CASE x = t
      BY <1>0, <1>2, <2>2, <3>1, <3>2, <3>4 DEF TimerFires, Manager, Known, Download
    <3> QED
      BY <2>2, <3>3, <3>4 DEF Known
  <2> QED
    BY <1>0, <2>1, <2>2, InPlaceInFlight DEF Known
<1>3. CASE DownloadResponseTimeout(t)
  BY <1>0, <1>3, OnTimeoutInFlight, FromQueueInOrder DEF DownloadResponseTimeout
<1>4. CASE \E status \in Results : DownloadCompleted(t, status)
  <2>1. PICK status \in Results : DownloadCompleted(t, status)
    BY <1>4
  <2>2. status \in Terminal
    BY ResultAssumption
  <2> QED
    BY <1>0, <2>1, <2>2, OnCompletedInFlight, FromQueueInOrder DEF DownloadCompleted
<1> QED
  BY <1>1, <1>2, <1>3, <1>4

LEMMA PeerEventInFlight ==
  ASSUME OK(dm), InFlight(dm), PeerEvent
  PROVE  InFlight(dm') /\ InOrder(dm, dm')
<1>0. dm \in Manager
  BY DEF OK
<1>1. ASSUME NEW u \in User, PeerDisconnected(u) PROVE InFlight(dm') /\ InOrder(dm, dm')
  <2> DEFINE k == [dm EXCEPT !.registry = dm.registry \ {u}]
  <2>1. OK(k)
    BY <1>0, RegistryOK DEF Manager
  <2>2. /\ k.active_slots = dm.active_slots /\ k.pending = dm.pending
        /\ k.shown = dm.shown /\ k.asked = dm.asked /\ k.downloads = dm.downloads
    BY <1>0 DEF Manager
  <2>3. dm' = FailMatching(k, OfUser(k, u))
    BY <1>1 DEF PeerDisconnected, OnPeerDisconnected
  <2> HIDE DEF k
  <2>4. InFlight(k)
    BY <1>0, <2>2, InPlaceInFlight DEF Known
  <2>5. InFlight(dm') /\ FromQueue(k, dm')
    BY <2>1, <2>3, <2>4, FailMatchingInFlight
  <2>6. FromQueue(dm, dm')
    BY <2>2, <2>5 DEF FromQueue
  <2> QED
    BY <1>0, <2>5, <2>6, FromQueueInOrder
<1>2. ASSUME NEW u \in User, PeerRegistered(u) PROVE InFlight(dm') /\ InOrder(dm, dm')
  <2>1. /\ dm'.active_slots = dm.active_slots /\ dm'.shown = dm.shown
        /\ dm'.asked = dm.asked /\ dm'.downloads = dm.downloads
    BY <1>0, <1>2 DEF PeerRegistered, Manager
  <2> QED
    BY <1>0, <2>1, InPlaceInFlight DEF Known
<1>3. ASSUME NEW u \in User, NEW f \in File, QueuePositionUpdated(u, f)
      PROVE  InFlight(dm') /\ InOrder(dm, dm')
  <2>1. PICK t \in OfFile(dm, u, f) : dm' = OnQueuePosition(dm, t)
    BY <1>3 DEF QueuePositionUpdated
  <2>2. t \in Known(dm)
    BY DEF OfFile, OfUser
  <2>3. dm.downloads[t].peer_token \in PeerToken \cup {NoPeerToken}
    BY <1>0, <2>2 DEF Known, Manager, Download
  <2> QED
    BY <2>1, <2>2, <2>3, ToQueuedRemotelyInFlight DEF OnQueuePosition
<1>4. ASSUME NEW u \in User, NEW f \in File, UploadFailed(u, f)
      PROVE  InFlight(dm') /\ InOrder(dm, dm')
  BY <1>0, <1>4, FailMatchingInFlight, FromQueueInOrder DEF UploadFailed, OnUploadFailed
<1>5. ASSUME NEW u \in User, NEW f \in File, NEW p \in PeerToken, UpdateDownloadTokens(u, f, p)
      PROVE  InFlight(dm') /\ InOrder(dm, dm')
  <2>1. PICK t \in OfFile(dm, u, f) : dm' = OnTransferRequest(dm, t, p)
    BY <1>5 DEF UpdateDownloadTokens
  <2>2. t \in Known(dm)
    BY DEF OfFile, OfUser
  <2> QED
    BY <2>1, <2>2, ToQueuedRemotelyInFlight DEF OnTransferRequest
<1>6. ASSUME NEW p \in PeerToken, TransferRejected(p) PROVE InFlight(dm') /\ InOrder(dm, dm')
  <2>1. PICK t \in OfPeerToken(dm, p) : dm' = OnTransferRejected(dm, t)
    BY <1>6 DEF TransferRejected
  <2>2. t \in Known(dm)
    BY DEF OfPeerToken
  <2>3. dm.downloads[t].peer_token \in PeerToken \cup {NoPeerToken}
    BY <1>0, <2>2 DEF Known, Manager, Download
  <2> QED
    BY <2>1, <2>2, <2>3, ToQueuedRemotelyInFlight DEF OnTransferRejected
<1> QED
  BY <1>1, <1>2, <1>3, <1>4, <1>5, <1>6 DEF PeerEvent

LEMMA NextInFlight ==
  ASSUME OK(dm), InFlight(dm), [Next]_vars
  PROVE  InFlight(dm') /\ InOrder(dm, dm')
<1>0. dm \in Manager
  BY DEF OK
<1>1. CASE UserCall
  BY <1>1, CallInFlight DEF UserCall, DownloadBeforeConnect, RequestDownload
<1>2. CASE Connect \/ ServerDisconnected \/ UNCHANGED vars
  <2>1. /\ dm'.active_slots = dm.active_slots /\ dm'.shown = dm.shown
        /\ dm'.asked = dm.asked /\ dm'.downloads = dm.downloads
    BY <1>0, <1>2 DEF Connect, ServerDisconnected, OnServerDisconnected, Manager, vars
  <2> QED
    BY <1>0, <2>1, InPlaceInFlight DEF Known
<1>3. CASE LoginSucceeded
  <2> DEFINE k == [dm EXCEPT !.logged_in = TRUE]
  <2>1. OK(k)
    BY FlagOK
  <2>2. /\ k.active_slots = dm.active_slots /\ k.pending = dm.pending
        /\ k.shown = dm.shown /\ k.asked = dm.asked /\ k.downloads = dm.downloads
    BY <1>0 DEF Manager
  <2>3. dm' \in DrainPendingQueue(k)
    BY <1>3 DEF LoginSucceeded, OnLoginSucceeded
  <2> HIDE DEF k
  <2>4. InFlight(k)
    BY <1>0, <2>2, InPlaceInFlight DEF Known
  <2>5. InFlight(dm') /\ FromQueue(k, dm')
    BY <2>1, <2>3, <2>4, DrainInFlight
  <2>6. FromQueue(dm, dm')
    BY <2>2, <2>5 DEF FromQueue
  <2> QED
    BY <1>0, <2>5, <2>6, FromQueueInOrder
<1> QED
  BY <1>1, <1>2, <1>3, TokenEventInFlight, PeerEventInFlight DEF Next, ServerEvent

LEMMA SlotInvariance == Spec => []SlotInv
<1>1. Init => SlotInv
  <2>1. Init => Inv
    BY InitInv
  <2>2. Init => InFlight(dm)
    BY DEF Init, InFlight, Known
  <2> QED
    BY <2>1, <2>2 DEF SlotInv
<1>2. SlotInv /\ [Next]_vars => SlotInv'
  <2> SUFFICES ASSUME SlotInv, [Next]_vars PROVE SlotInv'
    OBVIOUS
  <2>1. Inv'
    BY NextInv DEF SlotInv
  <2>2. InFlight(dm)'
    BY NextInFlight DEF SlotInv, Inv
  <2> QED
    BY <2>1, <2>2 DEF SlotInv
<1> QED
  BY <1>1, <1>2, PTL DEF Spec

\* A download whose request was sent keeps its slot until it leaves the map: "One
\* slot per in-flight download", download_manager.rs:28.
THEOREM InFlightHoldsSlotHolds == Spec => []InFlightHoldsSlot
<1>1. SlotInv => InFlightHoldsSlot
  BY DEF SlotInv, InFlight, InFlightHoldsSlot
<1> QED
  BY <1>1, SlotInvariance, PTL

\* Every slot that is given goes to the front of the queue, or to the call made in
\* the same step.
THEOREM FirstComeFirstStartedHolds == Spec => FirstComeFirstStarted
<1>1. SlotInv /\ [Next]_vars => [InOrder(dm, dm')]_vars
  BY NextInFlight DEF SlotInv, Inv
<1> QED
  BY <1>1, SlotInvariance, PTL DEF Spec, FirstComeFirstStarted

=============================================================================
