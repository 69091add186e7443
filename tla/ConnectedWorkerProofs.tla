----------------------- MODULE ConnectedWorkerProofs -----------------------
(***************************************************************************)
(* The registry of peers, and the refinement of DownloadManager, for any   *)
(* number of connections of the peer, of downloads and of operations in    *)
(* the channel.                                                            *)
(***************************************************************************)
EXTENDS ConnectedWorker, FiniteSetTheorems, FunctionTheorems, SequenceTheorems,
        TLAPS

Disconnected == <<"PeerDisconnected", ThePeer>>

\* ClientOperation
Operation ==
  {<<"LoginSucceeded">>, <<"ServerDisconnected">>, Disconnected}
    \cup {<<"RequestDownload", r>> : r \in Request}
    \cup {<<"CancelDownload", DM!TokenFor(r)>> : r \in Request}
    \cup {<<"DownloadResponseTimeout", t>> : t \in Token}
    \cup {<<"DownloadCompleted", DM!TokenFor(r), x>> : r \in Request, x \in DM!Terminal}
    \cup {<<"UpdateDownloadTokens", f, p>> : f \in File, p \in PeerToken}
    \cup {<<"QueuePositionUpdated", f>> : f \in File}
    \cup {<<"TransferRejected", p>> : p \in PeerToken}
    \cup {<<"QueryDownloadByToken", p>> : p \in PeerToken}

Reported == \E i \in DOMAIN ops : ops[i] = Disconnected

Inv ==
  /\ ops \in Seq(Operation)
  /\ actor \in [Conn -> {"None", "Up", "Down", "Gone"}]
  /\ registered \in Conn \cup {NoConn}
  /\ registered # NoConn /\ actor[registered] = "Down" => Reported

-----------------------------------------------------------------------------
(* What may happen to the channel. *)

\* Sending adds an operation and overtakes none.
LEMMA SendReports ==
  ASSUME ops \in Seq(Operation), NEW op \in Operation, Send(op)
  PROVE  /\ ops' \in Seq(Operation)
         /\ Reported => Reported'
         /\ op = Disconnected => Reported'
<1>1. /\ ops' \in Seq(Operation) /\ Len(ops') = Len(ops) + 1
      /\ \A i \in 1 .. Len(ops) : ops'[i] = ops[i]
      /\ ops'[Len(ops) + 1] = op
  BY DEF Send
<1>2. DOMAIN ops = 1 .. Len(ops) /\ DOMAIN ops' = 1 .. Len(ops') /\ Len(ops) \in Nat
  BY <1>1
<1> QED
  BY <1>1, <1>2 DEF Reported

\* Receiving any other operation leaves a PeerDisconnected in the channel.
LEMMA ReceiveReports ==
  ASSUME ops \in Seq(Operation), NEW kind, Receives(kind)
  PROVE  /\ ops' \in Seq(Operation)
         /\ kind # "PeerDisconnected" /\ Reported => Reported'
<1>1. ops # <<>> /\ ops' = Tail(ops) /\ ops[1][1] = kind
  BY DEF Receives
<1>2. /\ ops' \in Seq(Operation) /\ Len(ops') = Len(ops) - 1 /\ Len(ops) \in Nat
      /\ \A i \in 1 .. Len(ops) - 1 : ops'[i] = ops[i + 1]
  BY <1>1
<1>3. DOMAIN ops = 1 .. Len(ops) /\ DOMAIN ops' = 1 .. Len(ops')
  BY <1>2
<1>4. ASSUME kind # "PeerDisconnected", NEW i \in DOMAIN ops, ops[i] = Disconnected
      PROVE  Reported'
  <2>1. i # 1
    BY <1>1, <1>4 DEF Disconnected
  <2>2. i - 1 \in DOMAIN ops' /\ ops'[i - 1] = Disconnected
    BY <1>2, <1>3, <1>4, <2>1
  <2> QED
    BY <2>2 DEF Reported
<1> QED
  BY <1>2, <1>4 DEF Reported

\* Sending is all that most steps do to what the invariant is about.
LEMMA SendInv ==
  ASSUME Inv, NEW op \in Operation, Send(op), UNCHANGED <<actor, registered>>
  PROVE  Inv'
BY SendReports DEF Inv

LEMMA ReceiveInv ==
  ASSUME Inv, NEW kind, kind # "PeerDisconnected", Receives(kind),
         UNCHANGED <<actor, registered>>
  PROVE  Inv'
BY ReceiveReports DEF Inv

-----------------------------------------------------------------------------
(* The steps. *)

LEMMA CallerInv == ASSUME Inv, Caller PROVE Inv'
<1>1. PICK r \in Request : \/ DownloadBeforeConnect(r) \/ Download(r)
                           \/ HandleCancel(r) \/ HandleDrop(r)
  BY DEF Caller
<1>2. <<"RequestDownload", r>> \in Operation /\ <<"CancelDownload", DM!TokenFor(r)>> \in Operation
  BY DEF Operation
<1>3. CASE DownloadBeforeConnect(r) \/ HandleCancel(r)
  BY <1>3 DEF DownloadBeforeConnect, HandleCancel, Inv, Reported
<1>4. CASE Download(r)
  BY <1>2, <1>4, SendInv DEF Download
<1>5. CASE HandleDrop(r)
  <2>1. CASE r \in buffered
    BY <1>5, <2>1 DEF HandleDrop, Inv, Reported
  <2>2. CASE r \notin buffered
    BY <1>2, <1>5, <2>2, SendInv DEF HandleDrop
  <2> QED
    BY <2>1, <2>2
<1> QED
  BY <1>1, <1>3, <1>4, <1>5

LEMMA TasksInv == ASSUME Inv, Tasks PROVE Inv'
<1>1. ASSUME NEW t \in Token, TimerFires(t) PROVE Inv'
  <2>1. <<"DownloadResponseTimeout", t>> \in Operation
    BY DEF Operation
  <2>2. Send(<<"DownloadResponseTimeout", t>>) /\ UNCHANGED <<actor, registered>>
    BY <1>1 DEF TimerFires
  <2> QED
    BY <2>1, <2>2, SendInv
<1>2. ASSUME NEW r \in Request, NEW x \in DM!Terminal, StreamEnds(r, x) PROVE Inv'
  <2>1. <<"DownloadCompleted", DM!TokenFor(r), x>> \in Operation
    BY DEF Operation
  <2>2. /\ Send(<<"DownloadCompleted", DM!TokenFor(r), x>>)
        /\ UNCHANGED <<actor, registered>>
    BY <1>2 DEF StreamEnds
  <2> QED
    BY <2>1, <2>2, SendInv
<1>3. ASSUME NEW c \in Conn, PeerConnects(c) PROVE Inv'
  BY <1>3 DEF PeerConnects, Inv
<1>4. Disconnected \in Operation
  BY DEF Operation
<1>5. ASSUME NEW c \in Conn, PeerDrops(c) PROVE Inv'
  <2>1. Send(Disconnected)
    BY <1>5 DEF PeerDrops, Disconnected
  <2>2. ops' \in Seq(Operation) /\ Reported'
    BY <1>4, <2>1, SendReports DEF Inv
  <2> QED
    BY <1>5, <2>2 DEF PeerDrops, Inv
<1>6. ASSUME NEW c \in Conn, PeerStops(c) PROVE Inv'
  <2>1. Send(Disconnected)
    BY <1>6 DEF PeerStops, Disconnected
  <2>2. ops' \in Seq(Operation) /\ Reported'
    BY <1>4, <2>1, SendReports DEF Inv
  <2> QED
    BY <1>6, <2>2 DEF PeerStops, Inv
<1> QED
  BY <1>1, <1>2, <1>3, <1>5, <1>6 DEF Tasks

LEMMA PeerInv == ASSUME Inv, Peer PROVE Inv'
<1>1. ASSUME NEW c \in Conn, NEW f \in File, PeerAnswers(c, f) PROVE Inv'
  <2>1. /\ \A p \in PeerToken : <<"UpdateDownloadTokens", f, p>> \in Operation
        /\ <<"QueuePositionUpdated", f>> \in Operation
    BY DEF Operation
  <2> QED
    BY <1>1, <2>1, SendInv DEF PeerAnswers, SendBounded
<1>2. ASSUME NEW c \in Conn, NEW p \in PeerToken, PeerRejects(c, p) PROVE Inv'
  <2>1. <<"TransferRejected", p>> \in Operation
    BY DEF Operation
  <2> QED
    BY <1>2, <2>1, SendInv DEF PeerRejects, SendBounded
<1>3. ASSUME NEW p \in PeerToken, PeerOpensStream(p) PROVE Inv'
  <2>1. <<"QueryDownloadByToken", p>> \in Operation
    BY DEF Operation
  <2> QED
    BY <1>3, <2>1, SendInv DEF PeerOpensStream, SendBounded
<1> QED
  BY <1>1, <1>2, <1>3 DEF Peer

LEMMA ServerTellsInv == ASSUME Inv, ServerTells PROVE Inv'
<1>1. <<"LoginSucceeded">> \in Operation /\ <<"ServerDisconnected">> \in Operation
  BY DEF Operation
<1> QED
  BY <1>1, SendInv DEF ServerTells, SendBounded

\* Whichever actor sent it, PeerDisconnected empties the registry.
LEMMA WorkInv == ASSUME Inv, Work PROVE Inv'
<1>1. CASE ServerArm
  BY <1>1, ReceiveInv DEF ServerArm
<1>2. CASE DownloadArm
  BY <1>2, ReceiveInv DEF DownloadArm
<1>3. CASE PeerMessageArm
  <2>1. \/ Receives("UpdateDownloadTokens") \/ Receives("QueuePositionUpdated")
        \/ Receives("TransferRejected")
    BY <1>3, Zenon DEF PeerMessageArm
  <2>2. UNCHANGED <<actor, registered>>
    BY <1>3 DEF PeerMessageArm
  <2> QED
    BY <2>1, <2>2, ReceiveInv
<1>4. CASE StreamArm
  BY <1>4, ReceiveInv DEF StreamArm
<1>5. CASE PeerLifecycleArm
  <2>1. ops' \in Seq(Operation)
    BY <1>5, ReceiveReports DEF PeerLifecycleArm, Inv
  <2> QED
    BY <1>5, <2>1 DEF PeerLifecycleArm, Inv
<1> QED
  BY <1>1, <1>2, <1>3, <1>4, <1>5 DEF Work

LEMMA InitInv == Init => Inv
BY DEF Init, Inv

LEMMA NextInv == ASSUME Inv, [Next]_vars PROVE Inv'
<1>1. CASE Connect \/ UNCHANGED vars
  BY <1>1 DEF Connect, vars, Inv, Reported
<1> QED
  BY <1>1, CallerInv, TasksInv, PeerInv, ServerTellsInv, WorkInv DEF Next

LEMMA Invariance == Spec => []Inv
BY InitInv, NextInv, PTL DEF Spec

-----------------------------------------------------------------------------
(* The registry. *)

\* An actor without a connection is never registered for good: whatever the order
\* of connections, losses and stops, the message that removes it is on its way.
THEOREM DeadPeerIsReportedHolds == Spec => []DeadPeerIsReported
<1>1. Inv => DeadPeerIsReported
  BY DEF Inv, Reported, Disconnected, DeadPeerIsReported
<1> QED
  BY <1>1, Invariance, PTL

-----------------------------------------------------------------------------
(* What the handlers do to the calls that were not made.  None of the      *)
(* proofs about DownloadManager can be cited through an INSTANCE, so this  *)
(* section follows the handlers once more, for the one fact needed here.   *)

Fields == {"connected", "logged_in", "pending", "active_slots", "downloads",
           "strays", "registry", "asked", "shown"}

\* N are the calls not made yet: no download of the manager belongs to one.
Uncalled(m, N) ==
  /\ DOMAIN m = Fields
  /\ m.downloads \in [Token -> DM!Download \cup {NoDownload}]
  /\ \A r \in Request : m.shown[r] = "NotRequested" <=> r \in N
  /\ \A t \in DM!Known(m) : m.downloads[t].req \notin N

\* Uncalled speaks of no other field.
LEMMA SameCalls ==
  ASSUME NEW N, NEW m, Uncalled(m, N), NEW n, DOMAIN n = Fields,
         n.downloads = m.downloads, n.shown = m.shown
  PROVE  Uncalled(n, N)
BY DEF Uncalled, DM!Known

\* A download may be forgotten, or change in anything but the call it is for.
LEMMA SameOrGone ==
  ASSUME NEW N, NEW m, Uncalled(m, N), NEW n, DOMAIN n = Fields, n.shown = m.shown,
         n.downloads \in [Token -> DM!Download \cup {NoDownload}],
         \A t \in Token : \/ n.downloads[t] = NoDownload
                          \/ t \in DM!Known(m) /\ n.downloads[t].req = m.downloads[t].req
  PROVE  Uncalled(n, N)
BY DEF Uncalled, DM!Known

LEMMA TellCalls ==
  ASSUME NEW N, NEW m, Uncalled(m, N), NEW R, R \cap N = {}, NEW s, s # "NotRequested"
  PROVE  Uncalled(DM!Tell(m, R, s), N)
<1> DEFINE n == DM!Tell(m, R, s)
<1>1. /\ DOMAIN n = Fields /\ n.downloads = m.downloads
      /\ n.shown = [r \in Request |-> IF r \in R THEN s ELSE m.shown[r]]
  BY DEF Uncalled, Fields, DM!Tell
<1> HIDE DEF n
<1> QED
  BY <1>1 DEF Uncalled, DM!Known, n

\* The calls whose downloads are told something were made.
LEMMA ReqsCalled ==
  ASSUME NEW N, NEW m, Uncalled(m, N), NEW T
  PROVE  DM!Reqs(m, T) \cap N = {}
BY DEF Uncalled, DM!Reqs

\* The call itself: r is told something and its download goes into the map.
LEMMA InsertCalls ==
  ASSUME NEW N, NEW m, Uncalled(m, N), NEW r \in N, r \in Request,
         NEW s, s # "NotRequested"
  PROVE  Uncalled(DM!Insert(DM!Tell(m, {r}, s), r), N \ {r})
<1> DEFINE told == DM!Tell(m, {r}, s)
           t    == DM!TokenFor(r)
           n    == DM!Insert(told, r)
           new  == DM!NewDownload(r)
<1>1. DOMAIN m = Fields /\ m.downloads \in [Token -> DM!Download \cup {NoDownload}]
  BY DEF Uncalled
<1>2. /\ DOMAIN told = Fields /\ told.downloads = m.downloads
      /\ told.shown = [x \in Request |-> IF x \in {r} THEN s ELSE m.shown[x]]
  BY <1>1 DEF Fields, DM!Tell
<1>3. t \in Token
  BY CallAssumption DEF DM!TokenFor
<1>4. new \in DM!Download /\ new.req = r
  BY DEF DM!NewDownload, DM!Download, DM!Waiting
<1> HIDE DEF new, told, t
<1>5. /\ DOMAIN n = Fields /\ n.shown = told.shown
      /\ n.downloads = [m.downloads EXCEPT ![t] = new]
  BY <1>2 DEF Fields, DM!Insert, DM!Stray, t, new
<1> HIDE DEF n
<1>6. n.downloads \in [Token -> DM!Download \cup {NoDownload}]
  BY <1>1, <1>3, <1>4, <1>5
<1>7. \A x \in Request : n.shown[x] = "NotRequested" <=> x \in N \ {r}
  BY <1>2, <1>5 DEF Uncalled
<1>8. ASSUME NEW u \in DM!Known(n) PROVE n.downloads[u].req \notin N \ {r}
  <2>1. CASE u = t
    BY <1>1, <1>3, <1>4, <1>5, <2>1
  <2>2. CASE u # t
    BY <1>1, <1>5, <1>8, <2>2 DEF Uncalled, DM!Known
  <2> QED
    BY <2>1, <2>2
<1> QED
  BY <1>5, <1>6, <1>7, <1>8 DEF Uncalled, n, told

LEMMA QueueCalls ==
  ASSUME NEW N, NEW m, Uncalled(m, N), NEW t, NEW T
  PROVE  Uncalled(DM!PushBack(m, t), N) /\ Uncalled(DM!Unqueue(m, T), N)
<1> DEFINE pushed   == DM!PushBack(m, t)
           unqueued == DM!Unqueue(m, T)
<1>1. DOMAIN m = Fields
  BY DEF Uncalled
<1>2. DOMAIN pushed = Fields /\ pushed.downloads = m.downloads /\ pushed.shown = m.shown
  BY <1>1 DEF Fields, DM!PushBack
<1>3. DOMAIN unqueued = Fields /\ unqueued.downloads = m.downloads /\ unqueued.shown = m.shown
  BY <1>1 DEF Fields, DM!Unqueue
<1> HIDE DEF pushed, unqueued
<1> QED
  BY <1>2, <1>3, SameCalls DEF pushed, unqueued

LEMMA DropCalls ==
  ASSUME NEW N, NEW m, Uncalled(m, N), NEW T
  PROVE  Uncalled(DM!Drop(m, T), N)
<1> DEFINE n == DM!Drop(m, T)
<1>1. DOMAIN m = Fields /\ m.downloads \in [Token -> DM!Download \cup {NoDownload}]
  BY DEF Uncalled
<1>2. /\ DOMAIN n = Fields /\ n.shown = m.shown
      /\ n.downloads = [t \in Token |-> IF t \in T THEN NoDownload ELSE m.downloads[t]]
  BY <1>1 DEF Fields, DM!Drop
<1> HIDE DEF n
<1>3. n.downloads \in [Token -> DM!Download \cup {NoDownload}]
  BY <1>1, <1>2
<1>4. \A t \in Token : \/ n.downloads[t] = NoDownload
                       \/ t \in DM!Known(m) /\ n.downloads[t].req = m.downloads[t].req
  BY <1>1, <1>2 DEF DM!Known
<1> QED
  BY <1>2, <1>3, <1>4, SameOrGone DEF n

LEMMA AbandonCalls ==
  ASSUME NEW N, NEW m, Uncalled(m, N), NEW t
  PROVE  Uncalled(DM!Abandon(m, t), N)
<1> DEFINE n == DM!Stray(m, t)
<1>1. DOMAIN n = Fields /\ n.shown = m.shown /\ n.downloads = m.downloads
  BY DEF Uncalled, Fields, DM!Stray
<1> HIDE DEF n
<1>2. Uncalled(n, N)
  BY <1>1, SameCalls
<1> QED
  BY <1>2, DropCalls DEF DM!Abandon, n

LEMMA InitiateCalls ==
  ASSUME NEW N, NEW m, Uncalled(m, N), NEW E
  PROVE  Uncalled(DM!TryInitiate(m, E), N)
<1> DEFINE n       == DM!TryInitiate(m, E)
           started == {e.token : e \in E} \cap DM!Known(m)
           next(t) == [m.downloads[t] EXCEPT !.status = "QueuedLocally", !.timer = TRUE]
<1>1. DOMAIN m = Fields /\ m.downloads \in [Token -> DM!Download \cup {NoDownload}]
  BY DEF Uncalled
<1>2. /\ DOMAIN n = Fields /\ n.shown = m.shown
      /\ n.downloads = [t \in Token |-> IF t \in started THEN next(t) ELSE m.downloads[t]]
  BY <1>1 DEF Fields, DM!TryInitiate
<1>3. \A t \in started : next(t) \in DM!Download /\ next(t).req = m.downloads[t].req
  BY <1>1 DEF DM!Known, DM!Download, DM!Waiting
<1> HIDE DEF n, next
<1>4. n.downloads \in [Token -> DM!Download \cup {NoDownload}]
  BY <1>1, <1>2, <1>3
<1>5. \A t \in Token : \/ n.downloads[t] = NoDownload
                       \/ t \in DM!Known(m) /\ n.downloads[t].req = m.downloads[t].req
  BY <1>1, <1>2, <1>3 DEF DM!Known
<1> QED
  BY <1>2, <1>4, <1>5, SameOrGone DEF n

LEMMA StartCalls ==
  ASSUME NEW N, NEW m, Uncalled(m, N), NEW E
  PROVE  Uncalled(DM!Start(m, E), N)
<1> DEFINE n == [m EXCEPT !.pending = @ \ E]
<1>1. DOMAIN n = Fields /\ n.shown = m.shown /\ n.downloads = m.downloads
  BY DEF Uncalled, Fields
<1> HIDE DEF n
<1>2. Uncalled(n, N)
  BY <1>1, SameCalls
<1> QED
  BY <1>2, InitiateCalls DEF DM!Start, n

LEMMA DequeueCalls ==
  ASSUME NEW N, NEW m, Uncalled(m, N)
  PROVE  /\ Uncalled(DM!TryDequeueNext(m), N)
         /\ \A n \in DM!DrainPendingQueue(m) : Uncalled(n, N)
BY StartCalls DEF DM!TryDequeueNext, DM!DrainPendingQueue

\* The handlers.
LEMMA CallHandlersCalls ==
  ASSUME NEW N, NEW m, Uncalled(m, N), NEW r \in N, r \in Request
  PROVE  /\ Uncalled(DM!Buffer(m, r), N \ {r})
         /\ Uncalled(DM!Enqueue(m, r), N \ {r})
<1>1. Uncalled(DM!Insert(DM!Tell(m, {r}, "Nothing"), r), N \ {r})
  BY InsertCalls
<1>2. Uncalled(DM!Insert(DM!Tell(m, {r}, "QueuedLocally"), r), N \ {r})
  BY InsertCalls
<1>3. Uncalled(DM!Buffer(m, r), N \ {r})
  BY <1>1, QueueCalls DEF DM!Buffer
<1>4. Uncalled(DM!Enqueue(m, r), N \ {r})
  BY <1>2, QueueCalls, InitiateCalls DEF DM!Enqueue
<1> QED
  BY <1>3, <1>4

LEMMA CompletedCalls ==
  ASSUME NEW N, NEW m, Uncalled(m, N), NEW t, NEW s, s # "NotRequested"
  PROVE  Uncalled(DM!OnCompleted(m, t, s), N)
<1>1. Uncalled(DM!Tell(m, DM!Reqs(m, {t}), s), N)
  BY ReqsCalled, TellCalls
<1>2. Uncalled(DM!Abandon(DM!Tell(m, DM!Reqs(m, {t}), s), t), N)
  BY <1>1, AbandonCalls
<1> QED
  BY <1>2, DequeueCalls DEF DM!OnCompleted

LEMMA FailCalls ==
  ASSUME NEW N, NEW m, Uncalled(m, N), NEW T
  PROVE  Uncalled(DM!FailMatching(m, T), N)
<1> DEFINE told    == DM!Tell(m, DM!Reqs(m, T), "Failed")
           removed == DM!Drop(DM!Unqueue(told, T), T)
<1>1. Uncalled(told, N)
  BY ReqsCalled, TellCalls
<1> HIDE DEF told
<1>2. Uncalled(removed, N)
  BY <1>1, QueueCalls, DropCalls
<1>3. Uncalled(DM!TryDequeueNext(removed), N)
  BY <1>2, DequeueCalls
<1> QED
  BY <1>3 DEF DM!FailMatching, told

LEMMA CancelCalls ==
  ASSUME NEW N, NEW m, Uncalled(m, N), NEW t
  PROVE  Uncalled(DM!OnCancel(m, t), N)
<1> DEFINE unqueued == DM!Unqueue(m, {t})
           told     == DM!Tell(unqueued, DM!Reqs(m, {t}), "Cancelled")
           removed  == DM!Drop(told, {t})
<1>1. Uncalled(unqueued, N)
  BY QueueCalls
<1> HIDE DEF unqueued
<1>2. Uncalled(told, N)
  BY <1>1, ReqsCalled, TellCalls
<1> HIDE DEF told
<1>3. Uncalled(removed, N)
  BY <1>2, DropCalls
<1>4. Uncalled(DM!TryDequeueNext(removed), N)
  BY <1>3, DequeueCalls
<1> QED
  BY <1>1, <1>3, <1>4 DEF DM!OnCancel, unqueued, told

LEMMA TimeoutCalls ==
  ASSUME NEW N, NEW m, Uncalled(m, N), NEW t
  PROVE  Uncalled(DM!OnTimeout(m, t), N)
<1> DEFINE told == DM!Tell(m, DM!Reqs(m, {t}), "TimedOut")
           gone == DM!Abandon(told, t)
<1>1. Uncalled(told, N)
  BY ReqsCalled, TellCalls
<1> HIDE DEF told
<1>2. Uncalled(gone, N)
  BY <1>1, AbandonCalls
<1>3. Uncalled(DM!TryDequeueNext(gone), N)
  BY <1>2, DequeueCalls
<1> QED
  BY <1>2, <1>3 DEF DM!OnTimeout, told

LEMMA RemoteCalls ==
  ASSUME NEW N, NEW m, Uncalled(m, N), NEW t \in DM!Known(m), NEW rearm \in BOOLEAN,
         NEW p \in PeerToken \cup {NoPeerToken}
  PROVE  Uncalled(DM!ToQueuedRemotely(m, t, p, rearm), N)
<1> DEFINE told   == DM!Tell(m, DM!Reqs(m, {t}), "QueuedRemotely")
           remote == [m.downloads[t] EXCEPT !.status = "QueuedRemotely",
                                            !.peer_token = p, !.timer = rearm]
           n      == DM!ToQueuedRemotely(m, t, p, rearm)
<1>1. Uncalled(told, N)
  BY ReqsCalled, TellCalls
<1>2. told.downloads = m.downloads /\ DM!Known(told) = DM!Known(m)
  BY DEF Uncalled, Fields, DM!Tell, DM!Known
<1>3. n = [told EXCEPT !.downloads[t] = [@ EXCEPT !.status = "QueuedRemotely",
                                                  !.peer_token = p, !.timer = rearm]]
  BY DEF DM!ToQueuedRemotely
<1> HIDE DEF told, n
<1>4. /\ DOMAIN told = Fields /\ told.downloads \in [Token -> DM!Download \cup {NoDownload}]
      /\ t \in Token /\ m.downloads[t] \in DM!Download
  BY <1>1, <1>2 DEF Uncalled, DM!Known
<1>5. remote \in DM!Download /\ remote.req = m.downloads[t].req
  BY <1>4 DEF DM!Download, DM!Waiting
<1>6. /\ DOMAIN n = Fields /\ n.shown = told.shown
      /\ n.downloads = [told.downloads EXCEPT ![t] = remote]
  BY <1>2, <1>3, <1>4 DEF Fields
<1> HIDE DEF remote
<1>7. n.downloads \in [Token -> DM!Download \cup {NoDownload}]
  BY <1>4, <1>5, <1>6
<1>8. \A u \in Token : \/ n.downloads[u] = NoDownload
                       \/ u \in DM!Known(told) /\ n.downloads[u].req = told.downloads[u].req
  BY <1>2, <1>4, <1>5, <1>6 DEF DM!Known
<1> QED
  BY <1>1, <1>6, <1>7, <1>8, SameOrGone DEF n

LEMMA AnswerCalls ==
  ASSUME NEW N, NEW m, Uncalled(m, N), NEW t \in DM!Known(m), NEW p \in PeerToken
  PROVE  Uncalled(DM!OnTransferRequest(m, t, p), N)
BY RemoteCalls DEF DM!OnTransferRequest

LEMMA PositionCalls ==
  ASSUME NEW N, NEW m, Uncalled(m, N), NEW t \in DM!Known(m)
  PROVE  /\ Uncalled(DM!OnQueuePosition(m, t), N)
         /\ Uncalled(DM!OnTransferRejected(m, t), N)
<1>1. m.downloads[t].peer_token \in PeerToken \cup {NoPeerToken}
  BY DEF Uncalled, DM!Known, DM!Download
<1> QED
  BY <1>1, RemoteCalls DEF DM!OnQueuePosition, DM!OnTransferRejected

LEMMA ServerCalls ==
  ASSUME NEW N, NEW m, Uncalled(m, N)
  PROVE  /\ Uncalled(DM!OnServerDisconnected(m), N)
         /\ \A n \in DM!OnLoginSucceeded(m) : Uncalled(n, N)
<1> DEFINE off == [m EXCEPT !.logged_in = FALSE]
           on  == [m EXCEPT !.logged_in = TRUE]
<1>1. /\ DOMAIN off = Fields /\ off.shown = m.shown /\ off.downloads = m.downloads
      /\ DOMAIN on = Fields /\ on.shown = m.shown /\ on.downloads = m.downloads
  BY DEF Uncalled, Fields
<1> HIDE DEF off, on
<1>2. Uncalled(off, N) /\ Uncalled(on, N)
  BY <1>1, SameCalls
<1> QED
  BY <1>2, DequeueCalls DEF DM!OnServerDisconnected, DM!OnLoginSucceeded, off, on

-----------------------------------------------------------------------------
(* Counting the operations of the channel. *)

CountIn(s, op) == Cardinality({i \in DOMAIN s : s[i] = op})

LEMMA CountAppend ==
  ASSUME NEW S, NEW s \in Seq(S), NEW last \in S, NEW op
  PROVE  /\ CountIn(s, op) \in Nat
         /\ CountIn(Append(s, last), op) = CountIn(s, op) + (IF last = op THEN 1 ELSE 0)
<1> DEFINE n == Len(s)
           A == {i \in DOMAIN s : s[i] = op}
           longer == Append(s, last)
           B == {i \in DOMAIN longer : longer[i] = op}
<1>1. n \in Nat /\ DOMAIN s = 1 .. n /\ DOMAIN longer = 1 .. n + 1
  OBVIOUS
<1>2. longer[n + 1] = last /\ \A i \in 1 .. n : longer[i] = s[i]
  OBVIOUS
<1>3. IsFiniteSet(A) /\ Cardinality(A) \in Nat
  <2>1. IsFiniteSet(1 .. n)
    BY <1>1, FS_Interval
  <2>2. A \in SUBSET (1 .. n)
    BY <1>1
  <2> HIDE DEF A
  <2> QED
    BY <2>1, <2>2, FS_Subset, FS_CardinalityType
<1>4. n + 1 \notin A
  BY <1>1
<1>5. CountIn(s, op) = Cardinality(A) /\ CountIn(longer, op) = Cardinality(B)
  BY DEF CountIn
<1>6. CASE last = op
  <2>1. B = A \cup {n + 1}
    BY <1>1, <1>2, <1>6
  <2> HIDE DEF A, B
  <2>2. Cardinality(B) = Cardinality(A) + 1
    BY <1>3, <1>4, <2>1, FS_AddElement
  <2> QED
    BY <1>3, <1>5, <1>6, <2>2
<1>7. CASE last # op
  <2>1. B = A
    BY <1>1, <1>2, <1>7
  <2> HIDE DEF A, B
  <2> QED
    BY <1>3, <1>5, <1>7, <2>1
<1> QED
  BY <1>6, <1>7

LEMMA CountTail ==
  ASSUME NEW S, NEW s \in Seq(S), s # <<>>, NEW op
  PROVE  /\ CountIn(s, op) \in Nat
         /\ Head(s) = op => CountIn(s, op) > 0
         /\ CountIn(Tail(s), op) = CountIn(s, op) - (IF Head(s) = op THEN 1 ELSE 0)
<1> DEFINE n == Len(s)
           A == {i \in DOMAIN s : s[i] = op}
           shorter == Tail(s)
           B == {i \in DOMAIN shorter : shorter[i] = op}
           f == [i \in A \ {1} |-> i - 1]
<1>1. n \in Nat \ {0} /\ DOMAIN s = 1 .. n /\ DOMAIN shorter = 1 .. n - 1 /\ Head(s) = s[1]
  OBVIOUS
<1>2. \A i \in 1 .. n - 1 : shorter[i] = s[i + 1]
  OBVIOUS
<1>3. IsFiniteSet(A) /\ Cardinality(A) \in Nat
  <2>1. IsFiniteSet(1 .. n)
    BY <1>1, FS_Interval
  <2>2. A \in SUBSET (1 .. n)
    BY <1>1
  <2> HIDE DEF A
  <2> QED
    BY <2>1, <2>2, FS_Subset, FS_CardinalityType
<1>4. 1 \in A <=> Head(s) = op
  BY <1>1
<1>5. /\ IsFiniteSet(A \ {1})
      /\ Cardinality(A \ {1}) = Cardinality(A) - (IF Head(s) = op THEN 1 ELSE 0)
  <2> HIDE DEF A
  <2> QED
    BY <1>3, <1>4, FS_RemoveElement
<1>6. ExistsBijection(A \ {1}, B)
  <2>1. f \in [A \ {1} -> B]
    BY <1>1, <1>2
  <2>2. \A i, j \in A \ {1} : f[i] = f[j] => i = j
    BY <1>1
  <2>3. ASSUME NEW j \in B PROVE \E i \in A \ {1} : f[i] = j
    <3>1. j + 1 \in A \ {1} /\ f[j + 1] = j
      BY <1>1, <1>2, <2>3
    <3> QED
      BY <3>1
  <2> HIDE DEF A, B, f
  <2> QED
    BY <2>1, <2>2, <2>3, Fun_IsBij DEF ExistsBijection
<1>7. Cardinality(B) = Cardinality(A \ {1})
  <2> HIDE DEF A, B
  <2> QED
    BY <1>5, <1>6, FS_Bijection
<1>8. Head(s) = op => Cardinality(A) > 0
  <2> HIDE DEF A
  <2> QED
    BY <1>3, <1>4, FS_EmptySet
<1> HIDE DEF A, B
<1> QED
  BY <1>3, <1>5, <1>7, <1>8 DEF CountIn, A, B

-----------------------------------------------------------------------------
(* The operations, and how many of each are in the channel. *)

\* What an operation of each kind carries.
LEMMA Kinds ==
  ASSUME NEW op \in Operation
  PROVE  /\ op[1] = "RequestDownload" =>
              \E r \in Request : op = <<"RequestDownload", r>>
         /\ op[1] = "DownloadResponseTimeout" =>
              \E t \in Token : op = <<"DownloadResponseTimeout", t>>
         /\ op[1] = "DownloadCompleted" => op[2] \in Token /\ op[3] \in DM!Terminal
         /\ op[1] = "CancelDownload" => op[2] \in Token
         /\ op[1] = "UpdateDownloadTokens" => op[2] \in File /\ op[3] \in PeerToken
         /\ op[1] = "QueuePositionUpdated" => op[2] \in File
         /\ op[1] = "TransferRejected" => op[2] \in PeerToken
<1>1. \A r \in Request : DM!TokenFor(r) \in Token
  BY CallAssumption DEF DM!TokenFor
<1> QED
  BY <1>1 DEF Operation, Disconnected

LEMMA SendCounts ==
  ASSUME ops \in Seq(Operation), NEW op \in Operation, Send(op)
  PROVE  /\ ops' \in Seq(Operation)
         /\ \A o : /\ Count(o) \in Nat
                   /\ Count(o)' = Count(o) + (IF op = o THEN 1 ELSE 0)
<1>1. ops' = Append(ops, op)
  BY DEF Send
<1>2. \A o : Count(o) = CountIn(ops, o) /\ Count(o)' = CountIn(ops', o)
  BY DEF Count, CountIn
<1> QED
  BY <1>1, <1>2, CountAppend

LEMMA ReceiveCounts ==
  ASSUME ops \in Seq(Operation), NEW kind, Receives(kind)
  PROVE  /\ Head(ops) \in Operation /\ Head(ops)[1] = kind
         /\ ops' \in Seq(Operation)
         /\ \A o : /\ Count(o) \in Nat
                   /\ Head(ops) = o => Count(o) > 0
                   /\ Count(o)' = Count(o) - (IF Head(ops) = o THEN 1 ELSE 0)
<1>1. ops # <<>> /\ ops' = Tail(ops) /\ Head(ops)[1] = kind
  BY DEF Receives
<1>2. \A o : Count(o) = CountIn(ops, o) /\ Count(o)' = CountIn(ops', o)
  BY DEF Count, CountIn
<1>3. Head(ops) \in Operation /\ ops' \in Seq(Operation)
  BY <1>1
<1> QED
  BY <1>1, <1>2, <1>3, CountTail

\* The timeouts the manager's specification speaks of are those in the channel.
Due == [t \in Token |-> Count(<<"DownloadResponseTimeout", t>>)]

LEMMA SendDue ==
  ASSUME ops \in Seq(Operation), NEW op \in Operation, Send(op)
  PROVE  /\ op[1] # "DownloadResponseTimeout" => Due' = Due
         /\ \A t \in Token : op = <<"DownloadResponseTimeout", t>> =>
              Due' = [Due EXCEPT ![t] = @ + 1]
<1>1. \A u \in Token : LET o == <<"DownloadResponseTimeout", u>>
                       IN  /\ Count(o) \in Nat
                           /\ Count(o)' = Count(o) + (IF op = o THEN 1 ELSE 0)
  BY SendCounts
<1>2. \A u \in Token : /\ Due[u] \in Nat
                       /\ Due'[u] = Due[u] + (IF op = <<"DownloadResponseTimeout", u>> THEN 1 ELSE 0)
  BY <1>1 DEF Due
<1>3. DOMAIN Due = Token /\ Due = [u \in Token |-> Due[u]] /\ Due' = [u \in Token |-> Due'[u]]
  BY DEF Due
<1>4. ASSUME op[1] # "DownloadResponseTimeout" PROVE Due' = Due
  <2>1. \A u \in Token : Due'[u] = Due[u]
    BY <1>2, <1>4
  <2> QED
    BY <1>3, <2>1
<1>5. ASSUME NEW t \in Token, op = <<"DownloadResponseTimeout", t>>
      PROVE  Due' = [Due EXCEPT ![t] = @ + 1]
  <2>1. \A u \in Token : Due'[u] = IF u = t THEN Due[u] + 1 ELSE Due[u]
    BY <1>2, <1>5
  <2> QED
    BY <1>3, <2>1
<1> QED
  BY <1>4, <1>5

LEMMA ReceiveDue ==
  ASSUME ops \in Seq(Operation), NEW kind, Receives(kind)
  PROVE  /\ kind # "DownloadResponseTimeout" => Due' = Due
         /\ kind = "DownloadResponseTimeout" =>
              /\ Head(ops)[2] \in Token
              /\ Due[Head(ops)[2]] > 0
              /\ Due' = [Due EXCEPT ![Head(ops)[2]] = @ - 1]
<1> DEFINE op == Head(ops)
<1>0. op \in Operation /\ op[1] = kind
  BY ReceiveCounts
<1>1. \A u \in Token : LET o == <<"DownloadResponseTimeout", u>>
                       IN  /\ Count(o) \in Nat
                           /\ op = o => Count(o) > 0
                           /\ Count(o)' = Count(o) - (IF op = o THEN 1 ELSE 0)
  BY ReceiveCounts
<1> HIDE DEF op
<1>2. \A u \in Token : /\ Due[u] \in Nat
                       /\ op = <<"DownloadResponseTimeout", u>> => Due[u] > 0
                       /\ Due'[u] = Due[u] - (IF op = <<"DownloadResponseTimeout", u>> THEN 1 ELSE 0)
  BY <1>1 DEF Due
<1>3. DOMAIN Due = Token /\ Due = [u \in Token |-> Due[u]] /\ Due' = [u \in Token |-> Due'[u]]
  BY DEF Due
<1>4. ASSUME kind # "DownloadResponseTimeout" PROVE Due' = Due
  <2>1. \A u \in Token : Due'[u] = Due[u]
    BY <1>0, <1>2, <1>4
  <2> QED
    BY <1>3, <2>1
<1>5. ASSUME kind = "DownloadResponseTimeout"
      PROVE  op[2] \in Token /\ Due[op[2]] > 0 /\ Due' = [Due EXCEPT ![op[2]] = @ - 1]
  <2>1. PICK t \in Token : op = <<"DownloadResponseTimeout", t>>
    BY <1>0, <1>5, Kinds
  <2>2. \A u \in Token : Due'[u] = IF u = t THEN Due[u] - 1 ELSE Due[u]
    BY <1>2, <2>1
  <2>3. op[2] = t /\ Due[t] > 0
    BY <1>2, <2>1
  <2> QED
    BY <1>3, <2>2, <2>3
<1> QED
  BY <1>4, <1>5 DEF op

-----------------------------------------------------------------------------
(* A call is in the channel once, and not there when its download is in    *)
(* the manager: the worker enqueues no request twice.                      *)

NotCalled == {r \in Request : dm.shown[r] = "NotRequested"}

InChannel(r) == Count(<<"RequestDownload", r>>)

Calls ==
  /\ ops \in Seq(Operation)
  /\ Uncalled(dm, NotCalled)
  /\ \A r \in Request : InChannel(r) <= (IF r \in NotCalled THEN 1 ELSE 0)

LEMMA StayCalls ==
  ASSUME Calls, UNCHANGED ops, Uncalled(dm', NotCalled)
  PROVE  Calls'
<1>1. NotCalled' = NotCalled
  BY DEF Uncalled, NotCalled
<1>2. \A r \in Request : InChannel(r)' = InChannel(r)
  BY DEF InChannel, Count
<1> QED
  BY <1>1, <1>2 DEF Calls

LEMMA SendCalls ==
  ASSUME Calls, NEW op \in Operation, op[1] # "RequestDownload", Send(op),
         Uncalled(dm', NotCalled)
  PROVE  Calls'
<1>1. NotCalled' = NotCalled
  BY DEF Uncalled, NotCalled
<1>2. ops' \in Seq(Operation)
  BY SendCounts DEF Calls
<1>3. \A r \in Request : InChannel(r)' = InChannel(r)
  <2> SUFFICES ASSUME NEW r \in Request PROVE InChannel(r)' = InChannel(r)
    OBVIOUS
  <2> DEFINE o == <<"RequestDownload", r>>
  <2>1. op # o
    OBVIOUS
  <2>2. Count(o) \in Nat /\ Count(o)' = Count(o) + (IF op = o THEN 1 ELSE 0)
    BY SendCounts DEF Calls
  <2> HIDE DEF o
  <2>3. Count(o)' = Count(o)
    BY <2>1, <2>2
  <2> QED
    BY <2>3 DEF InChannel, o
<1> QED
  BY <1>1, <1>2, <1>3 DEF Calls

LEMMA ReceiveCalls ==
  ASSUME Calls, NEW kind, kind # "RequestDownload", Receives(kind),
         Uncalled(dm', NotCalled)
  PROVE  Calls'
<1>1. NotCalled' = NotCalled
  BY DEF Uncalled, NotCalled
<1>2. ops' \in Seq(Operation) /\ Head(ops)[1] = kind
  BY ReceiveCounts DEF Calls
<1>3. \A r \in Request : InChannel(r)' = InChannel(r)
  <2> SUFFICES ASSUME NEW r \in Request PROVE InChannel(r)' = InChannel(r)
    OBVIOUS
  <2> DEFINE o == <<"RequestDownload", r>>
  <2>1. Head(ops) # o
    BY <1>2
  <2>2. Count(o) \in Nat /\ Count(o)' = Count(o) - (IF Head(ops) = o THEN 1 ELSE 0)
    BY ReceiveCounts DEF Calls
  <2> HIDE DEF o
  <2>3. Count(o)' = Count(o)
    BY <2>1, <2>2
  <2> QED
    BY <2>3 DEF InChannel, o
<1> QED
  BY <1>1, <1>2, <1>3 DEF Calls

\* A call that was not made is not in the channel.
LEMMA NotInChannel ==
  ASSUME Calls, NEW r \in Request, r \notin Called
  PROVE  r \in NotCalled /\ InChannel(r) = 0
<1>1. {i \in DOMAIN ops : ops[i] = <<"RequestDownload", r>>} = {}
  BY DEF Called
<1>2. InChannel(r) = 0
  BY <1>1, FS_EmptySet DEF InChannel, Count
<1> QED
  BY <1>2 DEF Called, NotCalled

LEMMA CallCalls ==
  ASSUME Calls, NEW r \in Request, DownloadBeforeConnect(r) \/ Download(r)
  PROVE  Calls'
<1>1. r \in NotCalled /\ InChannel(r) = 0
  BY NotInChannel DEF DownloadBeforeConnect, Download
<1>2. CASE DownloadBeforeConnect(r)
  <2>1. Uncalled(DM!Buffer(dm, r), NotCalled \ {r})
    BY <1>1, CallHandlersCalls DEF Calls
  <2>2. Uncalled(dm', NotCalled \ {r}) /\ UNCHANGED ops
    BY <1>2, <2>1 DEF DownloadBeforeConnect
  <2>3. NotCalled' = NotCalled \ {r}
    BY <2>2 DEF Uncalled, NotCalled
  <2>4. \A x \in Request : InChannel(x)' = InChannel(x)
    BY <2>2 DEF InChannel, Count
  <2> QED
    BY <1>1, <2>2, <2>3, <2>4 DEF Calls
<1>3. CASE Download(r)
  <2> DEFINE op == <<"RequestDownload", r>>
  <2>1. op \in Operation
    BY DEF Operation
  <2>2. Send(op) /\ dm' = dm
    BY <1>3 DEF Download
  <2>3. /\ ops' \in Seq(Operation)
        /\ \A o : Count(o) \in Nat /\ Count(o)' = Count(o) + (IF op = o THEN 1 ELSE 0)
    BY <2>1, <2>2, SendCounts DEF Calls
  <2>4. NotCalled' = NotCalled
    BY <2>2 DEF NotCalled
  <2>5. ASSUME NEW x \in Request PROVE InChannel(x)' <= (IF x \in NotCalled' THEN 1 ELSE 0)
    <3> DEFINE o == <<"RequestDownload", x>>
    <3>1. op = o <=> x = r
      OBVIOUS
    <3>2. Count(o) \in Nat /\ Count(o)' = Count(o) + (IF op = o THEN 1 ELSE 0)
      BY <2>3
    <3>3. InChannel(x) = Count(o) /\ InChannel(x)' = Count(o)'
      BY DEF InChannel
    <3>4. InChannel(x) <= (IF x \in NotCalled THEN 1 ELSE 0)
      BY DEF Calls
    <3> HIDE DEF o, op
    <3> QED
      BY <1>1, <2>4, <3>1, <3>2, <3>3, <3>4
  <2>6. Uncalled(dm', NotCalled')
    BY <2>2, <2>4 DEF Calls
  <2> QED
    BY <2>3, <2>5, <2>6 DEF Calls
<1> QED
  BY <1>2, <1>3

\* The worker takes the call out of the channel and makes its download.
LEMMA RequestArmCalls ==
  ASSUME Calls, Receives("RequestDownload"), dm' = DM!Enqueue(dm, Head(ops)[2])
  PROVE  /\ Head(ops)[2] \in NotCalled
         /\ Calls'
<1>1. Head(ops) \in Operation /\ Head(ops)[1] = "RequestDownload" /\ ops' \in Seq(Operation)
  BY ReceiveCounts DEF Calls
<1>2. PICK r \in Request : Head(ops) = <<"RequestDownload", r>>
  BY <1>1, Kinds
<1>3. \A o : /\ Count(o) \in Nat
             /\ Head(ops) = o => Count(o) > 0
             /\ Count(o)' = Count(o) - (IF Head(ops) = o THEN 1 ELSE 0)
  BY ReceiveCounts DEF Calls
<1>4. ASSUME NEW x \in Request
      PROVE  /\ InChannel(x) \in Nat
             /\ x = r => InChannel(x) > 0
             /\ InChannel(x)' = InChannel(x) - (IF x = r THEN 1 ELSE 0)
  <2> DEFINE o == <<"RequestDownload", x>>
  <2>1. Head(ops) = o <=> x = r
    BY <1>2
  <2> HIDE DEF o
  <2>2. /\ Count(o) \in Nat
        /\ Head(ops) = o => Count(o) > 0
        /\ Count(o)' = Count(o) - (IF Head(ops) = o THEN 1 ELSE 0)
    BY <1>3
  <2> QED
    BY <2>1, <2>2 DEF InChannel, o
<1>5. \A x \in Request : InChannel(x) <= (IF x \in NotCalled THEN 1 ELSE 0)
  BY DEF Calls
<1>6. r \in NotCalled
  BY <1>4, <1>5
<1>7. Uncalled(dm', NotCalled \ {r})
  BY <1>2, <1>6, CallHandlersCalls DEF Calls
<1>8. NotCalled' = NotCalled \ {r}
  BY <1>7 DEF Uncalled, NotCalled
<1>9. ASSUME NEW x \in Request PROVE InChannel(x)' <= (IF x \in NotCalled' THEN 1 ELSE 0)
  <2>1. CASE x = r
    <3>1. InChannel(r) <= 1 /\ InChannel(r)' = InChannel(r) - 1 /\ InChannel(r) \in Nat
      BY <1>4, <1>5, <1>6
    <3> QED
      BY <1>8, <2>1, <3>1
  <2>2. CASE x # r
    <3>1. InChannel(x)' = InChannel(x)
      BY <1>4, <2>2
    <3>2. x \in NotCalled' <=> x \in NotCalled
      BY <1>8, <2>2
    <3> QED
      BY <1>5, <3>1, <3>2
  <2> QED
    BY <2>1, <2>2
<1>10. Calls'
  BY <1>1, <1>7, <1>8, <1>9 DEF Calls
<1> QED
  BY <1>2, <1>6, <1>10

-----------------------------------------------------------------------------
(* Every step of the worker, its callers and its tasks is one that the     *)
(* manager's specification allows, or none of the manager's business.      *)

Allowed == DM!Next \/ UNCHANGED <<dm, Due>>

LEMMA StutterAllowed == ASSUME UNCHANGED dm, Due' = Due PROVE Allowed
BY DEF Allowed

LEMMA SameDue == ASSUME UNCHANGED ops PROVE Due' = Due
BY DEF Due, Count

LEMMA CallerAllowed == ASSUME Calls, Caller PROVE Calls' /\ Allowed
<1>1. PICK r \in Request : \/ DownloadBeforeConnect(r) \/ Download(r)
                           \/ HandleCancel(r) \/ HandleDrop(r)
  BY DEF Caller
<1>2. <<"RequestDownload", r>> \in Operation /\ <<"CancelDownload", DM!TokenFor(r)>> \in Operation
  BY DEF Operation
<1>3. Uncalled(dm, NotCalled) /\ ops \in Seq(Operation)
  BY DEF Calls
<1>4. CASE DownloadBeforeConnect(r)
  <2>1. Calls'
    BY <1>4, CallCalls
  <2>2. Due' = Due
    BY <1>4, SameDue DEF DownloadBeforeConnect
  <2>3. dm.shown[r] = "NotRequested"
    BY <1>4, NotInChannel DEF DownloadBeforeConnect, NotCalled
  <2>4. DM!DownloadBeforeConnect(r)
    BY <1>4, <2>2, <2>3 DEF DownloadBeforeConnect, DM!DownloadBeforeConnect, Due
  <2>5. DM!Next
    BY <2>4 DEF DM!Next, DM!UserCall
  <2> QED
    BY <2>1, <2>5 DEF Allowed
<1>5. CASE Download(r)
  <2>1. Calls'
    BY <1>5, CallCalls
  <2>2. dm' = dm /\ Due' = Due
    BY <1>2, <1>3, <1>5, SendDue DEF Download
  <2> QED
    BY <2>1, <2>2, StutterAllowed
<1>6. CASE HandleCancel(r) \/ (HandleDrop(r) /\ ops' = ops)
  <2>1. UNCHANGED dm /\ UNCHANGED ops
    BY <1>6 DEF HandleCancel, HandleDrop
  <2>2. Uncalled(dm', NotCalled)
    BY <1>3, <2>1
  <2>3. Calls'
    BY <2>1, <2>2, StayCalls
  <2>4. Due' = Due
    BY <2>1, SameDue
  <2> QED
    BY <2>1, <2>3, <2>4, StutterAllowed
<1>7. CASE HandleDrop(r) /\ ops' # ops
  <2>1. UNCHANGED dm /\ Send(<<"CancelDownload", DM!TokenFor(r)>>)
    BY <1>7 DEF HandleDrop
  <2>2. Uncalled(dm', NotCalled)
    BY <1>3, <2>1
  <2>3. Calls'
    BY <1>2, <2>1, <2>2, SendCalls
  <2>4. Due' = Due
    BY <1>2, <1>3, <2>1, SendDue
  <2> QED
    BY <2>1, <2>3, <2>4, StutterAllowed
<1> QED
  BY <1>1, <1>4, <1>5, <1>6, <1>7

\* What another task does to the manager is nothing; it sends one operation.
LEMMA TellAllowed ==
  ASSUME Calls, NEW op \in Operation, op[1] \notin {"RequestDownload", "DownloadResponseTimeout"},
         UNCHANGED dm, Send(op)
  PROVE  Calls' /\ Allowed
<1>1. Uncalled(dm', NotCalled) /\ ops \in Seq(Operation)
  BY DEF Calls
<1>2. Calls'
  BY <1>1, SendCalls
<1>3. Due' = Due
  BY <1>1, SendDue
<1> QED
  BY <1>2, <1>3, StutterAllowed

\* A timer that fires is one the manager knows of, and its message is due.
LEMMA TimerAllowed ==
  ASSUME Calls, NEW t \in Token, TimerFires(t)
  PROVE  Calls' /\ Allowed
<1> DEFINE op == <<"DownloadResponseTimeout", t>>
<1>1. op \in Operation /\ Send(op) /\ op[1] # "RequestDownload"
  BY DEF Operation, TimerFires
<1>2. Uncalled(dm, NotCalled) /\ ops \in Seq(Operation)
  BY DEF Calls
<1>3. Due' = [Due EXCEPT ![t] = @ + 1]
  BY <1>1, <1>2, SendDue
<1>4. DM!TimerFires(t)
  BY <1>3 DEF TimerFires, DM!TimerFires, Due
<1>5. DM!Next
  BY <1>4 DEF DM!Next, DM!TokenEvent
<1>6. Uncalled(dm', NotCalled)
  <2>1. DOMAIN dm = Fields /\ dm.downloads \in [Token -> DM!Download \cup {NoDownload}]
    BY <1>2 DEF Uncalled
  <2>2. CASE /\ DM!LiveTimer(dm, t) = 1
             /\ dm' = [dm EXCEPT !.downloads[t] = [@ EXCEPT !.timer = FALSE]]
    <3> DEFINE fired == [dm.downloads[t] EXCEPT !.timer = FALSE]
    <3>1. t \in DM!Known(dm)
      BY <2>2 DEF DM!LiveTimer, DM!Known
    <3>2. dm.downloads[t] \in DM!Download
      BY <2>1, <3>1 DEF DM!Known
    <3>3. fired \in DM!Download /\ fired.req = dm.downloads[t].req
      BY <3>2 DEF DM!Download
    <3> HIDE DEF fired
    <3>4. /\ DOMAIN dm' = Fields /\ dm'.shown = dm.shown
          /\ dm'.downloads = [dm.downloads EXCEPT ![t] = fired]
      BY <2>1, <2>2 DEF Fields, fired
    <3>5. dm'.downloads \in [Token -> DM!Download \cup {NoDownload}]
      BY <2>1, <3>3, <3>4
    <3>6. \A u \in Token : \/ dm'.downloads[u] = NoDownload
                           \/ u \in DM!Known(dm) /\ dm'.downloads[u].req = dm.downloads[u].req
      BY <2>1, <3>1, <3>3, <3>4 DEF DM!Known
    <3> QED
      BY <1>2, <3>4, <3>5, <3>6, SameOrGone
  <2>3. CASE dm' = [dm EXCEPT !.strays[t] = @ - 1]
    <3>1. DOMAIN dm' = Fields /\ dm'.shown = dm.shown /\ dm'.downloads = dm.downloads
      BY <2>1, <2>3 DEF Fields
    <3> QED
      BY <1>2, <3>1, SameCalls
  <2> QED
    BY <2>2, <2>3 DEF TimerFires
<1>7. Calls'
  BY <1>1, <1>6, SendCalls
<1> QED
  BY <1>5, <1>7 DEF Allowed

LEMMA RegistryAllowed ==
  ASSUME Calls, NEW c \in Conn, PeerConnects(c)
  PROVE  Calls' /\ Allowed
<1>1. UNCHANGED ops /\ dm' = [dm EXCEPT !.registry = @ \cup {ThePeer}] /\ dm.connected
  BY DEF PeerConnects
<1>2. Due' = Due
  BY <1>1, SameDue
<1>3. DM!PeerRegistered(ThePeer)
  BY <1>1, <1>2 DEF DM!PeerRegistered, Due
<1>4. DM!Next
  BY <1>3, PeerAssumption DEF DM!Next, DM!PeerEvent
<1>5. Uncalled(dm, NotCalled)
  BY DEF Calls
<1>6. DOMAIN dm' = Fields /\ dm'.shown = dm.shown /\ dm'.downloads = dm.downloads
  BY <1>1, <1>5 DEF Uncalled, Fields
<1>7. Uncalled(dm', NotCalled)
  BY <1>5, <1>6, SameCalls
<1> QED
  BY <1>1, <1>4, <1>7, StayCalls DEF Allowed

LEMMA TasksAllowed == ASSUME Calls, Tasks PROVE Calls' /\ Allowed
<1>1. ASSUME NEW r \in Request, NEW x \in DM!Terminal, StreamEnds(r, x)
      PROVE  Calls' /\ Allowed
  <2>1. <<"DownloadCompleted", DM!TokenFor(r), x>> \in Operation
    BY DEF Operation
  <2>2. Send(<<"DownloadCompleted", DM!TokenFor(r), x>>) /\ UNCHANGED dm
    BY <1>1 DEF StreamEnds
  <2> QED
    BY <2>1, <2>2, TellAllowed
<1>2. ASSUME NEW c \in Conn, PeerDrops(c) \/ PeerStops(c) PROVE Calls' /\ Allowed
  <2>1. Disconnected \in Operation /\ Disconnected[1] = "PeerDisconnected"
    BY DEF Operation, Disconnected
  <2>2. Send(Disconnected) /\ UNCHANGED dm
    BY <1>2 DEF PeerDrops, PeerStops, Disconnected
  <2> QED
    BY <2>1, <2>2, TellAllowed
<1> QED
  BY <1>1, <1>2, TimerAllowed, RegistryAllowed DEF Tasks

LEMMA PeerAllowed == ASSUME Calls, Peer PROVE Calls' /\ Allowed
<1>1. ASSUME NEW c \in Conn, NEW f \in File, PeerAnswers(c, f) PROVE Calls' /\ Allowed
  <2>1. /\ \A p \in PeerToken : <<"UpdateDownloadTokens", f, p>> \in Operation
        /\ <<"QueuePositionUpdated", f>> \in Operation
    BY DEF Operation
  <2> QED
    BY <1>1, <2>1, TellAllowed DEF PeerAnswers, SendBounded
<1>2. ASSUME NEW c \in Conn, NEW p \in PeerToken, PeerRejects(c, p) PROVE Calls' /\ Allowed
  <2>1. <<"TransferRejected", p>> \in Operation
    BY DEF Operation
  <2> QED
    BY <1>2, <2>1, TellAllowed DEF PeerRejects, SendBounded
<1>3. ASSUME NEW p \in PeerToken, PeerOpensStream(p) PROVE Calls' /\ Allowed
  <2>1. <<"QueryDownloadByToken", p>> \in Operation
    BY DEF Operation
  <2> QED
    BY <1>3, <2>1, TellAllowed DEF PeerOpensStream, SendBounded
<1> QED
  BY <1>1, <1>2, <1>3 DEF Peer

LEMMA ServerTellsAllowed == ASSUME Calls, ServerTells PROVE Calls' /\ Allowed
<1>1. <<"LoginSucceeded">> \in Operation /\ <<"ServerDisconnected">> \in Operation
  BY DEF Operation
<1> QED
  BY <1>1, TellAllowed DEF ServerTells, SendBounded

LEMMA ConnectAllowed == ASSUME Calls, Connect PROVE Calls' /\ Allowed
<1>1. ~dm.connected /\ UNCHANGED ops /\ dm' = [dm EXCEPT !.connected = TRUE]
  BY DEF Connect
<1>2. Due' = Due
  BY <1>1, SameDue
<1>3. DM!Connect
  BY <1>1, <1>2 DEF DM!Connect, Due
<1>4. Uncalled(dm, NotCalled)
  BY DEF Calls
<1>5. DOMAIN dm' = Fields /\ dm'.shown = dm.shown /\ dm'.downloads = dm.downloads
  BY <1>1, <1>4 DEF Uncalled, Fields
<1>6. Uncalled(dm', NotCalled)
  BY <1>4, <1>5, SameCalls
<1> QED
  BY <1>1, <1>3, <1>6, StayCalls DEF Allowed, DM!Next

\* The worker.  The operation it takes is one the manager allows at any time:
\* only a timeout has to be due, and only a call not to have been made.
LEMMA ServerArmAllowed == ASSUME Calls, dm.connected, ServerArm PROVE Calls' /\ Allowed
<1>1. Uncalled(dm, NotCalled) /\ ops \in Seq(Operation)
  BY DEF Calls
<1>2. CASE Receives("ServerDisconnected") /\ dm' = DM!OnServerDisconnected(dm)
  <2>1. Uncalled(dm', NotCalled)
    BY <1>1, <1>2, ServerCalls
  <2>2. Calls'
    BY <1>2, <2>1, ReceiveCalls
  <2>3. Due' = Due
    BY <1>1, <1>2, ReceiveDue
  <2>4. DM!ServerDisconnected
    BY <1>2, <2>3 DEF DM!ServerDisconnected, Due
  <2> QED
    BY <2>2, <2>4 DEF Allowed, DM!Next, DM!ServerEvent
<1>3. CASE Receives("LoginSucceeded") /\ dm' \in DM!OnLoginSucceeded(dm)
  <2>1. Uncalled(dm', NotCalled)
    BY <1>1, <1>3, ServerCalls
  <2>2. Calls'
    BY <1>3, <2>1, ReceiveCalls
  <2>3. Due' = Due
    BY <1>1, <1>3, ReceiveDue
  <2>4. DM!LoginSucceeded
    BY <1>3, <2>3 DEF DM!LoginSucceeded, Due
  <2> QED
    BY <2>2, <2>4 DEF Allowed, DM!Next, DM!ServerEvent
<1> QED
  BY <1>2, <1>3 DEF ServerArm

LEMMA DownloadArmAllowed == ASSUME Calls, dm.connected, DownloadArm PROVE Calls' /\ Allowed
<1> DEFINE op == Head(ops)
<1>1. Uncalled(dm, NotCalled) /\ ops \in Seq(Operation)
  BY DEF Calls
<1>2. CASE Receives("RequestDownload") /\ dm' = DM!Enqueue(dm, op[2])
  <2>1. op[2] \in NotCalled /\ Calls'
    BY <1>2, RequestArmCalls
  <2>2. Due' = Due
    BY <1>1, <1>2, ReceiveDue
  <2>3. op[2] \in Request /\ dm.shown[op[2]] = "NotRequested"
    BY <2>1 DEF NotCalled
  <2>4. DM!RequestDownload(op[2])
    BY <1>2, <2>2, <2>3 DEF DM!RequestDownload, Due
  <2> QED
    BY <2>1, <2>3, <2>4 DEF Allowed, DM!Next, DM!UserCall
<1>3. CASE Receives("DownloadCompleted") /\ dm' = DM!OnCompleted(dm, op[2], op[3])
  <2>1. op[2] \in Token /\ op[3] \in DM!Terminal
    BY <1>1, <1>3, ReceiveCounts, Kinds
  <2>2. Uncalled(dm', NotCalled)
    BY <1>1, <1>3, <2>1, CompletedCalls DEF DM!Terminal
  <2>3. Calls'
    BY <1>3, <2>2, ReceiveCalls
  <2>4. Due' = Due
    BY <1>1, <1>3, ReceiveDue
  <2>5. DM!DownloadCompleted(op[2], op[3])
    BY <1>3, <2>4 DEF DM!DownloadCompleted, Due
  <2>6. DM!TokenEvent
    BY <2>1, <2>5 DEF DM!TokenEvent, DM!Terminal
  <2> QED
    BY <2>3, <2>6 DEF Allowed, DM!Next
<1>4. CASE Receives("CancelDownload") /\ dm' = DM!OnCancel(dm, op[2])
  <2>1. op[2] \in Token
    BY <1>1, <1>4, ReceiveCounts, Kinds
  <2>2. Uncalled(dm', NotCalled)
    BY <1>1, <1>4, CancelCalls
  <2>3. Calls'
    BY <1>4, <2>2, ReceiveCalls
  <2>4. Due' = Due
    BY <1>1, <1>4, ReceiveDue
  <2>5. DM!CancelDownload(op[2])
    BY <1>4, <2>4 DEF DM!CancelDownload, Due
  <2> QED
    BY <2>1, <2>3, <2>5 DEF Allowed, DM!Next, DM!TokenEvent
<1>5. CASE Receives("DownloadResponseTimeout") /\ dm' = DM!OnTimeout(dm, op[2])
  <2>1. Uncalled(dm', NotCalled)
    BY <1>1, <1>5, TimeoutCalls
  <2>2. Calls'
    BY <1>5, <2>1, ReceiveCalls
  <2>3. op[2] \in Token /\ Due[op[2]] > 0 /\ Due' = [Due EXCEPT ![op[2]] = @ - 1]
    BY <1>1, <1>5, ReceiveDue
  <2>4. DM!DownloadResponseTimeout(op[2])
    BY <1>5, <2>3 DEF DM!DownloadResponseTimeout, Due
  <2> QED
    BY <2>2, <2>3, <2>4 DEF Allowed, DM!Next, DM!TokenEvent
<1> QED
  BY <1>2, <1>3, <1>4, <1>5 DEF DownloadArm

LEMMA PeerMessageArmAllowed ==
  ASSUME Calls, dm.connected, PeerMessageArm PROVE Calls' /\ Allowed
<1> DEFINE op == Head(ops)
           asked == DM!OfFile(dm, ThePeer, op[2])
           named == DM!OfPeerToken(dm, op[2])
<1>1. Uncalled(dm, NotCalled) /\ ops \in Seq(Operation)
  BY DEF Calls
<1>2. asked \subseteq DM!Known(dm) /\ named \subseteq DM!Known(dm)
  BY DEF DM!OfFile, DM!OfUser, DM!OfPeerToken
<1>3. PICK kind \in {"UpdateDownloadTokens", "QueuePositionUpdated", "TransferRejected"} :
        Receives(kind)
  BY Zenon DEF PeerMessageArm
<1>4. Due' = Due
  BY <1>1, <1>3, ReceiveDue
<1>5. CASE dm' = dm
  <2>1. Uncalled(dm', NotCalled)
    BY <1>1, <1>5
  <2>2. Calls'
    BY <1>3, <2>1, ReceiveCalls
  <2> QED
    BY <1>4, <1>5, <2>2, StutterAllowed
<1>6. CASE /\ Receives("UpdateDownloadTokens")
           /\ \E t \in asked : dm' = DM!OnTransferRequest(dm, t, op[3])
  <2>1. op[2] \in File /\ op[3] \in PeerToken
    BY <1>1, <1>6, ReceiveCounts, Kinds
  <2>2. Uncalled(dm', NotCalled)
    BY <1>1, <1>2, <1>6, <2>1, AnswerCalls
  <2>3. Calls'
    BY <1>3, <2>2, ReceiveCalls
  <2>4. DM!UpdateDownloadTokens(ThePeer, op[2], op[3])
    BY <1>4, <1>6 DEF DM!UpdateDownloadTokens, Due
  <2>5. DM!PeerEvent
    BY <2>1, <2>4, PeerAssumption DEF DM!PeerEvent
  <2> QED
    BY <2>3, <2>5 DEF Allowed, DM!Next
<1>7. CASE /\ Receives("QueuePositionUpdated")
           /\ \E t \in asked : dm' = DM!OnQueuePosition(dm, t)
  <2>1. op[2] \in File
    BY <1>1, <1>7, ReceiveCounts, Kinds
  <2>2. Uncalled(dm', NotCalled)
    <3>1. PICK t \in DM!Known(dm) : dm' = DM!OnQueuePosition(dm, t)
      BY <1>2, <1>7
    <3> QED
      BY <1>1, <3>1, PositionCalls
  <2>3. Calls'
    BY <1>3, <2>2, ReceiveCalls
  <2>4. DM!QueuePositionUpdated(ThePeer, op[2])
    BY <1>4, <1>7 DEF DM!QueuePositionUpdated, Due
  <2>5. DM!PeerEvent
    BY <2>1, <2>4, PeerAssumption DEF DM!PeerEvent
  <2> QED
    BY <2>3, <2>5 DEF Allowed, DM!Next
<1>8. CASE /\ Receives("TransferRejected")
           /\ \E t \in named : dm' = DM!OnTransferRejected(dm, t)
  <2>1. op[2] \in PeerToken
    BY <1>1, <1>8, ReceiveCounts, Kinds
  <2>2. Uncalled(dm', NotCalled)
    <3>1. PICK t \in DM!Known(dm) : dm' = DM!OnTransferRejected(dm, t)
      BY <1>2, <1>8
    <3> QED
      BY <1>1, <3>1, PositionCalls
  <2>3. Calls'
    BY <1>3, <2>2, ReceiveCalls
  <2>4. DM!TransferRejected(op[2])
    BY <1>4, <1>8 DEF DM!TransferRejected, Due
  <2>5. DM!PeerEvent
    BY <2>1, <2>4 DEF DM!PeerEvent
  <2> QED
    BY <2>3, <2>5 DEF Allowed, DM!Next
<1> HIDE DEF op, asked, named
<1>9. \/ dm' = dm
      \/ /\ Receives("UpdateDownloadTokens")
         /\ \E t \in asked : dm' = DM!OnTransferRequest(dm, t, op[3])
      \/ /\ Receives("QueuePositionUpdated")
         /\ \E t \in asked : dm' = DM!OnQueuePosition(dm, t)
      \/ /\ Receives("TransferRejected")
         /\ \E t \in named : dm' = DM!OnTransferRejected(dm, t)
  BY DEF PeerMessageArm, Found, op, asked, named
<1> QED
  BY <1>5, <1>6, <1>7, <1>8, <1>9

LEMMA StreamArmAllowed == ASSUME Calls, StreamArm PROVE Calls' /\ Allowed
<1>1. UNCHANGED dm /\ Receives("QueryDownloadByToken")
  BY DEF StreamArm
<1>2. Uncalled(dm', NotCalled) /\ ops \in Seq(Operation)
  BY <1>1 DEF Calls
<1>3. Calls'
  BY <1>1, <1>2, ReceiveCalls
<1>4. Due' = Due
  BY <1>1, <1>2, ReceiveDue
<1> QED
  BY <1>1, <1>3, <1>4, StutterAllowed

LEMMA PeerLifecycleArmAllowed ==
  ASSUME Calls, dm.connected, PeerLifecycleArm PROVE Calls' /\ Allowed
<1> DEFINE m == [dm EXCEPT !.registry = @ \ {ThePeer}]
<1>1. /\ Receives("PeerDisconnected")
      /\ dm' = DM!OnPeerDisconnected(m, ThePeer)
  BY DEF PeerLifecycleArm
<1>2. Uncalled(dm, NotCalled) /\ ops \in Seq(Operation)
  BY DEF Calls
<1>3. DM!PeerDisconnected(ThePeer)
  <2>1. Due' = Due
    BY <1>1, <1>2, ReceiveDue
  <2> QED
    BY <1>1, <2>1 DEF DM!PeerDisconnected, Due
<1>4. DM!Next
  BY <1>3, PeerAssumption DEF DM!Next, DM!PeerEvent
<1>5. DOMAIN m = Fields /\ m.shown = dm.shown /\ m.downloads = dm.downloads
  BY <1>2 DEF Uncalled, Fields
<1> HIDE DEF m
<1>6. Uncalled(m, NotCalled)
  BY <1>2, <1>5, SameCalls
<1>7. Uncalled(dm', NotCalled)
  BY <1>1, <1>6, FailCalls DEF DM!OnPeerDisconnected
<1>8. Calls'
  BY <1>1, <1>7, ReceiveCalls
<1> QED
  BY <1>4, <1>8 DEF Allowed

LEMMA WorkAllowed == ASSUME Calls, Work PROVE Calls' /\ Allowed
<1>1. dm.connected /\ (ServerArm \/ DownloadArm \/ PeerMessageArm \/ StreamArm \/ PeerLifecycleArm)
  BY DEF Work
<1> QED
  BY <1>1, ServerArmAllowed, DownloadArmAllowed, PeerMessageArmAllowed,
     StreamArmAllowed, PeerLifecycleArmAllowed

\* Nothing is called, downloaded, sent or due at first.
LEMMA InitAllowed == ASSUME Init PROVE Calls /\ DM!Init
<1>1. DM!Init /\ ops = <<>>
  BY DEF Init
<1>2. /\ DOMAIN dm = Fields
      /\ dm.downloads = [t \in Token |-> NoDownload]
      /\ dm.shown = [r \in Request |-> "NotRequested"]
  BY <1>1 DEF DM!Init, Fields
<1>3. Uncalled(dm, NotCalled)
  BY <1>2 DEF Uncalled, NotCalled, DM!Known
<1>4. \A r \in Request : InChannel(r) = 0
  <2> SUFFICES ASSUME NEW r \in Request PROVE InChannel(r) = 0
    OBVIOUS
  <2>1. {i \in DOMAIN ops : ops[i] = <<"RequestDownload", r>>} = {}
    BY <1>1
  <2> QED
    BY <2>1, FS_EmptySet DEF InChannel, Count
<1>5. ops \in Seq(Operation)
  BY <1>1
<1> QED
  BY <1>1, <1>3, <1>4, <1>5 DEF Calls

LEMMA NextAllowed == ASSUME Calls, [Next]_vars PROVE Calls' /\ Allowed
<1>1. CASE UNCHANGED vars
  <2>1. UNCHANGED <<dm, ops>>
    BY <1>1 DEF vars
  <2>2. Uncalled(dm', NotCalled)
    BY <2>1 DEF Calls
  <2> QED
    BY <2>1, <2>2, StayCalls, SameDue, StutterAllowed
<1> QED
  BY <1>1, ConnectAllowed, CallerAllowed, TasksAllowed, PeerAllowed, ServerTellsAllowed,
     WorkAllowed DEF Next

\* The detailed specification implements the abstract one: whatever callers,
\* timeouts, transfers, peers and the server do, and in whatever order their
\* operations reach the worker, the manager goes through a behaviour of
\* DownloadManager, in which a timeout is due while its message is in the channel.
THEOREM ManagerRefined == Spec => RefinesManager
<1>1. Init => Calls /\ DM!Init
  BY InitAllowed
<1>2. Calls /\ [Next]_vars => Calls'
  BY NextAllowed
<1>3. Calls /\ [Next]_vars => [DM!Next]_DM!vars
  <2> SUFFICES ASSUME Calls, [Next]_vars PROVE [DM!Next]_DM!vars
    OBVIOUS
  <2>1. Allowed
    BY NextAllowed
  <2> QED
    BY <2>1 DEF Allowed, DM!vars, Due
<1> QED
  BY <1>1, <1>2, <1>3, PTL DEF Spec, RefinesManager, DM!Spec

=============================================================================
