-------------------------- MODULE ConnectedWorker --------------------------
(***************************************************************************)
(* client/connected_worker.rs with everything that sends it operations:    *)
(* the callers and their DownloadHandles, the timeout tasks, the actors of *)
(* one peer, the listener's file connections and the transfer tasks.       *)
(*                                                                         *)
(* The worker takes one ClientOperation at a time from one FIFO channel.   *)
(* DownloadManager lets an operation arrive whenever it likes; here it     *)
(* arrives because somebody sent it, after everything sent before it, and  *)
(* the state it speaks of may be gone.                                     *)
(*                                                                         *)
(* An operator under "Mutant:" is no part of the model: it is the operator *)
(* after it with a plausible bug.                                          *)
(***************************************************************************)
EXTENDS Integers, Sequences, FiniteSets

CONSTANTS
  Request, File, User, Token, PeerToken, FileOf, UserOf, TokenOf,
  MaxConcurrent, Unlimited, NoDownload, NoPeerToken,   \* as in DownloadManager
  ThePeer,    \* the one peer whose connections are modelled
  Conn,       \* its messaging connections, one PeerActor each
  NoConn,
  MaxOps,     \* bounds of the model: operations in the channel when the peer or
              \* the server sends one,
  MaxStreams  \* and file connections open for one download

ASSUME FiniteAssumption == IsFiniteSet(Token) /\ IsFiniteSet(Request)
ASSUME CallAssumption  == /\ FileOf \in [Request -> File]
                          /\ UserOf \in [Request -> User]
                          /\ TokenOf \in [File -> Token]
ASSUME LimitAssumption == /\ MaxConcurrent \in Nat \cup {Unlimited}
                          /\ Unlimited \notin Nat
ASSUME PeerAssumption  == ThePeer \in User /\ NoConn \notin Conn
ASSUME BoundAssumption == MaxOps \in Nat /\ MaxStreams \in Nat

VARIABLES
  dm,          \* the manager's record, as in DownloadManager
  ops,         \* op_rx
  cancel,      \* the AtomicBool of each Download
  dropped,     \* requests whose DownloadHandle is gone
  buffered,    \* requests made before connect(): their handles have no op_tx
  streams,     \* [Request -> Nat]: transfer tasks running on a clone of it
  delivered,   \* requests one of whose transfer tasks returned Ok
  actor,       \* state of each PeerActor
  registered   \* the actor peer_registry holds for ThePeer

vars == <<dm, ops, cancel, dropped, buffered, streams, delivered, actor, registered>>

Count(op) == Cardinality({i \in DOMAIN ops : ops[i] = op})

DM == INSTANCE DownloadManager
        WITH due     <- [t \in Token |-> Count(<<"DownloadResponseTimeout", t>>)],
             MaxDue  <- Unlimited,
             Results <- {"Completed", "Failed", "TimedOut", "Cancelled"}

ASSUME SentinelAssumption == /\ NoDownload \notin DM!Download
                             /\ NoPeerToken \notin PeerToken

Init ==
  /\ ops = <<>>
  /\ DM!Init
  /\ cancel = {} /\ dropped = {} /\ buffered = {} /\ delivered = {}
  /\ streams = [r \in Request |-> 0]
  /\ actor = [c \in Conn |-> "None"]
  /\ registered = NoConn

Send(op) == ops' = Append(ops, op)

\* What peers and the server send is kept to MaxOps at a time.  A call and the
\* drop of its handle happen once each and go behind whatever is there.
SendBounded(op) == Len(ops) < MaxOps /\ Send(op)

Called == {r \in Request : dm.shown[r] # "NotRequested"}
            \cup {r \in Request : \E i \in DOMAIN ops : ops[i] = <<"RequestDownload", r>>}

-----------------------------------------------------------------------------
(* The callers. *)

DownloadBeforeConnect(r) ==
  /\ ~dm.connected /\ r \notin Called
  /\ dm' = DM!Buffer(dm, r)
  /\ buffered' = buffered \cup {r}
  /\ UNCHANGED <<ops, cancel, dropped, streams, delivered, actor, registered>>

Connect ==
  /\ ~dm.connected
  /\ dm' = [dm EXCEPT !.connected = TRUE]
  /\ UNCHANGED <<ops, cancel, dropped, buffered, streams, delivered, actor, registered>>

Download(r) ==
  /\ dm.connected /\ r \notin Called
  /\ Send(<<"RequestDownload", r>>)
  /\ UNCHANGED <<dm, cancel, dropped, buffered, streams, delivered, actor, registered>>

\* DownloadHandle::cancel, and recv() when it times out: the flag and no more.
HandleCancel(r) ==
  /\ r \in Called \ cancel
  /\ cancel' = cancel \cup {r}
  /\ UNCHANGED <<dm, ops, dropped, buffered, streams, delivered, actor, registered>>

\* Mutant: drop is cancel() and no more.
HandleDropFlagOnly(r) ==
  /\ r \in Called \ dropped
  /\ cancel' = cancel \cup {r}
  /\ dropped' = dropped \cup {r}
  /\ UNCHANGED <<dm, ops, buffered, streams, delivered, actor, registered>>

HandleDrop(r) ==
  /\ r \in Called \ dropped
  /\ cancel' = cancel \cup {r}
  /\ dropped' = dropped \cup {r}
  /\ IF r \in buffered THEN UNCHANGED ops
     ELSE Send(<<"CancelDownload", DM!TokenFor(r)>>)
  /\ UNCHANGED <<dm, buffered, streams, delivered, actor, registered>>

-----------------------------------------------------------------------------
(* The tasks: timeouts, transfers, peer actors. *)

TimerFires(t) ==
  /\ \/ /\ DM!LiveTimer(dm, t) = 1
        /\ dm' = [dm EXCEPT !.downloads[t] = [@ EXCEPT !.timer = FALSE]]
     \/ /\ dm.strays[t] > 0
        /\ dm' = [dm EXCEPT !.strays[t] = @ - 1]
  /\ Send(<<"DownloadResponseTimeout", t>>)
  /\ UNCHANGED <<cancel, dropped, buffered, streams, delivered, actor, registered>>

\* How a read loop may end: the flag is looked at after a chunk and when a read
\* times out, so a stream may still end or fail first.
StreamResults(r) ==
  {"Completed", "Failed", "TimedOut"} \cup (IF r \in cancel THEN {"Cancelled"} ELSE {})

\* download_direct returns and the task reports under the token of its clone.
StreamEnds(r, result) ==
  /\ streams[r] > 0
  /\ result \in StreamResults(r)
  /\ streams' = [streams EXCEPT ![r] = @ - 1]
  /\ delivered' = IF result = "Completed" THEN delivered \cup {r} ELSE delivered
  /\ Send(<<"DownloadCompleted", DM!TokenFor(r), result>>)
  /\ UNCHANGED <<dm, cancel, dropped, buffered, actor, registered>>

\* register_peer: the new actor takes the place of one that is still running.
PeerConnects(c) ==
  /\ dm.connected
  /\ actor[c] = "None"
  /\ actor' = [actor EXCEPT ![c] = "Up"]
  /\ registered' = c
  /\ dm' = [dm EXCEPT !.registry = @ \cup {ThePeer}]
  /\ UNCHANGED <<ops, cancel, dropped, buffered, streams, delivered>>

\* Mutant: the stream is taken and the worker is not told.
PeerDropsSilently(c) ==
  /\ actor[c] = "Up"
  /\ actor' = [actor EXCEPT ![c] = "Down"]
  /\ UNCHANGED <<dm, ops, cancel, dropped, buffered, streams, delivered, registered>>

\* PeerActor::disconnect: the worker is told; the task goes on without a stream.
PeerDrops(c) ==
  /\ actor[c] = "Up"
  /\ actor' = [actor EXCEPT ![c] = "Down"]
  /\ Send(<<"PeerDisconnected", ThePeer>>)
  /\ UNCHANGED <<dm, cancel, dropped, buffered, streams, delivered, registered>>

\* The registry holds the only ActorHandle.  An actor it does not hold was sent
\* Stop, or its mailbox is closed: run_actor_loop ends, and on_stop disconnects,
\* and tells the worker, once more.
PeerStops(c) ==
  /\ actor[c] \in {"Up", "Down"} /\ registered # c
  /\ actor' = [actor EXCEPT ![c] = "Gone"]
  /\ Send(<<"PeerDisconnected", ThePeer>>)
  /\ UNCHANGED <<dm, cancel, dropped, buffered, streams, delivered, registered>>

\* A peer may send these whenever it is connected, asked or not.
PeerAnswers(c, f) ==
  /\ actor[c] = "Up"
  /\ \/ \E p \in PeerToken : SendBounded(<<"UpdateDownloadTokens", f, p>>)
     \/ SendBounded(<<"QueuePositionUpdated", f>>)
  /\ UNCHANGED <<dm, cancel, dropped, buffered, streams, delivered, actor, registered>>

PeerRejects(c, p) ==
  /\ actor[c] = "Up"
  /\ SendBounded(<<"TransferRejected", p>>)
  /\ UNCHANGED <<dm, cancel, dropped, buffered, streams, delivered, actor, registered>>

\* A file connection for p: the listener asks the worker for the download
\* (QueryDownloadByToken), or the peer's actor does (DownloadFromPeer).
PeerOpensStream(p) ==
  /\ dm.connected
  /\ SendBounded(<<"QueryDownloadByToken", p>>)
  /\ UNCHANGED <<dm, cancel, dropped, buffered, streams, delivered, actor, registered>>

\* ServerActor tells the worker; it does so in turn.
ServerTells ==
  /\ dm.connected
  /\ \/ SendBounded(<<"LoginSucceeded">>)
     \/ SendBounded(<<"ServerDisconnected">>)
  /\ UNCHANGED <<dm, cancel, dropped, buffered, streams, delivered, actor, registered>>

-----------------------------------------------------------------------------
(* The worker: handle_operation on the first operation of the channel. *)

Receives(kind) ==
  /\ ops # <<>> /\ Head(ops)[1] = kind
  /\ ops' = Tail(ops)

\* Mutant: a login does not drain the queue.
ServerArmUndrained ==
  /\ \/ Receives("ServerDisconnected") /\ dm' = DM!OnServerDisconnected(dm)
     \/ Receives("LoginSucceeded")     /\ dm' = [dm EXCEPT !.logged_in = TRUE]
  /\ UNCHANGED <<streams, actor, registered>>

ServerArm ==
  /\ \/ Receives("ServerDisconnected") /\ dm' = DM!OnServerDisconnected(dm)
     \/ Receives("LoginSucceeded")     /\ dm' \in DM!OnLoginSucceeded(dm)
  /\ UNCHANGED <<streams, actor, registered>>

DownloadArm ==
  /\ \/ Receives("RequestDownload")         /\ dm' = DM!Enqueue(dm, Head(ops)[2])
     \/ Receives("DownloadCompleted")       /\ dm' = DM!OnCompleted(dm, Head(ops)[2], Head(ops)[3])
     \/ Receives("CancelDownload")          /\ dm' = DM!OnCancel(dm, Head(ops)[2])
     \/ Receives("DownloadResponseTimeout") /\ dm' = DM!OnTimeout(dm, Head(ops)[2])
  /\ UNCHANGED <<streams, actor, registered>>

\* values_mut().find(...): any one of the matching downloads, or nothing.
Found(matching, handler(_)) ==
  IF matching = {} THEN dm' = dm ELSE \E t \in matching : dm' = handler(t)

PeerMessageArm ==
  /\ \/ /\ Receives("UpdateDownloadTokens")
        /\ LET on(t) == DM!OnTransferRequest(dm, t, Head(ops)[3])
           IN  Found(DM!OfFile(dm, ThePeer, Head(ops)[2]), on)
     \/ /\ Receives("QueuePositionUpdated")
        /\ LET on(t) == DM!OnQueuePosition(dm, t)
           IN  Found(DM!OfFile(dm, ThePeer, Head(ops)[2]), on)
     \/ /\ Receives("TransferRejected")
        /\ LET on(t) == DM!OnTransferRejected(dm, t)
           IN  Found(DM!OfPeerToken(dm, Head(ops)[2]), on)
  /\ UNCHANGED <<streams, actor, registered>>

\* The download found is cloned into a transfer task (at most MaxStreams of one
\* download are followed).
StreamArm ==
  /\ Receives("QueryDownloadByToken")
  /\ LET matching == DM!OfPeerToken(dm, Head(ops)[2])
     IN  IF matching = {} THEN UNCHANGED streams
         ELSE \E t \in matching :
                LET r == dm.downloads[t].req
                IN  streams' = [streams EXCEPT ![r] = IF @ < MaxStreams THEN @ + 1 ELSE @]
  /\ UNCHANGED <<dm, actor, registered>>

\* The actor that is registered now is removed, whichever sent this.
PeerLifecycleArm ==
  /\ Receives("PeerDisconnected")
  /\ registered' = NoConn
  /\ dm' = DM!OnPeerDisconnected([dm EXCEPT !.registry = @ \ {ThePeer}], ThePeer)
  /\ UNCHANGED <<streams, actor>>

Work ==
  /\ dm.connected
  /\ ServerArm \/ DownloadArm \/ PeerMessageArm \/ StreamArm \/ PeerLifecycleArm
  /\ UNCHANGED <<cancel, dropped, buffered, delivered>>

-----------------------------------------------------------------------------
Caller == \E r \in Request : \/ DownloadBeforeConnect(r) \/ Download(r)
                             \/ HandleCancel(r) \/ HandleDrop(r)
Tasks  == \/ \E t \in Token : TimerFires(t)
          \/ \E r \in Request : \E result \in DM!Terminal : StreamEnds(r, result)
          \/ \E c \in Conn : PeerConnects(c) \/ PeerDrops(c) \/ PeerStops(c)
Peer   == \/ \E c \in Conn : \/ \E f \in File : PeerAnswers(c, f)
                             \/ \E p \in PeerToken : PeerRejects(c, p)
          \/ \E p \in PeerToken : PeerOpensStream(p)

Next == Connect \/ Caller \/ Tasks \/ Peer \/ ServerTells \/ Work

Spec == Init /\ [][Next]_vars

\* The worker is polled.  Callers, peers, the server, timers and transfers may do
\* nothing.
Fairness == WF_vars(Work)

FairSpec == Spec /\ Fairness

-----------------------------------------------------------------------------
\* What the tasks, the channel and the peers do to the manager is something
\* DownloadManager allows, so what holds of it holds here, its type invariant and
\* the rest.
RefinesManager == DM!Spec

\* types.rs:131, "Unique token identifying this download": the caller that is
\* told Completed is one whose own file a transfer task finished writing.
CompletionIsOwn ==
  \A r \in Request : dm.shown[r] = "Completed" => r \in delivered

\* An actor that lost its connection does not stay in the registry, where it
\* would swallow QueueUploads and keep GetPeerAddress from being sent: while it
\* is there the PeerDisconnected that removes it is in the channel.
DeadPeerIsReported ==
  registered # NoConn /\ actor[registered] = "Down"
    => \E i \in DOMAIN ops : ops[i] = <<"PeerDisconnected", ThePeer>>

\* download_handle.rs:17, "Dropping this handle automatically cancels the
\* download": the manager forgets it, wherever it was in its lifecycle, when the
\* call was made on a connected client.
DroppedIsForgotten ==
  \A r \in Request :
    r \in dropped \ buffered ~> r \notin DM!Reqs(dm, Token)

=============================================================================
