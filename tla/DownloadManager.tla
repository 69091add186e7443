-------------------------- MODULE DownloadManager --------------------------
(***************************************************************************)
(* client/download_manager.rs: the queue, the concurrency slots and the    *)
(* lifecycle of every download of one connection.                          *)
(*                                                                         *)
(* The ConnectedWorker runs the handlers below one at a time, so a handler *)
(* is one atomic step.  What is concurrent is everything that CALLS them:  *)
(* user threads, peer actors, the server actor, transfer tasks and the     *)
(* timeout tasks the manager spawns.  This module is the open system: any  *)
(* operation may arrive at any moment with any argument.  ConnectedWorker  *)
(* closes it with the operation channel and the tasks.                     *)
(*                                                                         *)
(* A handler is a chain of calls on &mut self; it is written here as an    *)
(* operator from the manager's record to the next one.                     *)
(*                                                                         *)
(* An operator under "Mutant:" is no part of the model: it is the operator *)
(* after it with a bug a change to the code could bring in, and the        *)
(* property of the same line in PROJECT.json is what notices.              *)
(***************************************************************************)
EXTENDS Integers, FiniteSets

CONSTANTS
  Request,       \* calls of Client::download: one Download object each
  File,          \* remote paths
  User,          \* peers
  Token,         \* DownloadToken: 20 bits of the md5 of the path
  PeerToken,     \* PeerTransferToken: chosen by the uploading peer
  FileOf,        \* [Request -> File]
  UserOf,        \* [Request -> User]
  TokenOf,       \* [File -> Token], the truncated hash
  MaxConcurrent, \* Option<u32>: a number, or Unlimited for None
  Unlimited,
  NoDownload,    \* absence of an entry in the downloads map
  NoPeerToken,   \* peer_token: None
  Results,       \* statuses a DownloadCompleted can carry
  MaxDue         \* bound of the model: timeouts of one token in the channel;
                 \* Unlimited where the channel is modelled

ASSUME FiniteAssumption == IsFiniteSet(Token) /\ IsFiniteSet(Request)
ASSUME CallAssumption  == /\ FileOf \in [Request -> File]
                          /\ UserOf \in [Request -> User]
                          /\ TokenOf \in [File -> Token]
ASSUME LimitAssumption == /\ MaxConcurrent \in Nat \cup {Unlimited}
                          /\ Unlimited \notin Nat
ASSUME BoundAssumption == MaxDue \in Nat \cup {Unlimited}

Terminal == {"Completed", "Failed", "TimedOut", "Cancelled"}
Waiting  == {"QueuedLocally", "QueuedRemotely"}

ASSUME ResultAssumption == Results \subseteq Terminal

\* What the caller has seen last on its status channel.  "NotRequested": the
\* call has not been made; "Nothing": made, no status sent yet.
Shown == {"NotRequested", "Nothing"} \cup Waiting \cup Terminal

\* timer: queue_timeout_handle holds the handle of a task still sleeping.
Download == [req        : Request,
             status     : Waiting,
             peer_token : PeerToken \cup {NoPeerToken},
             timer      : BOOLEAN]

ASSUME SentinelAssumption == /\ NoDownload \notin Download
                             /\ NoPeerToken \notin PeerToken

TokenFor(r) == TokenOf[FileOf[r]]

VARIABLES
  dm,  \* the manager, its timer tasks and what it told the outside
  due  \* [Token -> Nat]: DownloadResponseTimeout(token) sent, not handled

vars == <<dm, due>>

\* The VecDeque pending is a set of entries stamped in order of arrival: the
\* front is the lowest stamp, retain() is a set difference.
Entry == [stamp : Nat, token : Token]

Manager == [connected    : BOOLEAN,
            logged_in    : BOOLEAN,
            pending      : SUBSET Entry,
            active_slots : SUBSET Token,
            downloads    : [Token -> Download \cup {NoDownload}],
            strays       : [Token -> Nat],   \* sleeping tasks no handle refers to
            registry     : SUBSET User,      \* peer_registry: users with an actor
            asked        : SUBSET Request,   \* QueueUpload put in the peer's mailbox
            shown        : [Request -> Shown]]

TypeOK == dm \in Manager /\ due \in [Token -> Nat]

Init ==
  /\ dm = [connected    |-> FALSE,
           logged_in    |-> FALSE,
           pending      |-> {},
           active_slots |-> {},
           downloads    |-> [t \in Token |-> NoDownload],
           strays       |-> [t \in Token |-> 0],
           registry     |-> {},
           asked        |-> {},
           shown        |-> [r \in Request |-> "NotRequested"]]
  /\ due = [t \in Token |-> 0]

-----------------------------------------------------------------------------
(* Pieces the handlers share. *)

Known(m) == {t \in Token : m.downloads[t] # NoDownload}

Reqs(m, T) == {m.downloads[t].req : t \in T \cap Known(m)}

\* Mutant: Client::download creates the Download with the status of a transfer.
NewDownloadInProgress(r) == [req |-> r, status |-> "InProgress",
                             peer_token |-> NoPeerToken, timer |-> FALSE]

NewDownload(r) == [req |-> r, status |-> "QueuedLocally",
                   peer_token |-> NoPeerToken, timer |-> FALSE]

\* sender.send(s) on the channels of the callers in R
Tell(m, R, s) ==
  [m EXCEPT !.shown = [r \in Request |-> IF r \in R THEN s ELSE m.shown[r]]]

LiveTimer(m, t) ==
  IF m.downloads[t] # NoDownload /\ m.downloads[t].timer THEN 1 ELSE 0

\* Mutant: <= for <.
HasRoomAtTheLimit(slots) ==
  MaxConcurrent = Unlimited \/ Cardinality(slots) <= MaxConcurrent

HasRoom(slots) == MaxConcurrent = Unlimited \/ Cardinality(slots) < MaxConcurrent

\* Dropping an AbortHandle does not abort its task: the timer becomes a stray.
Stray(m, t) == [m EXCEPT !.strays[t] = @ + LiveTimer(m, t)]

\* downloads.insert(token, download)
Insert(m, r) ==
  LET t == TokenFor(r)
  IN  [Stray(m, t) EXCEPT !.downloads[t] = NewDownload(r)]

\* pending.push_back(token).  A call pushes at most one entry, so the number of
\* calls made so far stamps it.
PushBack(m, t) ==
  LET now == Cardinality({r \in Request : m.shown[r] # "NotRequested"})
  IN  [m EXCEPT !.pending = @ \cup {[stamp |-> now, token |-> t]}]

\* pending.retain(|t| not in T)
Unqueue(m, T) == [m EXCEPT !.pending = {e \in @ : e.token \notin T}]

\* Mutant: a path out of the map that forgets active_slots.remove.
DropKeepingSlots(m, T) ==
  [m EXCEPT !.downloads = [t \in Token |-> IF t \in T THEN NoDownload ELSE @[t]]]

\* downloads.remove, abort of the timer, active_slots.remove for the tokens in T
Drop(m, T) ==
  [m EXCEPT !.downloads    = [t \in Token |-> IF t \in T THEN NoDownload ELSE @[t]],
            !.active_slots = @ \ T]

\* Mutant: downloads.get instead of downloads.remove.
AbandonKeepingDownload(m, t) ==
  [Stray(m, t) EXCEPT !.active_slots = @ \ {t}]

\* The same for one token, by the two handlers that never abort the timer.
Abandon(m, t) == Drop(Stray(m, t), {t})

-----------------------------------------------------------------------------
(* Starting downloads. *)

\* try_initiate for each entry of E; an entry whose token is in no download is
\* spent without effect.  A second try_initiate of a token replaces its handle,
\* so the first timer goes on as a stray.
TryInitiate(m, E) ==
  LET started == {e.token : e \in E} \cap Known(m)
      hits(t) == Cardinality({e \in E : e.token = t})
  IN  [m EXCEPT
         !.active_slots = @ \cup started,
         !.asked        = @ \cup {r \in Reqs(m, started) : UserOf[r] \in m.registry},
         !.strays       = [t \in Token |->
                             IF t \in started
                             THEN m.strays[t] + LiveTimer(m, t) + hits(t) - 1
                             ELSE m.strays[t]],
         !.downloads    = [t \in Token |->
                             IF t \in started
                             THEN [m.downloads[t] EXCEPT !.status = "QueuedLocally",
                                                         !.timer  = TRUE]
                             ELSE m.downloads[t]]]

\* pop_front, then try_initiate, for the entries in E
Start(m, E) == TryInitiate([m EXCEPT !.pending = @ \ E], E)

\* Mutant: no check of logged_in.
TryDequeueNextOffline(m) ==
  IF HasRoom(m.active_slots) /\ m.pending # {}
  THEN Start(m, {CHOOSE e \in m.pending : \A f \in m.pending : e.stamp <= f.stamp})
  ELSE m

TryDequeueNext(m) ==
  IF m.logged_in /\ HasRoom(m.active_slots) /\ m.pending # {}
  THEN Start(m, {CHOOSE e \in m.pending : \A f \in m.pending : e.stamp <= f.stamp})
  ELSE m

\* drain_pending_queue pops until the slots are full or the queue is empty.  e
\* is the last entry it pops: there was room before it, and none, or nothing
\* left, after it.
DrainEndsWith(m, e) ==
  LET before   == {f \in m.pending : f.stamp < e.stamp}
      slots(E) == m.active_slots \cup ({f.token : f \in E} \cap Known(m))
  IN  /\ HasRoom(slots(before))
      /\ \/ m.pending = before \cup {e}
         \/ ~HasRoom(slots(before \cup {e}))

\* Mutant: pop_back for pop_front.
DrainFromTheBack(m) ==
  IF m.pending = {} \/ ~HasRoom(m.active_slots)
  THEN {m}
  ELSE {Start(m, {f \in m.pending : f.stamp > e.stamp} \cup {e}) :
          e \in {g \in m.pending : DrainEndsWith(m, g)}}

\* The one state drain_pending_queue leaves, as a set.
DrainPendingQueue(m) ==
  IF m.pending = {} \/ ~HasRoom(m.active_slots)
  THEN {m}
  ELSE {Start(m, {f \in m.pending : f.stamp < e.stamp} \cup {e}) :
          e \in {g \in m.pending : DrainEndsWith(m, g)}}

-----------------------------------------------------------------------------
(* The handlers. *)

\* Client::download before connect(), with connect()'s transfer of the buffer
\* into the new manager: no status is sent.
Buffer(m, r) == PushBack(Insert(Tell(m, {r}, "Nothing"), r), TokenFor(r))

Enqueue(m, r) ==
  LET t        == TokenFor(r)
      inserted == Insert(Tell(m, {r}, "QueuedLocally"), r)
  IN  IF m.logged_in /\ HasRoom(m.active_slots)
      THEN TryInitiate(inserted, {[stamp |-> 0, token |-> t]})
      ELSE PushBack(inserted, t)

\* result decides the status: Ok, DownloadCancelled, DownloadTimedOut, any other
\* error are Completed, Cancelled, TimedOut, Failed.
OnCompleted(m, t, status) ==
  TryDequeueNext(Abandon(Tell(m, Reqs(m, {t}), status), t))

\* fail_matching, T the tokens of the matching downloads: it may free several
\* slots and calls try_dequeue_next once.
FailMatching(m, T) ==
  IF T = {} THEN m
  ELSE TryDequeueNext(Drop(Unqueue(Tell(m, Reqs(m, T), "Failed"), T), T))

OfUser(m, u)     == {t \in Known(m) : UserOf[m.downloads[t].req] = u}
OfFile(m, u, f)  == {t \in OfUser(m, u) : FileOf[m.downloads[t].req] = f}
OfPeerToken(m, p) == {t \in Known(m) : m.downloads[t].peer_token = p}

OnPeerDisconnected(m, u) == FailMatching(m, OfUser(m, u))
OnUploadFailed(m, u, f)  == FailMatching(m, OfFile(m, u, f))

OnCancel(m, t) ==
  LET unqueued == Unqueue(m, {t})
      dropped  == Drop(Tell(unqueued, Reqs(m, {t}), "Cancelled"), {t})
  IN  IF t \notin Known(m) THEN unqueued
      ELSE IF t \in m.active_slots THEN TryDequeueNext(dropped)
      ELSE dropped

OnTimeout(m, t) ==
  LET gone == Abandon(Tell(m, Reqs(m, {t}), "TimedOut"), t)
  IN  IF t \notin Known(m) \/ m.downloads[t].status # "QueuedLocally" THEN m
      ELSE IF t \in m.active_slots THEN TryDequeueNext(gone)
      ELSE gone

\* The three messages that move a download to QueuedRemotely: the timer is
\* aborted, and all but the first of them arm a new one.
ToQueuedRemotely(m, t, peer_token, rearm) ==
  [Tell(m, Reqs(m, {t}), "QueuedRemotely") EXCEPT
     !.downloads[t] = [@ EXCEPT !.status     = "QueuedRemotely",
                                !.peer_token = peer_token,
                                !.timer      = rearm]]

\* Mutants of on_transfer_request: the status is left at QueuedLocally; the slot
\* is given back as soon as the peer answers.
OnTransferRequestKeepingStatus(m, t, p) ==
  [m EXCEPT !.downloads[t] = [@ EXCEPT !.peer_token = p, !.timer = FALSE]]
OnTransferRequestFreeingSlot(m, t, p) ==
  [ToQueuedRemotely(m, t, p, FALSE) EXCEPT !.active_slots = @ \ {t}]

OnTransferRequest(m, t, p) == ToQueuedRemotely(m, t, p, FALSE)
OnQueuePosition(m, t)      == ToQueuedRemotely(m, t, m.downloads[t].peer_token, TRUE)
OnTransferRejected(m, t)   == ToQueuedRemotely(m, t, m.downloads[t].peer_token, TRUE)

\* Mutant: the queue does not survive the loss of the server connection.
OnServerDisconnectedClearing(m) == [m EXCEPT !.logged_in = FALSE, !.pending = {}]

OnServerDisconnected(m) == [m EXCEPT !.logged_in = FALSE]
OnLoginSucceeded(m)     == DrainPendingQueue([m EXCEPT !.logged_in = TRUE])

-----------------------------------------------------------------------------
(* The operations the worker dispatches, in any order and with any argument. *)

DownloadBeforeConnect(r) ==
  /\ ~dm.connected
  /\ dm.shown[r] = "NotRequested"
  /\ dm' = Buffer(dm, r)
  /\ UNCHANGED due

Connect ==
  /\ ~dm.connected
  /\ dm' = [dm EXCEPT !.connected = TRUE]
  /\ UNCHANGED due

RequestDownload(r) ==
  /\ dm.connected
  /\ dm.shown[r] = "NotRequested"
  /\ dm' = Enqueue(dm, r)
  /\ UNCHANGED due

DownloadCompleted(t, status) ==
  /\ dm.connected
  /\ dm' = OnCompleted(dm, t, status)
  /\ UNCHANGED due

CancelDownload(t) ==
  /\ dm.connected
  /\ dm' = OnCancel(dm, t)
  /\ UNCHANGED due

\* The task sleeping behind the handle, or one that no handle refers to, wakes.
TimerFires(t) ==
  /\ MaxDue = Unlimited \/ due[t] < MaxDue
  /\ due' = [due EXCEPT ![t] = @ + 1]
  /\ \/ /\ LiveTimer(dm, t) = 1
        /\ dm' = [dm EXCEPT !.downloads[t] = [@ EXCEPT !.timer = FALSE]]
     \/ /\ dm.strays[t] > 0
        /\ dm' = [dm EXCEPT !.strays[t] = @ - 1]

DownloadResponseTimeout(t) ==
  /\ dm.connected
  /\ due[t] > 0
  /\ due' = [due EXCEPT ![t] = @ - 1]
  /\ dm' = OnTimeout(dm, t)

\* values_mut().find(...) over a HashMap: any one of the matching downloads, and
\* nothing happens when there is none.
UpdateDownloadTokens(u, f, p) ==
  /\ dm.connected
  /\ \E t \in OfFile(dm, u, f) : dm' = OnTransferRequest(dm, t, p)
  /\ UNCHANGED due

QueuePositionUpdated(u, f) ==
  /\ dm.connected
  /\ \E t \in OfFile(dm, u, f) : dm' = OnQueuePosition(dm, t)
  /\ UNCHANGED due

TransferRejected(p) ==
  /\ dm.connected
  /\ \E t \in OfPeerToken(dm, p) : dm' = OnTransferRejected(dm, t)
  /\ UNCHANGED due

UploadFailed(u, f) ==
  /\ dm.connected
  /\ dm' = OnUploadFailed(dm, u, f)
  /\ UNCHANGED due

\* The worker removes the peer's actor from the registry before the manager
\* fails the downloads.
PeerDisconnected(u) ==
  /\ dm.connected
  /\ dm' = OnPeerDisconnected([dm EXCEPT !.registry = @ \ {u}], u)
  /\ UNCHANGED due

PeerRegistered(u) ==
  /\ dm.connected
  /\ dm' = [dm EXCEPT !.registry = @ \cup {u}]
  /\ UNCHANGED due

ServerDisconnected ==
  /\ dm.connected
  /\ dm' = OnServerDisconnected(dm)
  /\ UNCHANGED due

LoginSucceeded ==
  /\ dm.connected
  /\ dm' \in OnLoginSucceeded(dm)
  /\ UNCHANGED due

UserCall == \E r \in Request : DownloadBeforeConnect(r) \/ RequestDownload(r)

TokenEvent ==
  \E t \in Token :
    \/ CancelDownload(t)
    \/ TimerFires(t)
    \/ DownloadResponseTimeout(t)
    \/ \E status \in Results : DownloadCompleted(t, status)

PeerEvent ==
  \/ \E u \in User : PeerDisconnected(u) \/ PeerRegistered(u)
  \/ \E u \in User, f \in File :
       \/ QueuePositionUpdated(u, f)
       \/ UploadFailed(u, f)
       \/ \E p \in PeerToken : UpdateDownloadTokens(u, f, p)
  \/ \E p \in PeerToken : TransferRejected(p)

ServerEvent == ServerDisconnected \/ LoginSucceeded

Next == UserCall \/ Connect \/ TokenEvent \/ PeerEvent \/ ServerEvent

Spec == Init /\ [][Next]_vars

-----------------------------------------------------------------------------
(* What is true in whatever order the operations arrive. *)

\* No more downloads hold a slot than concurrent_downloads allows, through every
\* path that frees one slot and starts another download in the same handler.
SlotLimit ==
  MaxConcurrent # Unlimited => Cardinality(dm.active_slots) <= MaxConcurrent

\* A slot always belongs to a download the manager still knows: none leaks when
\* a download leaves the map by completion, failure, cancellation or timeout.
SlotsHaveDownloads == dm.active_slots \subseteq Known(dm)

\* A download the manager knows either holds a slot or waits in the queue for
\* one: none is in the map and out of reach of both.
NoneForgotten ==
  \A t \in Known(dm) : t \in dm.active_slots \/ \E e \in dm.pending : e.token = t

\* A started download that the peer has not answered has a timeout coming: one
\* asleep behind its handle, a stray, or a message already in the channel.  The
\* exception is one that took the place of a started download of its token: it is
\* still in the queue, and its own timeout is armed when it leaves it.
WaitingIsTimed ==
  \A t \in dm.active_slots :
    dm.downloads[t].status = "QueuedLocally" =>
      \/ LiveTimer(dm, t) = 1 \/ dm.strays[t] > 0 \/ due[t] > 0
      \/ \E e \in dm.pending : e.token = t

\* A caller that was told the end of its download is never told anything else
\* (part of RefinesLifecycle).
TerminalIsFinal ==
  [][\A r \in Request : dm.shown[r] \in Terminal => dm'.shown[r] = dm.shown[r]]_vars

\* QueueUpload is sent only while logged in: a slot freed after the server
\* connection was lost starts nothing.
StartsOnlyLoggedIn == [][dm'.asked # dm.asked => dm'.logged_in]_vars

L == INSTANCE DownloadLifecycle WITH shown <- dm.shown, asked <- dm.asked

\* Whatever becomes of its token, slot and queue entry, each caller sees the way
\* of one download, and no entry left in the queue starts one that has ended.
RefinesLifecycle == L!Spec

\* download_manager.rs:28, "One slot per in-flight download": a download in the map
\* whose QueueUpload was sent keeps its slot until it leaves the map, whatever the
\* peer answers meanwhile.
InFlightHoldsSlot ==
  \A t \in Known(dm) : dm.downloads[t].req \in dm.asked => t \in dm.active_slots

\* From m to n, every slot that is given goes to the front of the queue, which
\* leaves no earlier entry in it, or to the call that is made in the step.
InOrder(m, n) ==
  \A t \in n.active_slots \ m.active_slots :
    \/ \E r \in Request : /\ t = TokenFor(r)
                         /\ m.shown[r] = "NotRequested" /\ n.shown[r] # "NotRequested"
    \/ \E e \in m.pending : /\ e.token = t
                            /\ \A f \in m.pending : f.stamp < e.stamp => f \notin n.pending

\* Whatever frees a slot, no download in the queue is started before one that
\* came earlier.  Only a call that was never in the queue may start past those
\* that wait in it, when it finds one of the slots that NoIdleSlot below is about.
FirstComeFirstStarted == [][InOrder(dm, dm')]_vars

-----------------------------------------------------------------------------
(* What the comments of the source say and the code does not do. *)

\* download_manager.rs:112, "Dequeue and initiate the next pending download if a
\* slot is available": after every handler, no slot is free while a download
\* waits in the queue.
NoIdleSlot ==
  dm.logged_in /\ HasRoom(dm.active_slots) =>
    \A e \in dm.pending : e.token \notin Known(dm)

=============================================================================
