----------------------------- MODULE PeerActor -----------------------------
(***************************************************************************)
(* actor/peer_actor.rs in the loop of actor/mod.rs, with its entry in      *)
(* peer_registry.rs: one messaging connection with one peer.               *)
(*                                                                         *)
(* The actor is sequential, but its handlers call each other: a signal     *)
(* handled inside drain_signals may read the socket, which extracts        *)
(* messages and drains signals again.  `todo` is its call stack, flattened *)
(* to the calls still to make; bytes and signals of the connecting task    *)
(* arrive between any two of them.                                         *)
(*                                                                         *)
(* An operator under "Mutant:" is no part of the model: it is the operator *)
(* after it with a plausible bug.                                          *)
(***************************************************************************)
EXTENDS PeerSocket, FiniteSets

CONSTANTS
  Command,     \* PeerCommands sent to the actor
  MaxReports   \* bound of the model: PeerDisconnected sent by ticks

ASSUME ReportsAssumption == MaxReports \in Nat

VARIABLES
  task,        \* "None", "Spawned", "Running" or "Ended"
  connection,  \* connection_state
  stream,      \* the actor holds the stream
  handshake,   \* needs_handshake
  dial,        \* the spawned connect: "None", "Dialing" or "Done"
  dispatcher,  \* the dispatcher is there
  signals,     \* signal_rx
  todo,        \* calls still to make
  queued,      \* queued_commands
  mailbox,     \* the receiver of the actor loop
  accepted,    \* commands put in the mailbox, in order
  written,     \* messages written to the stream, in order
  history,     \* messages handled and PeerDisconnected sent, in order
  named,       \* peer.username is the name the registry has
  registered   \* the registry holds this actor's handle

lifeVars     == <<task, dial, handshake, named>>
registryVars == <<mailbox, accepted, registered>>
outVars      == <<stream, written, history>>
callVars     == <<connection, dispatcher, signals, todo, queued>>

actorVars == <<lifeVars, registryVars, outVars, callVars>>

ActorInit ==
  /\ task = "None" /\ connection = "Disconnected"
  /\ stream = FALSE /\ handshake = FALSE
  /\ dial = "None" /\ dispatcher = FALSE
  /\ signals = <<>> /\ todo = <<>> /\ queued = <<>> /\ mailbox = <<>>
  /\ accepted = <<>> /\ written = <<>> /\ history = <<>>
  /\ named = TRUE /\ registered = FALSE

-----------------------------------------------------------------------------
(* Signals, and the calls a handler makes. *)

ProcessRead == <<"ProcessRead">>
Established == <<"ConnectionEstablished">>
Failed      == <<"ConnectionFailed">>
TryRead     == <<"TryRead">>      \* process_read after its first extraction
FirstRead   == <<"FirstRead">>    \* the end of on_connection_established
EndOfTick   == <<"EndOfTick">>    \* tick after drain_signals
Message(n)  == <<"Message", n>>   \* the signal of the n-th item of the script
Write(c)    == <<"Write", c>>     \* handle_command

Signal == {Established, Failed, ProcessRead} \cup {Message(n) : n \in DOMAIN script}
Asked  == {Write(c) : c \in Command}

Stop   == <<"Stop">>
Closed == <<"Closed">>            \* every handle was dropped

\* The messages that have a handler, by the name of the protocol.  The handler
\* registered for code 43 reads a QueueUpload as a place in the queue; nobody
\* handles code 44, PlaceInQueueResponse.  UploadFailed is logged.
Handled == {"FileSearchResponse", "TransferRequest", "TransferResponse",
            "GetShareFileList", "QueueUpload", "PeerInit"}

\* Those we answer.
Answered == {"TransferRequest", "GetShareFileList"}

\* The numbers of a finite set, in ascending order.
Ascending(S) ==
  [i \in 1 .. Cardinality(S) |-> CHOOSE n \in S : Cardinality({m \in S : m <= n}) = i]

\* extract_and_process_messages when t units were read: the signals its
\* messages lead to.
NewSignals(t) ==
  LET whole == Ascending({n \in extracted + 1 .. Whole(t) : dispatcher /\ script[n] \in Handled})
  IN  [i \in DOMAIN whole |-> Message(whole[i])]

PeerDisconnected == <<"PeerDisconnected", named>>

\* disconnect(): the stream is dropped and the worker told; connection_state
\* stays as it is.
Disconnect(h) ==
  /\ stream' = FALSE
  /\ history' = Append(h, PeerDisconnected)

\* send_message: nothing when there is no stream; a write that would block, or is
\* partial, loses the message; an error is a disconnection.
Send(out, h) ==
  \/ ~stream /\ history' = h /\ UNCHANGED <<stream, written>>
  \/ stream /\ written' = Append(written, out) /\ history' = h /\ UNCHANGED stream
  \/ stream /\ history' = h /\ UNCHANGED <<stream, written>>
  \/ stream /\ remote # "Open" /\ Disconnect(h) /\ UNCHANGED written

Running  == task = "Running"
Idle     == Running /\ todo = <<>>
Calls(c) == Running /\ todo # <<>> /\ Head(todo) = c

-----------------------------------------------------------------------------
(* PeerRegistry::register_peer, and the task it spawns. *)

Register(withStream) ==
  /\ task = "None"
  /\ task' = "Spawned"
  /\ stream' = withStream /\ handshake' = ~withStream
  /\ connection' = IF withStream THEN "Connected" ELSE "Disconnected"
  /\ registered' = TRUE
  /\ UNCHANGED <<dial, named, mailbox, accepted, written, history, dispatcher, signals,
                 todo, queued>>

\* on_start; the address may not parse.
OnStart ==
  /\ task = "Spawned"
  /\ task' = "Running"
  /\ \/ /\ stream
        /\ todo' = <<Established>>
        /\ UNCHANGED <<connection, dial, outVars>>
     \/ /\ ~stream
        /\ connection' = "Connecting" /\ dial' = "Dialing"
        /\ UNCHANGED <<todo, outVars>>
     \/ /\ ~stream
        /\ Disconnect(history)
        /\ UNCHANGED <<connection, dial, todo, written>>
  /\ UNCHANGED <<socketVars, registryVars, handshake, named, dispatcher, signals, queued>>

\* The connecting task: the peer may not answer within five seconds.
Dialed ==
  /\ dial = "Dialing"
  /\ dial' = "Done"
  /\ \/ remote' = "Open" /\ signals' = Append(signals, Established)
     \/ UNCHANGED remote /\ signals' = Append(signals, Failed)
  /\ UNCHANGED <<script, arrived, taken, extracted>>
  /\ UNCHANGED <<task, handshake, named, registryVars, outVars, connection, dispatcher, todo,
                 queued>>

\* send_to_peer, as queue_upload does.
SendToPeer(c) ==
  /\ registered
  /\ \A i \in DOMAIN accepted : accepted[i] # Write(c)
  /\ mailbox' = Append(mailbox, Write(c))
  /\ accepted' = Append(accepted, Write(c))
  /\ UNCHANGED <<socketVars, lifeVars, outVars, callVars, registered>>

\* Mutant: the actor is taken from the registry and not stopped.
RemovePeerOnly ==
  /\ registered
  /\ \E i \in DOMAIN history : history[i] = <<"PeerDisconnected", TRUE>>
  /\ registered' = FALSE
  /\ UNCHANGED <<socketVars, lifeVars, outVars, callVars, mailbox, accepted>>

\* The worker handles a PeerDisconnected with this name: remove_peer and stop.
RemovePeer ==
  /\ registered
  /\ \E i \in DOMAIN history : history[i] = <<"PeerDisconnected", TRUE>>
  /\ registered' = FALSE
  /\ mailbox' = Append(mailbox, Stop)
  /\ UNCHANGED <<socketVars, lifeVars, outVars, callVars, accepted>>

\* A second connection of the peer is registered: insert drops the handle.
Overwritten ==
  /\ registered
  /\ registered' = FALSE
  /\ mailbox' = Append(mailbox, Closed)
  /\ UNCHANGED <<socketVars, lifeVars, outVars, callVars, accepted>>

-----------------------------------------------------------------------------
(* run_actor_loop takes the next thing to do. *)

\* Mutant: a command is written whatever the connection's state.
HandleUnqueued ==
  /\ Idle
  /\ mailbox # <<>> /\ Head(mailbox) \in Asked
  /\ mailbox' = Tail(mailbox)
  /\ Send(Head(mailbox), history)
  /\ UNCHANGED <<socketVars, lifeVars, callVars, accepted, registered>>

\* handle: a command waits only while the connection is being made.
Handle ==
  /\ Idle
  /\ mailbox # <<>> /\ Head(mailbox) \in Asked
  /\ mailbox' = Tail(mailbox)
  /\ IF connection = "Connecting"
     THEN queued' = Append(queued, Head(mailbox)) /\ UNCHANGED outVars
     ELSE Send(Head(mailbox), history) /\ UNCHANGED queued
  /\ UNCHANGED <<socketVars, lifeVars, connection, dispatcher, signals, todo, accepted,
                 registered>>

\* The loop ends: a Stop, a closed mailbox, or shutdown(); on_stop disconnects.
Finish ==
  /\ Idle
  /\ task' = "Ended"
  /\ mailbox' = <<>>
  /\ Disconnect(history)
  /\ UNCHANGED <<socketVars, dial, handshake, named, written, callVars, accepted, registered>>

ReceiveStop == mailbox # <<>> /\ Head(mailbox) \in {Stop, Closed} /\ Finish
Shutdown    == Finish

\* tick, every 100 ms.
Tick ==
  /\ Idle
  /\ todo' = signals \o <<EndOfTick>>
  /\ signals' = <<>>
  /\ UNCHANGED <<socketVars, lifeVars, registryVars, outVars, connection, dispatcher, queued>>

-----------------------------------------------------------------------------
(* The calls still to make, one at a time. *)

Rest == Tail(todo)

\* Mutant: drain_signals takes the last signal first.
DrainReversed(more, after) ==
  LET all == signals \o more
  IN  /\ todo' = [i \in DOMAIN all |-> all[Len(all) + 1 - i]] \o after
      /\ signals' = <<>>

\* drain_signals, after the messages `more` were dispatched: all that wait are
\* taken out before the first is handled.
Drain(more, after) ==
  /\ todo' = signals \o more \o after
  /\ signals' = <<>>

\* process_read: what is in the reader already comes first.
OnProcessRead ==
  /\ Calls(ProcessRead)
  /\ IF taken > 2 * extracted
     THEN /\ extracted' = Whole(taken)
          /\ Drain(NewSignals(taken), <<TryRead>> \o Rest)
     ELSE todo' = <<TryRead>> \o Rest /\ UNCHANGED <<extracted, signals>>
  /\ UNCHANGED <<script, arrived, taken, remote>>
  /\ UNCHANGED <<lifeVars, registryVars, outVars, connection, dispatcher, queued>>

\* try_read: bytes, nothing yet, the end, or an error.
OnTryRead ==
  /\ Calls(TryRead)
  /\ \/ /\ ~stream
        /\ todo' = Rest
        /\ UNCHANGED <<taken, extracted, signals, outVars>>
     \/ /\ stream
        /\ \E n \in Readable :
             /\ taken' = taken + n
             /\ extracted' = Whole(taken + n)
             /\ Drain(NewSignals(taken + n), Rest)
        /\ UNCHANGED outVars
     \/ /\ stream /\ arrived = taken /\ remote = "Open"
        /\ Drain(<<>>, Rest)
        /\ UNCHANGED <<taken, extracted, outVars>>
     \/ /\ stream
        /\ remote = "Reset" \/ (remote = "Eof" /\ arrived = taken)
        /\ Disconnect(history)
        /\ todo' = Rest
        /\ UNCHANGED <<taken, extracted, signals, written>>
  /\ UNCHANGED <<script, arrived, remote>>
  /\ UNCHANGED <<lifeVars, registryVars, connection, dispatcher, queued>>

\* on_connection_established: the handshake when we dialled, then the queued
\* commands.
OnEstablished ==
  /\ Calls(Established)
  /\ connection' = "Connected"
  /\ \/ /\ stream' = TRUE
        /\ dispatcher' = TRUE
        /\ written' = written \o (IF handshake THEN <<<<"PierceFireWall">>>> ELSE <<>>)
        /\ queued' = <<>>
        /\ todo' = queued \o <<FirstRead>> \o Rest
        /\ UNCHANGED history
     \/ /\ handshake /\ remote # "Open"
        /\ Disconnect(history)
        /\ todo' = Rest
        /\ UNCHANGED <<dispatcher, written, queued>>
  /\ UNCHANGED <<socketVars, lifeVars, registryVars, signals>>

\* It sends itself ProcessRead and reads at once: that signal is drained before
\* the messages this read finds.
OnFirstRead ==
  /\ Calls(FirstRead)
  /\ signals' = Append(signals, ProcessRead)
  /\ todo' = <<ProcessRead>> \o Rest
  /\ UNCHANGED <<socketVars, lifeVars, registryVars, outVars, connection, dispatcher, queued>>

OnFailed ==
  /\ Calls(Failed)
  /\ Disconnect(history)
  /\ todo' = Rest
  /\ UNCHANGED <<socketVars, lifeVars, registryVars, written, connection, dispatcher,
                 signals, queued>>

OnWrite ==
  /\ Running /\ todo # <<>> /\ Head(todo) \in Asked
  /\ Send(Head(todo), history)
  /\ todo' = Rest
  /\ UNCHANGED <<socketVars, lifeVars, registryVars, connection, dispatcher, signals, queued>>

\* handle_signal for a message: the worker is told, the peer answered, or the
\* peer's name changed.
OnMessage ==
  /\ Running /\ todo # <<>>
  /\ \E n \in DOMAIN script :
       /\ Head(todo) = Message(n)
       /\ IF script[n] \in Answered
          THEN Send(<<"Answer", n>>, Append(history, Message(n)))
          ELSE history' = Append(history, Message(n)) /\ UNCHANGED <<stream, written>>
       /\ named' = (named /\ script[n] # "PeerInit")
  /\ todo' = Rest
  /\ UNCHANGED <<socketVars, task, dial, handshake, registryVars, connection, dispatcher,
                 signals, queued>>

Reports == Cardinality({i \in DOMAIN history : history[i][1] = "PeerDisconnected"})

\* The end of tick.  The connecting task ends within five seconds, so that a
\* connection still being made after ten is one that failed; every later tick
\* reports it again.
OnEndOfTick ==
  /\ Calls(EndOfTick)
  /\ \/ /\ connection = "Connected" /\ stream
        /\ todo' = <<ProcessRead>> \o Rest
        /\ UNCHANGED outVars
     \/ /\ connection = "Connecting" /\ dial = "Done" /\ Reports < MaxReports
        /\ Disconnect(history)
        /\ todo' = Rest /\ UNCHANGED written
     \/ /\ ~(connection = "Connected" /\ stream)
        /\ todo' = Rest
        /\ UNCHANGED outVars
  /\ UNCHANGED <<socketVars, lifeVars, registryVars, connection, dispatcher, signals, queued>>

-----------------------------------------------------------------------------
Call == \/ OnProcessRead \/ OnTryRead \/ OnEstablished \/ OnFirstRead \/ OnFailed
        \/ OnWrite \/ OnMessage \/ OnEndOfTick

ActorNext ==
  \/ OnStart \/ Dialed \/ RemovePeer \/ Overwritten
  \/ \E c \in Command : SendToPeer(c)
  \/ Handle \/ ReceiveStop \/ Shutdown \/ Tick \/ Call

\* The task is polled, its timer fires, and the worker gets to the operations the
\* actor sent.  Peers, callers and shutdown may do nothing.
ActorFairness ==
  /\ WF_<<socketVars, actorVars>>(OnStart) /\ WF_<<socketVars, actorVars>>(Dialed)
  /\ WF_<<socketVars, actorVars>>(Call)
  /\ SF_<<socketVars, actorVars>>(Tick)
  /\ SF_<<socketVars, actorVars>>(Handle \/ ReceiveStop)
  /\ WF_<<socketVars, actorVars>>(RemovePeer)

-----------------------------------------------------------------------------
\* Where the commands and the messages stand in a sequence.
Commands(s) == {i \in DOMAIN s : s[i][1] = "Write"}
Messages(s) == {i \in DOMAIN s : s[i][1] = "Message"}

Doing == Signal \cup Asked \cup {TryRead, FirstRead, EndOfTick}
Mail  == Asked \cup {Stop, Closed}
Sent  == Asked \cup {<<"PierceFireWall">>} \cup ({"Answer"} \X DOMAIN script)
Done  == {Message(n) : n \in DOMAIN script} \cup ({"PeerDisconnected"} \X BOOLEAN)

ActorTypeOK ==
  /\ task \in {"None", "Spawned", "Running", "Ended"}
  /\ connection \in {"Disconnected", "Connecting", "Connected"}
  /\ {stream, handshake, dispatcher, named, registered} \subseteq BOOLEAN
  /\ dial \in {"None", "Dialing", "Done"}
  /\ signals \in Seq(Signal) /\ todo \in Seq(Doing)
  /\ queued \in Seq(Asked) /\ accepted \in Seq(Asked) /\ mailbox \in Seq(Mail)
  /\ written \in Seq(Sent) /\ history \in Seq(Done)

\* Every message that was taken out of the reader and has a handler is handled
\* once: none is lost between the reader, the signal channel and the nested
\* reads, and none is handled twice.
HandledOnce ==
  LET all == history \o todo \o signals
  IN  \A n \in 1 .. extracted :
        script[n] \in Handled
          => \E i \in DOMAIN all : \A j \in DOMAIN all : all[j] = Message(n) <=> j = i

\* The messages of a peer are handled in the order it sent them, but for one
\* exception: those found by the first read, which the ProcessRead sent just
\* before overtakes.  Handling goes back only to the very first message.
OvertakenOnlyAtStart ==
  LET all == history \o todo
  IN  \A i, j \in Messages(all) :
        /\ i < j /\ Messages(all) \cap (i + 1 .. j - 1) = {}
        /\ all[i][2] > all[j][2]
        => \A k \in Messages(all) : all[j][2] <= all[k][2]

\* Commands given while the connection is made wait for it, none is lost; they
\* are written in the order they were given, after the handshake.
CommandsFollowHandshake ==
  /\ task = "Running" /\ connection = "Connecting"
       => \E end \in {<<>>, <<Stop>>, <<Closed>>} : queued \o mailbox = accepted \o end
  /\ handshake /\ written # <<>> => written[1] = <<"PierceFireWall">>
  /\ \A i, j \in Commands(written) :
       i < j => \E k, l \in DOMAIN accepted :
                  k < l /\ accepted[k] = written[i] /\ accepted[l] = written[j]

\* An actor whose connection is gone, or was never made, ends: it tells the
\* worker, which takes it from the registry and stops it.  A peer that changed its
\* name on the way is not found there.
DeadPeerIsDismissed ==
  task = "Running" /\ (remote \in {"Eof", "Reset"} \/ (dial = "Done" /\ remote = "None"))
    ~> task = "Ended" \/ ~named

=============================================================================
