---------------------------- MODULE ServerActor ----------------------------
(***************************************************************************)
(* actor/server_actor.rs: the connection to the server, the login and the  *)
(* reconnection.                                                           *)
(*                                                                         *)
(* The actor handles one command of its mailbox, or one tick, at a time; a *)
(* tick is a chain of calls (drain_signals, the login deadline, then what  *)
(* the connection state asks for), each with the outcomes the socket may   *)
(* give it.  A call is an operator from the actor's record to the set of   *)
(* records it may leave.  The socket and the server are the environment:   *)
(* a write may be lost (WouldBlock, partial), any call may fail, the       *)
(* server may accept, reject, close or say nothing.                        *)
(*                                                                         *)
(* An operator under "Mutant:" is no part of the model: it is the operator *)
(* after it with a plausible bug.                                          *)
(***************************************************************************)
EXTENDS Integers, Sequences

CONSTANTS
  Reconnecting,        \* FALSE for ReconnectSettings::Disabled
  MinDelay, MaxDelay,  \* ReconnectSettings, in seconds
  MaxAttempts,         \* max_attempts: a number, or Unlimited for None
  Unlimited,
  Never,               \* last_disconnect: None
  Width,               \* bits of the u64 the delay is computed in
  MaxElapsed,          \* bounds of the model: seconds counted since a disconnect,
  MaxTries,            \* calls of initiate_connection counted,
  MaxSearches          \* searches the client makes

ASSUME DelayAssumption   == /\ Reconnecting \in BOOLEAN
                            /\ Width \in Nat \ {0}
                            /\ MinDelay \in Nat /\ MaxDelay \in Nat
ASSUME AttemptAssumption == /\ MaxAttempts \in Nat \cup {Unlimited}
                            /\ Unlimited \notin Nat
ASSUME BoundAssumption   == /\ MaxElapsed \in Nat /\ MaxDelay <= MaxElapsed
                            /\ MaxTries \in Nat
                            /\ MaxSearches \in Nat
                            /\ Never \notin Nat

\* ServerCommands that only put a message on the wire are all "Search"; the four
\* messages that follow a login are one "Setup".
Command == {"Login", "Search"}
Message == Command \cup {"Setup"}

\* What Client::connect has been answered.
Answer == {"NotCalled", "Waiting", "Ok", "AuthenticationFailed",
           "ConnectionClosed", "Timeout"}

\* The server's side of the present connection.
Server == {"NoLogin", "HasLogin", "Accept", "Reject", "Answered"}

Actor == [task     : {"Spawned", "Running", "Stopped"},
          conn     : {"Disconnected", "Connecting", "Connected"},
          attempt  : Nat,                \* reconnect_attempt
          last     : Nat \cup {Never},   \* seconds since last_disconnect
          login    : {"NotAttempted", "Pending", "LoggedIn"},
          overdue  : BOOLEAN,            \* the 5 s of a login, the 20 s of Connecting
          queued   : Seq(Command),       \* queued_messages
          signals  : Seq(Message),       \* signal_rx: SendMessage
          answer   : Answer,
          told     : {"Nothing", "LoginSucceeded", "ServerDisconnected"},
          first    : Message \cup {"Nothing"},  \* first write on this connection
          again    : BOOLEAN,            \* the connection is a reconnection
          tries    : Nat,                \* initiate_connection since the last connection
          server   : Server,
          eof      : BOOLEAN]            \* the server has closed its end

VARIABLES srv,     \* the actor and its socket
          mailbox  \* the commands sent to it and not handled

vars == <<srv, mailbox>>

TypeOK == srv \in Actor /\ mailbox \in Seq(Command)

Init ==
  /\ srv = [task |-> "Spawned", conn |-> "Disconnected", attempt |-> 0,
            last |-> Never, login |-> "NotAttempted", overdue |-> FALSE,
            queued |-> <<>>, signals |-> <<>>, answer |-> "NotCalled",
            told |-> "Nothing", first |-> "Nothing", again |-> FALSE,
            tries |-> 0, server |-> "NoLogin", eof |-> FALSE]
  /\ mailbox = <<>>

-----------------------------------------------------------------------------
(* The backoff, in a word of Width bits. *)

WordMax == 2 ^ Width - 1
Lesser(a, b) == IF a <= b THEN a ELSE b

\* Mutant: wrapping_shl for checked_shl.
BackoffWrapping(min, max, attempt) ==
  LET exp == IF attempt = 0 THEN 0 ELSE attempt - 1
  IN  Lesser(Lesser(min * 2 ^ (exp % Width), WordMax), max)

Backoff(min, max, attempt) ==
  LET exp    == IF attempt = 0 THEN 0 ELSE attempt - 1          \* saturating_sub
      factor == IF exp < Width THEN 2 ^ exp ELSE WordMax        \* checked_shl
  IN  Lesser(Lesser(min * factor, WordMax), max)                \* saturating_mul

-----------------------------------------------------------------------------
(* disconnect_with_error and the writes. *)

\* Mutant: the attempts left are counted down.
NextAttemptDown(s) == IF s.conn = "Connected" THEN 1 ELSE s.attempt - 1

NextAttempt(s) == IF s.conn = "Connected" THEN 1 ELSE s.attempt + 1

\* Mutant: a login that was under way stays Pending.
LoginAfterLossStillPending(s) == IF s.login = "Pending" THEN "Pending" ELSE "NotAttempted"

\* mem::replace takes the credentials of a LoggedIn session with it; those of a
\* Pending login are put back.
LoginAfterLoss(s) == IF s.login = "Pending" THEN "LoggedIn" ELSE "NotAttempted"

\* Mutants of disconnect_with_error: the worker is told only when a login was
\* recorded; the time of the disconnect is not noted.
DisconnectTellingLess(s) ==
  IF s.conn = "Disconnected" THEN s
  ELSE [s EXCEPT !.conn = "Disconnected", !.attempt = NextAttempt(s), !.last = 0,
                 !.login = LoginAfterLoss(s),
                 !.told = IF s.login = "LoggedIn" THEN "ServerDisconnected" ELSE @]
DisconnectUndated(s) ==
  IF s.conn = "Disconnected" THEN s
  ELSE [s EXCEPT !.conn = "Disconnected", !.attempt = NextAttempt(s),
                 !.login = LoginAfterLoss(s), !.told = "ServerDisconnected"]

Disconnect(s) ==
  IF s.conn = "Disconnected" THEN s
  ELSE [s EXCEPT !.conn    = "Disconnected",
                 !.attempt = NextAttempt(s),
                 !.last    = 0,
                 !.login   = LoginAfterLoss(s),
                 !.answer  = IF s.login = "Pending" THEN "ConnectionClosed" ELSE @,
                 !.told    = "ServerDisconnected"]

\* The SendMessage signals are written; arrives: the server gets the Login.
Written(s, arrives) ==
  [s EXCEPT !.signals = <<>>,
            !.first   = IF @ = "Nothing" THEN s.signals[1] ELSE @,
            !.server  = IF /\ @ = "NoLogin" /\ arrives
                           /\ \E i \in DOMAIN s.signals : s.signals[i] = "Login"
                        THEN "HasLogin" ELSE @]

\* drain_signals.  Without a connection the messages are dropped; a write error
\* drops the rest of the batch.
DrainSignals(s) ==
  IF s.signals = <<>> THEN {s}
  ELSE IF s.conn # "Connected" THEN {[s EXCEPT !.signals = <<>>]}
  ELSE {Written(s, TRUE), Written(s, FALSE), Disconnect(Written(s, FALSE))}

-----------------------------------------------------------------------------
(* Logging in. *)

HandleCommand(s, cmd) ==
  [s EXCEPT !.signals = Append(@, cmd),
            !.login   = IF cmd = "Login" THEN "Pending" ELSE @,
            !.overdue = IF cmd = "Login" THEN FALSE ELSE @]

LoginStatus(s, accepted) ==
  LET settled == IF s.login # "Pending" THEN s
                 ELSE IF accepted THEN [s EXCEPT !.login = "LoggedIn", !.answer = "Ok"]
                 ELSE [s EXCEPT !.login = "NotAttempted", !.answer = "AuthenticationFailed"]
  IN  IF accepted THEN [settled EXCEPT !.told = "LoginSucceeded",
                                       !.signals = Append(@, "Setup")]
      ELSE settled

\* Mutant: the deadline answers the caller and leaves the login Pending.
LoginDeadlineKeepsPending(s) ==
  IF s.login = "Pending" /\ s.overdue THEN [s EXCEPT !.answer = "Timeout"] ELSE s

LoginDeadline(s) ==
  IF s.login = "Pending" /\ s.overdue
  THEN [s EXCEPT !.login = "NotAttempted", !.answer = "Timeout"]
  ELSE s

\* process_read.  A login response is dispatched and its signal drained in the
\* same call, after the messages already in the signal channel.  A read of 0 bytes
\* returns at once; so does a read error, after the disconnect.
ProcessRead(s) ==
  IF s.conn # "Connected" THEN {s}
  ELSE {Disconnect(s)} \cup
       (IF s.server \in {"Accept", "Reject"}
        THEN {LoginStatus(d, s.server = "Accept") :
                d \in DrainSignals([s EXCEPT !.server = "Answered"])}
        ELSE IF s.eof THEN {s}
        ELSE DrainSignals(s))

-----------------------------------------------------------------------------
(* Connecting. *)

\* initiate_connection.  Its failure calls disconnect_with_error, which returns at
\* once: the connection is Disconnected already.
InitiateConnection(s) ==
  LET tried == [s EXCEPT !.tries = Lesser(@ + 1, MaxTries)]
  IN  {Disconnect(tried),
       [tried EXCEPT !.conn = "Connecting", !.last = Never, !.overdue = FALSE]}

\* Mutant: the commands queued while offline go before the replayed login.
ReplayedLast(s) ==
  s.queued \o (IF s.login = "LoggedIn" THEN <<"Login">> ELSE <<>>)

\* The messages of on_connection_established: the login of an earlier session,
\* then the commands queued meanwhile, handled in order.
Replayed(s) ==
  (IF s.login = "LoggedIn" THEN <<"Login">> ELSE <<>>) \o s.queued

\* on_connection_established up to its process_read
OnConnectionEstablished(s) ==
  [s EXCEPT !.conn    = "Connected",
            !.attempt = 0,
            !.signals = @ \o Replayed(s),
            !.login   = IF \E i \in DOMAIN s.queued : s.queued[i] = "Login"
                        THEN "Pending" ELSE @,
            !.queued  = <<>>,
            !.overdue = FALSE,
            !.first   = "Nothing",
            !.again   = s.login = "LoggedIn",
            !.tries   = 0,
            !.server  = "NoLogin",
            !.eof     = FALSE]

\* A connection the server has closed by now is established all the same, and what
\* was queued is written at the next tick: process_read returns before it drains.
CheckConnectionStatus(s) ==
  LET e == OnConnectionEstablished(s)
  IN  {Disconnect(s)} \cup
      (IF s.overdue THEN {} ELSE ProcessRead(e) \cup ProcessRead([e EXCEPT !.eof = TRUE]))

\* Mutant: >= for > in the test of max_attempts.
GaveUpEarly(s) == MaxAttempts # Unlimited /\ s.attempt >= MaxAttempts

GaveUp(s) == MaxAttempts # Unlimited /\ s.attempt > MaxAttempts

MaybeReconnect(s) ==
  IF \/ s.login # "LoggedIn"
     \/ s.last = Never
     \/ ~Reconnecting
     \/ GaveUp(s)
     \/ s.last < Backoff(MinDelay, MaxDelay, s.attempt)
  THEN {s}
  ELSE InitiateConnection(s)

Follow(s) ==
  CASE s.conn = "Connecting"   -> CheckConnectionStatus(s)
    [] s.conn = "Connected"    -> ProcessRead(s)
    [] s.conn = "Disconnected" -> MaybeReconnect(s)

TickOutcomes(s) == UNION {Follow(LoginDeadline(d)) : d \in DrainSignals(s)}

-----------------------------------------------------------------------------
(* The steps of the actor's task. *)

OnStart ==
  /\ srv.task = "Spawned"
  /\ srv' \in InitiateConnection([srv EXCEPT !.task = "Running"])
  /\ UNCHANGED mailbox

Handle ==
  /\ srv.task = "Running"
  /\ mailbox # <<>>
  /\ mailbox' = Tail(mailbox)
  /\ srv' = IF srv.conn = "Connected"
            THEN HandleCommand(srv, Head(mailbox))
            ELSE [srv EXCEPT !.queued = Append(@, Head(mailbox))]

Tick ==
  /\ srv.task = "Running"
  /\ srv' \in TickOutcomes(srv)
  /\ UNCHANGED mailbox

\* The actor system is shut down.  The actor goes, and with it the sender of a
\* caller who still waits: connect() makes that a Timeout.
OnStop ==
  /\ srv.task = "Running"
  /\ srv' = [srv EXCEPT !.task    = "Stopped",
                        !.conn    = "Disconnected",
                        !.attempt = 0,
                        !.last    = Never,
                        !.answer  = IF @ = "Waiting" THEN "Timeout" ELSE @]
  /\ UNCHANGED mailbox

-----------------------------------------------------------------------------
(* The client. *)

\* connect() makes one ServerActor and sends it one Login.  The handle is
\* published before that, so a search may come first.
CallLogin ==
  /\ srv.task # "Stopped"
  /\ srv.answer = "NotCalled"
  /\ srv' = [srv EXCEPT !.answer = "Waiting"]
  /\ mailbox' = Append(mailbox, "Login")

\* MaxSearches bounds the searches no one has handled or written yet.
CallSearch ==
  /\ srv.task # "Stopped"
  /\ Len(mailbox) + Len(srv.queued) + Len(srv.signals) < MaxSearches
  /\ mailbox' = Append(mailbox, "Search")
  /\ UNCHANGED srv

-----------------------------------------------------------------------------
(* The server, the network and the clock. *)

Reply ==
  /\ srv.conn = "Connected" /\ srv.server = "HasLogin" /\ ~srv.eof
  /\ srv' \in {[srv EXCEPT !.server = "Accept"], [srv EXCEPT !.server = "Reject"]}
  /\ UNCHANGED mailbox

Close ==
  /\ srv.conn = "Connected" /\ ~srv.eof
  /\ srv' = [srv EXCEPT !.eof = TRUE]
  /\ UNCHANGED mailbox

DeadlinePasses ==
  /\ srv.task = "Running"
  /\ srv.login = "Pending" \/ srv.conn = "Connecting"
  /\ ~srv.overdue
  /\ srv' = [srv EXCEPT !.overdue = TRUE]
  /\ UNCHANGED mailbox

SecondPasses ==
  /\ srv.task = "Running"
  /\ srv.last # Never /\ srv.last < MaxElapsed
  /\ srv' = [srv EXCEPT !.last = @ + 1]
  /\ UNCHANGED mailbox

Next ==
  \/ OnStart \/ Handle \/ Tick \/ OnStop
  \/ CallLogin \/ CallSearch
  \/ Reply \/ Close \/ DeadlinePasses \/ SecondPasses

Spec == Init /\ [][Next]_vars

\* The runtime polls a ready task and a sleeping timer fires.  run_actor_loop makes
\* its sleep anew after every message, so the fairness of Tick says that commands
\* do not come for ever less than 100 ms apart.  The environment need not reply,
\* fail or close.  A server that answers connects for good: the
\* tick that finds it is not put off for ever.
Reconnects == Tick /\ srv.conn = "Disconnected" /\ srv'.conn = "Connecting"

Fairness == /\ WF_vars(OnStart) /\ WF_vars(Handle) /\ WF_vars(Tick)
            /\ WF_vars(DeadlinePasses) /\ WF_vars(SecondPasses)
            /\ WF_vars(Reconnects)

FairSpec == Spec /\ Fairness

-----------------------------------------------------------------------------
(* What is true of every session. *)

\* A caller waits for a login only while there is a connection to answer it: a
\* disconnect on any path, in the middle of a tick or of a read, settles it.
PendingIsConnected ==
  srv.task = "Running" /\ srv.login = "Pending" => srv.conn = "Connected"

\* Credentials kept for a reconnection can be used: whatever path led to
\* Disconnected has noted the time maybe_reconnect counts from.
KeptCredentialsAreDated ==
  srv.task = "Running" /\ srv.conn = "Disconnected" /\ srv.login = "LoggedIn"
    => srv.last # Never

\* The last thing the worker heard is never LoginSucceeded while the connection is
\* down: a login response read just before a failure is not reported after it.
WorkerNotMisled ==
  srv.task = "Running" /\ srv.told = "LoginSucceeded" => srv.conn = "Connected"

\* On a reconnection the login is the first message written, before the commands
\* queued while offline and whatever the old connection left unsent.
LoginFirst ==
  srv.conn = "Connected" /\ srv.again => srv.first \in {"Nothing", "Login"}

\* docs/ARCHITECTURE.md:141, delay = min(min_delay * 2^(attempt-1), max_delay): from
\* the attempt the actor is at, failure after failure, neither the shift nor the
\* product wraps, at and beyond the width of the word.
BackoffIsExponential ==
  \A min, max \in 0 .. WordMax : \A attempt \in srv.attempt + 1 .. srv.attempt + Width + 2 :
    Backoff(min, max, attempt) = Lesser(min * 2 ^ (attempt - 1), max)

\* A caller who waits for the server's answer to a login is answered.
PendingIsSettled ==
  srv.login = "Pending" ~> (srv.login # "Pending" \/ srv.task = "Stopped")

\* An actor that kept its credentials, and may reconnect, tries again until it
\* connects, unless it has used up max_attempts.
KeptCredentialsAreUsed ==
  (Reconnecting /\ srv.conn = "Disconnected" /\ srv.login = "LoggedIn")
    ~> (srv.conn # "Disconnected" \/ srv.task = "Stopped"
        \/ (MaxAttempts # Unlimited /\ srv.attempt > MaxAttempts))

-----------------------------------------------------------------------------
(* What the comments of the source say and the code does not do. *)

\* operation.rs:14, "Server TCP connection was lost; reconnect will be handled by
\* ServerActor": a session that was logged in keeps what the reconnection needs.
LostSessionIsKept ==
  [][srv.conn = "Connected" /\ srv.login = "LoggedIn"
       /\ srv'.conn = "Disconnected" /\ srv'.task = "Running"
     => srv'.login = "LoggedIn"]_vars

\* settings.rs:29, "The maximum number of attempts to reconnect": with a maximum of
\* n there are no more than n attempts between two connections.
AttemptsAreLimited ==
  MaxAttempts # Unlimited /\ srv.told = "ServerDisconnected" => srv.tries <= MaxAttempts

\* client/mod.rs:87, "Blocks until login succeeds or fails": connect() returns.
ConnectReturns == srv.answer = "Waiting" ~> srv.answer # "Waiting"

=============================================================================
