------------------------- MODULE ServerActorProofs -------------------------
(***************************************************************************)
(* Proofs about ServerActor, for any settings and any number of commands.  *)
(***************************************************************************)
EXTENDS ServerActor, FiniteSetTheorems, SequenceTheorems, TLAPS

\* What every call the running actor makes relies on, and leaves true.
Coherent(s) ==
  /\ s \in Actor
  /\ s.task = "Running"
  /\ s.login = "Pending" => s.conn = "Connected"
  /\ s.conn = "Disconnected" /\ s.login = "LoggedIn" => s.last # Never /\ s.attempt = 1
  /\ s.told = "LoginSucceeded" => s.conn = "Connected"

Inv ==
  /\ TypeOK
  /\ srv.task = "Running" => Coherent(srv)
  /\ srv.task = "Spawned" => /\ srv.conn = "Disconnected"
                             /\ srv.login = "NotAttempted"
                             /\ srv.told = "Nothing"

-----------------------------------------------------------------------------
(* The calls of a tick. *)

LEMMA DisconnectIsCoherent ==
  ASSUME NEW s, Coherent(s)
  PROVE  Coherent(Disconnect(s))
<1>1. CASE s.conn = "Disconnected"
  BY <1>1 DEF Disconnect
<1>2. CASE s.conn # "Disconnected"
  <2>1. NextAttempt(s) \in Nat /\ LoginAfterLoss(s) \in {"NotAttempted", "LoggedIn"}
    BY DEF Coherent, Actor, NextAttempt, LoginAfterLoss
  <2>2. LoginAfterLoss(s) = "LoggedIn" => NextAttempt(s) = 1
    BY DEF Coherent, NextAttempt, LoginAfterLoss
  <2>3. 0 \in Nat /\ 0 # Never
    BY BoundAssumption
  <2> DEFINE d == Disconnect(s)
  <2>4. d \in Actor
    BY <1>2, <2>1, <2>3 DEF Coherent, Actor, Disconnect, Answer
  <2>5. /\ d.conn = "Disconnected" /\ d.login = LoginAfterLoss(s) /\ d.last = 0
        /\ d.attempt = NextAttempt(s) /\ d.told = "ServerDisconnected"
        /\ d.task = "Running"
    BY <1>2 DEF Coherent, Actor, Disconnect
  <2> QED
    BY <2>1, <2>2, <2>3, <2>4, <2>5 DEF Coherent
<1> QED
  BY <1>1, <1>2

LEMMA WrittenIsCoherent ==
  ASSUME NEW s, Coherent(s), s.signals # <<>>, NEW arrives \in BOOLEAN
  PROVE  /\ Coherent(Written(s, arrives))
         /\ Written(s, arrives).signals = <<>>
<1> DEFINE w == Written(s, arrives)
<1>1. s.signals[1] \in Message /\ <<>> \in Seq(Message)
  BY DEF Coherent, Actor
<1>2. PICK f \in Message \cup {"Nothing"}, v \in Server :
        w = [s EXCEPT !.signals = <<>>, !.first = f, !.server = v]
  <2>1. s.first \in Message \cup {"Nothing"} /\ s.server \in Server
    BY DEF Coherent, Actor
  <2>2. "HasLogin" \in Server
    BY DEF Server
  <2> QED
    BY <1>1, <2>1, <2>2 DEF Written
<1>3. w \in Actor
  BY <1>1, <1>2 DEF Coherent, Actor
<1>4. /\ w.signals = <<>> /\ w.login = s.login /\ w.conn = s.conn /\ w.last = s.last
      /\ w.attempt = s.attempt /\ w.told = s.told /\ w.task = s.task
  BY <1>2 DEF Coherent, Actor
<1> QED
  BY <1>3, <1>4 DEF Coherent

LEMMA DrainSignalsIsCoherent ==
  ASSUME NEW s, Coherent(s), NEW d \in DrainSignals(s)
  PROVE  Coherent(d) /\ d.signals = <<>>
<1>1. CASE s.signals = <<>>
  BY <1>1 DEF DrainSignals
<1>2. CASE s.signals # <<>> /\ s.conn # "Connected"
  <2>1. d = [s EXCEPT !.signals = <<>>] /\ <<>> \in Seq(Message)
    BY <1>2 DEF DrainSignals
  <2> QED
    BY <2>1 DEF Coherent, Actor
<1>3. CASE s.signals # <<>> /\ s.conn = "Connected"
  <2>1. d \in {Written(s, TRUE), Written(s, FALSE), Disconnect(Written(s, FALSE))}
    BY <1>3 DEF DrainSignals
  <2>2. ASSUME NEW w, Coherent(w), w.signals = <<>>
        PROVE  Disconnect(w).signals = <<>>
    BY <2>2 DEF Disconnect, Coherent, Actor
  <2> QED
    BY <1>3, <2>1, <2>2, WrittenIsCoherent, DisconnectIsCoherent
<1> QED
  BY <1>1, <1>2, <1>3

LEMMA LoginStatusIsCoherent ==
  ASSUME NEW s, Coherent(s), s.conn = "Connected", NEW accepted \in BOOLEAN
  PROVE  Coherent(LoginStatus(s, accepted))
<1>1. "Setup" \in Message
  BY DEF Message
<1>2. Append(s.signals, "Setup") \in Seq(Message)
  BY <1>1 DEF Coherent, Actor
<1> DEFINE settled == IF s.login # "Pending" THEN s
                     ELSE IF accepted THEN [s EXCEPT !.login = "LoggedIn", !.answer = "Ok"]
                     ELSE [s EXCEPT !.login = "NotAttempted", !.answer = "AuthenticationFailed"]
<1>3. Coherent(settled) /\ settled.conn = "Connected" /\ settled.signals = s.signals
  <2>1. CASE s.login # "Pending"
    BY <2>1
  <2>2. CASE s.login = "Pending" /\ accepted
    <3>1. settled = [s EXCEPT !.login = "LoggedIn", !.answer = "Ok"] /\ "Ok" \in Answer
      BY <2>2 DEF Answer
    <3> HIDE DEF settled
    <3> QED BY <3>1 DEF Coherent, Actor
  <2>3. CASE s.login = "Pending" /\ ~accepted
    <3>1. /\ settled = [s EXCEPT !.login = "NotAttempted", !.answer = "AuthenticationFailed"]
          /\ "AuthenticationFailed" \in Answer
      BY <2>3 DEF Answer
    <3> HIDE DEF settled
    <3> QED BY <3>1 DEF Coherent, Actor
  <2> HIDE DEF settled
  <2> QED
    BY <2>1, <2>2, <2>3
<1>4. LoginStatus(s, accepted) =
        IF accepted THEN [settled EXCEPT !.told = "LoginSucceeded",
                                         !.signals = Append(@, "Setup")]
        ELSE settled
  BY DEF LoginStatus
<1> HIDE DEF settled
<1>5. CASE accepted
  <2>1. LoginStatus(s, accepted) = [settled EXCEPT !.told = "LoginSucceeded",
                                                   !.signals = Append(s.signals, "Setup")]
    BY <1>3, <1>4, <1>5
  <2> QED
    BY <1>2, <1>3, <2>1 DEF Coherent, Actor
<1>6. CASE ~accepted
  BY <1>3, <1>4, <1>6
<1> QED
  BY <1>5, <1>6

LEMMA LoginDeadlineIsCoherent ==
  ASSUME NEW s, Coherent(s)
  PROVE  Coherent(LoginDeadline(s)) /\ LoginDeadline(s).signals = s.signals
<1>1. CASE s.login = "Pending" /\ s.overdue
  <2>1. /\ LoginDeadline(s) = [s EXCEPT !.login = "NotAttempted", !.answer = "Timeout"]
        /\ "Timeout" \in Answer
    BY <1>1 DEF LoginDeadline, Answer
  <2> QED
    BY <2>1 DEF Coherent, Actor
<1>2. CASE ~(s.login = "Pending" /\ s.overdue)
  BY <1>2 DEF LoginDeadline
<1> QED
  BY <1>1, <1>2

\* A login response is found only when the channel has been drained: a write that
\* fails in the same read cannot be followed by LoginSucceeded.
LEMMA ProcessReadIsCoherent ==
  ASSUME NEW s, Coherent(s), s.signals = <<>> \/ s.server = "NoLogin",
         NEW d \in ProcessRead(s)
  PROVE  Coherent(d)
<1>1. CASE s.conn # "Connected"
  BY <1>1 DEF ProcessRead
<1>2. CASE s.conn = "Connected" /\ s.server \in {"Accept", "Reject"}
  <2> DEFINE r == [s EXCEPT !.server = "Answered"]
  <2>1. Coherent(r) /\ r.conn = "Connected" /\ r.signals = <<>>
    BY <1>2 DEF Coherent, Actor, Server
  <2>2. DrainSignals(r) = {r}
    BY <2>1 DEF DrainSignals
  <2>3. d = Disconnect(s) \/ d = LoginStatus(r, s.server = "Accept")
    BY <1>2, <2>2 DEF ProcessRead
  <2> HIDE DEF r
  <2> QED
    BY <2>1, <2>3, DisconnectIsCoherent, LoginStatusIsCoherent
<1>3. CASE s.conn = "Connected" /\ s.server \notin {"Accept", "Reject"}
  BY <1>3, DisconnectIsCoherent, DrainSignalsIsCoherent DEF ProcessRead
<1> QED
  BY <1>1, <1>2, <1>3

LEMMA InitiateConnectionIsCoherent ==
  ASSUME NEW s, Coherent(s), s.conn = "Disconnected", NEW d \in InitiateConnection(s)
  PROVE  Coherent(d)
<1> DEFINE tried == [s EXCEPT !.tries = Lesser(@ + 1, MaxTries)]
<1>1. Lesser(s.tries + 1, MaxTries) \in Nat
  BY BoundAssumption DEF Coherent, Actor, Lesser
<1>2. Coherent(tried) /\ tried.conn = "Disconnected"
  BY <1>1 DEF Coherent, Actor
<1>3. d = Disconnect(tried)
      \/ d = [tried EXCEPT !.conn = "Connecting", !.last = Never, !.overdue = FALSE]
  BY DEF InitiateConnection
<1> HIDE DEF tried
<1>4. CASE d = Disconnect(tried)
  BY <1>2, <1>4, DisconnectIsCoherent
<1>5. CASE d = [tried EXCEPT !.conn = "Connecting", !.last = Never, !.overdue = FALSE]
  BY <1>2, <1>5 DEF Coherent, Actor
<1> QED
  BY <1>3, <1>4, <1>5

\* The commands a reconnection handles can be written.
LEMMA ReplayedType ==
  ASSUME NEW s, Coherent(s)
  PROVE  s.signals \o Replayed(s) \in Seq(Message)
<1>1. s.queued \in Seq(Command) /\ s.signals \in Seq(Message)
  BY DEF Coherent, Actor
<1>2. Command \subseteq Message /\ "Login" \in Command
  BY DEF Message, Command
<1>3. s.queued \in Seq(Message) /\ <<"Login">> \in Seq(Message)
  BY <1>1, <1>2
<1>4. Replayed(s) \in Seq(Message)
  BY <1>3 DEF Replayed
<1> QED
  BY <1>1, <1>4

LEMMA EstablishedIsCoherent ==
  ASSUME NEW s, Coherent(s)
  PROVE  /\ Coherent(OnConnectionEstablished(s))
         /\ OnConnectionEstablished(s).server = "NoLogin"
<1> DEFINE e == OnConnectionEstablished(s)
<1>1. s.signals \o Replayed(s) \in Seq(Message) /\ <<>> \in Seq(Command)
  BY ReplayedType
<1>2. "NoLogin" \in Server
  BY DEF Server
<1>3. PICK l \in {"NotAttempted", "Pending", "LoggedIn"}, b \in BOOLEAN :
        e = [s EXCEPT !.conn = "Connected", !.attempt = 0,
                      !.signals = s.signals \o Replayed(s), !.login = l,
                      !.queued = <<>>, !.overdue = FALSE, !.first = "Nothing",
                      !.again = b, !.tries = 0,
                      !.server = "NoLogin", !.eof = FALSE]
  <2>1. s.login \in {"NotAttempted", "Pending", "LoggedIn"}
    BY DEF Coherent, Actor
  <2>2. (s.login = "LoggedIn") \in BOOLEAN
    OBVIOUS
  <2> QED
    BY <2>1, <2>2, Zenon DEF OnConnectionEstablished
<1>4. e \in Actor
  <2> DEFINE c == [s EXCEPT !.conn = "Connected", !.attempt = 0,
                            !.signals = s.signals \o Replayed(s), !.login = l,
                            !.queued = <<>>, !.overdue = FALSE]
  <2>1. c \in Actor
    BY <1>1 DEF Coherent, Actor
  <2>2. e = [c EXCEPT !.first = "Nothing", !.again = b, !.tries = 0,
                      !.server = "NoLogin", !.eof = FALSE]
    BY <1>3 DEF Coherent, Actor
  <2> HIDE DEF c, e
  <2> QED
    BY <1>2, <2>1, <2>2 DEF Actor
<1>5. e.conn = "Connected" /\ e.server = "NoLogin" /\ e.task = "Running"
  BY <1>3 DEF Coherent, Actor
<1> QED
  BY <1>4, <1>5 DEF Coherent

LEMMA ClosedIsCoherent ==
  ASSUME NEW s, Coherent(s)
  PROVE  /\ Coherent([s EXCEPT !.eof = TRUE])
         /\ [s EXCEPT !.eof = TRUE].server = s.server
BY DEF Coherent, Actor

LEMMA FollowIsCoherent ==
  ASSUME NEW s, Coherent(s), s.signals = <<>>, NEW d \in Follow(s)
  PROVE  Coherent(d)
<1>1. CASE s.conn = "Connecting"
  <2> DEFINE e == OnConnectionEstablished(s)
             c == [e EXCEPT !.eof = TRUE]
  <2>1. d = Disconnect(s) \/ d \in ProcessRead(e) \/ d \in ProcessRead(c)
    BY <1>1 DEF Follow, CheckConnectionStatus
  <2>2. Coherent(e) /\ e.server = "NoLogin"
    BY EstablishedIsCoherent
  <2>3. Coherent(c) /\ c.server = "NoLogin"
    <3> HIDE DEF e
    <3> QED BY <2>2, ClosedIsCoherent
  <2> HIDE DEF e, c
  <2> QED
    BY <2>1, <2>2, <2>3, DisconnectIsCoherent, ProcessReadIsCoherent
<1>2. CASE s.conn = "Connected"
  BY <1>2, ProcessReadIsCoherent DEF Follow
<1>3. CASE s.conn = "Disconnected"
  BY <1>3, InitiateConnectionIsCoherent DEF Follow, MaybeReconnect
<1>4. s.conn \in {"Disconnected", "Connecting", "Connected"}
  BY DEF Coherent, Actor
<1> QED
  BY <1>1, <1>2, <1>3, <1>4

-----------------------------------------------------------------------------
(* The steps. *)

LEMMA InitInv == Init => Inv
<1> SUFFICES ASSUME Init PROVE Inv
  OBVIOUS
<1>1. srv \in Actor /\ mailbox \in Seq(Command)
  BY DEF Init, Actor, Answer, Server
<1> QED
  BY <1>1 DEF Init, Inv, TypeOK, Coherent

\* The actor's own steps end where one of its calls does.
LEMMA StepInv ==
  ASSUME Coherent(srv'), mailbox' \in Seq(Command)
  PROVE  Inv'
BY DEF Inv, TypeOK, Coherent

LEMMA OnStartInv == ASSUME Inv, OnStart PROVE Inv'
<1> DEFINE s == [srv EXCEPT !.task = "Running"]
<1>1. Coherent(s) /\ s.conn = "Disconnected"
  BY DEF Inv, TypeOK, OnStart, Coherent, Actor
<1>2. Coherent(srv')
  BY <1>1, InitiateConnectionIsCoherent DEF OnStart
<1> QED
  BY <1>2, StepInv DEF OnStart, Inv, TypeOK

LEMMA HandleInv == ASSUME Inv, Handle PROVE Inv'
<1> DEFINE cmd == Head(mailbox)
<1>1. Coherent(srv)
  BY DEF Inv, Handle
<1>2. cmd \in Command /\ cmd \in Message /\ mailbox' \in Seq(Command)
  BY DEF Inv, TypeOK, Handle, Message
<1>3. /\ Append(srv.signals, cmd) \in Seq(Message)
      /\ Append(srv.queued, cmd) \in Seq(Command)
  BY <1>1, <1>2 DEF Coherent, Actor
<1>4. CASE srv.conn = "Connected"
  <2> DEFINE l == IF cmd = "Login" THEN "Pending" ELSE srv.login
             o == IF cmd = "Login" THEN FALSE ELSE srv.overdue
  <2>1. /\ l \in {"NotAttempted", "Pending", "LoggedIn"} /\ o \in BOOLEAN
    BY <1>1 DEF Coherent, Actor
  <2>2. srv' = [srv EXCEPT !.signals = Append(srv.signals, cmd), !.login = l, !.overdue = o]
    BY <1>4 DEF Handle, HandleCommand
  <2> HIDE DEF l, o, cmd
  <2>3. Coherent(srv')
    BY <1>1, <1>3, <1>4, <2>1, <2>2 DEF Coherent, Actor
  <2> QED
    BY <1>2, <2>3, StepInv
<1>5. CASE srv.conn # "Connected"
  <2>1. srv' = [srv EXCEPT !.queued = Append(srv.queued, cmd)]
    BY <1>5 DEF Handle
  <2>2. Coherent(srv')
    BY <1>1, <1>3, <2>1 DEF Coherent, Actor
  <2> QED
    BY <1>2, <2>2, StepInv
<1> QED
  BY <1>4, <1>5

LEMMA TickInv == ASSUME Inv, Tick PROVE Inv'
<1>1. Coherent(srv)
  BY DEF Inv, Tick
<1>2. PICK d \in DrainSignals(srv) : srv' \in Follow(LoginDeadline(d))
  BY DEF Tick, TickOutcomes
<1>3. Coherent(LoginDeadline(d)) /\ LoginDeadline(d).signals = <<>>
  BY <1>1, <1>2, DrainSignalsIsCoherent, LoginDeadlineIsCoherent
<1>4. Coherent(srv')
  BY <1>2, <1>3, FollowIsCoherent
<1> QED
  BY <1>4, StepInv DEF Tick, Inv, TypeOK

LEMMA OnStopInv == ASSUME Inv, OnStop PROVE Inv'
<1>1. (IF srv.answer = "Waiting" THEN "Timeout" ELSE srv.answer) \in Answer
  BY DEF Inv, TypeOK, Actor, Answer
<1>2. srv' \in Actor /\ srv'.task = "Stopped"
  BY <1>1 DEF OnStop, Inv, TypeOK, Actor
<1> QED
  BY <1>2 DEF OnStop, Inv, TypeOK

LEMMA CallLoginInv == ASSUME Inv, CallLogin PROVE Inv'
<1>1. mailbox' \in Seq(Command)
  BY DEF CallLogin, Inv, TypeOK, Command
<1>2. "Waiting" \in Answer
  BY DEF Answer
<1> QED
  BY <1>1, <1>2 DEF CallLogin, Inv, TypeOK, Coherent, Actor

LEMMA CallSearchInv == ASSUME Inv, CallSearch PROVE Inv'
<1>1. mailbox' \in Seq(Command)
  BY DEF CallSearch, Inv, TypeOK, Command
<1> QED
  BY <1>1 DEF CallSearch, Inv, TypeOK

\* The server and the clock leave alone what the calls rely on.
LEMMA EnvironmentInv ==
  ASSUME Inv, Reply \/ Close \/ DeadlinePasses \/ SecondPasses PROVE Inv'
<1>1. CASE Reply
  <2>1. "Accept" \in Server /\ "Reject" \in Server
    BY DEF Server
  <2> QED
    BY <1>1, <2>1 DEF Reply, Inv, TypeOK, Coherent, Actor
<1>2. CASE Close
  BY <1>2 DEF Close, Inv, TypeOK, Coherent, Actor
<1>3. CASE DeadlinePasses
  BY <1>3 DEF DeadlinePasses, Inv, TypeOK, Coherent, Actor
<1>4. CASE SecondPasses
  <2>1. srv.last + 1 \in Nat /\ srv.last + 1 # Never
    BY <1>4, BoundAssumption DEF SecondPasses, Inv, TypeOK, Actor
  <2> QED
    BY <1>4, <2>1 DEF SecondPasses, Inv, TypeOK, Coherent, Actor
<1> QED
  BY <1>1, <1>2, <1>3, <1>4

LEMMA Invariance == Spec => []Inv
<1>1. Inv /\ [Next]_vars => Inv'
  <2> SUFFICES ASSUME Inv, [Next]_vars PROVE Inv'
    OBVIOUS
  <2>1. CASE UNCHANGED vars
    BY <2>1 DEF vars, Inv, TypeOK
  <2> QED
    BY <2>1, OnStartInv, HandleInv, TickInv, OnStopInv, CallLoginInv, CallSearchInv,
       EnvironmentInv DEF Next
<1> QED
  BY <1>1, InitInv, PTL DEF Spec

-----------------------------------------------------------------------------
(* The login of a reconnection is written first. *)

\* On a reconnection the login has been written first, or is the first to be.
Leads(s) ==
  s.conn = "Connected" /\ s.again =>
    s.first = "Login" \/ (s.first = "Nothing" /\ s.signals # <<>> /\ s.signals[1] = "Login")

LEMMA DisconnectLeads ==
  ASSUME NEW s, Coherent(s), Leads(s)
  PROVE  Leads(Disconnect(s))
<1>1. CASE s.conn = "Disconnected"
  BY <1>1 DEF Disconnect
<1>2. CASE s.conn # "Disconnected"
  BY <1>2 DEF Disconnect, Leads, Coherent, Actor
<1> QED
  BY <1>1, <1>2

LEMMA DrainSignalsLeads ==
  ASSUME NEW s, Coherent(s), Leads(s), NEW d \in DrainSignals(s)
  PROVE  Leads(d)
<1>1. CASE s.signals = <<>> \/ s.conn # "Connected"
  BY <1>1 DEF DrainSignals, Leads, Coherent, Actor
<1>2. CASE s.signals # <<>> /\ s.conn = "Connected"
  <2>1. ASSUME NEW arrives \in BOOLEAN
        PROVE  Leads(Written(s, arrives)) /\ Coherent(Written(s, arrives))
    <3>1. PICK v \in Server \cup {"HasLogin"} :
            Written(s, arrives) =
              [s EXCEPT !.signals = <<>>,
                        !.first = IF s.first = "Nothing" THEN s.signals[1] ELSE s.first,
                        !.server = v]
      <4>1. s.server \in Server
        BY DEF Coherent, Actor
      <4> QED
        BY <4>1 DEF Written
    <3>2. Leads(Written(s, arrives))
      BY <1>2, <3>1 DEF Leads, Coherent, Actor
    <3> QED
      BY <1>2, <3>2, WrittenIsCoherent
  <2>2. d \in {Written(s, TRUE), Written(s, FALSE), Disconnect(Written(s, FALSE))}
    BY <1>2 DEF DrainSignals
  <2> QED
    BY <2>1, <2>2, DisconnectLeads
<1> QED
  BY <1>1, <1>2

\* The messages of a login's success are put behind what the channel holds.
LEMMA LoginStatusLeads ==
  ASSUME NEW s, Coherent(s), Leads(s), NEW accepted \in BOOLEAN
  PROVE  Leads(LoginStatus(s, accepted))
<1> DEFINE q == IF accepted THEN Append(s.signals, "Setup") ELSE s.signals
           l == LoginStatus(s, accepted)
<1>1. l.conn = s.conn /\ l.again = s.again /\ l.first = s.first /\ l.signals = q
  BY DEF LoginStatus, Coherent, Actor
<1>2. s.signals # <<>> => q # <<>> /\ q[1] = s.signals[1]
  <2>1. s.signals \in Seq(Message)
    BY DEF Coherent, Actor
  <2> QED
    BY <2>1
<1> HIDE DEF q, l
<1> QED
  BY <1>1, <1>2 DEF Leads, l

LEMMA ProcessReadLeads ==
  ASSUME NEW s, Coherent(s), Leads(s), s.signals = <<>> \/ s.server = "NoLogin",
         NEW d \in ProcessRead(s)
  PROVE  Leads(d)
<1>1. CASE s.conn # "Connected"
  BY <1>1 DEF ProcessRead
<1>2. CASE s.conn = "Connected" /\ s.server \in {"Accept", "Reject"}
  <2> DEFINE r == [s EXCEPT !.server = "Answered"]
  <2>1. Coherent(r) /\ Leads(r) /\ r.signals = <<>>
    BY <1>2 DEF Coherent, Actor, Server, Leads
  <2>2. DrainSignals(r) = {r}
    BY <2>1 DEF DrainSignals
  <2>3. d = Disconnect(s) \/ d = LoginStatus(r, s.server = "Accept")
    BY <1>2, <2>2 DEF ProcessRead
  <2> HIDE DEF r
  <2> QED
    BY <2>1, <2>3, DisconnectLeads, LoginStatusLeads
<1>3. CASE s.conn = "Connected" /\ s.server \notin {"Accept", "Reject"}
  BY <1>3, DisconnectLeads, DrainSignalsLeads DEF ProcessRead
<1> QED
  BY <1>1, <1>2, <1>3

\* The channel is empty when a connection is established, so the replayed login is
\* at its front.
LEMMA EstablishedLeads ==
  ASSUME NEW s, Coherent(s), s.signals = <<>>
  PROVE  Leads(OnConnectionEstablished(s))
<1> DEFINE e == OnConnectionEstablished(s)
<1>1. s.queued \in Seq(Message) /\ <<"Login">> \in Seq(Message)
  BY DEF Coherent, Actor, Message, Command
<1>2. /\ e.first = "Nothing" /\ e.again = (s.login = "LoggedIn")
      /\ e.signals = s.signals \o Replayed(s)
  BY DEF OnConnectionEstablished, Coherent, Actor
<1>3. s.login = "LoggedIn" => Replayed(s) # <<>> /\ Replayed(s)[1] = "Login"
  BY <1>1 DEF Replayed
<1>4. Replayed(s) \in Seq(Message)
  BY <1>1 DEF Replayed
<1>5. e.signals = Replayed(s)
  BY <1>2, <1>4
<1> HIDE DEF e
<1> QED
  BY <1>2, <1>3, <1>5 DEF Leads, e

LEMMA ClosedLeads ==
  ASSUME NEW s, Coherent(s), Leads(s)
  PROVE  Leads([s EXCEPT !.eof = TRUE])
BY DEF Coherent, Actor, Leads

LEMMA FollowLeads ==
  ASSUME NEW s, Coherent(s), Leads(s), s.signals = <<>>, NEW d \in Follow(s)
  PROVE  Leads(d)
<1>1. CASE s.conn = "Connecting"
  <2> DEFINE e == OnConnectionEstablished(s)
             c == [e EXCEPT !.eof = TRUE]
  <2>1. d = Disconnect(s) \/ d \in ProcessRead(e) \/ d \in ProcessRead(c)
    BY <1>1 DEF Follow, CheckConnectionStatus
  <2>2. Coherent(e) /\ e.server = "NoLogin" /\ Leads(e)
    BY EstablishedIsCoherent, EstablishedLeads
  <2>3. Coherent(c) /\ c.server = "NoLogin" /\ Leads(c)
    <3> HIDE DEF e
    <3> QED BY <2>2, ClosedIsCoherent, ClosedLeads
  <2> HIDE DEF e, c
  <2> QED
    BY <2>1, <2>2, <2>3, DisconnectLeads, ProcessReadLeads
<1>2. CASE s.conn = "Connected"
  BY <1>2, ProcessReadLeads DEF Follow
<1>3. CASE s.conn = "Disconnected"
  <2>1. d = s \/ d \in InitiateConnection(s)
    BY <1>3 DEF Follow, MaybeReconnect
  <2>2. d \in InitiateConnection(s) => d.conn # "Connected"
    BY <1>3 DEF InitiateConnection, Disconnect, Coherent, Actor
  <2> QED
    BY <2>1, <2>2 DEF Leads
<1>4. s.conn \in {"Disconnected", "Connecting", "Connected"}
  BY DEF Coherent, Actor
<1> QED
  BY <1>1, <1>2, <1>3, <1>4

LEMMA TickLeads == ASSUME Inv, Leads(srv), Tick PROVE Leads(srv')
<1>1. Coherent(srv)
  BY DEF Inv, Tick
<1>2. PICK d \in DrainSignals(srv) : srv' \in Follow(LoginDeadline(d))
  BY DEF Tick, TickOutcomes
<1>3. Coherent(d) /\ d.signals = <<>> /\ Leads(d)
  BY <1>1, <1>2, DrainSignalsIsCoherent, DrainSignalsLeads
<1>4. Leads(LoginDeadline(d))
  BY <1>3 DEF LoginDeadline, Leads, Coherent, Actor
<1> QED
  BY <1>2, <1>3, <1>4, LoginDeadlineIsCoherent, FollowLeads

\* A command is put behind the login in the channel.
LEMMA HandleLeads == ASSUME Inv, Leads(srv), Handle PROVE Leads(srv')
<1> DEFINE cmd == Head(mailbox)
<1>1. Coherent(srv)
  BY DEF Inv, Handle
<1>2. cmd \in Message /\ srv.signals \in Seq(Message)
  BY <1>1 DEF Inv, TypeOK, Handle, Message, Coherent, Actor
<1> DEFINE q == Append(srv.signals, cmd)
<1>3. srv.signals # <<>> => q # <<>> /\ q[1] = srv.signals[1]
  BY <1>2
<1>4. CASE srv.conn = "Connected"
  <2>1. /\ srv'.conn = srv.conn /\ srv'.again = srv.again /\ srv'.first = srv.first
        /\ srv'.signals = q
    BY <1>1, <1>4 DEF Handle, HandleCommand, Coherent, Actor
  <2> HIDE DEF q
  <2> QED
    BY <1>3, <2>1 DEF Leads
<1>5. CASE srv.conn # "Connected"
  BY <1>1, <1>5 DEF Handle, Leads, Coherent, Actor
<1> QED
  BY <1>4, <1>5

LEMMA StepLeads == ASSUME Inv, Leads(srv), [Next]_vars PROVE Leads(srv')
<1>1. CASE OnStart
  <2>1. srv'.conn # "Connected"
    BY <1>1 DEF OnStart, InitiateConnection, Disconnect, Inv, TypeOK, Actor
  <2> QED
    BY <2>1 DEF Leads
<1>2. CASE OnStop
  BY <1>2 DEF OnStop, Leads, Inv, TypeOK, Actor
<1>3. CASE CallLogin
  BY <1>3 DEF CallLogin, Leads, Inv, TypeOK, Actor
<1>4. CASE CallSearch \/ UNCHANGED vars
  BY <1>4 DEF CallSearch, vars
<1>5. CASE Reply \/ Close \/ DeadlinePasses \/ SecondPasses
  BY <1>5 DEF Reply, Close, DeadlinePasses, SecondPasses, Leads, Inv, TypeOK, Actor
<1> QED
  BY <1>1, <1>2, <1>3, <1>4, <1>5, TickLeads, HandleLeads DEF Next

-----------------------------------------------------------------------------
(* The theorems. *)

\* The actor's state keeps its type through every chain of calls a tick may be.
THEOREM TypeCorrect == Spec => []TypeOK
<1>1. Inv => TypeOK
  BY DEF Inv
<1> QED
  BY <1>1, Invariance, PTL

\* No path of disconnect_with_error leaves a login Pending: the caller of connect
\* does not wait on a connection that is gone.
THEOREM PendingIsConnectedHolds == Spec => []PendingIsConnected
<1>1. Inv => PendingIsConnected
  BY DEF Inv, Coherent, PendingIsConnected
<1> QED
  BY <1>1, Invariance, PTL

\* An actor that is Disconnected with credentials has the time of the disconnect,
\* without which maybe_reconnect would never try.
THEOREM KeptCredentialsAreDatedHolds == Spec => []KeptCredentialsAreDated
<1>1. Inv => KeptCredentialsAreDated
  BY DEF Inv, Coherent, KeptCredentialsAreDated
<1> QED
  BY <1>1, Invariance, PTL

\* The worker is never left believing in a login whose connection is down: the
\* response is dispatched only after the channel has been drained.
THEOREM WorkerNotMisledHolds == Spec => []WorkerNotMisled
<1>1. Inv => WorkerNotMisled
  BY DEF Inv, Coherent, WorkerNotMisled
<1> QED
  BY <1>1, Invariance, PTL

\* The delay maybe_reconnect computes with credentials in hand is always the first
\* of the backoff: reconnect_attempt is 1, for any settings.  A refused attempt does
\* not change it, nor the time it is counted from, so once the first delay is over
\* the next attempts follow at every tick, whereas docs/ARCHITECTURE.md:141 has the
\* delay grow with the attempt.
AttemptIsOne ==
  srv.task = "Running" /\ srv.conn = "Disconnected" /\ srv.login = "LoggedIn"
    => srv.attempt = 1

THEOREM AttemptIsOneHolds == Spec => []AttemptIsOne
<1>1. Inv => AttemptIsOne
  BY DEF Inv, Coherent, AttemptIsOne
<1> QED
  BY <1>1, Invariance, PTL

\* Nothing is written on a reconnection before the login, whatever was queued
\* offline and whatever comes while it is under way.
THEOREM LoginFirstHolds == Spec => []LoginFirst
<1>1. Init => Leads(srv)
  BY DEF Init, Leads
<1>2. Inv /\ Leads(srv) /\ [Next]_vars => Leads(srv)'
  BY StepLeads
<1>3. Leads(srv) => LoginFirst
  BY DEF Leads, LoginFirst
<1> QED
  BY <1>1, <1>2, <1>3, Invariance, PTL DEF Spec

-----------------------------------------------------------------------------
(* The backoff.  What is known of powers of two is that they count subsets. *)

LEMMA PowersOfTwo ==
  ASSUME NEW n \in Nat, NEW k \in Nat, k <= n
  PROVE  2 ^ k \in Nat /\ 2 ^ k <= 2 ^ n
<1>1. /\ IsFiniteSet(1 .. k) /\ Cardinality(1 .. k) = k
      /\ IsFiniteSet(1 .. n) /\ Cardinality(1 .. n) = n
  BY FS_Interval
<1>2. /\ IsFiniteSet(SUBSET (1 .. k)) /\ Cardinality(SUBSET (1 .. k)) = 2 ^ k
      /\ IsFiniteSet(SUBSET (1 .. n)) /\ Cardinality(SUBSET (1 .. n)) = 2 ^ n
  BY <1>1, FS_SUBSET
<1>3. SUBSET (1 .. k) \in SUBSET (SUBSET (1 .. n))
  OBVIOUS
<1>4. Cardinality(SUBSET (1 .. k)) <= Cardinality(SUBSET (1 .. n))
  BY <1>2, <1>3, FS_Subset
<1>5. Cardinality(SUBSET (1 .. k)) \in Nat
  BY <1>2, FS_CardinalityType
<1> QED
  BY <1>2, <1>4, <1>5

LEMMA ProductAtLeast ==
  ASSUME NEW a \in Nat \ {0}, NEW b \in Nat
  PROVE  a * b \in Nat /\ a * b >= b
OBVIOUS

\* Neither the shift nor the product wraps, whatever the width of the word.
LEMMA BackoffIs ==
  ASSUME NEW min \in 0 .. WordMax, NEW max \in 0 .. WordMax, NEW attempt \in Nat \ {0}
  PROVE  Backoff(min, max, attempt) = Lesser(min * 2 ^ (attempt - 1), max)
<1> DEFINE exp    == attempt - 1
           power  == 2 ^ exp
           factor == IF exp < Width THEN power ELSE WordMax
<1>1. exp \in Nat /\ Width \in Nat
  BY DelayAssumption
<1>2. power \in Nat /\ WordMax \in Int /\ (Width <= exp => WordMax <= power)
  <2>1. power \in Nat /\ 2 ^ Width \in Nat
    BY <1>1, PowersOfTwo
  <2>2. Width <= exp => 2 ^ Width <= power
    BY <1>1, PowersOfTwo
  <2> HIDE DEF power
  <2> QED
    BY <2>1, <2>2 DEF WordMax
<1>3. Backoff(min, max, attempt) = Lesser(Lesser(min * factor, WordMax), max)
  BY <1>1 DEF Backoff
<1> HIDE DEF exp, power
<1>4. min \in Nat /\ max \in Nat /\ max <= WordMax /\ WordMax \in Nat
  BY <1>2
<1>5. CASE exp < Width
  <2> DEFINE product == min * power
  <2>1. product \in Nat
    BY <1>2, <1>4
  <2>2. Backoff(min, max, attempt) = Lesser(Lesser(product, WordMax), max)
    BY <1>3, <1>5
  <2> HIDE DEF product
  <2>3. Lesser(Lesser(product, WordMax), max) = Lesser(product, max)
    BY <1>4, <2>1 DEF Lesser
  <2> QED
    BY <2>2, <2>3 DEF product, power, exp
<1>6. CASE ~(exp < Width)
  <2> DEFINE product  == min * power
             capped   == min * WordMax
  <2>1. WordMax <= power
    BY <1>1, <1>2, <1>6
  <2>2. Backoff(min, max, attempt) = Lesser(Lesser(capped, WordMax), max)
    BY <1>3, <1>6
  <2>3. CASE min = 0
    <3>1. product = 0 /\ capped = 0
      BY <1>2, <1>4, <2>3
    <3> HIDE DEF product, capped
    <3>2. Lesser(Lesser(capped, WordMax), max) = Lesser(product, max)
      BY <1>4, <3>1 DEF Lesser
    <3> QED
      BY <2>2, <3>2 DEF product, power, exp
  <2>4. CASE min # 0
    <3>1. product \in Nat /\ capped \in Nat /\ product >= power /\ capped >= WordMax
      BY <1>2, <1>4, <2>4, ProductAtLeast
    <3> HIDE DEF product, capped
    <3>2. Lesser(Lesser(capped, WordMax), max) = Lesser(product, max)
      BY <1>2, <1>4, <2>1, <3>1 DEF Lesser
    <3> QED
      BY <2>2, <3>2 DEF product, power, exp
  <2> QED
    BY <2>3, <2>4
<1> QED
  BY <1>5, <1>6

\* The delay before the next attempts is the documented power of two, capped at
\* max_delay, at and beyond the width of the word, for every width and setting.
THEOREM BackoffIsExponentialHolds == Spec => []BackoffIsExponential
<1>1. ASSUME Inv PROVE BackoffIsExponential
  <2> SUFFICES ASSUME NEW min \in 0 .. WordMax, NEW max \in 0 .. WordMax,
                      NEW attempt \in srv.attempt + 1 .. srv.attempt + Width + 2
               PROVE  Backoff(min, max, attempt) = Lesser(min * 2 ^ (attempt - 1), max)
    BY DEF BackoffIsExponential
  <2>1. srv.attempt \in Nat /\ Width \in Nat
    BY <1>1, DelayAssumption DEF Inv, TypeOK, Actor
  <2>2. attempt \in Nat \ {0}
    BY <2>1
  <2> QED
    BY <2>2, BackoffIs
<1> QED
  BY <1>1, Invariance, PTL

=============================================================================
