----------------------- MODULE PeerConnectionsProofs -----------------------
(***************************************************************************)
(* Proofs about the file transfers of PeerConnections, for every set of    *)
(* scripts, every size and every timeout.                                  *)
(***************************************************************************)
EXTENDS PeerConnections, TLAPS

-----------------------------------------------------------------------------
(* The stream. *)

\* Where the file starts in a script.
LEMMA HeaderFacts ==
  ASSUME script \in Scripts
  PROVE  /\ Len(script) \in Nat /\ Len(script) >= 1
         /\ HeaderItems(script) \in Nat /\ Header = 2 * HeaderItems(script)
         /\ \A i \in 1 .. Len(script) : script[i] = "Data" <=> i > HeaderItems(script)
         /\ First = "PeerInit F" => Header = 4
         /\ First \in {"PierceFireWall", "Token"} => Header = 2
         /\ First = "Data" => Header = 0
<1>1. /\ script \in Seq(STRING) /\ script # <<>>
      /\ \A i \in DOMAIN script : script[i] = "Data" <=> i > HeaderItems(script)
  BY ScriptsAssumption
<1>2. Len(script) \in Nat /\ DOMAIN script = 1 .. Len(script) /\ Len(script) >= 1
  BY <1>1
<1>3. /\ script[1] = "PeerInit F" => HeaderItems(script) = 2
      /\ script[1] \in {"PierceFireWall", "Token"} => HeaderItems(script) = 1
      /\ script[1] = "Data" => HeaderItems(script) = 0
      /\ script[1] \notin {"PeerInit F", "PierceFireWall", "Token", "Data"}
           => HeaderItems(script) = Len(script)
  BY DEF HeaderItems
<1>4. HeaderItems(script) \in {0, 1, 2, Len(script)}
  BY <1>3
<1>5. HeaderItems(script) \in Nat
  BY <1>2, <1>4
<1>6. /\ script[1] = "PeerInit F" => Header = 4
      /\ script[1] \in {"PierceFireWall", "Token"} => Header = 2
      /\ script[1] = "Data" => Header = 0
  <2>1. Header = 2 * HeaderItems(script)
    BY DEF Header
  <2>2. 2 * 2 = 4 /\ 2 * 1 = 2 /\ 2 * 0 = 0
    OBVIOUS
  <2>3. ASSUME script[1] = "PeerInit F" PROVE Header = 4
    BY <1>3, <2>1, <2>2, <2>3
  <2>4. ASSUME script[1] \in {"PierceFireWall", "Token"} PROVE Header = 2
    BY <1>3, <2>1, <2>2, <2>4
  <2>5. ASSUME script[1] = "Data" PROVE Header = 0
    BY <1>3, <2>1, <2>2, <2>5
  <2>6. QED BY <2>3, <2>4, <2>5
<1>7. QED BY <1>1, <1>2, <1>5, <1>6 DEF Header, First

\* What a transfer does not have in its file: the header, and on a connection of
\* the listener all that it had read.
LEMMA SkippedFacts ==
  ASSUME script \in Scripts, given \in Nat
  PROVE  /\ Skipped \in Nat
         /\ First \in {"Token", "Data"} => Skipped = Header
         /\ First \in {"PeerInit F", "PierceFireWall"} => Skipped = given
<1>1. Header \in Nat
  <2>1. HeaderItems(script) \in Nat /\ Header = 2 * HeaderItems(script)
    BY HeaderFacts
  <2>2. QED BY <2>1
<1>2. QED BY <1>1 DEF Skipped, First, InitItem

\* Whole items are at most half the units.
LEMMA WholeFacts ==
  ASSUME NEW t \in Nat, NEW k \in Nat, t <= 2 * k
  PROVE  Whole(t) \in 0 .. k /\ 2 * Whole(t) <= t
BY DEF Whole

\* The counters of the stream are in order.
LEMMA SocketNumbers ==
  ASSUME SocketTypeOK
  PROVE  /\ script \in Scripts /\ Len(script) \in Nat
         /\ arrived \in Nat /\ taken \in Nat
         /\ taken <= arrived /\ arrived <= 2 * Len(script)
<1>1. script \in Scripts /\ Len(script) \in Nat
  BY HeaderFacts DEF SocketTypeOK
<1>2. 2 * Len(script) \in Nat
  BY <1>1
<1>3. arrived \in 0 .. 2 * Len(script) /\ taken \in 0 .. arrived
  BY DEF SocketTypeOK
<1>4. QED BY <1>1, <1>2, <1>3

\* Reading takes what arrived, and messages are taken out of what was read.
LEMMA ReadTypes ==
  ASSUME SocketTypeOK, NEW n \in Readable, UNCHANGED <<script, arrived, remote>>,
         taken' = taken + n, extracted' \in {extracted, Whole(taken + n)}
  PROVE  SocketTypeOK'
<1>1. Len(script) \in Nat
  BY HeaderFacts DEF SocketTypeOK
<1>2. taken \in Int /\ arrived \in Int /\ n \in 1 .. (arrived - taken) /\ extracted \in Int
  BY DEF SocketTypeOK, Readable
<1>3. taken' \in 0 .. arrived
  BY <1>1, <1>2 DEF SocketTypeOK
<1>4. taken + n \in Nat /\ taken + n <= 2 * Len(script)
  BY <1>1, <1>2 DEF SocketTypeOK
<1>5. Whole(taken + n) \in 0 .. Len(script) /\ 2 * Whole(taken + n) <= taken + n
  BY <1>1, <1>4, WholeFacts
<1>6. extracted' \in 0 .. Len(script) /\ 2 * extracted' <= taken'
  <2>1. CASE extracted' = extracted
    BY <1>1, <1>2, <2>1 DEF SocketTypeOK
  <2>2. CASE extracted' = Whole(taken + n)
    BY <1>5, <2>2
  <2>3. QED BY <2>1, <2>2
<1>7. QED BY <1>3, <1>6 DEF SocketTypeOK

\* The steps of the peer.
LEMMA PeerTypes ==
  ASSUME SocketTypeOK, Peer
  PROVE  SocketTypeOK'
<1>1. Len(script) \in Nat /\ arrived \in Nat /\ taken \in Nat
      /\ taken <= arrived /\ arrived <= 2 * Len(script)
  BY SocketNumbers
<1>2. CASE PeerSends
  BY <1>1, <1>2 DEF PeerSends, SocketTypeOK
<1>3. CASE PeerCloses
  BY <1>3 DEF PeerCloses, SocketTypeOK
<1>4. QED BY <1>2, <1>3 DEF Peer

\* A step that reads, or leaves the stream alone, or opens it.
Reads ==
  /\ UNCHANGED <<script, arrived>>
  /\ \/ UNCHANGED <<taken, extracted>> /\ remote' \in {remote, "Open"}
     \/ /\ UNCHANGED remote
        /\ \E n \in Readable : /\ taken' = taken + n
                               /\ extracted' \in {extracted, Whole(taken + n)}
     \/ UNCHANGED <<remote, taken>> /\ extracted' = Whole(taken)

LEMMA ReadsKeepTypes ==
  ASSUME SocketTypeOK, Reads
  PROVE  SocketTypeOK'
<1>1. CASE UNCHANGED <<taken, extracted>> /\ remote' \in {remote, "Open"}
  BY <1>1 DEF Reads, SocketTypeOK
<1>2. CASE /\ UNCHANGED remote
           /\ \E n \in Readable : /\ taken' = taken + n
                                  /\ extracted' \in {extracted, Whole(taken + n)}
  BY <1>2, ReadTypes DEF Reads
<1>3. CASE UNCHANGED <<remote, taken>> /\ extracted' = Whole(taken)
  <2>1. Len(script) \in Nat /\ taken \in Nat /\ taken <= 2 * Len(script)
    BY SocketNumbers
  <2>2. Whole(taken) \in 0 .. Len(script) /\ 2 * Whole(taken) <= taken
    BY <2>1, WholeFacts
  <2>3. QED BY <1>3, <2>2 DEF Reads, SocketTypeOK
<1>4. QED BY <1>1, <1>2, <1>3 DEF Reads

-----------------------------------------------------------------------------
(* A connection is an actor's or a transfer's. *)

\* The actor only reads and opens the stream, and does nothing before it is spawned.
LEMMA ActorFrame ==
  ASSUME ActorNext, task = "None" => dial = "None"
  PROVE  /\ Reads
         /\ task = "None" => UNCHANGED <<socketVars, task, dial>>
         /\ task # "None" => task' # "None"
<1> USE DEF Reads, socketVars, lifeVars, registryVars, outVars, callVars
<1>1. CASE OnStart
  BY <1>1 DEF OnStart
<1>2. CASE Dialed
  BY <1>2 DEF Dialed
<1>3. CASE RemovePeer \/ Overwritten \/ \E c \in Command : SendToPeer(c)
  BY <1>3 DEF RemovePeer, Overwritten, SendToPeer
<1>4. CASE Handle
  BY <1>4 DEF Handle, Idle, Running
<1>5. CASE ReceiveStop \/ Shutdown
  BY <1>5 DEF ReceiveStop, Shutdown, Finish, Idle, Running
<1>6. CASE Tick
  BY <1>6 DEF Tick, Idle, Running
<1>7. CASE OnProcessRead
  BY <1>7 DEF OnProcessRead, Calls, Running
<1>8. CASE OnTryRead
  BY <1>8 DEF OnTryRead, Calls, Running
<1>9. CASE OnEstablished \/ OnFirstRead \/ OnFailed \/ OnEndOfTick
  BY <1>9 DEF OnEstablished, OnFirstRead, OnFailed, OnEndOfTick, Calls, Running
<1>10. CASE OnWrite \/ OnMessage
  BY <1>10 DEF OnWrite, OnMessage, Running
<1>11. QED
  BY <1>1, <1>2, <1>3, <1>4, <1>5, <1>6, <1>7, <1>8, <1>9, <1>10 DEF ActorNext, Call

\* Who has the connection, and what was read before it was given to a transfer.
Owner ==
  /\ task = "None" => dial = "None"
  /\ conn # "Given" => task = "None" /\ phase = "None"
  /\ conn = "None" => remote = "None" /\ taken = 0
  /\ phase # "None" => task = "None"
  /\ phase = "None" => ~pierced /\ result = "None" /\ known = "Nobody"
                         /\ after = 0
  /\ conn = "Routing" => taken >= 2
  /\ conn = "Asking" => \/ First = "PierceFireWall" /\ taken >= 2
                        \/ First = "PeerInit F" /\ taken >= 4

\* The stages of a transfer.
Stages ==
  /\ pierced \in BOOLEAN /\ cancelled \in BOOLEAN /\ given \in Nat
  /\ phase \in {"None", "Connecting", "Piercing", "Resolving", "Opening", "Reading",
                "Asking", "Reported"}
  /\ phase = "Connecting" => taken = 0 /\ First = IF pierced THEN "Token" ELSE "Data"
  /\ phase \in {"Piercing", "Resolving"} => pierced /\ First = "Token"
  /\ phase = "Resolving" => taken >= 2
  /\ phase = "Opening" => /\ taken >= Header
                          /\ IF pierced THEN First = "Token" ELSE taken = Skipped
  /\ phase = "Reading" => Skipped >= Header /\ file = taken - Skipped

\* What a transfer has to report.
Outcome ==
  /\ phase \notin {"Asking", "Reported"} => result = "None" /\ after = 0
  /\ ~cancelled => after = 0
  /\ after \in {0, 1} /\ (after = 1 => result = "Cancelled")
  /\ phase # "None" /\ ~pierced => known = "Own"
  /\ phase \in {"Opening", "Reading"} => known = "Own"
  /\ phase = "Asking" => pierced /\ result # "Completed"
  /\ CompletedFile
  /\ ReportReachesItsDownload

TransferInv == SocketTypeOK /\ Owner /\ Stages /\ Outcome

LEMMA InitTransferInv == Init => TransferInv
<1>1. SUFFICES ASSUME Init PROVE TransferInv
  OBVIOUS
<1>2. script \in Scripts
  BY <1>1 DEF Init, SocketInit
<1>3. Len(script) \in Nat /\ Header \in Nat /\ 2 * Len(script) \in Nat
  <2>1. Len(script) \in Nat /\ HeaderItems(script) \in Nat /\ Header = 2 * HeaderItems(script)
    BY <1>2, HeaderFacts
  <2>2. QED BY <2>1
<1>4. arrived = 0 /\ taken = 0 /\ extracted = 0 /\ remote = "None"
  BY <1>1 DEF Init, SocketInit
<1>5. SocketTypeOK
  <2>1. arrived \in 0 .. 2 * Len(script) /\ taken \in 0 .. arrived /\ extracted \in 0 .. Len(script)
        /\ 2 * extracted <= taken
    BY <1>3, <1>4
  <2>2. QED BY <1>2, <1>4, <2>1 DEF SocketTypeOK
<1>6. Owner
  BY <1>1, <1>4 DEF Init, ActorInit, TransferInit, Owner
<1>7. Stages
  BY <1>1 DEF Init, TransferInit, Stages
<1>8. Outcome
  BY <1>1 DEF Init, TransferInit, Outcome, CompletedFile, ReportReachesItsDownload
<1>9. QED BY <1>5, <1>6, <1>7, <1>8 DEF TransferInv

\* A step that leaves the parts of the invariant alone.
LEMMA OwnerKept ==
  ASSUME TransferInv, UNCHANGED <<script, taken, phase, pierced, result, known, after>>,
         UNCHANGED <<conn, task, dial>>, conn = "None" => UNCHANGED remote
  PROVE  Owner'
<1>1. Owner /\ pierced \in BOOLEAN
  BY DEF TransferInv, SocketTypeOK, Stages
<1>2. First' = First
  BY DEF First
<1>3. QED BY <1>1, <1>2 DEF Owner

LEMMA StagesKept ==
  ASSUME TransferInv, UNCHANGED <<script, taken, phase, pierced, cancelled, given, file>>
  PROVE  Stages'
<1>1. First' = First /\ Header' = Header /\ Skipped' = Skipped
  BY DEF First, Header, Skipped
<1>2. QED BY <1>1 DEF TransferInv, Stages

LEMMA OutcomeKept ==
  ASSUME TransferInv, UNCHANGED transferVars, UNCHANGED <<script, taken>>,
         (remote = "Eof" => UNCHANGED <<remote, arrived>>)
  PROVE  Outcome'
<1>1. Header' = Header /\ Skipped' = Skipped
  BY DEF Header, Skipped, transferVars
<1>2. CompletedFile'
  BY <1>1 DEF TransferInv, Outcome, CompletedFile, transferVars
<1>3. ReportReachesItsDownload'
  BY DEF TransferInv, Outcome, ReportReachesItsDownload, transferVars
<1>4. QED BY <1>2, <1>3 DEF TransferInv, Outcome, transferVars

\* The actor's steps.
LEMMA ActorTransferInv ==
  ASSUME TransferInv, ActorNext, UNCHANGED <<conn, transferVars>>
  PROVE  TransferInv'
<1>1. /\ Reads
      /\ task = "None" => UNCHANGED <<socketVars, task, dial>>
      /\ task # "None" => task' # "None"
  BY ActorFrame DEF TransferInv, Owner
<1>2. SocketTypeOK'
  BY <1>1, ReadsKeepTypes DEF TransferInv
<1>3. CASE task = "None"
  <2>1. UNCHANGED <<socketVars, task, dial>>
    BY <1>1, <1>3
  <2>2. Owner' /\ Stages' /\ Outcome'
    BY <2>1, OwnerKept, StagesKept, OutcomeKept DEF socketVars, transferVars
  <2>3. QED BY <1>2, <2>2 DEF TransferInv
<1>4. CASE task # "None"
  <2>1. phase = "None" /\ conn = "Given"
    BY <1>1, <1>4 DEF TransferInv, Owner, Reads
  <2>2. QED
    BY <1>1, <1>2, <1>4, <2>1 DEF TransferInv, Owner, Stages, Outcome, transferVars,
                                  CompletedFile, ReportReachesItsDownload
<1>5. QED BY <1>3, <1>4

\* The peer's steps.
LEMMA PeerTransferInv ==
  ASSUME TransferInv, Peer, UNCHANGED <<conn, actorVars, transferVars>>
  PROVE  TransferInv'
<1>1. SocketTypeOK'
  BY PeerTypes DEF TransferInv
<1>2. UNCHANGED <<script, taken>> /\ remote = "Open"
  BY DEF Peer, PeerSends, PeerCloses
<1>3. UNCHANGED <<task, dial>>
  BY DEF actorVars, lifeVars
<1>4. Owner' /\ Stages' /\ Outcome'
  BY <1>2, <1>3, OwnerKept, StagesKept, OutcomeKept DEF transferVars, TransferInv, Owner
<1>5. QED BY <1>1, <1>4 DEF TransferInv

\* The listener's.
LEMMA ListenerTransferInv ==
  ASSUME TransferInv, Listener
  PROVE  TransferInv'
<1>1. Owner /\ Stages /\ Outcome /\ SocketTypeOK
  BY DEF TransferInv
<1>2. pierced \in BOOLEAN /\ taken \in Nat
  BY <1>1, SocketNumbers DEF SocketTypeOK, Stages
<1>3. CASE Accept \/ ReadInit \/ InitFails
  <2>1. phase = "None" /\ task = "None" /\ dial = "None" /\ conn' # "Given"
        /\ UNCHANGED <<script, arrived, actorVars, transferVars>>
    BY <1>1, <1>3 DEF Accept, ReadInit, InitFails, Owner, socketVars
  <2>2. SocketTypeOK'
    <3>1. CASE ReadInit
      <4>1. PICK n \in Readable : /\ taken' = taken + n
                                  /\ extracted' = extracted \/ (extracted' = 1 /\ taken' >= 2)
        <5>1. PICK n \in Readable : /\ taken' = taken + n
                                    /\ IF taken' < 2 THEN UNCHANGED <<conn, extracted>>
                                       ELSE conn' = "Routing" /\ extracted' = 1
          BY <3>1 DEF ReadInit
        <5>2. arrived \in Nat
          BY <1>1, SocketNumbers DEF SocketTypeOK
        <5>3. taken' \in Int
          BY <1>2, <5>1, <5>2 DEF Readable
        <5>4. CASE taken' < 2
          BY <5>1, <5>4
        <5>5. CASE taken' >= 2
          BY <5>1, <5>3, <5>5
        <5>6. QED BY <5>3, <5>4, <5>5
      <4>2. Len(script) \in Nat /\ arrived \in Nat /\ taken <= arrived /\ arrived <= 2 * Len(script)
        BY <1>1, SocketNumbers DEF SocketTypeOK
      <4>3. taken' \in 0 .. arrived
        BY <1>2, <4>1, <4>2 DEF Readable
      <4>4. extracted' \in 0 .. Len(script) /\ 2 * extracted' <= taken'
        <5>1. CASE extracted' = extracted
          BY <1>1, <1>2, <4>1, <4>2, <5>1 DEF SocketTypeOK, Readable
        <5>2. CASE extracted' = 1 /\ taken' >= 2
          BY <4>2, <4>3, <5>2
        <5>3. QED BY <4>1, <5>1, <5>2
      <4>5. QED BY <1>1, <2>1, <3>1, <4>3, <4>4
            DEF ReadInit, SocketTypeOK, Header
    <3>2. CASE Accept
      BY <1>1, <3>2 DEF Accept, SocketTypeOK, Header
    <3>3. CASE InitFails
      BY <1>1, <3>3 DEF InitFails, SocketTypeOK, socketVars
    <3>4. QED BY <1>3, <3>1, <3>2, <3>3
  <2>3. Stages' /\ Outcome'
    BY <1>1, <2>1 DEF Owner, Stages, Outcome, transferVars, CompletedFile, ReportReachesItsDownload
  <2>4. conn' \notin {"Asking", "None"} /\ (conn' = "Routing" => taken' >= 2)
    <3>1. CASE Accept \/ InitFails
      BY <3>1 DEF Accept, InitFails
    <3>2. CASE ReadInit
      <4>1. PICK n \in Readable : /\ taken' = taken + n
                                  /\ IF taken' < 2 THEN UNCHANGED <<conn, extracted>>
                                     ELSE conn' = "Routing" /\ extracted' = 1
        BY <3>2 DEF ReadInit
      <4>2. taken' \in Int
        <5>1. arrived \in Nat
          BY <1>1, SocketNumbers DEF SocketTypeOK
        <5>2. QED BY <1>2, <4>1, <5>1 DEF Readable
      <4>3. conn = "Reading"
        BY <3>2 DEF ReadInit
      <4>4. CASE taken' < 2
        BY <4>1, <4>3, <4>4
      <4>5. CASE taken' >= 2
        BY <4>1, <4>2, <4>5
      <4>6. QED BY <4>2, <4>4, <4>5
    <3>3. QED BY <1>3, <3>1, <3>2
  <2>5. UNCHANGED <<phase, task, dial, pierced, result, known, after>>
    BY <2>1 DEF transferVars, actorVars, lifeVars
  <2>6. Owner'
    BY <1>1, <2>1, <2>4, <2>5 DEF Owner
  <2>7. QED BY <2>2, <2>3, <2>6 DEF TransferInv
<1>4. CASE Route
  <2>1. phase = "None" /\ UNCHANGED <<socketVars, transferVars>> /\ taken >= 2
        /\ task = "None" /\ dial = "None"
    BY <1>1, <1>4 DEF Route, Owner
  <2>2. SocketTypeOK'
    BY <1>1, <2>1 DEF SocketTypeOK, socketVars
  <2>3. Stages' /\ Outcome'
    <3>1. /\ UNCHANGED <<script, taken, remote, arrived>>
          /\ UNCHANGED <<phase, pierced, cancelled, given, file>>
      BY <2>1 DEF socketVars, transferVars
    <3>2. Stages'
      BY <3>1, StagesKept
    <3>3. Outcome'
      BY <2>1, <3>1, OutcomeKept
    <3>4. QED BY <3>2, <3>3
  <2>4. /\ dial' = dial
        /\ conn' = "Given" \/ task' = task
        /\ conn' \in {"Given", "Asking", "Closed"}
        /\ conn' = "Asking" => \/ First = "PierceFireWall"
                               \/ First = "PeerInit F" /\ taken >= 4
    BY <1>4 DEF Route, Register, actorVars, lifeVars
  <2>5. First' = First
    BY <2>1 DEF First, socketVars
  <2>6. Owner'
    BY <1>1, <1>2, <2>1, <2>4, <2>5 DEF Owner, transferVars, socketVars
  <2>7. QED BY <2>2, <2>3, <2>6 DEF TransferInv

<1>5. CASE Ask
  <2>1. /\ phase = "None" /\ ~pierced /\ result = "None" /\ after = 0
        /\ UNCHANGED <<socketVars, actorVars>> /\ task = "None" /\ dial = "None"
        /\ (First = "PierceFireWall" /\ taken >= 2) \/ (First = "PeerInit F" /\ taken >= 4)
    BY <1>1, <1>5 DEF Ask, Owner
  <2>2. SocketTypeOK'
    BY <1>1, <2>1 DEF SocketTypeOK, socketVars
  <2>3. CASE conn' = "Closed" /\ UNCHANGED transferVars
    <3>1. Stages' /\ Outcome'
      <4>1. UNCHANGED <<script, taken, remote, arrived>>
        BY <2>1 DEF socketVars
      <4>2. QED BY <2>3, <4>1, StagesKept, OutcomeKept DEF transferVars
    <3>2. Owner'
      BY <1>1, <2>1, <2>3 DEF Owner, transferVars, actorVars, lifeVars, socketVars, First
    <3>3. QED BY <2>2, <3>1, <3>2 DEF TransferInv
  <2>4. CASE conn' = "Given" /\ SpawnDirect(TRUE)
    <3>1. /\ phase' = "Opening" /\ known' = "Own"
          /\ UNCHANGED <<pierced, cancelled, file, after, result, told>>
      BY <2>4 DEF SpawnDirect, runVars
    <3>2. taken >= Header /\ Skipped' = taken
      <4>1. script \in Scripts /\ given' = taken /\ script' = script
        BY <1>1, <2>1, <2>4 DEF SocketTypeOK, SpawnDirect, socketVars
      <4>2. /\ First = "PeerInit F" => Header = 4
            /\ First = "PierceFireWall" => Header = 2
        BY <4>1, HeaderFacts
      <4>3. First \in InitItem
        BY <2>1 DEF InitItem
      <4>4. Skipped' = taken
        BY <4>1, <4>3 DEF Skipped, First
      <4>5. CASE First = "PierceFireWall"
        <5>1. First # "PeerInit F"
          BY <4>5
        <5>2. QED BY <1>2, <2>1, <4>2, <4>4, <4>5, <5>1
      <4>6. CASE First = "PeerInit F"
        <5>1. First # "PierceFireWall"
          BY <4>6
        <5>2. QED BY <1>2, <2>1, <4>2, <4>4, <4>6, <5>1
      <4>7. QED BY <2>1, <4>5, <4>6
    <3>3. UNCHANGED <<script, taken, task, dial, remote, arrived>>
      BY <2>1 DEF socketVars, actorVars, lifeVars
    <3>4. Stages'
      <4>1. given' \in Nat
        BY <1>2, <2>4 DEF SpawnDirect
      <4>2. QED BY <1>1, <1>2, <2>1, <3>1, <3>2, <3>3, <4>1 DEF Stages, Header
    <3>5. Owner'
      BY <1>1, <2>1, <2>4, <3>1, <3>3 DEF Owner
    <3>6. Outcome'
      BY <1>1, <2>1, <3>1, <3>3 DEF Outcome, CompletedFile, ReportReachesItsDownload
    <3>7. QED BY <2>2, <3>4, <3>5, <3>6 DEF TransferInv
  <2>5. QED BY <1>5, <2>3, <2>4 DEF Ask
<1>6. QED BY <1>3, <1>4, <1>5 DEF Listener

\* The worker's.
LEMMA WorkerTransferInv ==
  ASSUME TransferInv, Worker
  PROVE  TransferInv'
<1>1. Owner /\ Stages /\ Outcome /\ SocketTypeOK
  BY DEF TransferInv
<1>2. /\ conn = "None" /\ conn' = "Given" /\ UNCHANGED socketVars
      /\ phase = "None" /\ task = "None" /\ dial = "None" /\ taken = 0
      /\ ~pierced /\ result = "None" /\ after = 0 /\ known = "Nobody"
  BY <1>1 DEF Worker, ConnectP, ConnectF, DownloadFromPeer, Owner
<1>3. SocketTypeOK'
  BY <1>1, <1>2 DEF SocketTypeOK, socketVars
<1>4. UNCHANGED <<script, taken, remote, arrived>>
  BY <1>2 DEF socketVars
<1>5. First' = First
  BY <1>4 DEF First
<1>6. CASE ConnectP
  <2>1. UNCHANGED transferVars /\ UNCHANGED dial
    BY <1>6 DEF ConnectP, Register
  <2>2. Stages' /\ Outcome'
    BY <1>4, <2>1, StagesKept, OutcomeKept DEF transferVars
  <2>3. Owner'
    BY <1>1, <1>2, <1>4, <1>6, <2>1 DEF ConnectP, Register, Owner, transferVars
  <2>4. QED BY <1>3, <2>2, <2>3 DEF TransferInv
<1>7. CASE ConnectF \/ DownloadFromPeer
  <2>1. /\ phase' = "Connecting" /\ pierced' \in BOOLEAN
        /\ UNCHANGED <<cancelled, file, after, result, told, task, dial>>
        /\ First = IF pierced' THEN "Token" ELSE "Data"
        /\ ~pierced' => known' = "Own"
        /\ given' \in Nat
    <3>1. UNCHANGED <<task, dial>>
      BY <1>7 DEF ConnectF, DownloadFromPeer, actorVars, lifeVars
    <3>2. CASE ConnectF
      BY <1>1, <3>1, <3>2 DEF ConnectF, SpawnPierced, loopVars, Stages
    <3>3. CASE DownloadFromPeer
      <4>1. First = "Data" /\ SpawnDirect(FALSE)
        BY <3>3 DEF DownloadFromPeer
      <4>2. /\ phase' = "Connecting" /\ known' = "Own" /\ given' = 0
            /\ UNCHANGED <<pierced, cancelled, file, after, result, told>>
        BY <1>2, <4>1 DEF SpawnDirect
      <4>3. pierced' = FALSE
        BY <1>1, <1>2, <4>2 DEF Stages
      <4>4. QED BY <3>1, <4>1, <4>2, <4>3
    <3>4. QED BY <1>7, <3>2, <3>3
  <2>2. Stages'
    BY <1>1, <1>2, <1>4, <1>5, <2>1 DEF Stages
  <2>3. Owner'
    BY <1>1, <1>2, <1>4, <2>1 DEF Owner
  <2>4. Outcome'
    BY <1>1, <1>2, <1>4, <2>1 DEF Outcome, CompletedFile, ReportReachesItsDownload
  <2>5. QED BY <1>3, <2>2, <2>3, <2>4 DEF TransferInv
<1>8. QED BY <1>6, <1>7 DEF Worker

-----------------------------------------------------------------------------
(* The transfer's own steps. *)

\* How a transfer that ends leaves what it has to report.
LEMMA EndsOutcome ==
  ASSUME TransferInv, phase \notin {"None", "Asking", "Reported"},
         NEW res \in {"Completed", "Failed", "TimedOut", "Cancelled"}, Ends(res),
         res = "Completed" => phase = "Reading",
         UNCHANGED <<pierced, initiating, known>>
  PROVE  /\ phase' \in {"Asking", "Reported"} /\ result' = res
         /\ phase' = "Asking" => pierced' /\ result' # "Completed"
         /\ ReportReachesItsDownload'
<1>1. Stages /\ Outcome
  BY DEF TransferInv
<1>2. result' = res /\ phase' \in {"Asking", "Reported"}
  BY DEF Ends
<1>3. phase' = "Asking" => pierced' /\ result' # "Completed"
  BY <1>1, <1>2 DEF Ends, Stages
<1>4. ASSUME phase' = "Reported" PROVE ReportReachesItsDownload'
  <2>1. told' = Reported(known)
    BY <1>4 DEF Ends
  <2>2. ~pierced => known = "Own"
    BY <1>1 DEF Outcome
  <2>3. res = "Completed" => known = "Own"
    BY <1>1 DEF Outcome
  <2>4. QED
    BY <1>1, <1>2, <2>1, <2>2, <2>3 DEF ReportReachesItsDownload, Reported, Stages
<1>5. QED BY <1>2, <1>3, <1>4 DEF ReportReachesItsDownload

\* A step of a transfer that has begun leaves its owner.
LEMMA WorkOwner ==
  ASSUME TransferInv, TransferNext, UNCHANGED <<conn, actorVars>>
  PROVE  Owner' /\ phase # "None" /\ phase' # "None" /\ script' = script
<1>1. phase # "None" /\ phase' # "None" /\ script' = script
  <2>1. CASE Cancel
    BY <2>1 DEF Cancel, socketVars
  <2>2. CASE EstablishConnection \/ ReadToken \/ OpenOutput
    BY <2>2 DEF EstablishConnection, ReadToken, OpenOutput, Ends
  <2>3. CASE Resolve \/ AskAgain
    BY <2>3 DEF Resolve, AskAgain, socketVars
  <2>4. CASE ReadChunk
    BY <2>4 DEF ReadChunk, Reading, Ends
  <2>5. CASE ReadEnd \/ ReadTimeout \/ ReadError
    BY <2>5 DEF ReadEnd, ReadTimeout, ReadError, Reading, Ends, socketVars
  <2>6. QED BY <2>1, <2>2, <2>3, <2>4, <2>5 DEF TransferNext, Work
<1>2. UNCHANGED <<task, dial>>
  BY DEF actorVars, lifeVars
<1>3. QED BY <1>1, <1>2 DEF TransferInv, Owner

LEMMA WorkTransferInv ==
  ASSUME TransferInv, TransferNext, UNCHANGED <<conn, actorVars>>
  PROVE  TransferInv'
<1> USE DEF runVars, loopVars
<1>1. Owner /\ Stages /\ Outcome /\ SocketTypeOK
  BY DEF TransferInv
<1>2. Owner' /\ phase # "None" /\ script' = script
  BY WorkOwner
<1>3. /\ pierced \in BOOLEAN /\ cancelled \in BOOLEAN
      /\ taken \in Nat /\ arrived \in Nat /\ taken <= arrived
  BY <1>1, SocketNumbers DEF SocketTypeOK, Stages
<1>4. First' = First /\ Header' = Header /\ given' = given /\ Skipped' = Skipped
  <2>1. given' = given
    BY DEF TransferNext, Work, EstablishConnection, ReadToken, Resolve, OpenOutput, ReadChunk,
           ReadEnd, ReadTimeout, ReadError, AskAgain, Cancel
  <2>2. QED BY <1>2, <2>1 DEF First, Header, Skipped
<1>5. /\ script \in Scripts /\ HeaderItems(script) \in Nat
      /\ Header = 2 * HeaderItems(script) /\ (First = "Token" => Header = 2)
      /\ (First = "Data" => Header = 0) /\ Header \in Nat
      /\ Skipped \in Nat /\ (First \in {"Token", "Data"} => Skipped = Header)
  <2>1. script \in Scripts
    BY <1>1 DEF SocketTypeOK
  <2>2. /\ HeaderItems(script) \in Nat /\ Header = 2 * HeaderItems(script)
        /\ First \in {"PierceFireWall", "Token"} => Header = 2
        /\ First = "Data" => Header = 0
    BY <2>1, HeaderFacts
  <2>3. Skipped \in Nat /\ (First \in {"Token", "Data"} => Skipped = Header)
    BY <1>1, <2>1, SkippedFacts DEF Stages
  <2>4. QED BY <2>1, <2>2, <2>3
<1>6. CASE EstablishConnection
  <2>1. UNCHANGED <<arrived, taken, extracted, pierced, initiating, cancelled, known, file, after>>
        /\ phase = "Connecting" /\ taken = 0 /\ result = "None" /\ after = 0
        /\ First = IF pierced THEN "Token" ELSE "Data"
    BY <1>1, <1>6 DEF EstablishConnection, Stages, Outcome
  <2>2. Reads
    BY <1>2, <1>6, <2>1 DEF EstablishConnection, Reads
  <2>3. SocketTypeOK'
    BY <1>1, <2>2, ReadsKeepTypes
  <2>4. CASE phase' = (IF pierced THEN "Piercing" ELSE "Opening") /\ UNCHANGED <<result, told>>
    <3>1. Stages'
      BY <1>1, <1>3, <1>4, <1>5, <2>1, <2>4 DEF Stages
    <3>2. Outcome'
      BY <1>1, <1>3, <1>4, <2>1, <2>4 DEF Outcome, CompletedFile, ReportReachesItsDownload
    <3>3. QED BY <1>2, <2>3, <3>1, <3>2 DEF TransferInv
  <2>5. CASE Ends("Failed")
    <3>1. /\ phase' \in {"Asking", "Reported"} /\ result' = "Failed"
          /\ phase' = "Asking" => pierced' /\ result' # "Completed"
          /\ ReportReachesItsDownload'
      BY <2>1, <2>5, EndsOutcome
    <3>2. Stages'
      BY <1>1, <1>4, <2>1, <3>1 DEF Stages
    <3>3. Outcome'
      BY <1>1, <1>4, <2>1, <3>1 DEF Outcome, CompletedFile
    <3>4. QED BY <1>2, <2>3, <3>2, <3>3 DEF TransferInv
  <2>6. QED BY <1>6, <2>4, <2>5 DEF EstablishConnection
<1>7. CASE ReadToken
  <2>1. /\ UNCHANGED <<arrived, extracted, remote, pierced, initiating, cancelled, known, file, after>>
        /\ phase = "Piercing" /\ pierced /\ result = "None" /\ after = 0
        /\ First = "Token"
    BY <1>1, <1>7 DEF ReadToken, Stages, Outcome
  <2>2. Reads
    BY <1>2, <1>7, <2>1 DEF ReadToken, Reads
  <2>3. SocketTypeOK'
    BY <1>1, <2>2, ReadsKeepTypes
  <2>4. ASSUME NEW n \in Readable, taken' = taken + n, ~(n < 2),
               phase' = "Resolving", UNCHANGED <<result, told>>
        PROVE  TransferInv'
    <3>1. taken' >= 2
      BY <1>3, <2>4 DEF Readable
    <3>2. Stages'
      BY <1>1, <1>3, <1>4, <2>1, <2>4, <3>1 DEF Stages
    <3>3. Outcome'
      BY <1>1, <1>4, <2>1, <2>4 DEF Outcome, CompletedFile, ReportReachesItsDownload
    <3>4. QED BY <1>2, <2>3, <3>2, <3>3 DEF TransferInv
  <2>5. CASE Ends("Failed")
    <3>1. /\ phase' \in {"Asking", "Reported"} /\ result' = "Failed"
          /\ phase' = "Asking" => pierced' /\ result' # "Completed"
          /\ ReportReachesItsDownload'
      BY <2>1, <2>5, EndsOutcome
    <3>2. Stages'
      BY <1>1, <1>4, <2>1, <3>1 DEF Stages
    <3>3. Outcome'
      BY <1>1, <1>4, <2>1, <3>1 DEF Outcome, CompletedFile
    <3>4. QED BY <1>2, <2>3, <3>2, <3>3 DEF TransferInv
  <2>6. QED BY <1>7, <2>4, <2>5 DEF ReadToken
<1>8. CASE Resolve
  <2>1. /\ UNCHANGED <<arrived, taken, extracted, remote>>
        /\ UNCHANGED <<pierced, initiating, cancelled, file, after, told>>
        /\ phase = "Resolving" /\ pierced /\ result = "None" /\ after = 0
        /\ First = "Token" /\ taken >= 2
    BY <1>1, <1>8 DEF Resolve, Stages, Outcome, socketVars
  <2>2. Reads
    BY <1>2, <2>1 DEF Reads
  <2>3. SocketTypeOK'
    BY <1>1, <2>2, ReadsKeepTypes
  <2>4. taken >= Header
    BY <1>5, <2>1
  <2>5. CASE known' = "Own" /\ phase' = "Opening" /\ UNCHANGED result
    <3>1. Stages'
      BY <1>1, <1>3, <1>4, <2>1, <2>4, <2>5 DEF Stages
    <3>2. Outcome'
      BY <1>1, <1>3, <1>4, <2>1, <2>5 DEF Outcome, CompletedFile, ReportReachesItsDownload
    <3>3. QED BY <1>2, <2>3, <3>1, <3>2 DEF TransferInv
  <2>6. CASE phase' = "Asking" /\ result' = "Failed" /\ UNCHANGED <<known, limit>>
    <3>1. Stages'
      BY <1>1, <1>4, <2>1, <2>6 DEF Stages
    <3>2. Outcome'
      BY <1>1, <1>3, <1>4, <2>1, <2>6 DEF Outcome, CompletedFile, ReportReachesItsDownload
    <3>3. QED BY <1>2, <2>3, <3>1, <3>2 DEF TransferInv
  <2>7. QED BY <1>8, <2>5, <2>6 DEF Resolve
<1>9. CASE OpenOutput
  <2>1. /\ UNCHANGED <<arrived, taken, extracted, remote, pierced, initiating, cancelled, known, after>>
        /\ phase = "Opening" /\ result = "None" /\ after = 0
        /\ taken >= Header /\ IF pierced THEN First = "Token" ELSE taken = Skipped
    BY <1>1, <1>9 DEF OpenOutput, Stages, Outcome
  <2>2. SocketTypeOK'
    BY <1>1, <1>2, <1>3, <1>4, <1>9, <2>1 DEF OpenOutput, SocketTypeOK
  <2>3. CASE phase' = "Reading" /\ file' = (IF pierced THEN taken - 2 ELSE 0)
             /\ UNCHANGED <<result, told>>
    <3>1. Skipped' >= Header' /\ file' = taken' - Skipped'
      BY <1>3, <1>4, <1>5, <2>1, <2>3
    <3>2. Stages'
      BY <1>1, <1>4, <2>1, <2>3, <3>1 DEF Stages
    <3>3. Outcome'
      BY <1>1, <1>4, <2>1, <2>3 DEF Outcome, CompletedFile, ReportReachesItsDownload
    <3>4. QED BY <1>2, <2>2, <3>2, <3>3 DEF TransferInv
  <2>4. CASE Ends("Failed")
    <3>1. /\ phase' \in {"Asking", "Reported"} /\ result' = "Failed"
          /\ phase' = "Asking" => pierced' /\ result' # "Completed"
          /\ ReportReachesItsDownload'
      BY <2>1, <2>4, EndsOutcome
    <3>2. Stages'
      BY <1>1, <1>4, <2>1, <3>1 DEF Stages
    <3>3. Outcome'
      BY <1>1, <1>4, <2>1, <3>1 DEF Outcome, CompletedFile
    <3>4. QED BY <1>2, <2>2, <3>2, <3>3 DEF TransferInv
  <2>5. QED BY <1>9, <2>3, <2>4 DEF OpenOutput
<1>10. CASE ReadChunk
  <2>1. /\ UNCHANGED <<arrived, extracted, remote, pierced, initiating, cancelled, known>>
        /\ phase = "Reading" /\ result = "None" /\ after = 0
        /\ Skipped >= Header /\ file = taken - Skipped
    BY <1>1, <1>10 DEF ReadChunk, Reading, Stages, Outcome
  <2>2. Reads
    BY <1>2, <1>10, <2>1 DEF ReadChunk, Reads
  <2>3. SocketTypeOK'
    BY <1>1, <2>2, ReadsKeepTypes
  <2>4. PICK n \in Readable :
          /\ taken' = taken + n
          /\ \/ /\ file' = file + n
                /\ after' = IF cancelled THEN after + 1 ELSE after
                /\ \/ cancelled /\ Ends("Cancelled")
                   \/ ~cancelled /\ Enough(n) /\ (Ends("Completed") \/ Ends("Failed"))
                   \/ ~cancelled /\ UNCHANGED <<phase, result, told>>
             \/ Ends("Failed") /\ UNCHANGED loopVars
    BY <1>3, <1>10 DEF ReadChunk, FlagSeen
  <2>5. n \in Int
    BY <1>3 DEF Readable
  <2>6. CASE file' = file + n /\ after' = (IF cancelled THEN after + 1 ELSE after)
    <3>1. Skipped' >= Header' /\ file' = taken' - Skipped'
      BY <1>3, <1>4, <1>5, <2>1, <2>4, <2>5, <2>6
    <3>2. CASE cancelled /\ Ends("Cancelled")
      <4>1. /\ phase' \in {"Asking", "Reported"} /\ result' = "Cancelled"
            /\ phase' = "Asking" => pierced' /\ result' # "Completed"
            /\ ReportReachesItsDownload'
        BY <2>1, <3>2, EndsOutcome
      <4>2. after' = 1
        BY <2>1, <2>6, <3>2
      <4>3. Stages'
        BY <1>1, <1>4, <2>1, <4>1 DEF Stages
      <4>4. Outcome'
        BY <1>1, <1>4, <2>1, <3>2, <4>1, <4>2 DEF Outcome, CompletedFile
      <4>5. QED BY <1>2, <2>3, <4>3, <4>4 DEF TransferInv
    <3>3. CASE ~cancelled /\ Enough(n) /\ (Ends("Completed") \/ Ends("Failed"))
      <4>1. /\ phase' \in {"Asking", "Reported"} /\ result' \in {"Completed", "Failed"}
            /\ phase' = "Asking" => pierced' /\ result' # "Completed"
            /\ ReportReachesItsDownload'
        <5>1. CASE Ends("Completed")
          BY <2>1, <5>1, EndsOutcome
        <5>2. CASE Ends("Failed")
          BY <2>1, <5>2, EndsOutcome
        <5>3. QED BY <3>3, <5>1, <5>2
      <4>2. file' >= Size /\ after' = 0
        BY <2>1, <2>6, <3>3 DEF Enough
      <4>3. CompletedFile'
        BY <3>1, <4>2 DEF CompletedFile
      <4>4. Stages'
        BY <1>1, <1>4, <2>1, <4>1 DEF Stages
      <4>5. Outcome'
        BY <1>1, <1>4, <2>1, <3>3, <4>1, <4>2, <4>3 DEF Outcome
      <4>6. QED BY <1>2, <2>3, <4>4, <4>5 DEF TransferInv
    <3>4. CASE ~cancelled /\ UNCHANGED <<phase, result, told>>
      <4>1. after' = 0
        BY <2>1, <2>6, <3>4
      <4>2. Stages'
        BY <1>1, <1>4, <2>1, <3>1, <3>4 DEF Stages
      <4>3. Outcome'
        BY <1>1, <1>4, <2>1, <3>4, <4>1 DEF Outcome, CompletedFile, ReportReachesItsDownload
      <4>4. QED BY <1>2, <2>3, <4>2, <4>3 DEF TransferInv
    <3>5. CASE Ends("Failed") /\ UNCHANGED loopVars
      <4>1. /\ phase' \in {"Asking", "Reported"} /\ result' = "Failed"
            /\ phase' = "Asking" => pierced' /\ result' # "Completed"
            /\ ReportReachesItsDownload'
        BY <2>1, <3>5, EndsOutcome
      <4>2. Stages' /\ Outcome'
        BY <1>1, <1>4, <2>1, <3>5, <4>1 DEF Stages, Outcome, CompletedFile
      <4>3. QED BY <1>2, <2>3, <4>2 DEF TransferInv
    <3>6. QED BY <2>4, <3>2, <3>3, <3>4, <3>5
  <2>7. CASE Ends("Failed") /\ UNCHANGED loopVars
    <3>1. /\ phase' \in {"Asking", "Reported"} /\ result' = "Failed"
          /\ phase' = "Asking" => pierced' /\ result' # "Completed"
          /\ ReportReachesItsDownload'
      BY <2>1, <2>7, EndsOutcome
    <3>2. Stages' /\ Outcome'
      BY <1>1, <1>4, <2>1, <2>7, <3>1 DEF Stages, Outcome, CompletedFile
    <3>3. QED BY <1>2, <2>3, <3>2 DEF TransferInv
  <2>8. QED BY <2>4, <2>6, <2>7
<1>11. CASE ReadEnd \/ ReadTimeout \/ ReadError
  <2>1. /\ UNCHANGED <<script, arrived, taken, extracted, remote>>
        /\ UNCHANGED <<pierced, initiating, cancelled, known, file, after>>
        /\ phase = "Reading" /\ result = "None" /\ after = 0
        /\ Skipped >= Header /\ file = taken - Skipped
    <3>1. phase = "Reading"
      BY <1>11 DEF ReadEnd, ReadTimeout, ReadError, Reading
    <3>2. UNCHANGED <<socketVars, pierced, initiating, cancelled, known, file, after>>
      BY <1>11 DEF ReadEnd, ReadTimeout, ReadError
    <3>3. QED BY <1>1, <3>1, <3>2 DEF Stages, Outcome, socketVars
  <2>2. SocketTypeOK'
    BY <1>1, <2>1, ReadsKeepTypes DEF Reads
  <2>3. CASE Ends("Completed") /\ remote = "Eof" /\ arrived = taken
    <3>1. /\ phase' \in {"Asking", "Reported"} /\ result' = "Completed"
          /\ phase' = "Asking" => pierced' /\ result' # "Completed"
          /\ ReportReachesItsDownload'
      BY <2>1, <2>3, EndsOutcome
    <3>2. CompletedFile'
      BY <1>4, <2>1, <2>3 DEF CompletedFile
    <3>3. Stages' /\ Outcome'
      BY <1>1, <1>4, <2>1, <3>1, <3>2 DEF Stages, Outcome
    <3>4. QED BY <1>2, <2>2, <3>3 DEF TransferInv
  <2>4. ASSUME NEW res \in {"Failed", "Cancelled", "TimedOut"}, Ends(res)
        PROVE  TransferInv'
    <3>1. /\ phase' \in {"Asking", "Reported"} /\ result' = res
          /\ phase' = "Asking" => pierced' /\ result' # "Completed"
          /\ ReportReachesItsDownload'
      BY <2>1, <2>4, EndsOutcome
    <3>2. Stages' /\ Outcome'
      BY <1>1, <1>4, <2>1, <3>1 DEF Stages, Outcome, CompletedFile
    <3>3. QED BY <1>2, <2>2, <3>2 DEF TransferInv
  <2>5. CASE UNCHANGED <<phase, result, told>>
    <3>1. Stages'
      BY <1>1, <1>4, <2>1, <2>5 DEF Stages
    <3>2. Outcome'
      BY <1>1, <1>4, <2>1, <2>5 DEF Outcome, CompletedFile, ReportReachesItsDownload
    <3>3. QED BY <1>2, <2>2, <3>1, <3>2 DEF TransferInv
  <2>6. QED BY <1>3, <1>11, <2>3, <2>4, <2>5 DEF ReadEnd, ReadTimeout, ReadError
<1>12. CASE Cancel
  <2>1. /\ UNCHANGED <<script, arrived, taken, extracted, remote>>
        /\ UNCHANGED <<phase, pierced, initiating, known, file, after, result, told>>
        /\ cancelled' = TRUE /\ ~cancelled
    BY <1>12 DEF Cancel, socketVars
  <2>2. SocketTypeOK'
    BY <1>1, <2>1, ReadsKeepTypes DEF Reads
  <2>3. Stages'
    BY <1>1, <1>4, <2>1 DEF Stages
  <2>4. Outcome'
    BY <1>1, <1>4, <2>1 DEF Outcome, CompletedFile, ReportReachesItsDownload
  <2>5. QED BY <1>2, <2>2, <2>3, <2>4 DEF TransferInv
<1>13. CASE AskAgain
  <2>1. /\ UNCHANGED <<script, arrived, taken, extracted, remote>>
        /\ UNCHANGED <<pierced, initiating, cancelled, known, file, after, result>>
        /\ phase = "Asking" /\ phase' = "Reported"
        /\ told' \in {Reported(known), Reported("Nobody")}
    BY <1>13 DEF AskAgain, socketVars
  <2>2. SocketTypeOK'
    BY <1>1, <2>1, ReadsKeepTypes DEF Reads
  <2>3. Stages'
    BY <1>1, <1>4, <2>1 DEF Stages
  <2>4. ReportReachesItsDownload'
    BY <1>1, <2>1 DEF Outcome, ReportReachesItsDownload, Reported
  <2>5. Outcome'
    BY <1>1, <1>4, <2>1, <2>4 DEF Outcome, CompletedFile
  <2>6. QED BY <1>2, <2>2, <2>3, <2>5 DEF TransferInv
<1>14. QED
  BY <1>6, <1>7, <1>8, <1>9, <1>10, <1>11, <1>12, <1>13 DEF TransferNext, Work

-----------------------------------------------------------------------------
\* Every step preserves the invariant.
LEMMA NextTransferInv == TransferInv /\ [Next]_vars => TransferInv'
<1>1. SUFFICES ASSUME TransferInv, [Next]_vars PROVE TransferInv'
  OBVIOUS
<1>2. CASE Listener
  BY <1>1, <1>2, ListenerTransferInv
<1>3. CASE Worker
  BY <1>1, <1>3, WorkerTransferInv
<1>4. CASE ActorNext /\ UNCHANGED <<conn, transferVars>>
  BY <1>1, <1>4, ActorTransferInv
<1>5. CASE TransferNext /\ UNCHANGED <<conn, actorVars>>
  BY <1>1, <1>5, WorkTransferInv
<1>6. CASE Peer /\ UNCHANGED <<conn, actorVars, transferVars>>
  BY <1>1, <1>6, PeerTransferInv
<1>7. CASE UNCHANGED vars
  <2>1. SocketTypeOK'
    BY <1>1, <1>7, ReadsKeepTypes DEF TransferInv, Reads, vars, socketVars
  <2>2. Owner' /\ Stages' /\ Outcome'
    BY <1>1, <1>7, OwnerKept, StagesKept, OutcomeKept
       DEF vars, socketVars, transferVars, actorVars, lifeVars
  <2>3. QED BY <2>1, <2>2 DEF TransferInv
<1>8. QED BY <1>1, <1>2, <1>3, <1>4, <1>5, <1>6, <1>7 DEF Next

\* In every reachable state.
THEOREM TransferInvariant == Spec => []TransferInv
BY InitTransferInv, NextTransferInv, PTL DEF Spec

\* Whenever the peer sends the file, asked or not: a completed transfer has in its
\* file what the peer sent as the file and nothing else, all of the size or all there
\* was when the peer closed.  Only on a connection of the listener the beginning may
\* be missing: what the listener had read when it gave the connection away.
THEOREM FilesAreComplete == Spec => []CompletedFile
<1>1. TransferInv => CompletedFile
  BY DEF TransferInv, Outcome
<1>2. QED BY <1>1, TransferInvariant, PTL

\* Once cancelled a transfer writes at most the chunk it was reading.
THEOREM CancellationIsSeen == Spec => []CancelStopsWriting
<1>1. TransferInv => CancelStopsWriting
  BY DEF TransferInv, Outcome, CancelStopsWriting
<1>2. QED BY <1>1, TransferInvariant, PTL

\* The end of a transfer is told to the download it was for, if there is one.
THEOREM EndsAreReported == Spec => []ReportReachesItsDownload
<1>1. TransferInv => ReportReachesItsDownload
  BY DEF TransferInv, Outcome
<1>2. QED BY <1>1, TransferInvariant, PTL

=============================================================================
