-------------------------- MODULE PeerConnections --------------------------
(***************************************************************************)
(* peer/listen.rs and PeerConnector of client/connected_worker.rs: how a   *)
(* connection with a peer is made, by the peer or by us, and becomes the   *)
(* stream of a PeerActor or of a transfer.                                 *)
(*                                                                         *)
(* One connection is followed from its first byte.  Who opened it and what *)
(* it is for is told by the first item of its script.                      *)
(***************************************************************************)
EXTENDS PeerActor, Transfer

VARIABLE
  conn   \* "None", "Reading" its first message, "Routing", "Asking" the worker,
         \* "Closed", or "Given" to an actor or a transfer

vars == <<conn, socketVars, actorVars, transferVars>>

Init == conn = "None" /\ SocketInit /\ ActorInit /\ TransferInit

First == script[1]

-----------------------------------------------------------------------------
(* The listener. *)

Accept ==
  /\ conn = "None"
  /\ First \in InitItem \cup {"Unknown"}
  /\ conn' = "Reading"
  /\ remote' = "Open"
  /\ UNCHANGED <<script, arrived, taken, extracted, actorVars, transferVars>>

\* Mutant: what was read with the first message is forgotten.
ReadInitOnly ==
  /\ conn = "Reading"
  /\ \E n \in Readable :
       /\ taken' = taken + n
       /\ IF taken' < 2 THEN UNCHANGED <<conn, extracted>>
          ELSE conn' = "Routing" /\ extracted' = taken' \div 2
  /\ UNCHANGED <<script, arrived, remote, actorVars, transferVars>>

\* read_peer_init_message; bytes after the first message stay in the reader.
ReadInit ==
  /\ conn = "Reading"
  /\ \E n \in Readable :
       /\ taken' = taken + n
       /\ IF taken' < 2 THEN UNCHANGED <<conn, extracted>>
          ELSE conn' = "Routing" /\ extracted' = 1
  /\ UNCHANGED <<script, arrived, remote, actorVars, transferVars>>

\* The end of the stream, an error, or PEER_INIT_TIMEOUT.
InitFails ==
  /\ conn = "Reading"
  /\ conn' = "Closed"
  /\ UNCHANGED <<socketVars, actorVars, transferVars>>

\* handle_incoming_connection.  The token of a file connection must have come with
\* the first message; one that comes later is not waited for.
Route ==
  /\ conn = "Routing"
  /\ \/ /\ First = "PeerInit P"
        /\ conn' = "Given" /\ Register(TRUE)
     \/ /\ First = "PierceFireWall" \/ (First = "PeerInit F" /\ taken >= 4)
        /\ conn' = "Asking" /\ UNCHANGED actorVars
     \/ /\ First \in {"PeerInit D", "Unknown"} \/ (First = "PeerInit F" /\ taken < 4)
        /\ conn' = "Closed" /\ UNCHANGED actorVars
  /\ UNCHANGED <<socketVars, transferVars>>

\* QueryDownloadByToken.
Ask ==
  /\ conn = "Asking"
  /\ \/ conn' = "Given" /\ SpawnDirect(TRUE)
     \/ conn' = "Closed" /\ UNCHANGED transferVars
  /\ UNCHANGED <<socketVars, actorVars>>

-----------------------------------------------------------------------------
(* The worker: connections we open. *)

\* GetPeerAddressResponse for a peer the registry does not have, and ConnectToPeer
\* of type P: connect_p.
ConnectP ==
  /\ conn = "None"
  /\ First \notin InitItem \cup RawItem \cup {"Unknown"}
  /\ conn' = "Given" /\ Register(FALSE)
  /\ UNCHANGED <<socketVars, transferVars>>

\* PierceFireWall, and ConnectToPeer of type F: connect_f.
ConnectF ==
  /\ conn = "None" /\ First = "Token"
  /\ conn' = "Given" /\ SpawnPierced
  /\ UNCHANGED <<socketVars, actorVars>>

DownloadFromPeer ==
  /\ conn = "None" /\ First = "Data"
  /\ conn' = "Given" /\ SpawnDirect(FALSE)
  /\ UNCHANGED <<socketVars, actorVars>>

Listener == Accept \/ ReadInit \/ InitFails \/ Route \/ Ask
Worker   == ConnectP \/ ConnectF \/ DownloadFromPeer
Peer     == PeerSends \/ PeerCloses

Next ==
  \/ Listener \/ Worker
  \/ ActorNext /\ UNCHANGED <<conn, transferVars>>
  \/ TransferNext /\ UNCHANGED <<conn, actorVars>>
  \/ Peer /\ UNCHANGED <<conn, actorVars, transferVars>>

Spec == Init /\ [][Next]_vars

FairSpec == Spec /\ ActorFairness /\ TransferFairness

TypeOK ==
  /\ conn \in {"None", "Reading", "Routing", "Asking", "Closed", "Given"}
  /\ SocketTypeOK /\ ActorTypeOK /\ TransferTypeOK

=============================================================================
