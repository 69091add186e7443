------------------------- MODULE MCPeerConnections -------------------------
(***************************************************************************)
(* PeerConnections with one script for each way a connection is made and   *)
(* each message a peer sends.                                              *)
(***************************************************************************)
EXTENDS PeerConnections

CONSTANTS c1, c2

MCScripts ==
  { \* the peer connects to send messages
    <<"PeerInit P", "TransferRequest", "GetShareFileList", "QueueUpload">>,
    \* we connect; the peer sends messages, one of which changes its name
    <<"TransferRequest", "UploadFailed", "FileSearchResponse">>,
    <<"PeerInit", "TransferResponse">>,
    \* file connections: the peer's, one that pierces, ours, ours that pierces
    <<"PeerInit F", "Token", "Data", "Data">>,
    <<"PierceFireWall", "Data", "Data">>,
    <<"Data", "Data">>,
    <<"Token", "Data", "Data">>,
    \* connections that are closed
    <<"PeerInit D">>, <<"Unknown">> }

=============================================================================
