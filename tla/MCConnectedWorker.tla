------------------------- MODULE MCConnectedWorker -------------------------
(***************************************************************************)
(* Calls for ConnectedWorker.  One: one file of one peer.  Shared: the     *)
(* same path asked of two peers, which is one token.                       *)
(***************************************************************************)
EXTENDS ConnectedWorker, TLC

CONSTANTS r1, r2, f1, u1, u2, t1, p1, c1, c2

OneFileOf  == r1 :> f1
OneUserOf  == r1 :> u1

SharedFileOf == r1 :> f1 @@ r2 :> f1
SharedUserOf == r1 :> u1 @@ r2 :> u2

TheTokenOf == f1 :> t1

=============================================================================
