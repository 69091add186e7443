------------------------- MODULE MCDownloadManager -------------------------
(***************************************************************************)
(* Three calls for DownloadManager, to one peer.  Shared: r2 asks again    *)
(* for the file of r1, so the two share a token, and r3 for another file.  *)
(***************************************************************************)
EXTENDS DownloadManager, TLC

CONSTANTS r1, r2, r3, f1, f2, u1, t1, t2, p1

OneUser == r1 :> u1 @@ r2 :> u1 @@ r3 :> u1

SharedFileOf  == r1 :> f1 @@ r2 :> f1 @@ r3 :> f2
SharedTokenOf == f1 :> t1 @@ f2 :> t2

=============================================================================
