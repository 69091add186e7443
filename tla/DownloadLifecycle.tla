------------------------- MODULE DownloadLifecycle -------------------------
(***************************************************************************)
(* What Client::download promises a caller, without queue, slots, tokens   *)
(* or timers: the way of a DownloadStatus (types.rs), and that the peer is *)
(* asked for a file only while its caller still waits for it.              *)
(***************************************************************************)

CONSTANT Request   \* calls of Client::download

VARIABLES
  shown,  \* [Request -> status]: the last status on each caller's channel
  asked   \* the calls whose QueueUpload was sent

vars == <<shown, asked>>

End == {"Completed", "Failed", "TimedOut", "Cancelled"}

\* Called, and not told an end.
Underway == {r \in Request : shown[r] \in {"Nothing", "QueuedLocally", "QueuedRemotely"}}

Init == shown = [r \in Request |-> "NotRequested"] /\ asked = {}

\* Before connect() a call is only kept; after it, it is queued or sent at once.
Call(r) ==
  /\ shown[r] = "NotRequested"
  /\ \/ shown' = [shown EXCEPT ![r] = "Nothing"] /\ UNCHANGED asked
     \/ shown' = [shown EXCEPT ![r] = "QueuedLocally"] /\ asked' \in {asked, asked \cup {r}}

\* The peer has the request in its own queue, again and again perhaps.
Answer(r) ==
  /\ r \in Underway
  /\ shown' = [shown EXCEPT ![r] = "QueuedRemotely"]
  /\ UNCHANGED asked

\* The downloads of R end alike, and the slots there are now start others.  R is
\* empty when the slots come from a login.
Release(R, s) ==
  /\ shown' = [r \in Request |-> IF r \in R THEN s ELSE shown[r]]
  /\ \E S \in SUBSET (Underway \ R) : asked' = asked \cup S

Next == \/ \E r \in Request : Call(r) \/ Answer(r)
        \/ \E R \in SUBSET Underway, s \in End : Release(R, s)

Spec == Init /\ [][Next]_vars

=============================================================================
