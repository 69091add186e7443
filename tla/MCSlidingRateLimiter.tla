----------------------- MODULE MCSlidingRateLimiter -----------------------
(***************************************************************************)
(* Four calls, two places, a window of two ticks: two calls fill the       *)
(* window, the other two queue, and any of them may be dropped.            *)
(***************************************************************************)
EXTENDS SlidingRateLimiter

CONSTANTS w1, w2, w3, w4

=============================================================================
