--------------------------- MODULE MCServerActor ---------------------------
(***************************************************************************)
(* One server actor from its spawn to its stop, one login, up to two       *)
(* commands in flight, delays of one and two seconds in a 3-bit word.      *)
(***************************************************************************)
EXTENDS ServerActor

=============================================================================
