--------------------------- MODULE MCSessionSync ---------------------------
(* Instances of SessionSync for TLC.                                       *)
EXTENDS SessionSync
=============================================================================
