----------------------- MODULE MCFederationExchange -----------------------
(* Small instances of FederationExchange for TLC. *)
EXTENDS FederationExchange

CONSTANTS r1, r2, w1, w2
=============================================================================
