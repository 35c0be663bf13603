---------------------------- MODULE MCIpawsSend ----------------------------
(* Small instances of IpawsSend for TLC. *)
EXTENDS IpawsSend

CONSTANTS a1, a2, a3, r1, r2, c1, c2
=============================================================================
