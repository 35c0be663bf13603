----------------------------- MODULE MCSyncHub -----------------------------
(* Small instances of SyncHub for TLC. *)
EXTENDS SyncHub, TLC

CONSTANTS s1, s2, a1, a2, w1, w2

\* The first apply's board action writes w1.
OneTrigger == [a \in Apply |-> IF a = a1 THEN {w1} ELSE {}]
============================================================================
