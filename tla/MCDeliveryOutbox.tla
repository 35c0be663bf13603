-------------------------- MODULE MCDeliveryOutbox --------------------------
(* Small instances of DeliveryOutbox for TLC. *)
EXTENDS DeliveryOutbox, TLC

CONSTANTS n1, n2, w1, w2, a1

\* A delivery that may be resent once, and one that may not.
ResentOnce == (n1 :> 2) @@ (n2 :> 1)

\* Bound: a second notification is queued only where one worker drains, nothing
\* was resent or acknowledged, and at most one row has a cause to go twice.
OneWorkerForTwo ==
  note[n2] # "none" =>
    /\ status[<<n1, 2>>] = "none" /\ acked = {} /\ Cardinality(excused) <= 1
    /\ circuit[w2] = Closed /\ \A a \in inflight : a.worker = w1
=============================================================================
