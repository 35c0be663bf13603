------------------------ MODULE MCResourceRequests ------------------------
(* Small instances of ResourceRequests for TLC. *)
EXTENDS ResourceRequests, TLC

CONSTANTS r1, r2, s1, s2, a1, a2

One == [r \in Request |-> 1]
Starts == {"sourcing", "deployed"}
Symmetric == Permutations(Resource) \cup Permutations(Actor) \cup Permutations(Request)
=============================================================================
