------------------------- MODULE MCFieldOperations -------------------------
(* Instances of FieldOperations for TLC. *)
EXTENDS FieldOperations, TLC

CONSTANTS o1, o2

\* One new task, whose only guard against a second run is the receipt's key.
OneTask == o1 :> "task"
CompletionAndMessage == (o1 :> "task_completion") @@ (o2 :> "message")

ConnSymmetry == Permutations(Conn)
=============================================================================
