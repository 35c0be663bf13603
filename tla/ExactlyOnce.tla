---------------------------- MODULE ExactlyOnce ----------------------------
(***************************************************************************)
(* What the field operation route promises a device (server/src/sync/      *)
(* late.ts): an operation is applied at most once, only while its incident *)
(* is open; one that finds the incident closed is kept for the incident's  *)
(* administrators, and each kept operation is decided once, accepted only  *)
(* when its work is applied.                                               *)
(*                                                                         *)
(* FieldOperations implements this specification with concurrent           *)
(* PostgreSQL transactions; FieldOutbox uses it as the server a device     *)
(* talks to.                                                               *)
(***************************************************************************)
CONSTANT Op                       \* operations, each with its sender and id

VARIABLES
  closed,                         \* incidents.closed_at is set
  applied,                        \* operations whose work took effect
  late                            \* status of each operation's late submission

onceVars == <<closed, applied, late>>

LateStatus == {"none", "pending", "accepted", "refused"}

OnceTypeOK ==
  /\ closed \in BOOLEAN
  /\ applied \subseteq Op
  /\ late \in [Op -> LateStatus]

OnceInit ==
  /\ closed = FALSE
  /\ applied = {}
  /\ late = [o \in Op |-> "none"]

OnceApply(o) ==
  /\ ~closed
  /\ o \notin applied
  /\ applied' = applied \cup {o}
  /\ UNCHANGED <<closed, late>>

OnceKeep(o) ==
  /\ late[o] = "none"
  /\ late' = [late EXCEPT ![o] = "pending"]
  /\ UNCHANGED <<closed, applied>>

OnceAccept(o) ==
  /\ late[o] = "pending"
  /\ o \in applied
  /\ late' = [late EXCEPT ![o] = "accepted"]
  /\ UNCHANGED <<closed, applied>>

OnceRefuse(o) ==
  /\ late[o] = "pending"
  /\ late' = [late EXCEPT ![o] = "refused"]
  /\ UNCHANGED <<closed, applied>>

OnceCloseOrReopen ==
  /\ closed' = ~closed
  /\ UNCHANGED <<applied, late>>

OnceNext ==
  \/ \E o \in Op :
       OnceApply(o) \/ OnceKeep(o) \/ OnceAccept(o) \/ OnceRefuse(o)
  \/ OnceCloseOrReopen

OnceSpec == OnceInit /\ [][OnceNext]_onceVars
=============================================================================
