-------------------------- MODULE ResourceRequests --------------------------
(***************************************************************************)
(* Resource requests and the pool they draw on                             *)
(* (server/src/resource/service.ts). People move requests along the        *)
(* transition table, the participant one is assigned to records its        *)
(* delivery, a request may be escalated to a higher tier, peers report on  *)
(* requests, and resources are assigned to requests up to their quantity.  *)
(* Each operation is one READ COMMITTED transaction, but for an            *)
(* escalation, which delivers to the peer between two. A transaction is    *)
(* split where it reads what it later relies on without a lock.            *)
(*                                                                         *)
(* Left out: who may do what, the incident's lock (module FieldOperations),*)
(* costs, notices, lists.                                                  *)
(***************************************************************************)
EXTENDS Naturals, FiniteSets

CONSTANTS
  Request, Resource,
  Quantity,     \* how many resources each request asks for
  Actor,        \* people and peers with a transaction open at the same time
  Free,         \* no transaction, no request
  First,        \* the states requests are in at the start
  MaxMoves,     \* bound: moves, reports and escalations
  MaxFaults     \* bound: answers lost and processes stopped

Transitions ==
  [draft |-> {"submitted", "cancelled"},
   submitted |-> {"accepted", "declined", "cancelled"},
   accepted |-> {"sourcing", "declined", "cancelled"},
   sourcing |-> {"assigned", "cancelled"},
   assigned |-> {"deployed", "cancelled"},
   deployed |-> {"fulfilled", "demobilizing"},
   fulfilled |-> {"demobilizing", "closed"},
   demobilizing |-> {"closed"},
   closed |-> {}, declined |-> {}, cancelled |-> {}]

State == DOMAIN Transitions

ASSUME ResourceAssumption ==
  /\ Quantity \in [Request -> Nat] /\ Free \notin Request
  /\ First \subseteq State /\ MaxMoves \in Nat /\ MaxFaults \in Nat

DeliverySteps == {<<"assigned", "deployed">>, <<"deployed", "fulfilled">>,
                  <<"fulfilled", "demobilizing">>, <<"demobilizing", "closed">>}
Taking == {"sourcing", "assigned", "deployed"}

StatusMoves ==
  [available |-> {"assigned", "out_of_service", "demobilized"},
   assigned |-> {"available", "out_of_service", "demobilized"},
   out_of_service |-> {"available", "demobilized"},
   demobilized |-> {}]
Status == DOMAIN StatusMoves

CanTransition(from, to) == to \in Transitions[from]

Idle == [doing |-> "nothing"]
Moving == [doing : {"moving", "recording", "reporting"}, request : Request,
           seen : State, to : State]
Taken == [doing : {"taking", "counted"}, request : Request, resource : Resource,
          room : BOOLEAN]
Escalating == [doing : {"delivering", "delivered", "failed"}, request : Request]

VARIABLES
  state,      \* resource_requests.state
  last,       \* each request's latest rr_events row of a move or a peer's report
  claim,      \* escalation_claimed_at: "none", "held", "lapsed"
  escalated,  \* requests whose chronology says they were escalated
  upper,      \* how many requests the peer made of each of ours
  sent,       \* escalations on their way to the peer
  status,     \* resources.status
  holds,      \* resources.request_id
  tx,         \* what each actor's transaction has read
  moves,      \* so far, for MaxMoves
  faults

requests == <<state, last, moves>>
escalation == <<claim, escalated, upper, sent>>
pool == <<status, holds>>
vars == <<requests, escalation, pool, tx, faults>>

TypeOK ==
  /\ state \in [Request -> State]
  /\ last \in [Request -> [from : State, to : State, by : {"person", "peer"}]]
  /\ claim \in [Request -> {"none", "held", "lapsed"}]
  /\ escalated \subseteq Request /\ upper \in [Request -> Nat] /\ sent \subseteq Request
  /\ status \in [Resource -> Status] /\ holds \in [Resource -> Request \cup {Free}]
  /\ \A s \in Resource : status[s] = "assigned" <=> holds[s] # Free
  /\ tx \in [Actor -> {Idle} \cup Moving \cup Taken \cup Escalating]
  /\ moves \in 0..MaxMoves /\ faults \in 0..MaxFaults

\* Requests have come as far as First, resources are added.
Init ==
  /\ state \in [Request -> First]
  /\ last = [r \in Request |-> [from |-> state[r], to |-> state[r], by |-> "person"]]
  /\ claim = [r \in Request |-> "none"] /\ escalated = {}
  /\ upper = [r \in Request |-> 0] /\ sent = {}
  /\ status = [s \in Resource |-> "available"] /\ holds = [s \in Resource |-> Free]
  /\ tx = [a \in Actor |-> Idle]
  /\ moves = 0 /\ faults = 0

Begin(a, t) == tx[a] = Idle /\ tx' = [tx EXCEPT ![a] = t]
End(a) == tx' = [tx EXCEPT ![a] = Idle]
Counted == moves < MaxMoves /\ moves' = moves + 1
Tell(r, from, to, by) == last' = [last EXCEPT ![r] = [from |-> from, to |-> to, by |-> by]]

-----------------------------------------------------------------------------
(* Moving a request *)

BeginMove(a, r, to) ==
  /\ CanTransition(state[r], to)
  /\ Counted
  /\ Begin(a, [doing |-> "moving", request |-> r, seen |-> state[r], to |-> to])
  /\ UNCHANGED <<state, last, escalation, pool, faults>>

\* Mutant: the update does not ask for the state that was read.
EndMoveAnyway(a) ==
  /\ tx[a].doing = "moving"
  /\ state' = [state EXCEPT ![tx[a].request] = tx[a].to]
  /\ Tell(tx[a].request, tx[a].seen, tx[a].to, "person")
  /\ End(a)
  /\ UNCHANGED <<moves, escalation, pool, faults>>

\* Refused when the state is no longer the one read.
EndMove(a) ==
  /\ tx[a].doing = "moving"
  /\ LET r == tx[a].request
     IN  IF state[r] = tx[a].seen
         THEN /\ state' = [state EXCEPT ![r] = tx[a].to]
              /\ Tell(r, tx[a].seen, tx[a].to, "person")
         ELSE UNCHANGED <<state, last>>
  /\ End(a)
  /\ UNCHANGED <<moves, escalation, pool, faults>>

\* The assignment is written first, and holds the row while the state is read and moved.
Assign(r) ==
  /\ CanTransition(state[r], "assigned")
  /\ Counted
  /\ state' = [state EXCEPT ![r] = "assigned"]
  /\ Tell(r, state[r], "assigned", "person")
  /\ UNCHANGED <<escalation, pool, tx, faults>>

\* The participant a request is assigned to records its delivery, and nothing else.
BeginDelivery(a, r, to) ==
  /\ <<state[r], to>> \in DeliverySteps
  /\ Counted
  /\ Begin(a, [doing |-> "recording", request |-> r, seen |-> state[r], to |-> to])
  /\ UNCHANGED <<state, last, escalation, pool, faults>>

\* The step is checked again on the locked row, from the state that row is in by
\* now; refused, nothing is recorded.
RecordDelivery(a) ==
  /\ tx[a].doing = "recording"
  /\ LET r == tx[a].request
     IN  IF <<state[r], tx[a].to>> \in DeliverySteps
         THEN /\ state' = [state EXCEPT ![r] = tx[a].to]
              /\ Tell(r, state[r], tx[a].to, "person")
         ELSE UNCHANGED <<state, last>>
  /\ End(a)
  /\ UNCHANGED <<moves, escalation, pool, faults>>

-----------------------------------------------------------------------------
(* Escalation *)

Claim(a, r) ==
  /\ claim[r] \in {"none", "lapsed"}
  /\ Counted
  /\ claim' = [claim EXCEPT ![r] = "held"]
  /\ sent' = sent \cup {r}
  /\ Begin(a, [doing |-> "delivering", request |-> r])
  /\ UNCHANGED <<state, last, escalated, upper, pool, faults>>

\* One request per peer and origin: a repeated delivery finds the first.
TakenByPeer(r) == upper' = [upper EXCEPT ![r] = IF @ = 0 THEN 1 ELSE @]

Delivering(a, r) == tx[a].doing = "delivering" /\ tx[a].request = r

\* The peer takes the escalation and its answer arrives, or is lost.
Deliver(a) ==
  /\ tx[a].doing = "delivering" /\ tx[a].request \in sent
  /\ sent' = sent \ {tx[a].request}
  /\ TakenByPeer(tx[a].request)
  /\ \/ tx' = [tx EXCEPT ![a].doing = "delivered"] /\ UNCHANGED faults
     \/ faults < MaxFaults /\ faults' = faults + 1 /\ tx' = [tx EXCEPT ![a].doing = "failed"]
  /\ UNCHANGED <<requests, claim, escalated, pool>>

\* No answer within the delivery's time; the peer may yet take it.
GiveUp(a) ==
  /\ tx[a].doing = "delivering"
  /\ faults < MaxFaults /\ faults' = faults + 1
  /\ tx' = [tx EXCEPT ![a].doing = "failed"]
  /\ UNCHANGED <<requests, escalation, pool>>

TakenLate(r) ==
  /\ r \in sent /\ \A a \in Actor : ~Delivering(a, r)
  /\ sent' = sent \ {r}
  /\ TakenByPeer(r)
  /\ UNCHANGED <<requests, claim, escalated, pool, tx, faults>>

\* Mutant: recorded whether or not the delivery failed.
RecordEscalationAlways(a) ==
  /\ tx[a].doing \in {"delivered", "failed"}
  /\ claim' = [claim EXCEPT ![tx[a].request] = "none"]
  /\ escalated' = escalated \cup {tx[a].request}
  /\ End(a)
  /\ UNCHANGED <<requests, upper, sent, pool, faults>>

\* The claim is released, whoever's it is by now; only a delivery is recorded.
RecordEscalation(a) ==
  /\ tx[a].doing \in {"delivered", "failed"}
  /\ claim' = [claim EXCEPT ![tx[a].request] = "none"]
  /\ escalated' = IF tx[a].doing = "delivered" THEN escalated \cup {tx[a].request}
                  ELSE escalated
  /\ End(a)
  /\ UNCHANGED <<requests, upper, sent, pool, faults>>

\* The process stops. Its transactions are rolled back, its claim stays.
ServerStops(a) ==
  /\ tx[a] # Idle
  /\ faults < MaxFaults /\ faults' = faults + 1
  /\ End(a)
  /\ UNCHANGED <<requests, escalation, pool>>

\* A minute outlasts a delivery and its record, so only a stopped process's claim lapses.
Lapse(r) ==
  /\ claim[r] = "held"
  /\ \A a \in Actor : tx[a] \in Escalating => tx[a].request # r
  /\ claim' = [claim EXCEPT ![r] = "lapsed"]
  /\ UNCHANGED <<requests, escalated, upper, sent, pool, tx, faults>>

\* A peer reports on any request of the organization that gave it its token,
\* escalated to it or not. A status the table does not lead to is noted and
\* moves nothing. Nothing holds the row between the read and the update, and
\* the update asks for no state.
BeginReport(a, r, to) ==
  /\ Counted
  /\ Begin(a, [doing |-> "reporting", request |-> r, seen |-> state[r],
               to |-> IF CanTransition(state[r], to) THEN to ELSE state[r]])
  /\ UNCHANGED <<state, last, escalation, pool, faults>>

EndReport(a) ==
  /\ tx[a].doing = "reporting"
  /\ LET r == tx[a].request
     IN  /\ state' = IF tx[a].to = tx[a].seen THEN state ELSE [state EXCEPT ![r] = tx[a].to]
         /\ Tell(r, tx[a].seen, tx[a].to, "peer")
  /\ End(a)
  /\ UNCHANGED <<moves, escalation, pool, faults>>

-----------------------------------------------------------------------------
(* The pool *)

Holding(r) == {s \in Resource : status[s] = "assigned" /\ holds[s] = r}

\* The resource and the request are read with no lock.
BeginTake(a, s, r) ==
  /\ status[s] = "available" /\ state[r] \in Taking
  /\ Begin(a, [doing |-> "taking", request |-> r, resource |-> s, room |-> FALSE])
  /\ UNCHANGED <<requests, escalation, pool, faults>>

\* Mutant: the resources are counted without the request's lock.
CountUnlocked(a) ==
  /\ tx[a].doing = "taking"
  /\ tx' = [tx EXCEPT ![a].doing = "counted",
              ![a].room = Cardinality(Holding(tx[a].request)) < Quantity[tx[a].request]]
  /\ UNCHANGED <<requests, escalation, pool, faults>>

\* The request's lock is held from here to the end.
Count(a) ==
  /\ tx[a].doing = "taking"
  /\ \A b \in Actor : tx[b].doing = "counted" => tx[b].request # tx[a].request
  /\ tx' = [tx EXCEPT ![a].doing = "counted",
              ![a].room = Cardinality(Holding(tx[a].request)) < Quantity[tx[a].request]]
  /\ UNCHANGED <<requests, escalation, pool, faults>>

EndTake(a) ==
  /\ tx[a].doing = "counted"
  /\ IF tx[a].room /\ status[tx[a].resource] = "available"
     THEN /\ status' = [status EXCEPT ![tx[a].resource] = "assigned"]
          /\ holds' = [holds EXCEPT ![tx[a].resource] = tx[a].request]
     ELSE UNCHANGED pool
  /\ End(a)
  /\ UNCHANGED <<requests, escalation, faults>>

\* Every other move is an update that asks for the status it was read with.
MoveResource(s, to) ==
  /\ to \in StatusMoves[status[s]] /\ to # "assigned"
  /\ status' = [status EXCEPT ![s] = to]
  /\ holds' = [holds EXCEPT ![s] = Free]
  /\ UNCHANGED <<requests, escalation, tx, faults>>

-----------------------------------------------------------------------------
Step(a) ==
  \/ EndMove(a) \/ RecordDelivery(a) \/ EndReport(a) \/ Count(a) \/ EndTake(a)
  \/ Deliver(a) \/ RecordEscalation(a)

Next ==
  \/ \E a \in Actor : Step(a) \/ GiveUp(a) \/ ServerStops(a)
  \/ \E a \in Actor, r \in Request, to \in State :
       BeginMove(a, r, to) \/ BeginDelivery(a, r, to) \/ BeginReport(a, r, to)
  \/ \E a \in Actor, r \in Request : Claim(a, r)
  \/ \E a \in Actor, r \in Request, s \in Resource : BeginTake(a, s, r)
  \/ \E r \in Request : Assign(r) \/ TakenLate(r) \/ Lapse(r)
  \/ \E s \in Resource, to \in Status : MoveResource(s, to)

Spec == Init /\ [][Next]_vars

-----------------------------------------------------------------------------
(* Properties *)

\* A request takes no more resources than its quantity (service.ts:786-788),
\* however many are assigned to it, freed or moved at once.
QuantityHolds == \A r \in Request : Cardinality(Holding(r)) <= Quantity[r]

\* Every move a person makes, a delivery step included, follows the transition
\* table from the state the request is in, and its chronology says so
\* (service.ts:33-36), whatever moved it since the person's transaction read it.
\* A peer's report need not: it may overwrite a move it did not see.
PeopleFollowTable ==
  [][\A r \in Request : last'[r] # last[r] /\ last'[r].by = "person" =>
       /\ last'[r].from = state[r] /\ last'[r].to = state'[r]
       /\ CanTransition(state[r], state'[r])]_vars

\* The peer makes one request of an escalation, however often it is delivered
\* (service.ts:285-287), and this tier's chronology tells of none it lacks.
EscalatedOnce ==
  \A r \in Request : upper[r] <= 1 /\ (r \in escalated => upper[r] = 1)

\* While an escalation is being delivered a second is refused
\* (service.ts:213-215): the claim is held for exactly one.
OneAtATime ==
  \A a, b \in Actor : \A r \in Request :
    Delivering(a, r) /\ Delivering(b, r) => a = b

\* A resource goes to one request at a time: it changes hands only by way of
\* another status.
ChangesHandsFreed ==
  [][\A s \in Resource : holds[s] # Free /\ holds'[s] # Free => holds'[s] = holds[s]]_vars

=============================================================================
