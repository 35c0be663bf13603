---------------------- MODULE ResourceRequestsProofs ----------------------
(***************************************************************************)
(* Theorems about ResourceRequests, for any number of requests, resources, *)
(* people, moves and faults.                                               *)
(***************************************************************************)
EXTENDS ResourceRequests, Integers, FiniteSetTheorems, TLAPS

Escalates(a) == tx[a].doing \in {"delivering", "delivered", "failed"}
Fits(a) == tx[a].doing = "counted" /\ tx[a].room

\* Escalation: whoever escalates a request holds its claim, alone, and what was
\* delivered has been taken by the peer.
EscalationSound ==
  /\ EscalatedOnce
  /\ \A a \in Actor : tx[a].doing = "delivered" => upper[tx[a].request] = 1
  /\ \A a \in Actor : Escalates(a) => claim[tx[a].request] = "held"
  /\ \A a, b \in Actor :
       Escalates(a) /\ Escalates(b) /\ tx[a].request = tx[b].request => a = b

\* The pool: a count is made by one transaction at a time for each request, and
\* stays true until its transaction ends.
PoolSound ==
  /\ \A r \in Request : IsFiniteSet(Holding(r))
  /\ QuantityHolds
  /\ \A a \in Actor : Fits(a) =>
       Cardinality(Holding(tx[a].request)) < Quantity[tx[a].request]
  /\ \A a, b \in Actor :
       tx[a].doing = "counted" /\ tx[b].doing = "counted" /\ tx[a].request = tx[b].request
         => a = b

\* A move that was begun follows the table from the state it read.
MovesSound == \A a \in Actor : tx[a].doing = "moving" => CanTransition(tx[a].seen, tx[a].to)

IInv == TypeOK /\ EscalationSound /\ PoolSound /\ MovesSound

-----------------------------------------------------------------------------
(* What the state of a transaction says of its record. *)

LEMMA Kinds ==
  ASSUME TypeOK, NEW a \in Actor
  PROVE  /\ tx[a].doing \in {"moving", "recording", "reporting"} => tx[a] \in Moving
         /\ tx[a].doing \in {"taking", "counted"} => tx[a] \in Taken
         /\ Escalates(a) => tx[a] \in Escalating
         /\ tx[a] \in Escalating => Escalates(a)
<1>1. tx[a] \in {Idle} \cup Moving \cup Taken \cup Escalating
  BY DEF TypeOK
<1>2. CASE tx[a] = Idle
  BY <1>2 DEF Idle, Escalates, Escalating
<1>3. CASE tx[a] \in Moving
  BY <1>3 DEF Moving, Escalates, Escalating
<1>4. CASE tx[a] \in Taken
  BY <1>4 DEF Taken, Escalates, Escalating
<1>5. CASE tx[a] \in Escalating
  BY <1>5 DEF Escalates, Escalating
<1>6. QED
  BY <1>1, <1>2, <1>3, <1>4, <1>5

\* A request that holds no more than before keeps its bounds.
LEMMA HoldsLess ==
  ASSUME TypeOK, PoolSound, NEW r \in Request, Holding(r)' \subseteq Holding(r)
  PROVE  /\ IsFiniteSet(Holding(r)') /\ Cardinality(Holding(r)') <= Quantity[r]
         /\ Cardinality(Holding(r)) < Quantity[r] => Cardinality(Holding(r)') < Quantity[r]
<1>1. IsFiniteSet(Holding(r)) /\ Cardinality(Holding(r)) <= Quantity[r]
  BY DEF PoolSound, QuantityHolds
<1>2. IsFiniteSet(Holding(r)') /\ Cardinality(Holding(r)') <= Cardinality(Holding(r))
  BY <1>1, FS_Subset
<1>3. Cardinality(Holding(r)) \in Nat /\ Cardinality(Holding(r)') \in Nat /\ Quantity[r] \in Nat
  BY <1>1, <1>2, FS_CardinalityType, ResourceAssumption
<1>4. QED
  BY <1>1, <1>2, <1>3

\* Steps that leave the pool, and count for nobody, keep it sound.
LEMMA PoolKeeps ==
  ASSUME TypeOK, PoolSound, UNCHANGED pool,
         \A a \in Actor : tx'[a] = tx[a] \/ tx'[a].doing # "counted"
  PROVE  PoolSound'
  BY DEF PoolSound, QuantityHolds, Holding, Fits, pool

\* Steps of actors who do not escalate keep the escalations sound.
LEMMA EscalationKeeps ==
  ASSUME TypeOK, EscalationSound, UNCHANGED escalation,
         \A a \in Actor : tx'[a] = tx[a] \/ ~Escalates(a)'
  PROVE  EscalationSound'
  BY DEF EscalationSound, EscalatedOnce, Escalates, escalation

LEMMA MovesKeep ==
  ASSUME TypeOK, MovesSound,
         \A a \in Actor : tx'[a] = tx[a] \/ tx'[a].doing # "moving"
  PROVE  MovesSound'
  BY DEF MovesSound

\* A transaction's end, as the rest sees it.
LEMMA Ended ==
  ASSUME TypeOK, NEW a \in Actor, End(a)
  PROVE  /\ tx' \in [Actor -> {Idle} \cup Moving \cup Taken \cup Escalating]
         /\ \A b \in Actor : tx'[b] = IF b = a THEN Idle ELSE tx[b]
         /\ Idle.doing = "nothing"
  BY DEF End, TypeOK, Idle

LEMMA Began ==
  ASSUME TypeOK, NEW a \in Actor, NEW t \in Moving \cup Taken \cup Escalating, Begin(a, t)
  PROVE  /\ tx' \in [Actor -> {Idle} \cup Moving \cup Taken \cup Escalating]
         /\ \A b \in Actor : tx'[b] = IF b = a THEN t ELSE tx[b]
  BY DEF Begin, TypeOK

LEMMA Moves ==
  ASSUME TypeOK, Counted
  PROVE  moves' \in 0..MaxMoves
  BY ResourceAssumption DEF Counted, TypeOK

LEMMA Faults ==
  ASSUME TypeOK, faults < MaxFaults /\ faults' = faults + 1
  PROVE  faults' \in 0..MaxFaults
  BY ResourceAssumption DEF TypeOK

LEMMA Told ==
  ASSUME TypeOK, NEW r \in Request, NEW from \in State, NEW to \in State,
         NEW by \in {"person", "peer"}, Tell(r, from, to, by)
  PROVE  last' \in [Request -> [from : State, to : State, by : {"person", "peer"}]]
  BY DEF Tell, TypeOK

-----------------------------------------------------------------------------
LEMMA InitInv == Init => IInv
<1> SUFFICES ASSUME Init PROVE IInv
  OBVIOUS
<1>1. TypeOK
  <2>1. /\ state \in [Request -> State]
        /\ last \in [Request -> [from : State, to : State, by : {"person", "peer"}]]
    BY ResourceAssumption DEF Init
  <2>2. "available" \in Status
    BY DEF Status, StatusMoves
  <2>3. QED
    BY <2>1, <2>2, ResourceAssumption DEF Init, TypeOK, Idle
<1>2. \A a \in Actor : tx[a].doing = "nothing"
  BY DEF Init, Idle
<1>3. EscalationSound /\ MovesSound
  BY <1>2 DEF EscalationSound, EscalatedOnce, Escalates, MovesSound, Init
<1>4. PoolSound
  <2>1. \A r \in Request : Holding(r) = {}
    BY DEF Holding, Init
  <2>2. QED
    BY <1>2, <2>1, FS_EmptySet, ResourceAssumption DEF PoolSound, QuantityHolds, Fits
<1>5. QED
  BY <1>1, <1>3, <1>4 DEF IInv

-----------------------------------------------------------------------------
(* Moves *)

LEMMA BeginMoveKeeps ==
  ASSUME IInv, NEW a \in Actor, NEW r \in Request, NEW to \in State,
         BeginMove(a, r, to) \/ BeginDelivery(a, r, to) \/ BeginReport(a, r, to)
  PROVE  IInv'
<1>1. TypeOK /\ state[r] \in State /\ UNCHANGED <<state, last, escalation, pool, faults>> /\ Counted
  BY DEF BeginMove, BeginDelivery, BeginReport, IInv, TypeOK
<1>2. PICK kind \in {"moving", "recording", "reporting"}, into \in State :
        /\ Begin(a, [doing |-> kind, request |-> r, seen |-> state[r], to |-> into])
        /\ kind = "moving" => CanTransition(state[r], into)
  <2>1. CASE BeginMove(a, r, to)
    BY <2>1 DEF BeginMove
  <2>2. CASE BeginDelivery(a, r, to)
    BY <2>2 DEF BeginDelivery
  <2>3. CASE BeginReport(a, r, to)
    BY <1>1, <2>3 DEF BeginReport
  <2>4. QED
    BY <2>1, <2>2, <2>3
<1> DEFINE t == [doing |-> kind, request |-> r, seen |-> state[r], to |-> into]
<1>3. state[r] \in State /\ t \in Moving
  BY <1>2, <1>1 DEF TypeOK, Moving
<1>4. /\ tx' \in [Actor -> {Idle} \cup Moving \cup Taken \cup Escalating]
      /\ \A b \in Actor : tx'[b] = IF b = a THEN t ELSE tx[b]
  BY <1>2, <1>1, <1>3, Began
<1>5. TypeOK'
  BY <1>1, <1>4, Moves DEF TypeOK, escalation, pool
<1>6. EscalationSound' /\ PoolSound'
  BY <1>1, <1>4, EscalationKeeps, PoolKeeps DEF IInv, Escalates
<1>7. MovesSound'
  BY <1>2, <1>4 DEF MovesSound, IInv
<1>8. QED
  BY <1>5, <1>6, <1>7 DEF IInv

LEMMA EndMoveKeeps ==
  ASSUME IInv, NEW a \in Actor, EndMove(a) \/ RecordDelivery(a) \/ EndReport(a)
  PROVE  IInv'
<1>1. TypeOK /\ End(a) /\ UNCHANGED <<moves, escalation, pool, faults>>
  BY DEF EndMove, RecordDelivery, EndReport, IInv
<1>2. tx[a] \in Moving
  BY <1>1, Kinds DEF EndMove, RecordDelivery, EndReport
<1>3. tx[a].request \in Request /\ tx[a].seen \in State /\ tx[a].to \in State
  BY <1>2 DEF Moving
<1>4. /\ state' \in [Request -> State]
      /\ last' \in [Request -> [from : State, to : State, by : {"person", "peer"}]]
  <2>1. CASE EndMove(a)
    <3>1. state' \in [Request -> State]
      BY <1>1, <1>3, <2>1 DEF EndMove, TypeOK
    <3>2. last' = last \/ Tell(tx[a].request, tx[a].seen, tx[a].to, "person")
      BY <2>1 DEF EndMove
    <3>3. QED
      BY <1>1, <1>3, <3>1, <3>2, Told DEF TypeOK
  <2>2. CASE EndReport(a)
    <3>1. state' \in [Request -> State]
      BY <1>1, <1>3, <2>2 DEF EndReport, TypeOK
    <3>2. Tell(tx[a].request, tx[a].seen, tx[a].to, "peer")
      BY <2>2 DEF EndReport
    <3>3. QED
      BY <1>1, <1>3, <3>1, <3>2, Told
  <2>3. CASE RecordDelivery(a)
    <3>1. state' \in [Request -> State]
      BY <1>1, <1>3, <2>3 DEF RecordDelivery, TypeOK
    <3>2. state[tx[a].request] \in State
      BY <1>1, <1>3 DEF TypeOK
    <3>3. last' = last \/ Tell(tx[a].request, state[tx[a].request], tx[a].to, "person")
      BY <2>3 DEF RecordDelivery
    <3>4. QED
      BY <1>1, <1>3, <3>1, <3>2, <3>3, Told DEF TypeOK
  <2>4. QED
    BY <2>1, <2>2, <2>3
<1>5. /\ tx' \in [Actor -> {Idle} \cup Moving \cup Taken \cup Escalating]
      /\ \A b \in Actor : tx'[b] = IF b = a THEN Idle ELSE tx[b]
      /\ Idle.doing = "nothing"
  BY <1>1, Ended
<1>6. TypeOK'
  BY <1>1, <1>4, <1>5 DEF TypeOK, escalation, pool
<1>7. EscalationSound' /\ PoolSound' /\ MovesSound'
  BY <1>1, <1>5, EscalationKeeps, PoolKeeps, MovesKeep DEF IInv, Escalates
<1>8. QED
  BY <1>6, <1>7 DEF IInv

LEMMA MovedKeeps ==
  ASSUME IInv, NEW r \in Request, NEW to \in State, Counted,
         state' = [state EXCEPT ![r] = to], Tell(r, state[r], to, "person"),
         UNCHANGED <<escalation, pool, tx, faults>>
  PROVE  IInv'
<1>1. TypeOK /\ state[r] \in State
  BY DEF IInv, TypeOK
<1>2. TypeOK'
  BY <1>1, Moves, Told DEF TypeOK, escalation, pool
<1>3. QED
  BY <1>1, <1>2, EscalationKeeps, PoolKeeps, MovesKeep DEF IInv

-----------------------------------------------------------------------------
(* Escalation *)

LEMMA ClaimKeeps ==
  ASSUME IInv, NEW a \in Actor, NEW r \in Request, Claim(a, r)
  PROVE  IInv'
<1> DEFINE t == [doing |-> "delivering", request |-> r]
<1>1. TypeOK /\ t \in Escalating /\ Begin(a, t) /\ Counted
  BY DEF IInv, Escalating, Claim
<1>2. /\ tx' \in [Actor -> {Idle} \cup Moving \cup Taken \cup Escalating]
      /\ \A b \in Actor : tx'[b] = IF b = a THEN t ELSE tx[b]
  BY <1>1, Began
<1>3. TypeOK'
  BY <1>1, <1>2, Moves DEF Claim, TypeOK, pool
<1>4. PoolSound' /\ MovesSound'
  BY <1>1, <1>2, PoolKeeps, MovesKeep DEF IInv, Claim
<1>5. EscalationSound'
  <2>1. \A b \in Actor : Escalates(b) => tx[b].request # r
    BY DEF Claim, IInv, EscalationSound
  <2>2. \A b \in Actor : b # a => tx'[b] = tx[b]
    BY <1>2
  <2>3. tx'[a].doing = "delivering" /\ tx'[a].request = r
    BY <1>2
  <2>4. claim' = [claim EXCEPT ![r] = "held"] /\ UNCHANGED <<upper, escalated>>
        /\ claim \in [Request -> {"none", "held", "lapsed"}]
    BY <1>1 DEF Claim, TypeOK
  <2>5. EscalationSound
    BY DEF IInv
  <2>6. \A b \in Actor : Escalates(b) => tx[b].request \in Request
    BY <1>1, Kinds DEF Escalating
  <2>7. \A b \in Actor : Escalates(b)' => claim'[tx'[b].request] = "held"
    BY <2>2, <2>3, <2>4, <2>5, <2>6 DEF Escalates, EscalationSound
  <2>8. QED
    BY <2>1, <2>2, <2>3, <2>4, <2>5, <2>7 DEF EscalationSound, EscalatedOnce, Escalates
<1>6. QED
  BY <1>3, <1>4, <1>5 DEF IInv

\* One request goes to the peer, and at most its deliverer's record changes.
LEMMA TakenKeeps ==
  ASSUME IInv, NEW r \in Request, TakenByPeer(r), UNCHANGED <<claim, escalated>>,
         \A b \in Actor : \/ tx'[b] = tx[b]
                          \/ Delivering(b, r) /\ tx'[b] \in Escalating /\ tx'[b].request = r
  PROVE  EscalationSound' /\ upper' \in [Request -> Nat]
<1>1. upper \in [Request -> Nat] /\ EscalationSound /\ TypeOK
  BY DEF IInv, TypeOK
<1>2. /\ upper' \in [Request -> Nat] /\ upper'[r] = 1
      /\ \A q \in Request : upper[q] = 1 => upper'[q] = 1
      /\ \A q \in Request : upper'[q] <= 1
  BY <1>1 DEF TakenByPeer, EscalationSound, EscalatedOnce
<1>3. \A b \in Actor : Escalates(b)' => Escalates(b) /\ tx'[b].request = tx[b].request
                                        /\ tx[b].request \in Request
  BY <1>1, Kinds DEF Escalates, Delivering, Escalating
<1>4. \A b \in Actor : tx'[b].doing = "delivered" => upper'[tx'[b].request] = 1
  BY <1>1, <1>2, <1>3 DEF EscalationSound, Escalates
<1>5. EscalatedOnce'
  BY <1>1, <1>2 DEF EscalationSound, EscalatedOnce, TypeOK
<1>6. QED
  BY <1>1, <1>2, <1>3, <1>4, <1>5 DEF EscalationSound

LEMMA DeliverKeeps ==
  ASSUME IInv, NEW a \in Actor, Deliver(a)
  PROVE  IInv'
<1>1. TypeOK /\ tx[a] \in Escalating
  BY Kinds DEF IInv, Deliver, Escalates
<1>2. PICK end \in {"delivered", "failed"} : tx' = [tx EXCEPT ![a].doing = end]
  BY DEF Deliver
<1>3. faults' \in 0..MaxFaults
  BY <1>1, Faults DEF Deliver, TypeOK
<1>4. [tx[a] EXCEPT !.doing = end] \in Escalating
  BY <1>1 DEF Escalating
<1>5. /\ tx' \in [Actor -> {Idle} \cup Moving \cup Taken \cup Escalating]
      /\ \A b \in Actor : b # a => tx'[b] = tx[b]
      /\ tx'[a] \in Escalating /\ tx'[a].doing = end /\ tx'[a].request = tx[a].request
  BY <1>1, <1>2, <1>4 DEF TypeOK, Escalating
<1>6. EscalationSound' /\ upper' \in [Request -> Nat]
  <2>1. tx[a].request \in Request
    BY <1>1 DEF Escalating
  <2>2. TakenByPeer(tx[a].request) /\ Delivering(a, tx[a].request) /\ UNCHANGED <<claim, escalated>>
    BY DEF Deliver, Delivering
  <2>3. QED
    BY <1>5, <2>1, <2>2, TakenKeeps
<1>7. TypeOK'
  BY <1>1, <1>3, <1>5, <1>6 DEF Deliver, TypeOK, requests, pool
<1>8. PoolSound' /\ MovesSound'
  BY <1>1, <1>5, PoolKeeps, MovesKeep DEF IInv, Deliver
<1>9. QED
  BY <1>6, <1>7, <1>8 DEF IInv

LEMMA TakenLateKeeps ==
  ASSUME IInv, NEW r \in Request, TakenLate(r)
  PROVE  IInv'
<1>1. TypeOK /\ UNCHANGED tx
  BY DEF IInv, TakenLate
<1>2. EscalationSound' /\ upper' \in [Request -> Nat]
  BY <1>1, TakenKeeps DEF TakenLate
<1>3. TypeOK'
  BY <1>1, <1>2 DEF TakenLate, TypeOK, requests, pool
<1>4. PoolSound' /\ MovesSound'
  BY <1>1, PoolKeeps, MovesKeep DEF IInv, TakenLate
<1>5. QED
  BY <1>2, <1>3, <1>4 DEF IInv

LEMMA GiveUpKeeps ==
  ASSUME IInv, NEW a \in Actor, GiveUp(a)
  PROVE  IInv'
<1>1. TypeOK /\ tx[a] \in Escalating /\ EscalationSound
  BY Kinds DEF IInv, GiveUp, Escalates
<1>2. tx' = [tx EXCEPT ![a].doing = "failed"] /\ UNCHANGED <<requests, escalation, pool>>
  BY DEF GiveUp
<1>3. faults' \in 0..MaxFaults
  BY <1>1, Faults DEF GiveUp
<1>4. [tx[a] EXCEPT !.doing = "failed"] \in Escalating
  BY <1>1 DEF Escalating
<1>5. /\ tx' \in [Actor -> {Idle} \cup Moving \cup Taken \cup Escalating]
      /\ \A b \in Actor : b # a => tx'[b] = tx[b]
      /\ tx'[a].doing = "failed" /\ tx'[a].request = tx[a].request
  BY <1>1, <1>2, <1>4 DEF TypeOK, Escalating
<1>6. TypeOK'
  BY <1>1, <1>2, <1>3, <1>5 DEF TypeOK, requests, escalation, pool
<1>7. EscalationSound'
  <2>1. \A b \in Actor : /\ Escalates(b)' => Escalates(b) /\ tx'[b].request = tx[b].request
                         /\ tx'[b].doing = "delivered" => tx[b].doing = "delivered"
    BY <1>5 DEF Escalates, GiveUp
  <2>2. QED
    BY <1>1, <1>2, <2>1 DEF EscalationSound, EscalatedOnce, Escalates, escalation
<1>8. PoolSound' /\ MovesSound'
  BY <1>1, <1>2, <1>5, PoolKeeps, MovesKeep DEF IInv
<1>9. QED
  BY <1>6, <1>7, <1>8 DEF IInv

LEMMA RecordEscalationKeeps ==
  ASSUME IInv, NEW a \in Actor, RecordEscalation(a)
  PROVE  IInv'
<1>1. TypeOK /\ tx[a] \in Escalating /\ EscalationSound /\ Escalates(a) /\ End(a)
  BY Kinds DEF IInv, RecordEscalation, Escalates
<1>2. /\ tx' \in [Actor -> {Idle} \cup Moving \cup Taken \cup Escalating]
      /\ \A b \in Actor : tx'[b] = IF b = a THEN Idle ELSE tx[b]
      /\ Idle.doing = "nothing"
  BY <1>1, Ended
<1>3. tx[a].request \in Request
  BY <1>1 DEF Escalating
<1>4. TypeOK'
  BY <1>1, <1>2, <1>3 DEF RecordEscalation, TypeOK, requests, pool
<1>5. PoolSound' /\ MovesSound'
  BY <1>1, <1>2, PoolKeeps, MovesKeep DEF IInv, RecordEscalation
<1>6. EscalationSound'
  <2>1. \A b \in Actor : Escalates(b)' => b # a /\ tx'[b] = tx[b] /\ Escalates(b)
                                          /\ tx[b].request # tx[a].request
    BY <1>1, <1>2 DEF Escalates, EscalationSound
  <2>2. \A b \in Actor : Escalates(b)' => claim'[tx'[b].request] = "held"
    <3>1. claim' = [claim EXCEPT ![tx[a].request] = "none"] /\ DOMAIN claim = Request
      BY <1>1 DEF RecordEscalation, TypeOK
    <3>2. \A b \in Actor : Escalates(b) => tx[b].request \in Request
      BY <1>1, Kinds DEF Escalating
    <3>3. QED
      BY <1>1, <2>1, <3>1, <3>2 DEF EscalationSound
  <2>3. EscalatedOnce' /\ upper' = upper
    BY <1>1, <1>3 DEF RecordEscalation, EscalationSound, EscalatedOnce
  <2>4. QED
    BY <1>1, <2>1, <2>2, <2>3 DEF EscalationSound, Escalates
<1>7. QED
  BY <1>4, <1>5, <1>6 DEF IInv

LEMMA StopKeeps ==
  ASSUME IInv, NEW a \in Actor, ServerStops(a)
  PROVE  IInv'
<1>1. TypeOK /\ End(a) /\ UNCHANGED <<requests, escalation, pool>>
  BY DEF IInv, ServerStops
<1>2. /\ tx' \in [Actor -> {Idle} \cup Moving \cup Taken \cup Escalating]
      /\ \A b \in Actor : tx'[b] = IF b = a THEN Idle ELSE tx[b]
      /\ Idle.doing = "nothing"
  BY <1>1, Ended
<1>3. TypeOK'
  BY <1>1, <1>2, Faults DEF ServerStops, TypeOK, requests, escalation, pool
<1>4. QED
  BY <1>1, <1>2, <1>3, EscalationKeeps, PoolKeeps, MovesKeep DEF IInv, Escalates

LEMMA LapseKeeps ==
  ASSUME IInv, NEW r \in Request, Lapse(r)
  PROVE  IInv'
<1>1. TypeOK /\ UNCHANGED tx /\ EscalationSound
  BY DEF IInv, Lapse
<1>2. TypeOK'
  BY <1>1 DEF Lapse, TypeOK, requests, pool
<1>3. PoolSound' /\ MovesSound'
  BY <1>1, PoolKeeps, MovesKeep DEF IInv, Lapse
<1>4. EscalationSound'
  <2>1. \A b \in Actor : Escalates(b) => tx[b].request # r /\ tx[b].request \in Request
    BY <1>1, Kinds DEF Lapse, Escalating
  <2>2. \A b \in Actor : Escalates(b) => claim'[tx[b].request] = "held"
    BY <1>1, <2>1 DEF Lapse, EscalationSound, TypeOK
  <2>3. QED
    BY <1>1, <2>2 DEF Lapse, EscalationSound, EscalatedOnce, Escalates
<1>5. QED
  BY <1>2, <1>3, <1>4 DEF IInv

-----------------------------------------------------------------------------
(* The pool *)

LEMMA BeginTakeKeeps ==
  ASSUME IInv, NEW a \in Actor, NEW s \in Resource, NEW r \in Request, BeginTake(a, s, r)
  PROVE  IInv'
<1> DEFINE t == [doing |-> "taking", request |-> r, resource |-> s, room |-> FALSE]
<1>1. TypeOK /\ t \in Taken /\ Begin(a, t) /\ UNCHANGED <<requests, escalation, pool, faults>>
  BY DEF IInv, Taken, BeginTake
<1>2. /\ tx' \in [Actor -> {Idle} \cup Moving \cup Taken \cup Escalating]
      /\ \A b \in Actor : tx'[b] = IF b = a THEN t ELSE tx[b]
  BY <1>1, Began
<1>3. TypeOK'
  BY <1>1, <1>2 DEF TypeOK, requests, escalation, pool
<1>4. QED
  BY <1>1, <1>2, <1>3, EscalationKeeps, PoolKeeps, MovesKeep DEF IInv, Escalates

LEMMA CountedRecord ==
  ASSUME NEW t \in Taken, NEW fits \in BOOLEAN
  PROVE  LET n == [t EXCEPT !.doing = "counted", !.room = fits]
         IN  n \in Taken /\ n.doing = "counted" /\ n.room = fits /\ n.request = t.request
  BY DEF Taken

LEMMA CountKeeps ==
  ASSUME IInv, NEW a \in Actor, Count(a)
  PROVE  IInv'
<1> DEFINE fits == Cardinality(Holding(tx[a].request)) < Quantity[tx[a].request]
           t == [tx[a] EXCEPT !.doing = "counted", !.room = fits]
<1>1. TypeOK /\ tx[a] \in Taken /\ UNCHANGED <<requests, escalation, pool, faults>> /\ PoolSound
  BY Kinds DEF IInv, Count
<1>2. tx' = [tx EXCEPT ![a] = t]
  BY <1>1 DEF Count, TypeOK, Taken
<1>3. t \in Taken /\ t.doing = "counted" /\ t.room = fits /\ t.request = tx[a].request
  <2>1. fits \in BOOLEAN
    OBVIOUS
  <2> HIDE DEF fits
  <2>2. QED
    BY <1>1, <2>1, CountedRecord
<1> HIDE DEF t
<1>4. /\ tx' \in [Actor -> {Idle} \cup Moving \cup Taken \cup Escalating]
      /\ \A b \in Actor : tx'[b] = IF b = a THEN t ELSE tx[b]
  BY <1>1, <1>2, <1>3 DEF TypeOK
<1>5. TypeOK'
  BY <1>1, <1>4 DEF TypeOK, requests, escalation, pool
<1>6. EscalationSound' /\ MovesSound'
  BY <1>1, <1>3, <1>4, EscalationKeeps, MovesKeep DEF IInv, Escalates
<1>7. PoolSound'
  <2>1. \A r \in Request : Holding(r)' = Holding(r)
    BY <1>1 DEF Holding, pool
  <2>2. \A b \in Actor : b # a /\ tx[b].doing = "counted" => tx[b].request # tx[a].request
    BY DEF Count
  <2>3. tx[a].request \in Request
    BY <1>1 DEF Taken
  <2>4. \A b \in Actor : tx[b].doing = "counted" => tx[b].request \in Request
    BY <1>1, Kinds DEF Taken
  <2>5. \A b \in Actor : Fits(b)' =>
          Cardinality(Holding(tx[b].request)) < Quantity[tx[b].request] /\ tx'[b].request = tx[b].request
    BY <1>1, <1>3, <1>4 DEF Fits, PoolSound
  <2>6. \A b, c \in Actor :
          tx'[b].doing = "counted" /\ tx'[c].doing = "counted" /\ tx'[b].request = tx'[c].request
            => b = c
    BY <1>1, <1>3, <1>4, <2>2 DEF PoolSound
  <2>7. \A b \in Actor : Fits(b)' =>
          (Cardinality(Holding(tx[b].request)) < Quantity[tx[b].request])'
    <3>1. \A b \in Actor : Fits(b)' => tx[b].request \in Request
      BY <1>3, <1>4, <2>3, <2>4 DEF Fits
    <3>2. QED
      BY <1>1, <2>5, <3>1 DEF Holding, pool
  <2>8. \A r \in Request : IsFiniteSet(Holding(r)') /\ Cardinality(Holding(r)') <= Quantity[r]
    BY <1>1, <2>1 DEF PoolSound, QuantityHolds
  <2>9. QED
    BY <2>6, <2>7, <2>8 DEF PoolSound, QuantityHolds
<1>8. QED
  BY <1>5, <1>6, <1>7 DEF IInv

LEMMA OneMoreFits ==
  ASSUME NEW S, NEW x, NEW q \in Nat, IsFiniteSet(S), Cardinality(S) < q
  PROVE  IsFiniteSet(S \cup {x}) /\ Cardinality(S \cup {x}) <= q
<1>1. Cardinality(S) \in Nat /\ IsFiniteSet(S \cup {x})
  BY FS_AddElement, FS_CardinalityType
<1>2. Cardinality(S \cup {x}) = IF x \in S THEN Cardinality(S) ELSE Cardinality(S) + 1
  BY FS_AddElement
<1>3. QED
  BY <1>1, <1>2

LEMMA EndTakeKeeps ==
  ASSUME IInv, NEW a \in Actor, EndTake(a)
  PROVE  IInv'
<1>1. TypeOK /\ tx[a] \in Taken /\ End(a) /\ PoolSound /\ UNCHANGED <<requests, escalation, faults>>
  BY Kinds DEF IInv, EndTake
<1>2. /\ tx' \in [Actor -> {Idle} \cup Moving \cup Taken \cup Escalating]
      /\ \A b \in Actor : tx'[b] = IF b = a THEN Idle ELSE tx[b]
      /\ Idle.doing = "nothing"
  BY <1>1, Ended
<1>3. EscalationSound' /\ MovesSound'
  BY <1>1, <1>2, EscalationKeeps, MovesKeep DEF IInv, Escalates
<1>4. CASE UNCHANGED pool
  <2>1. TypeOK'
    BY <1>1, <1>2, <1>4 DEF TypeOK, requests, escalation, pool
  <2>2. QED
    BY <1>1, <1>2, <1>3, <1>4, <2>1, PoolKeeps DEF IInv
<1>5. CASE ~UNCHANGED pool
  <2>0. PICK r \in Request, s \in Resource : r = tx[a].request /\ s = tx[a].resource
    BY <1>1 DEF Taken
  <2>1. /\ tx[a].room /\ status[s] = "available" /\ tx[a].doing = "counted"
        /\ status' = [status EXCEPT ![s] = "assigned"] /\ holds' = [holds EXCEPT ![s] = r]
    BY <1>5, <2>0 DEF EndTake
  <2>2. r \in Request /\ s \in Resource /\ "assigned" \in Status /\ Free \notin Request
    BY <1>1, ResourceAssumption DEF Taken, Status, StatusMoves
  <2>3. TypeOK'
    BY <1>1, <1>2, <2>1, <2>2 DEF TypeOK, requests, escalation
  <2>4. /\ Holding(r)' \subseteq Holding(r) \cup {s}
        /\ \A q \in Request : q # r => Holding(q)' \subseteq Holding(q)
    <3>1. \A x \in Resource : x # s => status'[x] = status[x] /\ holds'[x] = holds[x]
      BY <1>1, <2>1 DEF TypeOK
    <3>2. holds'[s] = r
      BY <1>1, <2>1, <2>2 DEF TypeOK
    <3>3. QED
      BY <3>1, <3>2 DEF Holding
  <2>5. IsFiniteSet(Holding(r)) /\ Cardinality(Holding(r)) < Quantity[r] /\ Quantity[r] \in Nat
    BY <1>1, <2>0, <2>1, <2>2, ResourceAssumption DEF PoolSound, Fits
  <2>6. IsFiniteSet(Holding(r)') /\ Cardinality(Holding(r)') <= Quantity[r]
    <3>1. IsFiniteSet(Holding(r) \cup {s}) /\ Cardinality(Holding(r) \cup {s}) <= Quantity[r]
      BY <2>5, OneMoreFits
    <3>2. IsFiniteSet(Holding(r)') /\ Cardinality(Holding(r)') <= Cardinality(Holding(r) \cup {s})
      BY <2>4, <3>1, FS_Subset
    <3>3. Cardinality(Holding(r)') \in Nat /\ Cardinality(Holding(r) \cup {s}) \in Nat
      BY <3>1, <3>2, FS_CardinalityType
    <3>4. QED
      BY <2>5, <3>1, <3>2, <3>3
  <2>7. \A b \in Actor : tx'[b].doing = "counted" =>
          b # a /\ tx'[b] = tx[b] /\ tx[b].request # r /\ tx[b].request \in Request
    BY <1>1, <1>2, <2>0, <2>1, Kinds DEF PoolSound, Taken
  <2>8. \A q \in Request : IsFiniteSet(Holding(q)') /\ Cardinality(Holding(q)') <= Quantity[q]
    <3> SUFFICES ASSUME NEW q \in Request
                 PROVE  IsFiniteSet(Holding(q)') /\ Cardinality(Holding(q)') <= Quantity[q]
      OBVIOUS
    <3>1. CASE q = r
      BY <2>6, <3>1
    <3>2. CASE q # r
      <4>1. Holding(q)' \subseteq Holding(q)
        BY <2>4, <3>2
      <4>2. QED
        BY <1>1, <4>1, HoldsLess
    <3>3. QED
      BY <3>1, <3>2
  <2>9. \A b \in Actor : Fits(b)' =>
          Cardinality(Holding(tx[b].request)') < Quantity[tx[b].request]
    <3> SUFFICES ASSUME NEW b \in Actor, Fits(b)'
                 PROVE  Cardinality(Holding(tx[b].request)') < Quantity[tx[b].request]
      OBVIOUS
    <3> DEFINE q == tx[b].request
    <3>1. tx'[b] = tx[b] /\ q # r /\ q \in Request
      BY <2>7 DEF Fits
    <3>2. Cardinality(Holding(q)) < Quantity[q]
      BY <1>1, <3>1 DEF PoolSound, Fits
    <3>3. Holding(q)' \subseteq Holding(q)
      <4>1. status' = [status EXCEPT ![s] = "assigned"] /\ holds' = [holds EXCEPT ![s] = r]
        BY <2>1
      <4>2. QED
        BY <1>1, <2>2, <3>1, <4>1 DEF Holding, TypeOK
    <3>4. QED
      BY <1>1, <3>1, <3>2, <3>3, HoldsLess
  <2>10. PoolSound'
    BY <1>1, <2>7, <2>8, <2>9 DEF PoolSound, QuantityHolds, Fits
  <2>11. QED
    BY <1>3, <2>3, <2>10 DEF IInv
<1>6. QED
  BY <1>4, <1>5

LEMMA MoveResourceKeeps ==
  ASSUME IInv, NEW s \in Resource, NEW to \in Status, MoveResource(s, to)
  PROVE  IInv'
<1>1. TypeOK /\ UNCHANGED <<requests, escalation, tx, faults>> /\ PoolSound
  BY DEF IInv, MoveResource
<1>2. to # "assigned" /\ status' = [status EXCEPT ![s] = to] /\ holds' = [holds EXCEPT ![s] = Free]
  BY DEF MoveResource
<1>3. TypeOK'
  BY <1>1, <1>2 DEF TypeOK, requests, escalation
<1>4. EscalationSound' /\ MovesSound'
  BY <1>1, EscalationKeeps, MovesKeep DEF IInv
<1>5. \A r \in Request : Holding(r)' \subseteq Holding(r)
  BY <1>1, <1>2 DEF Holding, TypeOK
<1>6. \A a \in Actor : Fits(a) => tx[a].request \in Request
  BY <1>1, Kinds DEF Fits, Taken
<1>7. \A a \in Actor : Fits(a) =>
        Cardinality(Holding(tx[a].request)') < Quantity[tx[a].request]
  <2> SUFFICES ASSUME NEW a \in Actor, Fits(a)
               PROVE  Cardinality(Holding(tx[a].request)') < Quantity[tx[a].request]
    OBVIOUS
  <2> DEFINE r == tx[a].request
  <2>1. r \in Request /\ Cardinality(Holding(r)) < Quantity[r]
    BY <1>1, <1>6 DEF PoolSound
  <2>2. Holding(r)' \subseteq Holding(r)
    BY <1>1, <1>2 DEF Holding, TypeOK
  <2>3. QED
    BY <1>1, <2>1, <2>2, HoldsLess
<1>8. \A r \in Request : IsFiniteSet(Holding(r)') /\ Cardinality(Holding(r)') <= Quantity[r]
  BY <1>1, <1>5, HoldsLess
<1>9. PoolSound'
  BY <1>1, <1>7, <1>8 DEF PoolSound, QuantityHolds, Fits
<1>10. QED
  BY <1>3, <1>4, <1>9 DEF IInv

-----------------------------------------------------------------------------
LEMMA StepInv == IInv /\ [Next]_vars => IInv'
<1> SUFFICES ASSUME IInv, [Next]_vars PROVE IInv'
  OBVIOUS
<1>1. ASSUME NEW r \in Request, Assign(r) PROVE IInv'
  <2>1. "assigned" \in State
    BY DEF State, Transitions
  <2>2. QED
    BY <1>1, <2>1, MovedKeeps DEF Assign
<1>2. CASE UNCHANGED vars
  <2>1. TypeOK'
    BY <1>2 DEF IInv, TypeOK, vars, requests, escalation, pool
  <2>2. QED
    BY <1>2, <2>1, EscalationKeeps, PoolKeeps, MovesKeep DEF IInv, vars
<1>3. QED
  BY <1>1, <1>2, BeginMoveKeeps, EndMoveKeeps, ClaimKeeps, DeliverKeeps, TakenLateKeeps,
     GiveUpKeeps, RecordEscalationKeeps, StopKeeps, LapseKeeps, BeginTakeKeeps, CountKeeps,
     EndTakeKeeps, MoveResourceKeeps
  DEF Next, Step

\* Every reachable state satisfies the inductive invariant.
THEOREM Invariant == Spec => []IInv
  BY InitInv, StepInv, PTL DEF Spec

\* The state keeps its types.
THEOREM TypeCorrect == Spec => []TypeOK
  BY Invariant, PTL DEF IInv

\* A request takes no more resources than its quantity.
THEOREM WithinQuantity == Spec => []QuantityHolds
  BY Invariant, PTL DEF IInv, PoolSound

\* A request is escalated once, and the chronology tells of no escalation the
\* peer lacks.
THEOREM EscalatesOnce == Spec => []EscalatedOnce
  BY Invariant, PTL DEF IInv, EscalationSound

\* No two deliveries of one escalation run at the same time.
THEOREM OneDelivery == Spec => []OneAtATime
<1>1. IInv => OneAtATime
  BY DEF IInv, EscalationSound, OneAtATime, Delivering, Escalates
<1>2. QED
  BY <1>1, Invariant, PTL

\* The steps a participant may record are steps of the table.
LEMMA DeliveryFollowsTable ==
  ASSUME NEW from, NEW to, <<from, to>> \in DeliverySteps
  PROVE  CanTransition(from, to)
  BY DEF DeliverySteps, CanTransition, Transitions

\* What people do follows the table, deliveries too, whoever races them.
THEOREM FollowsTable == Spec => PeopleFollowTable
<1> DEFINE A == \A r \in Request : last'[r] # last[r] /\ last'[r].by = "person" =>
                  /\ last'[r].from = state[r] /\ last'[r].to = state'[r]
                  /\ CanTransition(state[r], state'[r])
<1>1. ASSUME IInv, [Next]_vars PROVE [A]_vars
  <2>1. TypeOK /\ MovesSound
    BY <1>1 DEF IInv
  <2>2. ASSUME NEW r \in Request, NEW from, NEW to, from = state[r], CanTransition(from, to),
               state' = [state EXCEPT ![r] = to], Tell(r, from, to, "person")
        PROVE  A
    BY <2>1, <2>2 DEF Tell, TypeOK
  <2>3. ASSUME NEW a \in Actor, EndMove(a) PROVE A
    <3>1. tx[a].request \in Request /\ CanTransition(tx[a].seen, tx[a].to)
      BY <2>1, <2>3, Kinds DEF MovesSound, EndMove, Moving
    <3>2. CASE state[tx[a].request] = tx[a].seen
      BY <2>2, <2>3, <3>1, <3>2 DEF EndMove
    <3>3. CASE state[tx[a].request] # tx[a].seen
      BY <2>3, <3>3 DEF EndMove
    <3>4. QED
      BY <3>2, <3>3
  <2>4. ASSUME NEW a \in Actor, EndReport(a) PROVE A
    BY <2>1, <2>4 DEF EndReport, Tell, TypeOK
  <2>5. ASSUME NEW r \in Request, Assign(r) PROVE A
    BY <2>2, <2>5 DEF Assign
  <2>6. ASSUME NEW a \in Actor, RecordDelivery(a) PROVE A
    <3>1. tx[a].request \in Request
      BY <2>1, <2>6, Kinds DEF RecordDelivery, Moving
    <3>2. CASE <<state[tx[a].request], tx[a].to>> \in DeliverySteps
      <4>1. CanTransition(state[tx[a].request], tx[a].to)
        BY <3>2, DeliveryFollowsTable
      <4>2. QED
        BY <2>2, <2>6, <3>1, <3>2, <4>1 DEF RecordDelivery
    <3>3. CASE <<state[tx[a].request], tx[a].to>> \notin DeliverySteps
      BY <2>6, <3>3 DEF RecordDelivery
    <3>4. QED
      BY <3>2, <3>3
  <2>7. CASE UNCHANGED last
    BY <2>7
  <2>8. QED
    BY <1>1, <2>3, <2>4, <2>5, <2>6, <2>7
    DEF Next, Step, vars, requests, BeginMove, BeginDelivery, BeginReport, Claim, Deliver,
        TakenLate, GiveUp, RecordEscalation, ServerStops, Lapse, BeginTake, Count, EndTake,
        MoveResource
<1>2. QED
  BY <1>1, Invariant, PTL DEF Spec, PeopleFollowTable

\* A resource goes from one request to another only by way of another status.
THEOREM FreedBetween == Spec => ChangesHandsFreed
<1> DEFINE A == \A s \in Resource : holds[s] # Free /\ holds'[s] # Free => holds'[s] = holds[s]
<1>1. ASSUME IInv, [Next]_vars PROVE [A]_vars
  <2>1. TypeOK
    BY <1>1 DEF IInv
  <2>2. ASSUME NEW a \in Actor, EndTake(a) PROVE A
    BY <2>1, <2>2 DEF EndTake, TypeOK, pool
  <2>3. ASSUME NEW s \in Resource, NEW to \in Status, MoveResource(s, to) PROVE A
    BY <2>1, <2>3 DEF MoveResource, TypeOK
  <2>4. CASE UNCHANGED holds
    BY <2>4
  <2>5. QED
    BY <1>1, <2>2, <2>3, <2>4
    DEF Next, Step, vars, pool, BeginMove, BeginDelivery, BeginReport, Claim, Deliver,
        TakenLate, GiveUp, RecordEscalation, ServerStops, Lapse, BeginTake, Count, EndMove,
        EndReport, Assign, RecordDelivery
<1>2. QED
  BY <1>1, Invariant, PTL DEF Spec, ChangesHandsFreed

=============================================================================
