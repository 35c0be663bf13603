---------------------- MODULE FederationExchangeProofs ----------------------
(***************************************************************************)
(* Theorems about FederationExchange, for any number of records, workers,  *)
(* edits, agreements, files and failures, and any batch size.              *)
(***************************************************************************)
EXTENDS FederationExchange, Integers, FiniteSetTheorems, TLAPS

-----------------------------------------------------------------------------
(* The inductive invariant of the queue, whoever shares the board and when. *)

\* The write that is open may still be made.
WritingFits ==
  writing # NoWrite /\ ~writing.removes => version[writing.record] < MaxEdits

\* A worker waits for one request, which carries the batch it claimed, or has
\* an answer and no request.
Lanes ==
  /\ \A q \in requests : q.left \subseteq q.batch
  /\ \A q \in requests : q.who \in Worker => pushing[q.who] = q.batch /\ q.who \notin answered
  /\ \A q \in requests : q.who \in Worker => q.batch # {}
  /\ \A p, q \in requests : p.who = q.who /\ p.who \in Worker => p = q
  /\ \A w \in answered : pushing[w] # {}

RequestSet ==
  [who : Worker \cup {File, Orphan}, batch : SUBSET Ids, left : SUBSET Ids, begun : BOOLEAN]

\* The batches someone holds.
Batched ==
  {pushing[w] : w \in Worker} \cup {q.batch : q \in requests}
    \cup exported \cup imported \cup receipts

\* What is older than an entry of a batch is in it, or waited no more when the
\* batch was claimed.
Leading(b) == \A i \in b, j \in Ids : j < i => j \in b \cup dropped \cup delivered

QueueInv ==
  /\ TypeOK /\ WritingFits /\ Lanes
  /\ \A b \in Batched : Leading(b)
  /\ DeliveredInOrder

-----------------------------------------------------------------------------
(* The inductive invariant of what is shared, when no write is open while   *)
(* the board is being shared.                                               *)

\* An entry adds or removes, and removes only what is deleted here.
Entries ==
  /\ \A i \in Ids : queue[i].removes \subseteq deleted
  /\ \A i \in Ids : queue[i].adds = {} \/ queue[i].removes = {}
  /\ \A i \in 1..Len(copied) : copied[i].removes = {}

\* The peer buries what is deleted here, and keeps nothing of it.
Graves == buried \subseteq deleted /\ \A r \in buried : copy[r] = {}

\* The open write saw the agreement that stands, and its record still stands.
WritingSound ==
  writing # NoWrite =>
    /\ agreement # "being made"
    /\ ~writing.queued => agreement = "none"
    /\ writing.removes => version[writing.record] > 0 /\ writing.record \notin deleted

\* While the board is shared every edit has an entry no revocation dropped, and
\* while it is being shared it has one among those copied.
Covered ==
  /\ agreement = "made" =>
       \A r \in Record \ deleted : \A n \in 1..version[r] :
         \E i \in Ids \ dropped : <<r, n>> \in queue[i].adds
  /\ agreement = "being made" =>
       \A r \in Record \ deleted : \A n \in 1..version[r] :
         \E i \in 1..Len(copied) : <<r, n>> \in copied[i].adds

\* A deletion made under an agreement has an entry, until it is revoked.
DeletionsQueued ==
  /\ agreement # "none" => shares > 0
  /\ \A r \in Record : deletedIn[r] <= shares
  /\ agreement = "being made" => \A r \in Record : deletedIn[r] < shares
  /\ \A r \in Record : deletedIn[r] # 0 => r \in deleted
  /\ agreement = "made" =>
       \A r \in Record : deletedIn[r] = shares =>
         \E i \in Ids \ dropped : r \in queue[i].removes

\* An entry e creates the record.
Creates(e, r) == <<r, 1>> \in queue[e].adds

\* A deletion that waits has an entry before it that creates the record, not dropped.
CreatedBefore ==
  \A i \in Waiting : \A r \in queue[i].removes : deletedIn[r] # 0 =>
    \E e \in Ids \ dropped : e < i /\ Creates(e, r)

\* A batch that deletes a record also creates it, or comes after a delivery that did.
Carries(b) ==
  \A i \in b : \A r \in queue[i].removes : deletedIn[r] # 0 =>
    \E e \in b \cup delivered : Creates(e, r)

\* The entries the peer has applied.
AppliedIds ==
  {i \in Ids :
     \/ i \in delivered
     \/ \E q \in requests : i \in q.batch \ q.left
     \/ \E w \in answered : i \in pushing[w]
     \/ \E b \in imported \cup receipts : i \in b}

\* The peer has the entry's edits, or a tombstone, and one for what it removes.
Applied(i) ==
  /\ \A a \in queue[i].adds : a[2] \in copy[a[1]] \/ a[1] \in buried
  /\ \A r \in queue[i].removes : deletedIn[r] # 0 => r \in buried

ShareInv ==
  /\ Entries /\ Graves /\ WritingSound /\ Covered /\ DeletionsQueued /\ CreatedBefore
  /\ \A b \in Batched : Carries(b)
  /\ \A i \in AppliedIds : Applied(i)

IInv == QueueInv /\ ShareInv

-----------------------------------------------------------------------------
(* What is claimed, and the queue as it grows *)

\* What is claimed waits, and takes with it whatever waits longer.
LEMMA OldestLeads ==
  ASSUME NEW n \in Nat, queue \in Seq(Entry), NEW i \in Oldest(n), NEW j \in Waiting, j < i
  PROVE  j \in Oldest(n)
<1>1. Len(queue) \in Nat /\ Waiting \subseteq 1..Len(queue)
  BY DEF Waiting, Ids
<1>2. IsFiniteSet(1..Len(queue))
  BY <1>1, FS_Interval
<1> DEFINE Under(k) == {l \in Waiting : l < k}
<1>3. IsFiniteSet(Under(i))
  BY <1>1, <1>2, FS_Subset
<1>4. i \in Waiting /\ Cardinality(Under(i)) < n
  BY DEF Oldest
<1>5. Under(j) \subseteq Under(i)
  <2>1. i \in Int /\ j \in Int /\ j < i /\ \A l \in Waiting : l \in Int
    BY <1>1, <1>4
  <2>2. \A l \in Waiting : l < j => l < i
    BY <2>1
  <2>3. QED
    BY <2>2
<1>6. Cardinality(Under(j)) <= Cardinality(Under(i)) /\ IsFiniteSet(Under(j))
  BY <1>3, <1>5, FS_Subset
<1>7. Cardinality(Under(j)) \in Nat /\ Cardinality(Under(i)) \in Nat
  BY <1>3, <1>6, FS_CardinalityType
<1> HIDE DEF Under
<1>8. Cardinality(Under(j)) < n
  BY <1>4, <1>6, <1>7
<1>9. QED
  BY <1>8 DEF Oldest, Under

LEMMA OldestWaits == \A n \in Nat : Oldest(n) \subseteq Waiting
  BY DEF Oldest

\* A claim leads.
LEMMA ClaimLeads ==
  ASSUME TypeOK
  PROVE  Oldest(Batch) \subseteq Ids /\ Leading(Oldest(Batch))
<1>1. Batch \in Nat /\ queue \in Seq(Entry)
  BY FederationAssumption DEF TypeOK
<1>2. Oldest(Batch) \subseteq Ids
  BY DEF Oldest, Waiting
<1>3. ASSUME NEW i \in Oldest(Batch), NEW j \in Ids, j < i, j \notin dropped \cup delivered
      PROVE  j \in Oldest(Batch)
  BY <1>1, <1>3, OldestLeads DEF Waiting
<1>4. QED
  BY <1>2, <1>3 DEF Leading

\* What entries are appended keep the entries there are.
LEMMA Appended ==
  ASSUME queue \in Seq(Entry), NEW s \in Seq(Entry), queue' = queue \o s
  PROVE  /\ queue' \in Seq(Entry)
         /\ Len(queue') = Len(queue) + Len(s)
         /\ Ids \subseteq Ids'
         /\ \A i \in Ids : queue'[i] = queue[i]
         /\ \A i \in Ids' \ Ids : i - Len(queue) \in 1..Len(s) /\ queue'[i] = s[i - Len(queue)]
         /\ \A i \in Ids, j \in Ids' \ Ids : i < j
         /\ \A i \in 1..Len(s) : Len(queue) + i \in Ids' \ Ids
                                /\ queue'[Len(queue) + i] = s[i]
  BY DEF Ids

-----------------------------------------------------------------------------
(* The queue's order *)

\* A batch is of entries of the queue.
LEMMA BatchedIds == TypeOK => \A b \in Batched : b \subseteq Ids
<1>1. SUFFICES ASSUME TypeOK, NEW b \in Batched PROVE b \subseteq Ids
  OBVIOUS
<1>2. /\ pushing \in [Worker -> SUBSET Ids]
      /\ requests \subseteq [who : Worker \cup {File, Orphan}, batch : SUBSET Ids,
                            left : SUBSET Ids, begun : BOOLEAN]
      /\ \A c \in exported \cup imported \cup receipts : c \subseteq Ids
  BY <1>1 DEF TypeOK
<1>3. \A w \in Worker : pushing[w] \subseteq Ids
  BY <1>2
<1>4. \A q \in requests : q.batch \subseteq Ids
  BY <1>2
<1>5. QED
  BY <1>2, <1>3, <1>4 DEF Batched

LEMMA IdsAreNumbers == TypeOK => Len(queue) \in Nat /\ Ids \subseteq Nat
<1>1. SUFFICES ASSUME queue \in Seq(Entry) PROVE Len(queue) \in Nat /\ Ids \subseteq Nat
  BY DEF TypeOK
<1>2. QED
  BY <1>1 DEF Ids

LEMMA EntryTypes ==
  ASSUME TypeOK, NEW i \in Ids
  PROVE  queue[i] \in Entry /\ queue[i].adds \subseteq Edits /\ queue[i].removes \subseteq Record
<1>1. queue \in Seq(Entry)
  BY DEF TypeOK
<1>2. queue[i] \in Entry
  BY <1>1 DEF Ids
<1>3. QED
  BY <1>2 DEF Entry

\* Batches keep leading as the queue grows and as less of it waits.
LEMMA LeadKeeps ==
  ASSUME TypeOK, \A b \in Batched : Leading(b),
         Ids \subseteq Ids', \A i \in Ids, j \in Ids' \ Ids : i < j,
         dropped \subseteq dropped', delivered \subseteq delivered',
         Batched' \subseteq Batched \cup {{}, Oldest(Batch)}
  PROVE  \A b \in Batched' : Leading(b)'
<1>1. ASSUME NEW b \in Batched' PROVE Leading(b)'
  <2>1. Leading(b) /\ b \subseteq Ids
    <3>1. CASE b \in Batched
      BY <3>1, BatchedIds
    <3>2. CASE b = {}
      BY <3>2 DEF Leading
    <3>3. CASE b = Oldest(Batch)
      BY <3>3, ClaimLeads
    <3>4. QED
      BY <1>1, <3>1, <3>2, <3>3
  <2>2. ASSUME NEW i \in b, NEW j \in Ids', j < i PROVE j \in Ids
    <3>1. i \in Ids /\ i \in Nat /\ (j \notin Ids => i < j)
      BY <2>1, IdsAreNumbers
    <3>2. QED
      BY <2>2, <3>1, IdsAreNumbers
  <2>3. QED
    BY <2>1, <2>2 DEF Leading
<1>2. QED
  BY <1>1

\* What is marked delivered was in a batch, and what is older is marked with it.
LEMMA OrderKeeps ==
  ASSUME QueueInv, NEW b \in Batched \cup {{}},
         Ids \subseteq Ids', \A i \in Ids, j \in Ids' \ Ids : i < j,
         dropped \subseteq dropped', delivered' = delivered \cup (b \ dropped)
  PROVE  DeliveredInOrder'
<1>1. SUFFICES ASSUME NEW i \in delivered', NEW j \in Waiting' PROVE i < j
  BY DEF DeliveredInOrder
<1>2. /\ Leading(b) /\ b \subseteq Ids /\ delivered \subseteq Ids
      /\ Len(queue) \in Nat /\ Ids \subseteq Nat
  <2>1. TypeOK /\ (b \in Batched => Leading(b) /\ b \subseteq Ids)
    BY BatchedIds DEF QueueInv
  <2>2. b = {} => Leading(b) /\ b \subseteq Ids
    BY DEF Leading
  <2>3. delivered \subseteq Ids
    BY <2>1 DEF TypeOK
  <2>4. QED
    BY <2>1, <2>2, <2>3, IdsAreNumbers
<1>3. CASE j \notin Ids
  BY <1>2, <1>3 DEF Waiting
<1>4. CASE j \in Ids
  <2>1. j \in Waiting /\ j \notin b /\ j \notin dropped /\ j \notin delivered
    BY <1>4 DEF Waiting
  <2>2. CASE i \in delivered
    BY <2>1, <2>2 DEF QueueInv, DeliveredInOrder
  <2>3. CASE i \in b
    <3>1. ~(j < i)
      BY <1>2, <1>4, <2>1, <2>3 DEF Leading
    <3>2. i # j /\ i \in Nat /\ j \in Nat
      BY <1>2, <1>4, <2>1, <2>3
    <3>3. QED
      BY <3>1, <3>2
  <2>4. QED
    BY <2>2, <2>3
<1>5. QED
  BY <1>3, <1>4

-----------------------------------------------------------------------------
(* Each action keeps the queue's invariant. *)

\* An action that leaves the queue alone, and claims what is oldest if anything.
LEMMA LaneKeepsQueue ==
  ASSUME QueueInv, UNCHANGED <<rows, sharing, outbox>>, TypeOK', Lanes',
         Batched' \subseteq Batched \cup {{}, Oldest(Batch)}
  PROVE  QueueInv'
<1>1. Ids' = Ids /\ UNCHANGED <<version, writing, queue, dropped, delivered>>
  BY DEF rows, outbox, Ids
<1>2. WritingFits' /\ DeliveredInOrder'
  BY <1>1 DEF QueueInv, WritingFits, DeliveredInOrder, Waiting
<1>3. \A b \in Batched' : Leading(b)'
  <2>1. TypeOK /\ \A b \in Batched : Leading(b)
    BY DEF QueueInv
  <2>2. Ids \subseteq Ids' /\ \A i \in Ids, j \in Ids' \ Ids : i < j
    BY <1>1
  <2>3. dropped \subseteq dropped' /\ delivered \subseteq delivered'
    BY <1>1
  <2>4. QED
    BY <2>1, <2>2, <2>3, LeadKeeps
<1>4. QED
  BY <1>2, <1>3 DEF QueueInv

LEMMA PushQueue ==
  ASSUME QueueInv, NEW w \in Worker, Push(w)
  PROVE  QueueInv' /\ Batched' \subseteq Batched \cup {{}, Oldest(Batch)}
<1>1. /\ TypeOK /\ Lanes /\ Batch \in Nat /\ pushing[w] = {} /\ Oldest(Batch) # {}
      /\ Oldest(Batch) \subseteq Ids
  BY FederationAssumption, ClaimLeads DEF QueueInv, Push
<1> DEFINE b == Oldest(Batch)
           q == Request(w, b)
<1>2. /\ pushing' = [pushing EXCEPT ![w] = b] /\ requests' = requests \cup {q}
      /\ UNCHANGED <<rows, sharing, outbox, answered, peer, files, faults>> /\ Ids' = Ids
  BY DEF Push, outbox, Ids
<1>3. q.who = w /\ q.batch = b /\ q.left = b
  BY DEF Request
<1>4. q \in [who : Worker \cup {File, Orphan}, batch : SUBSET Ids,
            left : SUBSET Ids, begun : BOOLEAN]
  BY <1>1 DEF Request
<1>5. pushing \in [Worker -> SUBSET Ids]
  BY <1>1 DEF TypeOK
<1>6. pushing' \in [Worker -> SUBSET Ids] /\ pushing'[w] = b
      /\ \A v \in Worker \ {w} : pushing'[v] = pushing[v]
  BY <1>1, <1>2, <1>5
<1> HIDE DEF b, q
<1>7. TypeOK'
  BY <1>1, <1>2, <1>4, <1>6 DEF TypeOK, rows, sharing, outbox, peer, files, Has
<1>8. Lanes'
  <2>1. \A p \in requests : p.who # w
    BY <1>1 DEF Lanes
  <2>2. \A p \in requests' : p = q \/ (p \in requests /\ p.who # w)
    BY <1>2, <2>1
  <2>3. w \notin answered /\ answered' = answered /\ b # {} /\ answered \subseteq Worker
    BY <1>1, <1>2 DEF Lanes, b, TypeOK
  <2>4. QED
    BY <1>1, <1>3, <1>6, <2>2, <2>3 DEF Lanes
<1>9. Batched' \subseteq Batched \cup {{}, Oldest(Batch)}
  <2>1. \A v \in Worker : pushing'[v] \in Batched \cup {b}
    BY <1>6 DEF Batched
  <2>2. \A p \in requests' : p.batch \in Batched \cup {b}
    BY <1>2, <1>3 DEF Batched
  <2>3. exported' \cup imported' \cup receipts' \subseteq Batched
    BY <1>2 DEF Batched, files
  <2>4. QED
    BY <2>1, <2>2, <2>3 DEF Batched, b
<1>10. QED
  BY <1>2, <1>7, <1>8, <1>9, LaneKeepsQueue

LEMMA FaultCounted == TypeOK /\ faults < MaxFaults => faults + 1 \in 0..MaxFaults
<1>1. MaxFaults \in Nat /\ (TypeOK => faults \in 0..MaxFaults)
  BY FederationAssumption DEF TypeOK
<1>2. QED
  BY <1>1

LEMMA GiveUpQueue ==
  ASSUME QueueInv, NEW w \in Worker, GiveUp(w)
  PROVE  QueueInv' /\ Batched' \subseteq Batched \cup {{}, Oldest(Batch)}
<1>1. TypeOK /\ Lanes
  BY DEF QueueInv
<1>2. /\ pushing' = [pushing EXCEPT ![w] = {}] /\ answered' = answered \ {w}
      /\ requests' = {IF q.who = w THEN [q EXCEPT !.who = Orphan] ELSE q : q \in requests}
      /\ faults < MaxFaults /\ faults' = faults + 1
      /\ UNCHANGED <<rows, sharing, outbox, peer, files>> /\ Ids' = Ids
  BY DEF GiveUp, outbox, Ids
<1>3. requests \subseteq RequestSet /\ pushing \in [Worker -> SUBSET Ids]
  BY <1>1 DEF TypeOK, RequestSet
<1>4. ASSUME NEW p \in requests'
      PROVE  \/ p \in requests /\ p.who # w
             \/ \E q \in requests : p = [q EXCEPT !.who = Orphan]
  BY <1>2
<1>5. ASSUME NEW q \in requests
      PROVE  /\ [q EXCEPT !.who = Orphan] \in RequestSet
             /\ [q EXCEPT !.who = Orphan].who = Orphan
             /\ [q EXCEPT !.who = Orphan].batch = q.batch
             /\ [q EXCEPT !.who = Orphan].left = q.left
  BY <1>3 DEF RequestSet
<1>6. \A p \in requests' :
        /\ p \in RequestSet /\ p.left \subseteq p.batch
        /\ \E q \in requests : p.batch = q.batch
        /\ p.who \in Worker => p \in requests /\ p.who # w
  <2>1. SUFFICES ASSUME NEW p \in requests'
                 PROVE  /\ p \in RequestSet /\ p.left \subseteq p.batch
                        /\ \E q \in requests : p.batch = q.batch
                        /\ p.who \in Worker => p \in requests /\ p.who # w
    OBVIOUS
  <2>2. \A q \in requests : q \in RequestSet /\ q.left \subseteq q.batch
    BY <1>1, <1>3 DEF Lanes
  <2>3. CASE p \in requests /\ p.who # w
    BY <2>2, <2>3
  <2>4. CASE \E q \in requests : p = [q EXCEPT !.who = Orphan]
    BY <1>5, <2>2, <2>4, FederationAssumption
  <2>5. QED
    BY <1>4, <2>3, <2>4
<1>7. pushing' \in [Worker -> SUBSET Ids] /\ pushing'[w] = {}
      /\ \A v \in Worker \ {w} : pushing'[v] = pushing[v]
  BY <1>2, <1>3
<1>8. TypeOK'
  <2>1. requests' \subseteq RequestSet
    BY <1>6
  <2>2. faults' \in 0..MaxFaults
    BY <1>1, <1>2, FaultCounted
  <2>3. QED
    BY <1>1, <1>2, <1>7, <2>1, <2>2 DEF TypeOK, RequestSet, rows, sharing, outbox, peer, files
<1>9. Lanes'
  BY <1>1, <1>2, <1>6, <1>7 DEF Lanes
<1>10. Batched' \subseteq Batched \cup {{}, Oldest(Batch)}
  <2>1. \A v \in Worker : pushing'[v] \in Batched \cup {{}}
    BY <1>7 DEF Batched
  <2>2. \A p \in requests' : p.batch \in Batched
    BY <1>6 DEF Batched
  <2>3. exported' \cup imported' \cup receipts' \subseteq Batched
    BY <1>2 DEF Batched, files
  <2>4. QED
    BY <2>1, <2>2, <2>3 DEF Batched
<1>11. QED
  BY <1>2, <1>8, <1>9, <1>10, LaneKeepsQueue

\* A request that is over leaves its worker with nothing claimed.
LEMMA RefusedQueue ==
  ASSUME QueueInv, NEW q \in requests, Refused(q), faults' \in 0..MaxFaults
  PROVE  QueueInv' /\ Batched' \subseteq Batched \cup {{}, Oldest(Batch)}
<1>1. TypeOK /\ Lanes
  BY DEF QueueInv
<1>2. /\ requests' = requests \ {q}
      /\ pushing' = IF q.who \in Worker THEN [pushing EXCEPT ![q.who] = {}] ELSE pushing
      /\ UNCHANGED <<rows, sharing, outbox, answered, peer, files>> /\ Ids' = Ids
  BY DEF Refused, outbox, Ids
<1>3. pushing \in [Worker -> SUBSET Ids]
  BY <1>1 DEF TypeOK
<1>4. /\ pushing' \in [Worker -> SUBSET Ids]
      /\ \A v \in Worker : v = q.who => pushing'[v] = {}
      /\ \A v \in Worker : v # q.who => pushing'[v] = pushing[v]
  BY <1>2, <1>3
<1>5. TypeOK'
  BY <1>1, <1>2, <1>4 DEF TypeOK, rows, sharing, outbox, peer, files
<1>6. Lanes'
  <2>1. requests' \subseteq requests /\ answered' = answered /\ answered \subseteq Worker
    BY <1>1, <1>2 DEF TypeOK
  <2>2. \A p \in requests' : p.who \in Worker => p.who # q.who
    BY <1>1, <1>2 DEF Lanes
  <2>3. q.who \notin answered
    BY <1>1, <2>1 DEF Lanes
  <2>4. QED
    BY <1>1, <1>4, <2>1, <2>2, <2>3 DEF Lanes
<1>7. Batched' \subseteq Batched \cup {{}, Oldest(Batch)}
  <2>1. \A v \in Worker : pushing'[v] \in Batched \cup {{}}
    BY <1>4 DEF Batched
  <2>2. QED
    BY <1>2, <2>1 DEF Batched, files
<1>8. QED
  BY <1>2, <1>5, <1>6, <1>7, LaneKeepsQueue

\* A request that goes on, for the same worker and with the same batch.
LEMMA GoesOn ==
  ASSUME TypeOK, Lanes, NEW q \in requests, NEW p \in RequestSet,
         p.who = q.who, p.batch = q.batch, p.left \subseteq q.left,
         requests' = (requests \ {q}) \cup {p},
         UNCHANGED <<outbox, pushing, answered, files>>
  PROVE  requests' \subseteq RequestSet' /\ Lanes' /\ Batched' \subseteq Batched
<1>1. /\ requests \subseteq RequestSet /\ RequestSet' = RequestSet
      /\ UNCHANGED <<pushing, answered, exported, imported, receipts>>
  BY DEF TypeOK, RequestSet, Ids, outbox, files
<1>2. Lanes'
  <2>1. \A r \in requests' : \E s \in requests :
          r.who = s.who /\ r.batch = s.batch /\ r.left \subseteq s.left
    OBVIOUS
  <2>2. \A r, s \in requests' : r.who = s.who /\ r.who \in Worker => r = s
    BY DEF Lanes
  <2>3. \A r \in requests' : r.left \subseteq r.batch
    BY <2>1 DEF Lanes
  <2>4. \A r \in requests' : r.who \in Worker =>
          pushing'[r.who] = r.batch /\ r.who \notin answered' /\ r.batch # {}
    BY <1>1, <2>1 DEF Lanes
  <2>5. \A w \in answered' : pushing'[w] # {}
    BY <1>1 DEF Lanes
  <2>6. QED
    BY <2>2, <2>3, <2>4, <2>5 DEF Lanes
<1>3. Batched' \subseteq Batched
  BY <1>1 DEF Batched
<1>4. QED
  BY <1>1, <1>2, <1>3

LEMMA CheckQueue ==
  ASSUME QueueInv, NEW q \in requests, Check(q)
  PROVE  QueueInv' /\ Batched' \subseteq Batched \cup {{}, Oldest(Batch)}
<1>1. TypeOK /\ Lanes /\ q \in RequestSet
  BY DEF QueueInv, TypeOK, RequestSet
<1> DEFINE p == [q EXCEPT !.begun = TRUE]
<1>2. p \in RequestSet /\ p.who = q.who /\ p.batch = q.batch /\ p.left = q.left
  BY <1>1 DEF RequestSet
<1> HIDE DEF p
<1>3. /\ requests' = (requests \ {q}) \cup {p}
      /\ UNCHANGED <<rows, sharing, outbox, pushing, answered, peer, files, faults>>
  BY DEF Check, p
<1>4. requests' \subseteq RequestSet' /\ Lanes' /\ Batched' \subseteq Batched
  BY <1>1, <1>2, <1>3, GoesOn
<1>5. TypeOK'
  BY <1>1, <1>3, <1>4 DEF TypeOK, RequestSet, Ids, rows, sharing, outbox, peer, files
<1>6. QED
  BY <1>3, <1>4, <1>5, LaneKeepsQueue

LEMMA RefuseQueue ==
  ASSUME QueueInv, NEW q \in requests, Refuse(q)
  PROVE  QueueInv' /\ Batched' \subseteq Batched \cup {{}, Oldest(Batch)}
<1>1. Refused(q) /\ faults' \in 0..MaxFaults
  BY DEF Refuse, QueueInv, TypeOK
<1>2. QED
  BY <1>1, RefusedQueue

LEMMA FailQueue ==
  ASSUME QueueInv, NEW q \in requests, Fail(q)
  PROVE  QueueInv' /\ Batched' \subseteq Batched \cup {{}, Oldest(Batch)}
<1>1. Refused(q) /\ faults' \in 0..MaxFaults
  BY FaultCounted DEF Fail, QueueInv
<1>2. QED
  BY <1>1, RefusedQueue

\* The peer's document stays one.
LEMMA PeerTypes ==
  ASSUME TypeOK, NEW e, Merge(e) \/ Bury(e), e.removes \subseteq Record
  PROVE  copy' \in [Record -> SUBSET (1..MaxEdits)] /\ buried' \subseteq Record
<1>1. copy \in [Record -> SUBSET (1..MaxEdits)] /\ buried \subseteq Record
  BY DEF TypeOK
<1>2. CASE Merge(e)
  BY <1>1, <1>2 DEF Merge
<1>3. CASE Bury(e)
  BY <1>1, <1>3 DEF Bury
<1>4. QED
  BY <1>2, <1>3

LEMMA ApplyQueue ==
  ASSUME QueueInv, NEW q \in requests, Apply(q)
  PROVE  QueueInv' /\ Batched' \subseteq Batched \cup {{}, Oldest(Batch)}
<1>1. TypeOK /\ Lanes /\ q \in RequestSet
  BY DEF QueueInv, TypeOK, RequestSet
<1>2. PICK i \in q.left :
        /\ Merge(queue[i]) \/ Bury(queue[i])
        /\ requests' = (requests \ {q}) \cup {[q EXCEPT !.left = @ \ {i}]}
  BY DEF Apply
<1>3. UNCHANGED <<rows, sharing, outbox, pushing, answered, takes, files, faults>>
  BY DEF Apply
<1> DEFINE p == [q EXCEPT !.left = @ \ {i}]
<1>4. /\ p \in RequestSet /\ p.who = q.who /\ p.batch = q.batch /\ p.left \subseteq q.left
      /\ i \in Ids
  BY <1>1 DEF RequestSet
<1>5. requests' = (requests \ {q}) \cup {p}
  BY <1>2
<1> HIDE DEF p
<1>6. requests' \subseteq RequestSet' /\ Lanes' /\ Batched' \subseteq Batched
  BY <1>1, <1>3, <1>4, <1>5, GoesOn
<1>7. queue[i].removes \subseteq Record
  BY <1>1, <1>4, EntryTypes
<1>8. copy' \in [Record -> SUBSET (1..MaxEdits)] /\ buried' \subseteq Record
  BY <1>1, <1>2, <1>7, PeerTypes
<1>9. TypeOK'
  BY <1>1, <1>3, <1>6, <1>8 DEF TypeOK, RequestSet, Ids, rows, sharing, outbox, files
<1>10. QED
  BY <1>3, <1>6, <1>9, LaneKeepsQueue

LEMMA DoneQueue ==
  ASSUME QueueInv, NEW q \in requests, Done(q)
  PROVE  QueueInv' /\ Batched' \subseteq Batched \cup {{}, Oldest(Batch)}
<1>1. TypeOK /\ Lanes /\ q \in RequestSet
  BY DEF QueueInv, TypeOK, RequestSet
<1>2. /\ requests' = requests \ {q} /\ answered' = answered \cup ({q.who} \cap Worker)
      /\ imported' \subseteq imported \cup {q.batch}
      /\ receipts' \subseteq receipts \cup {q.batch}
      /\ UNCHANGED <<rows, sharing, outbox, pushing, peer, exported, faults>> /\ Ids' = Ids
  BY DEF Done, outbox, Ids
<1>3. q.batch \subseteq Ids
  BY <1>1 DEF RequestSet
<1>4. TypeOK'
  <2>1. \A b \in exported' \cup imported' \cup receipts' : b \subseteq Ids
    BY <1>1, <1>2, <1>3 DEF TypeOK
  <2>2. answered' \subseteq Worker /\ requests' \subseteq requests
    BY <1>1, <1>2 DEF TypeOK
  <2>3. QED
    BY <1>1, <1>2, <2>1, <2>2 DEF TypeOK, rows, sharing, outbox, peer
<1>5. Lanes'
  <2>1. \A p \in requests' : p \in requests /\ (p.who \in Worker => p.who # q.who)
    BY <1>1, <1>2 DEF Lanes
  <2>2. q.who \in Worker => pushing[q.who] # {}
    BY <1>1 DEF Lanes
  <2>3. QED
    BY <1>1, <1>2, <2>1, <2>2 DEF Lanes
<1>6. Batched' \subseteq Batched
  BY <1>2 DEF Batched
<1>7. QED
  BY <1>2, <1>4, <1>5, <1>6, LaneKeepsQueue

LEMMA PeerTakesQueue ==
  ASSUME QueueInv, PeerTakes
  PROVE  QueueInv' /\ Batched' \subseteq Batched \cup {{}, Oldest(Batch)}
<1>1. TypeOK /\ Lanes
  BY DEF QueueInv
<1>2. UNCHANGED <<rows, sharing, outbox, lane, copy, buried, files>> /\ takes' = ~takes
  BY DEF PeerTakes
<1>3. faults' \in 0..MaxFaults
  BY <1>1, FaultCounted DEF PeerTakes, TypeOK
<1>4. TypeOK'
  BY <1>1, <1>2, <1>3 DEF TypeOK, Ids, rows, sharing, outbox, lane, files
<1>5. Lanes' /\ Batched' \subseteq Batched
  BY <1>1, <1>2 DEF Lanes, Batched, lane, files
<1>6. QED
  BY <1>2, <1>4, <1>5, LaneKeepsQueue

LEMMA ExportFileQueue ==
  ASSUME QueueInv, ExportFile
  PROVE  QueueInv' /\ Batched' \subseteq Batched \cup {{}, Oldest(Batch)}
<1>1. TypeOK /\ Lanes /\ Oldest(Batch) \subseteq Ids
  BY ClaimLeads DEF QueueInv
<1>2. /\ exported' = exported \cup {Oldest(Batch)}
      /\ UNCHANGED <<rows, sharing, outbox, lane, peer, imported, receipts, faults>>
  BY DEF ExportFile
<1>3. TypeOK'
  BY <1>1, <1>2 DEF TypeOK, Ids, rows, sharing, outbox, lane, peer
<1>4. Lanes' /\ Batched' \subseteq Batched \cup {Oldest(Batch)}
  BY <1>1, <1>2 DEF Lanes, Batched, lane
<1>5. QED
  BY <1>2, <1>3, <1>4, LaneKeepsQueue

LEMMA ImportFileQueue ==
  ASSUME QueueInv, NEW b \in exported, ImportFile(b)
  PROVE  QueueInv' /\ Batched' \subseteq Batched \cup {{}, Oldest(Batch)}
<1>1. TypeOK /\ Lanes /\ b \subseteq Ids
  BY DEF QueueInv, TypeOK
<1> DEFINE q == [Request(File, b) EXCEPT !.begun = TRUE]
<1>2. q \in RequestSet /\ q.who = File /\ q.batch = b /\ q.left = b
  BY <1>1 DEF Request, RequestSet
<1> HIDE DEF q
<1>3. /\ requests' \subseteq requests \cup {q}
      /\ receipts' \subseteq receipts \cup {b}
      /\ UNCHANGED <<rows, sharing, outbox, pushing, answered, peer, exported, imported, faults>>
      /\ Ids' = Ids
  BY DEF ImportFile, q, outbox, Ids
<1>4. TypeOK'
  <2>1. requests' \subseteq RequestSet
    BY <1>1, <1>2, <1>3 DEF TypeOK, RequestSet
  <2>2. \A c \in exported' \cup imported' \cup receipts' : c \subseteq Ids
    BY <1>1, <1>3 DEF TypeOK
  <2>3. QED
    BY <1>1, <1>3, <2>1, <2>2 DEF TypeOK, RequestSet, rows, sharing, outbox, peer
<1>5. Lanes'
  <2>1. \A p \in requests' : p = q \/ p \in requests
    BY <1>3
  <2>2. File \notin Worker
    BY FederationAssumption
  <2>3. QED
    BY <1>1, <1>2, <1>3, <2>1, <2>2 DEF Lanes
<1>6. Batched' \subseteq Batched
  <2>1. b \in Batched
    BY DEF Batched
  <2>2. \A p \in requests' : p.batch \in Batched
    BY <1>2, <1>3, <2>1 DEF Batched
  <2>3. \A c \in exported' \cup imported' \cup receipts' : c \in Batched
    BY <1>3, <2>1 DEF Batched
  <2>4. \A w \in Worker : pushing'[w] \in Batched
    BY <1>3 DEF Batched
  <2>5. QED
    BY <2>2, <2>3, <2>4 DEF Batched
<1>7. QED
  BY <1>3, <1>4, <1>5, <1>6, LaneKeepsQueue

\* Marking: what is marked was in a batch.
LEMMA MarkKeepsQueue ==
  ASSUME QueueInv, NEW b \in Batched, delivered' = delivered \cup (b \ dropped),
         UNCHANGED <<rows, sharing, queue, dropped>>, TypeOK', Lanes',
         Batched' \subseteq Batched \cup {{}}
  PROVE  QueueInv'
<1>1. TypeOK /\ (\A c \in Batched : Leading(c)) /\ Ids' = Ids
      /\ UNCHANGED <<version, writing>>
  BY DEF QueueInv, Ids, rows
<1>2. \A i \in Ids, j \in Ids' \ Ids : i < j
  BY <1>1
<1>3. \A c \in Batched' : Leading(c)'
  BY <1>1, <1>2, LeadKeeps
<1>4. DeliveredInOrder'
  BY <1>1, <1>2, OrderKeeps
<1>5. WritingFits'
  BY <1>1 DEF QueueInv, WritingFits
<1>6. QED
  BY <1>3, <1>4, <1>5 DEF QueueInv

LEMMA MarkDeliveredQueue ==
  ASSUME QueueInv, NEW w \in Worker, MarkDelivered(w)
  PROVE  QueueInv' /\ Batched' \subseteq Batched \cup {{}, Oldest(Batch)}
<1>1. TypeOK /\ Lanes /\ pushing \in [Worker -> SUBSET Ids] /\ pushing[w] \in Batched
  BY DEF QueueInv, TypeOK, Batched
<1>2. /\ delivered' = delivered \cup (pushing[w] \ dropped)
      /\ pushing' = [pushing EXCEPT ![w] = {}] /\ answered' = answered \ {w}
      /\ w \in answered /\ Ids' = Ids
      /\ UNCHANGED <<rows, sharing, queue, dropped, requests, peer, files, faults>>
  BY DEF MarkDelivered, Ids
<1>3. pushing' \in [Worker -> SUBSET Ids] /\ pushing'[w] = {}
      /\ \A v \in Worker \ {w} : pushing'[v] = pushing[v]
  BY <1>1, <1>2
<1>4. TypeOK'
  <2>1. delivered' \subseteq Ids /\ dropped \cap delivered' = {}
    BY <1>1, <1>2 DEF TypeOK
  <2>2. QED
    BY <1>1, <1>2, <1>3, <2>1 DEF TypeOK, rows, sharing, peer, files
<1>5. Lanes'
  <2>1. \A q \in requests : q.who # w
    BY <1>1, <1>2 DEF Lanes
  <2>2. QED
    BY <1>1, <1>2, <1>3, <2>1 DEF Lanes, TypeOK
<1>6. Batched' \subseteq Batched \cup {{}}
  BY <1>2, <1>3 DEF Batched, files
<1>7. QED
  BY <1>1, <1>2, <1>4, <1>5, <1>6, MarkKeepsQueue

LEMMA ImportReceiptQueue ==
  ASSUME QueueInv, NEW b \in exported, ImportReceipt(b)
  PROVE  QueueInv' /\ Batched' \subseteq Batched \cup {{}, Oldest(Batch)}
<1>1. TypeOK /\ Lanes /\ b \subseteq Ids /\ b \in Batched
  BY DEF QueueInv, TypeOK, Batched
<1>2. /\ delivered' = delivered \cup (b \ dropped) /\ receipts' = receipts \ {b}
      /\ UNCHANGED <<rows, sharing, queue, dropped, lane, peer, exported, imported, faults>>
      /\ Ids' = Ids
  BY DEF ImportReceipt, Ids
<1>3. TypeOK'
  <2>1. delivered' \subseteq Ids /\ dropped \cap delivered' = {}
    BY <1>1, <1>2 DEF TypeOK
  <2>2. QED
    BY <1>1, <1>2, <2>1 DEF TypeOK, rows, sharing, lane, peer
<1>4. Lanes' /\ Batched' \subseteq Batched
  BY <1>1, <1>2 DEF Lanes, Batched, lane
<1>5. QED
  BY <1>1, <1>2, <1>3, <1>4, MarkKeepsQueue

\* What is queued comes last.
LEMMA GrowthKeepsQueue ==
  ASSUME QueueInv, NEW s \in Seq(Entry), queue' = queue \o s,
         UNCHANGED <<dropped, delivered, lane, files>>
  PROVE  /\ queue' \in Seq(Entry) /\ Ids \subseteq Ids'
         /\ Lanes' /\ DeliveredInOrder' /\ \A b \in Batched' : Leading(b)'
<1>1. TypeOK /\ Lanes /\ (\A b \in Batched : Leading(b)) /\ queue \in Seq(Entry)
  BY DEF QueueInv, TypeOK
<1>2. /\ queue' \in Seq(Entry) /\ Ids \subseteq Ids'
      /\ \A i \in Ids, j \in Ids' \ Ids : i < j
  BY <1>1, Appended
<1>3. Lanes' /\ Batched' = Batched
  BY <1>1 DEF Lanes, Batched, lane, files
<1>4. \A b \in Batched' : Leading(b)'
  BY <1>1, <1>2, <1>3, LeadKeeps
<1>5. DeliveredInOrder'
  BY <1>2, OrderKeeps
<1>6. QED
  BY <1>2, <1>3, <1>4, <1>5

\* Types hold as the queue grows.
LEMMA TypesGrow ==
  ASSUME TypeOK, queue' \in Seq(Entry), Ids \subseteq Ids',
         version' \in [Record -> 0..MaxEdits], deleted' \subseteq Record,
         deletedIn' \in [Record -> 0..MaxShares], writing' \in Write \cup {NoWrite},
         agreement' \in {"none", "being made", "made"}, copied' \in Seq(Entry),
         UNCHANGED <<shares, dropped, delivered, lane, peer, files, faults>>
  PROVE  TypeOK'
<1>1. /\ dropped' \subseteq Ids' /\ delivered' \subseteq Ids' /\ dropped' \cap delivered' = {}
      /\ \A b \in exported' \cup imported' \cup receipts' : b \subseteq Ids'
  BY DEF TypeOK, files
<1>2. pushing' \in [Worker -> SUBSET Ids'] /\ answered' \subseteq Worker
  <2>1. pushing \in [Worker -> SUBSET Ids]
    BY DEF TypeOK
  <2>2. pushing \in [Worker -> SUBSET Ids']
    BY <2>1
  <2>3. QED
    BY <2>2 DEF TypeOK, lane
<1>3. requests' \subseteq RequestSet'
  <2>1. requests \subseteq RequestSet
    BY DEF TypeOK, RequestSet
  <2>2. RequestSet \subseteq RequestSet'
    BY DEF RequestSet
  <2>3. QED
    BY <2>1, <2>2 DEF lane
<1>4. QED
  BY <1>1, <1>2, <1>3 DEF TypeOK, RequestSet, peer

LEMMA BeginWriteQueue ==
  ASSUME QueueInv, NEW r \in Record, NEW removes \in BOOLEAN, BeginWrite(r, removes)
  PROVE  QueueInv'
<1>1. TypeOK /\ Lanes
  BY DEF QueueInv
<1>2. /\ writing' = [record |-> r, removes |-> removes, queued |-> agreement = "made"]
      /\ ~removes => version[r] < MaxEdits
      /\ UNCHANGED <<version, deleted, deletedIn, sharing, outbox, lane, peer, files, faults>>
  BY DEF BeginWrite
<1>3. writing' \in Write /\ writing'.record = r /\ writing'.removes = removes
  BY <1>2 DEF Write
<1>4. TypeOK'
  BY <1>1, <1>2, <1>3 DEF TypeOK, Ids, sharing, outbox, lane, peer, files
<1>5. WritingFits'
  BY <1>2, <1>3 DEF WritingFits
<1>6. Lanes' /\ Batched' = Batched
  BY <1>1, <1>2 DEF Lanes, Batched, lane, files
<1>7. (\A b \in Batched' : Leading(b)') /\ DeliveredInOrder'
  BY <1>2, <1>6 DEF QueueInv, Leading, DeliveredInOrder, Waiting, Ids, outbox
<1>8. QED
  BY <1>4, <1>5, <1>6, <1>7 DEF QueueInv

\* An edit that may be made has a number.
LEMMA NextEdit ==
  ASSUME TypeOK, NEW r \in Record, version[r] < MaxEdits
  PROVE  version[r] + 1 \in 1..MaxEdits /\ version[r] \in Nat
<1>1. version[r] \in 0..MaxEdits /\ MaxEdits \in Nat
  BY FederationAssumption DEF TypeOK
<1>2. QED
  BY <1>1

LEMMA EntryMade ==
  ASSUME NEW a \in SUBSET Edits, NEW d \in SUBSET Record
  PROVE  [adds |-> a, removes |-> d] \in Entry
  BY DEF Entry

LEMMA EntryOfWrite ==
  ASSUME TypeOK, WritingFits, writing # NoWrite
  PROVE  EntryOf(writing) \in Entry /\ writing \in Write
<1>1. writing \in Write
  BY DEF TypeOK
<1>2. CASE writing.removes
  BY <1>1, <1>2 DEF EntryOf, Entry, Write
<1>3. CASE ~writing.removes
  <2>1. version[writing.record] + 1 \in 1..MaxEdits /\ writing.record \in Record
    BY <1>1, <1>3, NextEdit DEF WritingFits, Write
  <2>2. {<<writing.record, version[writing.record] + 1>>} \in SUBSET Edits
    <3>1. <<writing.record, version[writing.record] + 1>> \in Record \X (1..MaxEdits)
      BY <2>1
    <3>2. QED
      BY <3>1 DEF Edits
  <2>3. EntryOf(writing) =
          [adds |-> {<<writing.record, version[writing.record] + 1>>}, removes |-> {}]
    BY <1>3 DEF EntryOf
  <2>4. {} \in SUBSET Record
    OBVIOUS
  <2>5. [adds |-> {<<writing.record, version[writing.record] + 1>>}, removes |-> {}] \in Entry
    BY ONLY <2>2, <2>4, EntryMade
  <2>6. QED
    BY <1>1, <2>3, <2>5
<1>4. QED
  BY <1>1, <1>2, <1>3

\* What a committed write changes.
LEMMA CommitWriteChanges ==
  ASSUME TypeOK, WritingFits, CommitWrite
  PROVE  /\ writing \in Write /\ writing.record \in Record
         /\ \E s \in Seq(Entry) :
              /\ queue' = queue \o s
              /\ s = IF writing.queued THEN <<EntryOf(writing)>> ELSE <<>>
         /\ version' \in [Record -> 0..MaxEdits]
         /\ version'[writing.record] = IF writing.removes THEN version[writing.record]
                                       ELSE version[writing.record] + 1
         /\ \A r \in Record \ {writing.record} : version'[r] = version[r]
         /\ deleted' = IF writing.removes THEN deleted \cup {writing.record} ELSE deleted
         /\ deletedIn' \in [Record -> 0..MaxShares]
         /\ writing.removes => deletedIn'[writing.record] =
              IF writing.queued /\ agreement = "made" THEN shares ELSE 0
         /\ ~writing.removes => deletedIn' = deletedIn
         /\ \A r \in Record \ {writing.record} : deletedIn'[r] = deletedIn[r]
<1>1. writing # NoWrite /\ EntryOf(writing) \in Entry /\ writing \in Write
      /\ writing.record \in Record
  BY EntryOfWrite DEF CommitWrite, Write
<1>2. queue \in Seq(Entry) /\ version \in [Record -> 0..MaxEdits]
      /\ deletedIn \in [Record -> 0..MaxShares] /\ shares \in 0..MaxShares
      /\ MaxShares \in Nat /\ MaxEdits \in Nat
  BY FederationAssumption DEF TypeOK
<1>3. /\ version' = IF writing.removes THEN version
                    ELSE [version EXCEPT ![writing.record] = version[writing.record] + 1]
      /\ deleted' = IF writing.removes THEN deleted \cup {writing.record} ELSE deleted
      /\ deletedIn' = IF writing.removes
                      THEN [deletedIn EXCEPT ![writing.record] =
                              IF writing.queued /\ agreement = "made" THEN shares ELSE 0]
                      ELSE deletedIn
      /\ queue' = IF writing.queued THEN Append(queue, EntryOf(writing)) ELSE queue
  BY DEF CommitWrite
<1>4. \E s \in Seq(Entry) : /\ queue' = queue \o s
                            /\ s = IF writing.queued THEN <<EntryOf(writing)>> ELSE <<>>
  <2>1. CASE writing.queued
    <3>1. Append(queue, EntryOf(writing)) = queue \o <<EntryOf(writing)>>
      BY <1>1, <1>2
    <3>2. <<EntryOf(writing)>> \in Seq(Entry)
      BY <1>1
    <3>3. QED
      BY <1>3, <2>1, <3>1, <3>2
  <2>2. CASE ~writing.queued
    <3>1. queue = queue \o <<>> /\ <<>> \in Seq(Entry)
      BY <1>2
    <3>2. QED
      BY <1>3, <2>2, <3>1
  <2>3. QED
    BY <2>1, <2>2
<1>5. /\ version' \in [Record -> 0..MaxEdits]
      /\ version'[writing.record] = IF writing.removes THEN version[writing.record]
                                    ELSE version[writing.record] + 1
      /\ \A r \in Record \ {writing.record} : version'[r] = version[r]
  <2>1. CASE writing.removes
    BY <1>2, <1>3, <2>1
  <2>2. CASE ~writing.removes
    <3>1. version[writing.record] + 1 \in 0..MaxEdits
      BY <1>1, <1>2, <2>2, NextEdit DEF WritingFits
    <3>2. QED
      BY <1>1, <1>2, <1>3, <2>2, <3>1
  <2>3. QED
    BY <2>1, <2>2
<1>6. /\ deletedIn' \in [Record -> 0..MaxShares]
      /\ writing.removes => deletedIn'[writing.record] =
           IF writing.queued /\ agreement = "made" THEN shares ELSE 0
      /\ ~writing.removes => deletedIn' = deletedIn
      /\ \A r \in Record \ {writing.record} : deletedIn'[r] = deletedIn[r]
  BY <1>1, <1>2, <1>3
<1>7. QED
  BY <1>1, <1>3, <1>4, <1>5, <1>6

LEMMA CommitWriteQueue == QueueInv /\ CommitWrite => QueueInv'
<1> SUFFICES ASSUME QueueInv, CommitWrite PROVE QueueInv'
  OBVIOUS
<1>1. TypeOK /\ WritingFits
  BY DEF QueueInv
<1>2. /\ writing' = NoWrite
      /\ UNCHANGED <<sharing, dropped, delivered, lane, peer, files, faults>>
  BY DEF CommitWrite
<1>3. PICK s \in Seq(Entry) : queue' = queue \o s
  BY <1>1, CommitWriteChanges
<1>4. /\ queue' \in Seq(Entry) /\ Ids \subseteq Ids'
      /\ Lanes' /\ DeliveredInOrder' /\ \A b \in Batched' : Leading(b)'
  BY <1>2, <1>3, GrowthKeepsQueue
<1>5. /\ version' \in [Record -> 0..MaxEdits] /\ deleted' \subseteq Record
      /\ deletedIn' \in [Record -> 0..MaxShares]
  <2>1. deleted \subseteq Record
    BY <1>1 DEF TypeOK
  <2>2. QED
    BY <1>1, <2>1, CommitWriteChanges
<1>6. TypeOK'
  <2>1. agreement' \in {"none", "being made", "made"} /\ copied' \in Seq(Entry)
    BY <1>1, <1>2 DEF TypeOK, sharing
  <2>2. UNCHANGED <<shares, dropped, delivered, lane, peer, files, faults>>
    BY <1>2 DEF sharing
  <2>3. QED
    BY <1>1, <1>2, <1>4, <1>5, <2>1, <2>2, TypesGrow
<1>7. WritingFits'
  BY <1>2 DEF WritingFits
<1>8. QED
  BY <1>4, <1>6, <1>7 DEF QueueInv

LEMMA PartFields == \A r : Part(r).adds = {r} \X (1..version[r]) /\ Part(r).removes = {}
  BY DEF Part

LEMMA ShareCounted == TypeOK /\ shares < MaxShares => shares + 1 \in 0..MaxShares
<1>1. MaxShares \in Nat /\ (TypeOK => shares \in 0..MaxShares)
  BY FederationAssumption DEF TypeOK
<1>2. QED
  BY <1>1

\* What a backfill holds: a part for each record that stands, and nothing else.
LEMMA BackfillParts ==
  ASSUME TypeOK, NEW c \in Backfill
  PROVE  /\ c \in Seq(Entry)
         /\ \A i \in 1..Len(c) : c[i].removes = {}
         /\ \A r \in Record \ deleted : version[r] > 0 =>
              \E i \in 1..Len(c) : c[i].adds = {r} \X (1..version[r])
<1> DEFINE live == {r \in Record \ deleted : version[r] > 0}
<1>1. PICK s \in [1..Cardinality(live) -> live] :
        /\ \A r \in live : \E i \in DOMAIN s : s[i] = r
        /\ c = [i \in DOMAIN s |-> Part(s[i])]
  BY DEF Backfill
<1>2. IsFiniteSet(live)
  BY FS_Subset, FederationAssumption
<1>3. Cardinality(live) \in Nat
  BY <1>2, FS_CardinalityType
<1>4. ASSUME NEW r \in Record PROVE Part(r) \in Entry
  <2>1. version[r] \in 0..MaxEdits /\ MaxEdits \in Nat
    BY FederationAssumption DEF TypeOK
  <2>2. 1..version[r] \subseteq 1..MaxEdits
    BY <2>1
  <2>3. {r} \X (1..version[r]) \in SUBSET Edits
    BY <2>2 DEF Edits
  <2>4. {} \in SUBSET Record
    OBVIOUS
  <2>5. [adds |-> {r} \X (1..version[r]), removes |-> {}] \in Entry
    BY ONLY <2>3, <2>4, EntryMade
  <2>6. QED
    BY <2>5 DEF Part
<1>5. \A i \in 1..Cardinality(live) : s[i] \in Record
  BY <1>1
<1> HIDE DEF live
<1>6. DOMAIN s = 1..Cardinality(live)
  BY <1>1
<1>7. c = [i \in 1..Cardinality(live) |-> Part(s[i])]
  BY <1>1, <1>6
<1>8. c \in [1..Cardinality(live) -> Entry]
  BY <1>4, <1>5, <1>7
<1>9. c \in Seq(Entry) /\ Len(c) = Cardinality(live)
  BY <1>3, <1>8
<1>10. \A i \in 1..Len(c) : c[i] = Part(s[i])
  BY <1>7, <1>9
<1>11. \A i \in 1..Len(c) : c[i].removes = {}
  BY <1>10, PartFields, Zenon
<1>12. ASSUME NEW r \in Record \ deleted, version[r] > 0
       PROVE  \E i \in 1..Len(c) : c[i].adds = {r} \X (1..version[r])
  <2>1. r \in live
    BY <1>12 DEF live
  <2>2. PICK i \in 1..Len(c) : s[i] = r
    BY <1>1, <1>6, <1>9, <2>1
  <2>3. c[i].adds = {r} \X (1..version[r])
    BY <1>10, <2>2, PartFields, Zenon
  <2>4. QED
    BY <2>3
<1>13. QED
  BY <1>9, <1>11, <1>12

LEMMA BeginShareQueue == QueueInv /\ BeginShare => QueueInv'
<1> SUFFICES ASSUME QueueInv, BeginShare PROVE QueueInv'
  OBVIOUS
<1>1. TypeOK /\ Lanes
  BY DEF QueueInv
<1>2. /\ agreement' = "being made" /\ copied' \in Backfill /\ shares' = shares + 1
      /\ shares < MaxShares
      /\ UNCHANGED <<rows, outbox, lane, peer, files, faults>>
  BY DEF BeginShare
<1>3. copied' \in Seq(Entry)
  BY <1>1, <1>2, BackfillParts
<1>4. shares' \in 0..MaxShares
  BY <1>1, <1>2, ShareCounted
<1>5. TypeOK'
  BY <1>1, <1>2, <1>3, <1>4 DEF TypeOK, Ids, rows, outbox, lane, peer, files
<1>6. Lanes' /\ Batched' = Batched /\ WritingFits'
  BY <1>1, <1>2 DEF QueueInv, Lanes, Batched, WritingFits, rows, lane, files
<1>7. (\A b \in Batched' : Leading(b)') /\ DeliveredInOrder'
  BY <1>2, <1>6 DEF QueueInv, Leading, DeliveredInOrder, Waiting, Ids, outbox
<1>8. QED
  BY <1>5, <1>6, <1>7 DEF QueueInv

LEMMA CommitShareQueue == QueueInv /\ CommitShare => QueueInv'
<1> SUFFICES ASSUME QueueInv, CommitShare PROVE QueueInv'
  OBVIOUS
<1>1. TypeOK /\ WritingFits /\ copied \in Seq(Entry)
  BY DEF QueueInv, TypeOK
<1>2. /\ agreement' = "made" /\ copied' = <<>> /\ queue' = queue \o copied
      /\ UNCHANGED <<rows, shares, dropped, delivered, lane, peer, files, faults>>
  BY DEF CommitShare
<1>3. /\ queue' \in Seq(Entry) /\ Ids \subseteq Ids'
      /\ Lanes' /\ DeliveredInOrder' /\ \A b \in Batched' : Leading(b)'
  BY <1>1, <1>2, GrowthKeepsQueue
<1>4. TypeOK'
  <2>1. copied' \in Seq(Entry)
    BY <1>2
  <2>2. /\ version' \in [Record -> 0..MaxEdits] /\ deleted' \subseteq Record
        /\ deletedIn' \in [Record -> 0..MaxShares] /\ writing' \in Write \cup {NoWrite}
    BY <1>1, <1>2 DEF TypeOK, rows
  <2>3. QED
    BY <1>1, <1>2, <1>3, <2>1, <2>2, TypesGrow
<1>5. WritingFits'
  BY <1>1, <1>2 DEF WritingFits, rows
<1>6. QED
  BY <1>3, <1>4, <1>5 DEF QueueInv

LEMMA RevokeQueue == QueueInv /\ Revoke => QueueInv'
<1> SUFFICES ASSUME QueueInv, Revoke PROVE QueueInv'
  OBVIOUS
<1>1. TypeOK /\ Lanes /\ WritingFits /\ \A b \in Batched : Leading(b)
  BY DEF QueueInv
<1>2. /\ agreement' = "none" /\ dropped' = dropped \cup Waiting /\ Ids' = Ids
      /\ UNCHANGED <<rows, copied, shares, queue, delivered, lane, peer, files, faults>>
  BY DEF Revoke, Ids
<1>3. TypeOK'
  <2>1. dropped' \subseteq Ids /\ dropped' \cap delivered = {}
    BY <1>1, <1>2 DEF TypeOK, Waiting
  <2>2. QED
    BY <1>1, <1>2, <2>1 DEF TypeOK, rows, lane, peer, files
<1>4. Lanes' /\ Batched' = Batched /\ WritingFits'
  BY <1>1, <1>2 DEF Lanes, Batched, WritingFits, rows, lane, files
<1>5. \A b \in Batched' : Leading(b)'
  BY <1>1, <1>2, <1>4 DEF Leading
<1>6. DeliveredInOrder'
  BY <1>2 DEF DeliveredInOrder, Waiting
<1>7. QED
  BY <1>3, <1>4, <1>5, <1>6 DEF QueueInv

LEMMA QueueInit == Init => QueueInv
<1> SUFFICES ASSUME Init PROVE QueueInv
  OBVIOUS
<1>1. MaxEdits \in Nat /\ MaxShares \in Nat /\ MaxFaults \in Nat
  BY FederationAssumption
<1>2. Len(queue) = 0 /\ Ids = {}
  BY DEF Init, Ids
<1>3. TypeOK
  BY <1>1, <1>2 DEF Init, TypeOK
<1>4. WritingFits /\ Lanes /\ DeliveredInOrder
  BY DEF Init, WritingFits, Lanes, DeliveredInOrder
<1>5. \A b \in Batched : b = {}
  BY DEF Init, Batched
<1>6. QED
  BY <1>3, <1>4, <1>5 DEF QueueInv, Leading

LEMMA QueueStep == QueueInv /\ [Next]_vars => QueueInv'
<1> SUFFICES ASSUME QueueInv, [Next]_vars PROVE QueueInv'
  OBVIOUS
<1>1. CASE UNCHANGED vars
  <2>1. UNCHANGED <<rows, sharing, outbox, lane, peer, files, faults>>
    BY <1>1 DEF vars
  <2>2. TypeOK' /\ Lanes' /\ Batched' = Batched
    BY <2>1 DEF QueueInv, TypeOK, Lanes, Batched, Ids, rows, sharing, outbox, lane, peer, files
  <2>3. QED
    BY <2>1, <2>2, LaneKeepsQueue
<1>2. CASE \E r \in Record, removes \in BOOLEAN : BeginWrite(r, removes)
  BY <1>2, BeginWriteQueue
<1>3. CASE CommitWrite \/ BeginShare \/ CommitShare \/ Revoke
  BY <1>3, CommitWriteQueue, BeginShareQueue, CommitShareQueue, RevokeQueue
<1>4. CASE \E w \in Worker : Push(w) \/ MarkDelivered(w) \/ GiveUp(w)
  BY <1>4, PushQueue, MarkDeliveredQueue, GiveUpQueue
<1>5. CASE \E q \in requests : PeerStep(q) \/ Fail(q)
  BY <1>5, CheckQueue, RefuseQueue, ApplyQueue, DoneQueue, FailQueue DEF PeerStep
<1>6. CASE PeerTakes \/ ExportFile
  BY <1>6, PeerTakesQueue, ExportFileQueue
<1>7. CASE \E b \in exported : ImportFile(b) \/ ImportReceipt(b)
  BY <1>7, ImportFileQueue, ImportReceiptQueue
<1>8. QED
  BY <1>1, <1>2, <1>3, <1>4, <1>5, <1>6, <1>7 DEF Next

LEMMA QueueInvariant == Spec => []QueueInv
  BY QueueInit, QueueStep, PTL DEF Spec

\* The state keeps its types; what was dropped is never marked delivered.
THEOREM TypeCorrect == Spec => []TypeOK
  BY QueueInvariant, PTL DEF QueueInv

\* Nothing is delivered ahead of what waits longer, by workers that claim the
\* same entries or by files and their receipts.
THEOREM InOrder == Spec => []DeliveredInOrder
  BY QueueInvariant, PTL DEF QueueInv

-----------------------------------------------------------------------------
(* What the peer has applied, step by step *)

LEMMA AppliedParts ==
  /\ \A i \in Ids : i \in delivered => i \in AppliedIds
  /\ \A i \in Ids : \A q \in requests : i \in q.batch \ q.left => i \in AppliedIds
  /\ \A i \in Ids : \A w \in answered : i \in pushing[w] => i \in AppliedIds
  /\ \A i \in Ids : \A b \in imported \cup receipts : i \in b => i \in AppliedIds
  BY DEF AppliedIds

LEMMA NothingNewApplied ==
  ASSUME Ids' = Ids,
         \A i \in Ids : i \in delivered' => i \in AppliedIds,
         \A i \in Ids : \A q \in requests' : i \in q.batch \ q.left => i \in AppliedIds,
         \A i \in Ids : \A w \in answered' : i \in pushing'[w] => i \in AppliedIds,
         \A i \in Ids : \A b \in imported' \cup receipts' : i \in b => i \in AppliedIds
  PROVE  AppliedIds' \subseteq AppliedIds
<1>1. ASSUME NEW i \in AppliedIds' PROVE i \in AppliedIds
  <2>1. /\ i \in Ids
        /\ \/ i \in delivered'
           \/ \E q \in requests' : i \in q.batch \ q.left
           \/ \E w \in answered' : i \in pushing'[w]
           \/ \E b \in imported' \cup receipts' : i \in b
    BY <1>1 DEF AppliedIds
  <2>2. QED
    BY <2>1
<1>2. QED
  BY <1>1

LEMMA PushApplies ==
  ASSUME QueueInv, NEW w \in Worker, Push(w)
  PROVE  AppliedIds' \subseteq AppliedIds
<1>1. /\ pushing' = [pushing EXCEPT ![w] = Oldest(Batch)] /\ pushing[w] = {}
      /\ requests' = requests \cup {Request(w, Oldest(Batch))}
      /\ UNCHANGED <<delivered, answered, imported, receipts>> /\ Ids' = Ids
  BY DEF Push, outbox, files, Ids
<1>2. w \notin answered /\ answered \subseteq Worker /\ pushing \in [Worker -> SUBSET Ids]
  BY <1>1 DEF QueueInv, TypeOK, Lanes
<1>3. \A v \in answered : pushing'[v] = pushing[v]
  BY <1>1, <1>2
<1>4. \A q \in requests' : q \in requests \/ q.batch \ q.left = {}
  BY <1>1 DEF Request
<1>5. QED
  BY <1>1, <1>3, <1>4, AppliedParts, NothingNewApplied

LEMMA GiveUpApplies ==
  ASSUME QueueInv, NEW w \in Worker, GiveUp(w)
  PROVE  AppliedIds' \subseteq AppliedIds
<1>1. /\ pushing' = [pushing EXCEPT ![w] = {}] /\ answered' = answered \ {w}
      /\ requests' = {IF q.who = w THEN [q EXCEPT !.who = Orphan] ELSE q : q \in requests}
      /\ UNCHANGED <<delivered, imported, receipts>> /\ Ids' = Ids
  BY DEF GiveUp, outbox, files, Ids
<1>2. answered \subseteq Worker /\ pushing \in [Worker -> SUBSET Ids] /\ requests \subseteq RequestSet
  BY DEF QueueInv, TypeOK, RequestSet
<1>3. \A v \in answered' : v \in answered /\ pushing'[v] = pushing[v]
  BY <1>1, <1>2
<1>4. \A q \in requests' : \E p \in requests : q.batch = p.batch /\ q.left = p.left
  BY <1>1, <1>2 DEF RequestSet
<1>5. QED
  BY <1>1, <1>3, <1>4, AppliedParts, NothingNewApplied

LEMMA RefusedApplies ==
  ASSUME QueueInv, NEW q \in requests, Refused(q)
  PROVE  AppliedIds' \subseteq AppliedIds
<1>1. /\ requests' = requests \ {q}
      /\ pushing' = IF q.who \in Worker THEN [pushing EXCEPT ![q.who] = {}] ELSE pushing
      /\ UNCHANGED <<delivered, answered, imported, receipts>> /\ Ids' = Ids
  BY DEF Refused, outbox, files, Ids
<1>2. answered \subseteq Worker /\ pushing \in [Worker -> SUBSET Ids]
  BY DEF QueueInv, TypeOK
<1>3. \A v \in answered : pushing'[v] \subseteq pushing[v]
  BY <1>1, <1>2
<1>4. QED
  BY <1>1, <1>3, AppliedParts, NothingNewApplied

LEMMA CheckApplies ==
  ASSUME QueueInv, NEW q \in requests, Check(q)
  PROVE  AppliedIds' \subseteq AppliedIds
<1>1. /\ requests' = (requests \ {q}) \cup {[q EXCEPT !.begun = TRUE]} /\ q \in RequestSet
      /\ UNCHANGED <<delivered, pushing, answered, imported, receipts>> /\ Ids' = Ids
  BY DEF Check, outbox, files, QueueInv, TypeOK, RequestSet, Ids
<1>2. \A r \in requests' : \E p \in requests : r.batch = p.batch /\ r.left = p.left
  BY <1>1 DEF RequestSet
<1>3. QED
  BY <1>1, <1>2, AppliedParts, NothingNewApplied

LEMMA DoneApplies ==
  ASSUME QueueInv, NEW q \in requests, Done(q)
  PROVE  AppliedIds' \subseteq AppliedIds
<1>1. /\ requests' = requests \ {q} /\ answered' = answered \cup ({q.who} \cap Worker)
      /\ imported' \subseteq imported \cup {q.batch}
      /\ receipts' \subseteq receipts \cup {q.batch}
      /\ q.left = {}
      /\ UNCHANGED <<delivered, pushing>> /\ Ids' = Ids
  BY DEF Done, outbox, Ids
<1>2. q.who \in Worker => pushing[q.who] = q.batch
  BY DEF QueueInv, Lanes
<1>3. \A i \in Ids : i \in q.batch => i \in AppliedIds
  BY <1>1, AppliedParts
<1>4. \A i \in Ids : \A w \in answered' : i \in pushing'[w] => i \in AppliedIds
  BY <1>1, <1>2, <1>3, AppliedParts
<1>5. \A i \in Ids : \A b \in imported' \cup receipts' : i \in b => i \in AppliedIds
  BY <1>1, <1>3, AppliedParts
<1>6. \A i \in Ids : \A r \in requests' : i \in r.batch \ r.left => i \in AppliedIds
  BY <1>1, AppliedParts
<1>7. \A i \in Ids : i \in delivered' => i \in AppliedIds
  BY <1>1, AppliedParts
<1>8. QED
  BY <1>1, <1>4, <1>5, <1>6, <1>7, NothingNewApplied

LEMMA ImportFileApplies ==
  ASSUME QueueInv, NEW b \in exported, ImportFile(b)
  PROVE  AppliedIds' \subseteq AppliedIds
<1> DEFINE q == [Request(File, b) EXCEPT !.begun = TRUE]
<1>1. /\ requests' \subseteq requests \cup {q}
      /\ receipts' \subseteq receipts \cup imported
      /\ UNCHANGED <<delivered, pushing, answered, imported>> /\ Ids' = Ids
  BY DEF ImportFile, outbox, Ids
<1>2. q.batch \ q.left = {}
  BY DEF Request
<1> HIDE DEF q
<1>3. QED
  BY <1>1, <1>2, AppliedParts, NothingNewApplied

LEMMA ImportReceiptApplies ==
  ASSUME QueueInv, NEW b \in exported, ImportReceipt(b)
  PROVE  AppliedIds' \subseteq AppliedIds
<1>1. /\ delivered' \subseteq delivered \cup b /\ b \in receipts /\ receipts' \subseteq receipts
      /\ UNCHANGED <<pushing, answered, requests, imported>> /\ Ids' = Ids
  BY DEF ImportReceipt, lane, Ids
<1>2. QED
  BY <1>1, AppliedParts, NothingNewApplied

LEMMA MarkDeliveredApplies ==
  ASSUME QueueInv, NEW w \in Worker, MarkDelivered(w)
  PROVE  AppliedIds' \subseteq AppliedIds
<1>1. /\ delivered' \subseteq delivered \cup pushing[w] /\ w \in answered
      /\ pushing' = [pushing EXCEPT ![w] = {}] /\ answered' = answered \ {w}
      /\ UNCHANGED <<requests, imported, receipts>> /\ Ids' = Ids
  BY DEF MarkDelivered, files, Ids
<1>2. answered \subseteq Worker /\ pushing \in [Worker -> SUBSET Ids]
  BY DEF QueueInv, TypeOK
<1>3. \A v \in answered' : pushing'[v] = pushing[v]
  BY <1>1, <1>2
<1>4. QED
  BY <1>1, <1>3, AppliedParts, NothingNewApplied

-----------------------------------------------------------------------------
(* Each action keeps what is shared. *)

\* A claim that deletes a record creates it, or comes after a delivery that did.
LEMMA ClaimCarries ==
  ASSUME TypeOK, CreatedBefore
  PROVE  Carries(Oldest(Batch))
<1>1. SUFFICES ASSUME NEW i \in Oldest(Batch), NEW r \in queue[i].removes, deletedIn[r] # 0
               PROVE  \E e \in Oldest(Batch) \cup delivered : Creates(e, r)
  BY DEF Carries
<1>2. Batch \in Nat /\ queue \in Seq(Entry) /\ i \in Waiting
  BY FederationAssumption DEF TypeOK, Oldest
<1>3. PICK e \in Ids \ dropped : e < i /\ Creates(e, r)
  BY <1>1, <1>2 DEF CreatedBefore
<1>4. e \in Waiting => e \in Oldest(Batch)
  BY <1>2, <1>3, OldestLeads
<1>5. QED
  BY <1>3, <1>4 DEF Waiting

\* An action that changes neither rows nor queue nor the peer's document.
LEMMA LaneKeepsShares ==
  ASSUME TypeOK, ShareInv,
         UNCHANGED <<rows, sharing, queue, dropped, copy, buried>>, delivered \subseteq delivered',
         Batched' \subseteq Batched \cup {{}, Oldest(Batch)}, AppliedIds' \subseteq AppliedIds
  PROVE  ShareInv'
<1>1. /\ UNCHANGED <<version, deleted, writing, deletedIn, agreement, copied, shares>>
      /\ UNCHANGED <<queue, dropped, copy, buried>> /\ Ids' = Ids
  BY DEF rows, sharing, Ids
<1>2. Entries' /\ Graves' /\ WritingSound'
  BY <1>1 DEF ShareInv, Entries, Graves, WritingSound
<1>3. Covered' /\ DeletionsQueued'
  BY <1>1 DEF ShareInv, Covered, DeletionsQueued
<1>4. CreatedBefore'
  <2>1. Waiting' \subseteq Waiting
    BY <1>1 DEF Waiting
  <2>2. QED
    BY <1>1, <2>1 DEF ShareInv, CreatedBefore, Creates
<1>5. ASSUME NEW b \in Batched' PROVE Carries(b)'
  <2>1. Carries(b)
    <3>1. CASE b \in Batched
      BY <3>1 DEF ShareInv
    <3>2. CASE b = {}
      BY <3>2 DEF Carries
    <3>3. CASE b = Oldest(Batch)
      BY <3>3, ClaimCarries DEF ShareInv
    <3>4. QED
      BY <3>1, <3>2, <3>3
  <2>2. QED
    BY <1>1, <2>1 DEF Carries, Creates
<1>6. \A i \in AppliedIds' : Applied(i)'
  BY <1>1 DEF ShareInv, Applied
<1>7. QED
  BY <1>2, <1>3, <1>4, <1>5, <1>6 DEF ShareInv

\* The steps of workers, files and the administrator at the peer.
LEMMA LaneStepKeepsShares ==
  ASSUME QueueInv, ShareInv,
         \/ \E w \in Worker : Push(w) \/ MarkDelivered(w) \/ GiveUp(w)
         \/ \E q \in requests : Check(q) \/ Refuse(q) \/ Done(q) \/ Fail(q)
         \/ PeerTakes \/ ExportFile
         \/ \E b \in exported : ImportFile(b) \/ ImportReceipt(b)
  PROVE  ShareInv'
<1>1. TypeOK
  BY DEF QueueInv
<1>2. /\ UNCHANGED <<rows, sharing, queue, dropped, copy, buried>>
      /\ delivered \subseteq delivered'
  BY DEF Push, MarkDelivered, GiveUp, Check, Refuse, Refused, Done, Fail, PeerTakes, ExportFile,
     ImportFile, ImportReceipt, outbox, peer
<1>3. Batched' \subseteq Batched \cup {{}, Oldest(Batch)}
  BY PushQueue, MarkDeliveredQueue, GiveUpQueue, CheckQueue, RefuseQueue, DoneQueue, FailQueue,
     PeerTakesQueue, ExportFileQueue, ImportFileQueue, ImportReceiptQueue
<1>4. AppliedIds' \subseteq AppliedIds
  <2>1. CASE PeerTakes
    BY <2>1 DEF PeerTakes, AppliedIds, Ids, outbox, lane, files
  <2>2. CASE ExportFile
    BY <2>2 DEF ExportFile, AppliedIds, Ids, outbox, lane
  <2>3. QED
    BY <2>1, <2>2, PushApplies, MarkDeliveredApplies, GiveUpApplies, CheckApplies, RefusedApplies,
       DoneApplies, ImportFileApplies, ImportReceiptApplies DEF Refuse, Fail
<1>5. QED
  BY <1>1, <1>2, <1>3, <1>4, LaneKeepsShares

\* What the peer has, or has buried, it keeps or buries.
LEMMA PeerKeeps ==
  ASSUME TypeOK, Graves, NEW i \in Ids, Merge(queue[i]) \/ Bury(queue[i]),
         queue[i].removes \subseteq deleted, UNCHANGED deleted
  PROVE  /\ Graves' /\ buried \subseteq buried'
         /\ \A r \in Record, n \in 1..MaxEdits :
              n \in copy[r] \/ r \in buried => n \in copy'[r] \/ r \in buried'
<1>1. /\ copy \in [Record -> SUBSET (1..MaxEdits)] /\ buried \subseteq Record
      /\ buried \subseteq deleted /\ (\A r \in buried : copy[r] = {})
      /\ queue[i].removes \subseteq Record
  BY EntryTypes DEF TypeOK, Graves
<1>2. CASE Merge(queue[i])
  <2>1. /\ buried' = buried
        /\ \A r \in Record : copy'[r] = copy[r] \cup
             {n \in 1..MaxEdits : <<r, n>> \in queue[i].adds /\ r \notin buried}
    BY <1>2 DEF Merge
  <2>2. \A r \in buried' : copy'[r] = {}
    BY <1>1, <2>1
  <2>3. QED
    BY <1>1, <2>1, <2>2 DEF Graves
<1>3. CASE Bury(queue[i])
  <2>1. /\ buried' = buried \cup {r \in queue[i].removes : Has(r)}
        /\ \A r \in Record : copy'[r] = IF r \in queue[i].removes /\ Has(r) THEN {} ELSE copy[r]
    BY <1>3 DEF Bury
  <2>2. \A r \in buried' : copy'[r] = {}
    BY <1>1, <2>1
  <2>3. QED
    BY <1>1, <2>1, <2>2 DEF Graves
<1>4. QED
  BY <1>2, <1>3

\* An update the peer applies is applied.
LEMMA MergeApplies ==
  ASSUME TypeOK, NEW i \in Ids, Updates(i), Merge(queue[i]), UNCHANGED <<queue, deletedIn>>
  PROVE  Applied(i)'
<1>1. /\ buried' = buried
      /\ \A r \in Record : copy'[r] = copy[r] \cup
           {n \in 1..MaxEdits : <<r, n>> \in queue[i].adds /\ r \notin buried}
  BY DEF Merge
<1>2. queue[i].adds \subseteq Record \X (1..MaxEdits) /\ queue[i].removes = {}
  BY EntryTypes DEF Edits, Updates
<1>3. ASSUME NEW a \in queue[i].adds PROVE a[2] \in copy'[a[1]] \/ a[1] \in buried'
  <2>1. a[1] \in Record /\ a[2] \in 1..MaxEdits /\ <<a[1], a[2]>> \in queue[i].adds
    BY <1>2
  <2>2. QED
    BY <1>1, <2>1
<1>4. QED
  BY <1>2, <1>3 DEF Applied

\* The deletion the peer comes to is of a record it has, or has buried.
LEMMA BuryApplies ==
  ASSUME TypeOK, ShareInv, Lanes, NEW q \in requests, NEW i \in q.left, ~Updates(i),
         \A j \in q.left \ {i} : Before(i, j), Bury(queue[i]), UNCHANGED <<queue, deletedIn>>
  PROVE  Applied(i)'
<1>1. i \in q.batch /\ q.batch \subseteq Ids /\ q.batch \in Batched
  BY BatchedIds DEF Lanes, Batched
<1>2. buried' = buried \cup {r \in queue[i].removes : Has(r)}
  BY DEF Bury
<1>3. queue[i].adds = {} /\ queue[i].removes \subseteq Record
  BY <1>1, EntryTypes DEF ShareInv, Entries, Updates
<1>4. ASSUME NEW r \in queue[i].removes, deletedIn[r] # 0 PROVE r \in buried'
  <2>1. PICK e \in q.batch \cup delivered : Creates(e, r)
    BY <1>1, <1>4 DEF ShareInv, Carries
  <2>2. e \in Ids
    BY <1>1, <2>1 DEF TypeOK
  <2>3. Updates(e) /\ e # i
    BY <1>3, <2>1, <2>2 DEF ShareInv, Entries, Creates, Updates
  <2>4. e \notin q.left
    BY <2>3 DEF Before
  <2>5. e \in AppliedIds
    BY <2>1, <2>2, <2>4, AppliedParts
  <2>6. \A a \in queue[e].adds : a[2] \in copy[a[1]] \/ a[1] \in buried
    BY <2>5 DEF ShareInv, Applied
  <2>7. 1 \in copy[r] \/ r \in buried
    BY <2>1, <2>6 DEF Creates
  <2>8. QED
    BY <1>2, <2>7 DEF Has
<1>5. QED
  BY <1>3, <1>4 DEF Applied

LEMMA ApplyKeepsShares ==
  ASSUME QueueInv, ShareInv, NEW q \in requests, Apply(q)
  PROVE  ShareInv'
<1>1. TypeOK /\ Lanes /\ q \in RequestSet
  BY DEF QueueInv, TypeOK, RequestSet
<1>2. PICK i \in q.left :
        /\ \A j \in q.left \ {i} : Before(i, j)
        /\ IF Updates(i) THEN Merge(queue[i]) ELSE Bury(queue[i])
        /\ requests' = (requests \ {q}) \cup {[q EXCEPT !.left = @ \ {i}]}
  BY DEF Apply
<1>3. /\ UNCHANGED <<version, deleted, writing, deletedIn, agreement, copied, shares>>
      /\ UNCHANGED <<queue, dropped, delivered, pushing, answered, imported, receipts, exported>>
      /\ Ids' = Ids
  BY DEF Apply, rows, sharing, outbox, files, Ids
<1>4. i \in Ids /\ i \in q.batch
  BY <1>1 DEF RequestSet, Lanes
<1>5. /\ Graves' /\ buried \subseteq buried'
      /\ \A r \in Record, n \in 1..MaxEdits :
           n \in copy[r] \/ r \in buried => n \in copy'[r] \/ r \in buried'
  <2>1. Graves /\ queue[i].removes \subseteq deleted
    BY <1>4 DEF ShareInv, Entries
  <2>2. QED
    BY <1>1, <1>2, <1>3, <1>4, <2>1, PeerKeeps
<1>6. Entries' /\ WritingSound'
  BY <1>3 DEF ShareInv, Entries, WritingSound
<1>7. Covered' /\ DeletionsQueued' /\ CreatedBefore'
  BY <1>3 DEF ShareInv, Covered, DeletionsQueued, CreatedBefore, Creates, Waiting
<1>8. \A b \in Batched' : Carries(b)'
  <2>1. \A r \in requests' : \E s \in requests : r.batch = s.batch
    BY <1>1, <1>2 DEF RequestSet
  <2>2. Batched' \subseteq Batched
    BY <1>3, <2>1 DEF Batched
  <2>3. QED
    BY <1>3, <2>2 DEF ShareInv, Carries, Creates
<1>9. Applied(i)'
  BY <1>1, <1>2, <1>3, <1>4, MergeApplies, BuryApplies
<1>10. ASSUME NEW j \in AppliedIds' PROVE Applied(j)'
  <2>1. j \in Ids /\ (j = i \/ j \in AppliedIds)
    <3>1. /\ j \in Ids
          /\ \/ j \in delivered
             \/ \E r \in requests' : j \in r.batch \ r.left
             \/ \E w \in answered : j \in pushing[w]
             \/ \E b \in imported \cup receipts : j \in b
      BY <1>3, <1>10 DEF AppliedIds
    <3>2. ASSUME NEW r \in requests', j \in r.batch \ r.left
          PROVE  j = i \/ \E s \in requests : j \in s.batch \ s.left
      BY <1>1, <1>2, <3>2 DEF RequestSet
    <3>3. QED
      BY <3>1, <3>2, AppliedParts
  <2>2. CASE j \in AppliedIds
    <3>1. Applied(j) /\ queue[j].adds \subseteq Record \X (1..MaxEdits)
      BY <1>1, <2>1, <2>2, EntryTypes DEF ShareInv, Edits
    <3>2. ASSUME NEW a \in queue[j].adds PROVE a[2] \in copy'[a[1]] \/ a[1] \in buried'
      <4>1. a[1] \in Record /\ a[2] \in 1..MaxEdits /\ (a[2] \in copy[a[1]] \/ a[1] \in buried)
        BY <3>1 DEF Applied
      <4>2. QED
        BY <1>5, <4>1
    <3>3. QED
      BY <1>3, <1>5, <3>1, <3>2 DEF Applied
  <2>3. QED
    BY <1>9, <2>1, <2>2
<1>11. QED
  BY <1>5, <1>6, <1>7, <1>8, <1>10 DEF ShareInv

\* Batches and applied entries speak of entries that stay as they are.
LEMMA BatchesStand ==
  ASSUME TypeOK, ShareInv, Ids \subseteq Ids', \A i \in Ids : queue'[i] = queue[i],
         \A i \in Ids : \A r \in queue[i].removes : deletedIn'[r] = deletedIn[r],
         UNCHANGED <<delivered, lane, files, copy, buried>>
  PROVE  (\A b \in Batched' : Carries(b)') /\ (\A i \in AppliedIds' : Applied(i)')
<1>1. UNCHANGED <<pushing, answered, requests, exported, imported, receipts>>
  BY DEF lane, files
<1>2. ASSUME NEW b \in Batched' PROVE Carries(b)'
  <2>1. Batched' = Batched
    BY <1>1 DEF Batched
  <2>2. b \subseteq Ids /\ Carries(b) /\ delivered \subseteq Ids
    BY <2>1, BatchedIds DEF ShareInv, TypeOK
  <2>3. SUFFICES ASSUME NEW i \in b, NEW r \in queue[i].removes, deletedIn[r] # 0
                 PROVE  \E e \in b \cup delivered : <<r, 1>> \in queue'[e].adds
    BY <2>2 DEF Carries, Creates
  <2>4. PICK e \in b \cup delivered : <<r, 1>> \in queue[e].adds
    BY <2>2, <2>3 DEF Carries, Creates
  <2>5. QED
    BY <2>2, <2>4
<1>3. ASSUME NEW i \in AppliedIds' PROVE Applied(i)'
  <2>1. i \in Ids /\ i \in AppliedIds
    <3>1. \/ i \in delivered
          \/ \E q \in requests : i \in q.batch \ q.left
          \/ \E w \in answered : i \in pushing[w]
          \/ \E b \in imported \cup receipts : i \in b
      BY <1>1, <1>3 DEF AppliedIds
    <3>2. i \in Ids
      <4>1. \A b \in Batched : b \subseteq Ids
        BY BatchedIds
      <4>2. \A q \in requests : q.batch \subseteq Ids
        BY <4>1 DEF Batched
      <4>3. \A w \in Worker : pushing[w] \subseteq Ids
        BY <4>1 DEF Batched
      <4>4. \A b \in imported \cup receipts : b \subseteq Ids
        BY <4>1 DEF Batched
      <4>5. answered \subseteq Worker /\ delivered \subseteq Ids
        BY DEF TypeOK
      <4>6. QED
        BY <3>1, <4>2, <4>3, <4>4, <4>5
    <3>3. QED
      BY <3>1, <3>2, AppliedParts
  <2>2. Applied(i)
    BY <2>1 DEF ShareInv
  <2>3. QED
    BY <2>1, <2>2 DEF Applied
<1>4. QED
  BY <1>2, <1>3

LEMMA BeginWriteKeepsShares ==
  ASSUME ~Overlaps, QueueInv, ShareInv, NEW r \in Record, NEW removes \in BOOLEAN,
         BeginWrite(r, removes)
  PROVE  ShareInv'
<1>1. /\ writing' = [record |-> r, removes |-> removes, queued |-> agreement = "made"]
      /\ agreement # "being made" /\ (removes => version[r] > 0 /\ r \notin deleted)
      /\ agreement \in {"none", "being made", "made"}
      /\ UNCHANGED <<version, deleted, deletedIn, agreement, copied, shares>>
      /\ UNCHANGED <<queue, dropped, delivered, lane, peer, files>> /\ Ids' = Ids
  BY DEF BeginWrite, sharing, outbox, Ids, QueueInv, TypeOK
<1>2. WritingSound'
  <2>1. /\ writing'.record = r /\ writing'.removes = removes
        /\ writing'.queued = (agreement = "made")
    BY <1>1
  <2>2. QED
    BY <1>1, <2>1 DEF WritingSound
<1>3. Entries' /\ Graves'
  BY <1>1 DEF ShareInv, Entries, Graves, peer
<1>4. Covered' /\ DeletionsQueued' /\ CreatedBefore'
  BY <1>1 DEF ShareInv, Covered, DeletionsQueued, CreatedBefore, Creates, Waiting
<1>5. (\A b \in Batched' : Carries(b)') /\ (\A i \in AppliedIds' : Applied(i)')
  BY <1>1, BatchesStand DEF QueueInv, peer
<1>6. QED
  BY <1>2, <1>3, <1>4, <1>5 DEF ShareInv

LEMMA BeginShareKeepsShares ==
  ASSUME ~Overlaps, QueueInv, ShareInv, BeginShare
  PROVE  ShareInv'
<1>1. /\ writing = NoWrite /\ agreement' = "being made" /\ copied' \in Backfill
      /\ shares' = shares + 1
      /\ UNCHANGED <<version, deleted, writing, deletedIn, queue, dropped, delivered, lane, peer, files>>
      /\ Ids' = Ids
  BY DEF BeginShare, rows, outbox, Ids
<1>2. TypeOK /\ shares \in Nat /\ \A r \in Record : deletedIn[r] \in Nat
  <2>1. MaxShares \in Nat /\ TypeOK
    BY FederationAssumption DEF QueueInv
  <2>2. shares \in 0..MaxShares /\ deletedIn \in [Record -> 0..MaxShares]
    BY <2>1 DEF TypeOK
  <2>3. QED
    BY <2>1, <2>2
<1>3. /\ \A i \in 1..Len(copied') : copied'[i].removes = {}
      /\ \A r \in Record \ deleted : version[r] > 0 =>
           \E i \in 1..Len(copied') : copied'[i].adds = {r} \X (1..version[r])
  BY <1>1, <1>2, BackfillParts
<1>4. Entries' /\ Graves' /\ WritingSound'
  BY <1>1, <1>3 DEF ShareInv, Entries, Graves, WritingSound, peer
<1>5. Covered'
  <2>1. ASSUME NEW r \in Record \ deleted, NEW n \in 1..version[r]
        PROVE  \E i \in 1..Len(copied') : <<r, n>> \in copied'[i].adds
    <3>1. version[r] \in 0..MaxEdits /\ MaxEdits \in Nat
      BY <1>2, FederationAssumption DEF TypeOK
    <3>2. version[r] > 0
      BY <2>1, <3>1
    <3>3. PICK i \in 1..Len(copied') : copied'[i].adds = {r} \X (1..version[r])
      BY <1>3, <3>2
    <3>4. QED
      BY <3>3
  <2>2. QED
    BY <1>1, <2>1 DEF Covered
<1>6. DeletionsQueued'
  <2>1. \A r \in Record : deletedIn[r] <= shares
    BY DEF ShareInv, DeletionsQueued
  <2>2. shares' > 0 /\ \A r \in Record : deletedIn[r] < shares' /\ deletedIn[r] <= shares'
    <3>1. \A d, s \in Nat : d <= s => s + 1 > 0 /\ d < s + 1 /\ d <= s + 1
      OBVIOUS
    <3>2. shares + 1 > 0
      BY ONLY <1>2, <3>1
    <3>3. \A r \in Record : deletedIn[r] < shares + 1 /\ deletedIn[r] <= shares + 1
      BY ONLY <1>2, <2>1, <3>1
    <3>4. QED
      BY <1>1, <3>2, <3>3
  <2>3. \A r \in Record : deletedIn[r] # 0 => r \in deleted
    BY DEF ShareInv, DeletionsQueued
  <2>4. deletedIn' = deletedIn /\ deleted' = deleted /\ agreement' = "being made"
    BY <1>1
  <2>5. QED
    BY <2>2, <2>3, <2>4 DEF DeletionsQueued
<1>7. CreatedBefore'
  BY <1>1 DEF ShareInv, CreatedBefore, Creates, Waiting
<1>8. (\A b \in Batched' : Carries(b)') /\ (\A i \in AppliedIds' : Applied(i)')
  BY <1>1, <1>2, BatchesStand DEF peer
<1>9. QED
  BY <1>4, <1>5, <1>6, <1>7, <1>8 DEF ShareInv

LEMMA RevokeKeepsShares ==
  ASSUME QueueInv, ShareInv, Revoke
  PROVE  ShareInv'
<1>1. /\ agreement = "made" /\ agreement' = "none" /\ dropped' = dropped \cup Waiting
      /\ UNCHANGED <<version, deleted, writing, deletedIn, copied, shares, queue, delivered>>
      /\ UNCHANGED <<lane, peer, files>> /\ Ids' = Ids
  BY DEF Revoke, rows, Ids
<1>2. Entries' /\ Graves' /\ WritingSound'
  BY <1>1 DEF ShareInv, Entries, Graves, WritingSound, peer
<1>3. Covered' /\ DeletionsQueued'
  BY <1>1 DEF ShareInv, Covered, DeletionsQueued
<1>4. CreatedBefore'
  BY <1>1 DEF CreatedBefore, Waiting
<1>5. (\A b \in Batched' : Carries(b)') /\ (\A i \in AppliedIds' : Applied(i)')
  BY <1>1, BatchesStand DEF QueueInv, peer
<1>6. QED
  BY <1>2, <1>3, <1>4, <1>5 DEF ShareInv

LEMMA CommitShareKeepsShares ==
  ASSUME QueueInv, ShareInv, CommitShare
  PROVE  ShareInv'
<1>1. /\ agreement = "being made" /\ agreement' = "made" /\ copied' = <<>>
      /\ queue' = queue \o copied
      /\ UNCHANGED <<version, deleted, writing, deletedIn, shares, dropped, delivered>>
      /\ UNCHANGED <<lane, peer, files>>
  BY DEF CommitShare, rows
<1>2. /\ TypeOK /\ queue \in Seq(Entry) /\ copied \in Seq(Entry)
      /\ dropped \subseteq Ids /\ delivered \subseteq Ids
  BY DEF QueueInv, TypeOK
<1>3. /\ Ids \subseteq Ids'
      /\ \A i \in Ids : queue'[i] = queue[i]
      /\ \A i \in Ids' \ Ids : i - Len(queue) \in 1..Len(copied)
                              /\ queue'[i] = copied[i - Len(queue)]
      /\ \A i \in 1..Len(copied) : Len(queue) + i \in Ids' \ Ids
                               /\ queue'[Len(queue) + i] = copied[i]
  BY <1>1, <1>2, Appended
<1>4. \A i \in Ids' \ Ids : queue'[i].removes = {}
  BY <1>3 DEF ShareInv, Entries
<1>5. Entries'
  <2>1. \A i \in Ids' : queue'[i].removes \subseteq deleted
    BY <1>3, <1>4 DEF ShareInv, Entries
  <2>2. \A i \in Ids' : queue'[i].adds = {} \/ queue'[i].removes = {}
    BY <1>3, <1>4 DEF ShareInv, Entries
  <2>3. 1..Len(copied') = {}
    <3>1. Len(copied') = 0
      BY <1>1
    <3>2. 1..0 = {}
      OBVIOUS
    <3>3. QED
      BY <3>1, <3>2
  <2>4. QED
    BY <1>1, <2>1, <2>2, <2>3 DEF Entries
<1>6. Graves' /\ WritingSound'
  BY <1>1 DEF ShareInv, Graves, WritingSound, peer
<1>7. Covered'
  <2>1. ASSUME NEW r \in Record \ deleted, NEW n \in 1..version[r]
        PROVE  \E i \in Ids' \ dropped : <<r, n>> \in queue'[i].adds
    <3>1. PICK i \in 1..Len(copied) : <<r, n>> \in copied[i].adds
      BY <1>1 DEF ShareInv, Covered
    <3>2. Len(queue) + i \in Ids' \ dropped /\ queue'[Len(queue) + i] = copied[i]
      BY <1>2, <1>3
    <3>3. QED
      BY <3>1, <3>2
  <2>2. QED
    BY <1>1, <2>1 DEF Covered
<1>8. DeletionsQueued'
  <2>1. shares > 0 /\ \A r \in Record : deletedIn[r] < shares /\ deletedIn[r] <= shares
    BY <1>1 DEF ShareInv, DeletionsQueued
  <2>2. \A r \in Record : deletedIn[r] # shares
    <3>1. MaxShares \in Nat
      BY FederationAssumption
    <3>2. shares \in 0..MaxShares /\ deletedIn \in [Record -> 0..MaxShares]
      BY <1>2 DEF TypeOK
    <3>3. \A d, s \in 0..MaxShares : d < s => d # s
      BY <3>1
    <3>4. QED
      BY ONLY <2>1, <3>2, <3>3
  <2>3. \A r \in Record : deletedIn[r] # 0 => r \in deleted
    BY DEF ShareInv, DeletionsQueued
  <2>4. QED
    BY <1>1, <2>1, <2>2, <2>3 DEF DeletionsQueued
<1>9. CreatedBefore'
  <2>1. SUFFICES ASSUME NEW i \in Waiting', NEW r \in queue'[i].removes, deletedIn[r] # 0
                 PROVE  \E e \in Ids' \ dropped : e < i /\ <<r, 1>> \in queue'[e].adds
    BY <1>1 DEF CreatedBefore, Creates
  <2>2. i \in Waiting /\ r \in queue[i].removes
    BY <1>1, <1>3, <1>4, <2>1 DEF Waiting
  <2>3. PICK e \in Ids \ dropped : e < i /\ Creates(e, r)
    BY <2>1, <2>2 DEF ShareInv, CreatedBefore
  <2>4. QED
    BY <1>3, <2>3 DEF Creates
<1>10. (\A b \in Batched' : Carries(b)') /\ (\A i \in AppliedIds' : Applied(i)')
  BY <1>1, <1>2, <1>3, BatchesStand DEF peer
<1>11. QED
  BY <1>5, <1>6, <1>7, <1>8, <1>9, <1>10 DEF ShareInv

LEMMA CommitWriteKeepsShares ==
  ASSUME ~Overlaps, QueueInv, ShareInv, CommitWrite
  PROVE  ShareInv'
<1> DEFINE rec == writing.record
<1>1. /\ writing # NoWrite /\ writing' = NoWrite
      /\ UNCHANGED <<agreement, copied, shares, dropped, delivered, lane, peer, files>>
  BY DEF CommitWrite, sharing
<1>2. /\ TypeOK /\ WritingFits /\ queue \in Seq(Entry)
      /\ dropped \subseteq Ids /\ delivered \subseteq Ids
  BY DEF QueueInv, TypeOK
<1>3. /\ rec \in Record
      /\ version'[rec] = IF writing.removes THEN version[rec] ELSE version[rec] + 1
      /\ \A r \in Record \ {rec} : version'[r] = version[r]
      /\ deleted' = IF writing.removes THEN deleted \cup {rec} ELSE deleted
      /\ writing.removes => deletedIn'[rec] =
           IF writing.queued /\ agreement = "made" THEN shares ELSE 0
      /\ ~writing.removes => deletedIn' = deletedIn
      /\ \A r \in Record \ {rec} : deletedIn'[r] = deletedIn[r]
  BY <1>1, <1>2, CommitWriteChanges
<1>4. PICK s \in Seq(Entry) : /\ queue' = queue \o s
                            /\ s = IF writing.queued THEN <<EntryOf(writing)>> ELSE <<>>
  BY <1>1, <1>2, CommitWriteChanges
<1>5. /\ Ids \subseteq Ids'
      /\ \A i \in Ids : queue'[i] = queue[i]
      /\ \A i \in Ids' \ Ids : i - Len(queue) \in 1..Len(s) /\ queue'[i] = s[i - Len(queue)]
      /\ \A i \in Ids, j \in Ids' \ Ids : i < j
      /\ \A i \in 1..Len(s) : Len(queue) + i \in Ids' \ Ids /\ queue'[Len(queue) + i] = s[i]
  BY <1>2, <1>4, Appended
<1>6. \A i \in Ids' \ Ids : queue'[i] = EntryOf(writing) /\ writing.queued
  <2>1. CASE writing.queued
    <3>1. \A k \in 1..Len(s) : s[k] = EntryOf(writing)
      BY <1>4, <2>1
    <3>2. QED
      BY <1>5, <2>1, <3>1
  <2>2. CASE ~writing.queued
    <3>1. 1..Len(s) = {}
      BY <1>4, <2>2
    <3>2. QED
      BY <1>5, <3>1
  <2>3. QED
    BY <2>1, <2>2
<1>7. writing.queued => \E i \in Ids' \ Ids : queue'[i] = EntryOf(writing)
  <2>1. writing.queued => 1 \in 1..Len(s) /\ s[1] = EntryOf(writing)
    BY <1>4
  <2>2. QED
    BY <1>5, <2>1
<1>8. /\ writing.removes => /\ EntryOf(writing).adds = {} /\ EntryOf(writing).removes = {rec}
      /\ ~writing.removes => /\ EntryOf(writing).adds = {<<rec, version[rec] + 1>>}
                             /\ EntryOf(writing).removes = {}
  BY DEF EntryOf
<1>9. /\ agreement # "being made" /\ (~writing.queued => agreement = "none")
      /\ writing.removes => version[rec] > 0 /\ rec \notin deleted
  BY <1>1 DEF ShareInv, WritingSound
<1>10. \A r \in Record : version[r] \in Nat
  <2>1. version \in [Record -> 0..MaxEdits] /\ MaxEdits \in Nat
    BY <1>2, FederationAssumption DEF TypeOK
  <2>2. QED
    BY <2>1
<1> HIDE DEF rec
<1>11. Entries'
  <2>1. deleted \subseteq deleted'
    BY <1>3
  <2>2. ASSUME NEW i \in Ids'
        PROVE  queue'[i].removes \subseteq deleted' /\ (queue'[i].adds = {} \/ queue'[i].removes = {})
    <3>1. CASE i \in Ids
      BY <1>5, <2>1, <3>1 DEF ShareInv, Entries
    <3>2. CASE i \notin Ids
      BY <1>3, <1>6, <1>8, <2>2, <3>2
    <3>3. QED
      BY <3>1, <3>2
  <2>3. QED
    BY <1>1, <2>2 DEF ShareInv, Entries
<1>12. Graves' /\ WritingSound'
  BY <1>1, <1>3 DEF ShareInv, Graves, WritingSound, peer
<1>13. Covered'
  <2>1. ASSUME agreement = "made", NEW r \in Record \ deleted', NEW n \in 1..version'[r]
        PROVE  \E i \in Ids' \ dropped : <<r, n>> \in queue'[i].adds
    <3>1. r \in Record \ deleted
      BY <1>3, <2>1
    <3>2. CASE n \in 1..version[r]
      <4>1. PICK i \in Ids \ dropped : <<r, n>> \in queue[i].adds
        BY <2>1, <3>1, <3>2 DEF ShareInv, Covered
      <4>2. QED
        BY <1>5, <4>1
    <3>3. CASE n \notin 1..version[r]
      <4>1. r = rec /\ ~writing.removes /\ n = version[rec] + 1
        BY <1>3, <1>10, <2>1, <3>1, <3>3
      <4>2. PICK i \in Ids' \ Ids : queue'[i] = EntryOf(writing)
        BY <1>7, <1>9, <2>1
      <4>3. i \in Ids' \ dropped /\ <<r, n>> \in queue'[i].adds
        BY <1>2, <1>8, <4>1, <4>2
      <4>4. QED
        BY <4>3
    <3>4. QED
      BY <3>2, <3>3
  <2>2. QED
    BY <1>1, <1>9, <2>1 DEF Covered
<1>14. \A r \in Record : r \in deleted => deletedIn'[r] = deletedIn[r]
  BY <1>3, <1>9
<1>15. DeletionsQueued'
  <2>1. /\ agreement # "none" => shares > 0
        /\ \A r \in Record : deletedIn[r] <= shares
        /\ \A r \in Record : deletedIn[r] # 0 => r \in deleted
    BY DEF ShareInv, DeletionsQueued
  <2>2. shares \in Nat
    <3>1. shares \in 0..MaxShares /\ MaxShares \in Nat
      BY <1>2, FederationAssumption DEF TypeOK
    <3>2. QED
      BY <3>1
  <2>3. \A r \in Record : deletedIn'[r] <= shares
    BY <1>3, <2>1, <2>2
  <2>4. \A r \in Record : deletedIn'[r] # 0 => r \in deleted'
    BY <1>3, <2>1
  <2>5. ASSUME agreement = "made", NEW r \in Record, deletedIn'[r] = shares
        PROVE  \E i \in Ids' \ dropped : r \in queue'[i].removes
    <3>1. CASE writing.removes /\ r = rec
      <4>1. PICK i \in Ids' \ Ids : queue'[i] = EntryOf(writing)
        BY <1>7, <1>9, <2>5
      <4>2. i \in Ids' \ dropped /\ r \in queue'[i].removes
        BY <1>2, <1>8, <3>1, <4>1
      <4>3. QED
        BY <4>2
    <3>2. CASE ~(writing.removes /\ r = rec)
      <4>1. deletedIn[r] = shares
        BY <1>3, <2>5, <3>2
      <4>2. PICK i \in Ids \ dropped : r \in queue[i].removes
        BY <2>5, <4>1 DEF ShareInv, DeletionsQueued
      <4>3. QED
        BY <1>5, <4>2
    <3>3. QED
      BY <3>1, <3>2
  <2>6. QED
    BY <1>1, <1>9, <2>1, <2>3, <2>4, <2>5 DEF DeletionsQueued
<1>16. CreatedBefore'
  <2>1. SUFFICES ASSUME NEW i \in Waiting', NEW r \in queue'[i].removes, deletedIn'[r] # 0
                 PROVE  \E e \in Ids' \ dropped : e < i /\ <<r, 1>> \in queue'[e].adds
    BY <1>1 DEF CreatedBefore, Creates
  <2>2. CASE i \in Ids
    <3>1. i \in Waiting /\ r \in queue[i].removes
      BY <1>1, <1>5, <2>1, <2>2 DEF Waiting
    <3>2. r \in deleted /\ r \in Record
      BY <1>2, <2>2, <3>1, EntryTypes DEF ShareInv, Entries
    <3>3. deletedIn[r] # 0
      BY <1>14, <2>1, <3>2
    <3>4. PICK e \in Ids \ dropped : e < i /\ Creates(e, r)
      BY <3>1, <3>3 DEF ShareInv, CreatedBefore
    <3>5. QED
      BY <1>5, <3>4 DEF Creates
  <2>3. CASE i \notin Ids
    <3>1. i \in Ids' \ Ids
      BY <2>3 DEF Waiting
    <3>2. writing.removes /\ r = rec
      BY <1>6, <1>8, <2>1, <3>1
    <3>3. agreement = "made" /\ rec \in Record \ deleted /\ 1 \in 1..version[rec]
      <4>1. agreement = "made" /\ rec \in Record \ deleted /\ version[rec] > 0
        BY <1>3, <1>9, <2>1, <3>2
      <4>2. version[rec] \in Nat
        BY <1>3, <1>10
      <4>3. QED
        BY <4>1, <4>2
    <3>4. PICK e \in Ids \ dropped : <<rec, 1>> \in queue[e].adds
      BY <3>3 DEF ShareInv, Covered
    <3>5. QED
      BY <1>5, <3>1, <3>2, <3>4
  <2>4. QED
    BY <2>2, <2>3
<1>17. (\A b \in Batched' : Carries(b)') /\ (\A i \in AppliedIds' : Applied(i)')
  <2>1. \A i \in Ids : \A r \in queue[i].removes : deletedIn'[r] = deletedIn[r]
    BY <1>2, <1>14, EntryTypes DEF ShareInv, Entries
  <2>2. QED
    BY <1>1, <1>2, <1>5, <2>1, BatchesStand DEF peer
<1>18. QED
  BY <1>11, <1>12, <1>13, <1>15, <1>16, <1>17 DEF ShareInv

LEMMA ShareInit == Init => ShareInv
<1> SUFFICES ASSUME Init PROVE ShareInv
  OBVIOUS
<1>1. Len(queue) = 0 /\ Len(copied) = 0
  BY DEF Init
<1>2. 1..0 = {}
  OBVIOUS
<1>3. Ids = {} /\ 1..Len(copied) = {}
  BY <1>1, <1>2 DEF Ids
<1>4. Entries /\ Graves /\ WritingSound /\ Covered /\ CreatedBefore
  BY <1>3 DEF Init, Entries, Graves, WritingSound, Covered, CreatedBefore, Waiting
<1>5. DeletionsQueued
  <2>1. 0 \in Nat /\ \A r \in Record : deletedIn[r] = 0
    BY DEF Init
  <2>2. shares = 0 /\ agreement = "none"
    BY DEF Init
  <2>3. \A r \in Record : deletedIn[r] <= shares
    BY <2>1, <2>2
  <2>4. QED
    BY <2>1, <2>2, <2>3 DEF DeletionsQueued
<1>6. \A b \in Batched : b = {}
  BY DEF Init, Batched
<1>7. \A i \in AppliedIds : Applied(i)
  BY <1>3 DEF AppliedIds
<1>8. QED
  BY <1>4, <1>5, <1>6, <1>7 DEF ShareInv, Carries

LEMMA ShareStep == ~Overlaps /\ QueueInv /\ ShareInv /\ [Next]_vars => ShareInv'
<1> SUFFICES ASSUME ~Overlaps, QueueInv, ShareInv, [Next]_vars PROVE ShareInv'
  OBVIOUS
<1>1. CASE UNCHANGED vars
  <2>1. UNCHANGED <<rows, sharing, outbox, lane, peer, files>>
    BY <1>1 DEF vars
  <2>2. UNCHANGED <<queue, dropped, copy, buried, delivered>>
    BY <2>1 DEF outbox, peer
  <2>3. Batched' = Batched /\ AppliedIds' = AppliedIds
    BY <2>1, <2>2 DEF Batched, AppliedIds, Ids, lane, files
  <2>4. QED
    BY <2>1, <2>2, <2>3, LaneKeepsShares DEF QueueInv
<1>2. CASE \E r \in Record, removes \in BOOLEAN : BeginWrite(r, removes)
  BY <1>2, BeginWriteKeepsShares
<1>3. CASE CommitWrite \/ BeginShare \/ CommitShare \/ Revoke
  BY <1>3, CommitWriteKeepsShares, BeginShareKeepsShares, CommitShareKeepsShares, RevokeKeepsShares
<1>4. CASE \E q \in requests : Apply(q)
  BY <1>4, ApplyKeepsShares
<1>5. CASE \/ \E w \in Worker : Push(w) \/ MarkDelivered(w) \/ GiveUp(w)
           \/ \E q \in requests : Check(q) \/ Refuse(q) \/ Done(q) \/ Fail(q)
           \/ PeerTakes \/ ExportFile
           \/ \E b \in exported : ImportFile(b) \/ ImportReceipt(b)
  BY <1>5, LaneStepKeepsShares
<1>6. QED
  BY <1>1, <1>2, <1>3, <1>4, <1>5 DEF Next, PeerStep

\* Every state that is reached while no board is shared over an open write.
LEMMA Invariant == ASSUME ~Overlaps PROVE Spec => []IInv
<1>1. Init => IInv
  BY QueueInit, ShareInit DEF IInv
<1>2. IInv /\ [Next]_vars => IInv'
  BY QueueStep, ShareStep DEF IInv
<1>3. QED
  BY <1>1, <1>2, PTL DEF Spec

\* Where no write is open while its board is being shared, every edit of a
\* record that stands is at the peer or waits for it while the board is shared,
\* whatever was pushed twice, carried in files, given up, refused or revoked.
THEOREM NoneLost == ASSUME ~Overlaps PROVE Spec => []NothingLost
<1>1. ASSUME IInv PROVE NothingLost
  <2>1. SUFFICES ASSUME agreement = "made", NEW r \in Record \ deleted, NEW n \in 1..version[r]
                 PROVE  n \in copy[r] \/ \E i \in Waiting : <<r, n>> \in queue[i].adds
    BY DEF NothingLost
  <2>2. PICK i \in Ids \ dropped : <<r, n>> \in queue[i].adds
    BY <1>1, <2>1 DEF IInv, ShareInv, Covered
  <2>3. CASE i \in delivered
    <3>1. Applied(i)
      BY <1>1, <2>2, <2>3, AppliedParts DEF IInv, ShareInv
    <3>2. r \notin buried
      BY <1>1 DEF IInv, ShareInv, Graves
    <3>3. QED
      BY <2>2, <3>1, <3>2 DEF Applied
  <2>4. CASE i \notin delivered
    BY <2>2, <2>4 DEF Waiting
  <2>5. QED
    BY <2>3, <2>4
<1>2. QED
  BY <1>1, Invariant, PTL

\* What an answer or a receipt marks, the peer has applied; and what was
\* deleted while shared does not come back by an older batch that arrives late.
THEOREM MarkedIsApplied == ASSUME ~Overlaps PROVE Spec => []DeliveredIsApplied
<1>1. ASSUME IInv PROVE DeliveredIsApplied
  <2>1. SUFFICES ASSUME NEW i \in delivered
                 PROVE  /\ \A a \in queue[i].adds : a[2] \in copy[a[1]] \/ a[1] \in buried
                        /\ \A r \in queue[i].removes : deletedIn[r] # 0 => ~Has(r)
    BY DEF DeliveredIsApplied
  <2>2. i \in AppliedIds
    BY <1>1, AppliedParts DEF IInv, QueueInv, TypeOK
  <2>3. Applied(i)
    BY <1>1, <2>2 DEF IInv, ShareInv
  <2>4. \A r \in buried : ~Has(r)
    BY <1>1 DEF IInv, ShareInv, Graves, Has
  <2>5. QED
    BY <2>3, <2>4 DEF Applied
<1>2. QED
  BY <1>1, Invariant, PTL

\* A deletion made while the board is shared reaches the peer, or waits.
THEOREM DeletionsArrive == ASSUME ~Overlaps PROVE Spec => []DeletionsReach
<1>1. ASSUME IInv PROVE DeletionsReach
  <2>1. SUFFICES ASSUME agreement = "made", NEW r \in deleted, deletedIn[r] = shares
                 PROVE  ~Has(r) \/ \E i \in Waiting : r \in queue[i].removes
    BY DEF DeletionsReach
  <2>2. r \in Record
    BY <1>1 DEF IInv, QueueInv, TypeOK
  <2>3. PICK i \in Ids \ dropped : r \in queue[i].removes
    BY <1>1, <2>1, <2>2 DEF IInv, ShareInv, DeletionsQueued
  <2>4. CASE i \in delivered
    <3>1. Applied(i)
      BY <1>1, <2>3, <2>4, AppliedParts DEF IInv, ShareInv
    <3>2. shares > 0
      BY <1>1, <2>1 DEF IInv, ShareInv, DeletionsQueued
    <3>3. deletedIn[r] # 0
      BY <2>1, <3>2
    <3>4. r \in buried
      BY <2>3, <3>1, <3>3 DEF Applied
    <3>5. QED
      BY <1>1, <3>4 DEF IInv, ShareInv, Graves, Has
  <2>5. CASE i \notin delivered
    BY <2>3, <2>5 DEF Waiting
  <2>6. QED
    BY <2>4, <2>5
<1>2. QED
  BY <1>1, Invariant, PTL

=============================================================================
