----------------------- MODULE DeliveryOutboxProofs -----------------------
(***************************************************************************)
(* Theorems about DeliveryOutbox, for any number of notifications, resends,*)
(* workers, administrators and faults, and any batch size and threshold.   *)
(*                                                                         *)
(* The order of due rows plays no part: what keeps a delivery from being   *)
(* sent twice is its lease, and what keeps a settled one settled is that   *)
(* only a pending row is settled.                                          *)
(***************************************************************************)
EXTENDS DeliveryOutbox, Integers, FiniteSetTheorems, TLAPS

\* The part of the types the proofs rest on.
Typed ==
  /\ status \in [Row -> Final \cup {"none", "pending", "withdrawn"}]
  /\ leased \subseteq Row /\ spent \subseteq Row
  /\ note \in [Note -> {"none", "pending", "delivered", "failed", "withdrawn"}]
  /\ inflight \subseteq Attempt
  /\ reading \in [Admin -> Row \cup {NoRow}]
  /\ sent \in [Row -> 0..2]

Tried(d) == \E a \in inflight : a.row = d
Accepted(d) == \E a \in inflight : a.row = d /\ a.stage = "accepted"
Alone(d) == \A a, b \in inflight : a.row = d /\ b.row = d => a = b

\* A row that is neither queued nor withdrawn was sent only by an attempt that
\* is known of: in progress, or counted.
SendsCounted(d) ==
  /\ Tried(d) => status[d] \notin {"none", "withdrawn"}
  /\ status[d] \in {"none", "withdrawn"} => sent[d] = 0
  /\ status[d] = "pending" /\ sent[d] > 0 => d \in spent \/ Accepted(d)

\* A row no known cause may double has one attempt, under its lease, which
\* sends it once.
OneAttempt(d) ==
  d \notin excused =>
    /\ Tried(d) => status[d] = "pending" /\ d \in leased
    /\ \A a \in inflight : a.row = d /\ a.stage # "accepted" => sent[d] = 0
    /\ Alone(d)
    /\ sent[d] <= 1
    /\ status[d] = "pending" /\ sent[d] = 1 => Accepted(d)

\* The deliveries of a notification are numbered without a gap.
Numbered(n) ==
  \E m \in 0..Copies[n] : \A k \in 1..Copies[n] : status[<<n, k>>] # "none" <=> k <= m

IInv ==
  /\ Typed
  /\ \A d \in Row : SendsCounted(d) /\ OneAttempt(d)
  /\ \A n \in Note : Numbered(n)
  /\ \A n \in Note : note[n] = "none" => status[<<n, 1>>] = "none"

-----------------------------------------------------------------------------
(* Rows *)

LEMMA RowParts ==
  /\ \A d \in Row : d[1] \in Note /\ d[2] \in 1..Copies[d[1]] /\ d = <<d[1], d[2]>>
  /\ \A n \in Note : \A k \in 1..Copies[n] : <<n, k>> \in Row
  /\ \A n \in Note : 1 \in 1..Copies[n]
<1>1. \A d : d \in Row <=> \E n \in Note : \E k \in 1..Copies[n] : d = <<n, k>>
  BY DEF Row
<1>2. \A n \in Note : Copies[n] \in Nat \ {0}
  BY NoteAssumption
<1>3. QED
  BY <1>1, <1>2

\* What attempts are in progress, of those in some set.
Continue(on) ==
  /\ \A b \in inflight' : \E c \in on : c.row = b.row /\ c.stage = b.stage
  /\ \A c \in on : \E b \in inflight' : c.row = b.row /\ c.stage = b.stage
  /\ \A d \in Row : Alone(d) => Alone(d)'
  /\ inflight' \subseteq Attempt

\* A row the step leaves alone, with the attempts on it.
LEMMA RowKeeps ==
  ASSUME IInv, NEW d \in Row, NEW on \in SUBSET inflight, Continue(on),
         \A a \in inflight \ on : a.row # d,
         status'[d] = status[d], sent'[d] = sent[d], d \in leased => d \in leased',
         d \in spent => d \in spent', d \in excused => d \in excused'
  PROVE  SendsCounted(d)' /\ OneAttempt(d)'
<1>1. SendsCounted(d) /\ OneAttempt(d) /\ Typed
  BY DEF IInv
<1>2. Tried(d)' => Tried(d)
  BY DEF Continue, Tried
<1>3. Accepted(d) => Accepted(d)'
  BY DEF Continue, Accepted
<1>4. \A b \in inflight' : b.row = d => \E c \in inflight : c.row = d /\ c.stage = b.stage
  BY DEF Continue
<1>5. SendsCounted(d)'
  BY <1>1, <1>2, <1>3 DEF SendsCounted
<1>6. ASSUME d \notin excused'
      PROVE  /\ Tried(d)' => status'[d] = "pending" /\ d \in leased'
             /\ \A a \in inflight' : a.row = d /\ a.stage # "accepted" => sent'[d] = 0
             /\ Alone(d)'
             /\ sent'[d] <= 1
             /\ status'[d] = "pending" /\ sent'[d] = 1 => Accepted(d)'
  <2>1. d \notin excused
    BY <1>6
  <2>2. Alone(d)'
    BY <1>1, <2>1 DEF OneAttempt, Continue
  <2>3. \A a \in inflight' : a.row = d /\ a.stage # "accepted" => sent'[d] = 0
    BY <1>1, <1>4, <2>1 DEF OneAttempt
  <2>4. QED
    BY <1>1, <1>2, <1>3, <2>1, <2>2, <2>3 DEF OneAttempt
<1>7. OneAttempt(d)'
  BY <1>6 DEF OneAttempt
<1>8. QED
  BY <1>5, <1>7

LEMMA SameAttempts ==
  ASSUME Typed, UNCHANGED inflight
  PROVE  Continue(inflight)
  BY DEF Continue, Alone, Typed

\* Steps that touch no row, attempt or number.
LEMMA NothingKeeps ==
  ASSUME IInv, UNCHANGED <<status, inflight, sent>>, Typed',
         leased \subseteq leased', spent \subseteq spent', excused \subseteq excused',
         \A n \in Note : note'[n] = "none" => note[n] = "none"
  PROVE  IInv'
<1>1. Continue(inflight)
  BY SameAttempts DEF IInv
<1>2. \A d \in Row : SendsCounted(d)' /\ OneAttempt(d)'
  BY <1>1, RowKeeps
<1>3. \A n \in Note : Numbered(n)'
  BY DEF IInv, Numbered
<1>4. \A n \in Note : note'[n] = "none" => status'[<<n, 1>>] = "none"
  BY DEF IInv
<1>5. QED
  BY <1>2, <1>3, <1>4 DEF IInv

\* Which rows were ever queued does not change with what becomes of them.
LEMMA NumbersKeep ==
  ASSUME IInv, \A d \in Row : status'[d] = "none" <=> status[d] = "none"
  PROVE  \A n \in Note : Numbered(n)'
<1> SUFFICES ASSUME NEW n \in Note PROVE Numbered(n)'
  OBVIOUS
<1>1. PICK m \in 0..Copies[n] : \A k \in 1..Copies[n] : status[<<n, k>>] # "none" <=> k <= m
  BY DEF IInv, Numbered
<1>2. \A k \in 1..Copies[n] : status'[<<n, k>>] # "none" <=> k <= m
  BY <1>1, RowParts
<1>3. QED
  BY <1>2 DEF Numbered

\* The next number is free.
LEMMA NextNumber ==
  ASSUME IInv, NEW n \in Note, <<n, Inserted(n) + 1>> \in Row
  PROVE  /\ status[<<n, Inserted(n) + 1>>] = "none"
         /\ Inserted(n) + 1 \in 1..Copies[n]
         /\ \A k \in 1..Copies[n] : status[<<n, k>>] # "none" <=> k <= Inserted(n)
<1>1. PICK m \in 0..Copies[n] : \A k \in 1..Copies[n] : status[<<n, k>>] # "none" <=> k <= m
  BY DEF IInv, Numbered
<1>2. Copies[n] \in Nat
  BY NoteAssumption
<1>3. {k \in 1..Copies[n] : status[<<n, k>>] # "none"} = 1..m
  BY <1>1, <1>2
<1>4. Inserted(n) = m
  <2>1. m \in Int /\ 1 \in Int /\ m >= 0
    BY <1>2
  <2>2. Cardinality(1..m) = IF 1 > m THEN 0 ELSE m - 1 + 1
    BY <2>1, FS_Interval
  <2>3. Cardinality(1..m) = m
    BY <2>1, <2>2
  <2>4. QED
    BY <1>3, <2>3 DEF Inserted
<1>5. m + 1 \in 1..Copies[n]
  BY <1>4, RowParts
<1>6. ~(m + 1 <= m)
  BY <1>2
<1>7. status[<<n, m + 1>>] = "none"
  BY <1>1, <1>5, <1>6
<1>8. QED
  BY <1>1, <1>4, <1>5, <1>7

-----------------------------------------------------------------------------
LEMMA InitInv == Init => IInv
<1> SUFFICES ASSUME Init PROVE IInv
  OBVIOUS
<1>1. Typed
  BY DEF Init, Typed
<1>2. \A d \in Row : SendsCounted(d) /\ OneAttempt(d)
  BY DEF Init, SendsCounted, OneAttempt, Tried, Accepted, Alone
<1>3. \A n \in Note : Numbered(n) /\ status[<<n, 1>>] = "none"
  <2> SUFFICES ASSUME NEW n \in Note PROVE Numbered(n) /\ status[<<n, 1>>] = "none"
    OBVIOUS
  <2>1. \A k \in 1..Copies[n] : status[<<n, k>>] = "none"
    BY RowParts DEF Init
  <2>2. Copies[n] \in Nat
    BY NoteAssumption
  <2>3. 0 \in 0..Copies[n] /\ \A k \in 1..Copies[n] : ~(k <= 0)
    BY <2>2
  <2>4. QED
    BY <2>1, <2>3, RowParts DEF Numbered
<1>4. QED
  BY <1>1, <1>2, <1>3 DEF IInv

-----------------------------------------------------------------------------
(* Queueing, resending, withdrawing *)

\* A row is queued that was not: nothing has been tried or sent for it.
LEMMA QueuedKeeps ==
  ASSUME IInv, NEW q \in Row, status[q] = "none",
         status' = [status EXCEPT ![q] = "pending"],
         UNCHANGED <<leased, spent, inflight, sent, excused>>
  PROVE  \A d \in Row : SendsCounted(d)' /\ OneAttempt(d)'
<1> SUFFICES ASSUME NEW d \in Row PROVE SendsCounted(d)' /\ OneAttempt(d)'
  OBVIOUS
<1>1. Typed /\ SendsCounted(q) /\ OneAttempt(q)
  BY DEF IInv
<1>2. CASE d = q
  BY <1>1, <1>2 DEF SendsCounted, OneAttempt, Tried, Accepted, Alone, Typed
<1>3. CASE d # q
  <2>1. status'[d] = status[d] /\ Continue(inflight)
    BY <1>1, <1>3, SameAttempts DEF Typed
  <2>2. QED
    BY <2>1, RowKeeps
<1>4. QED
  BY <1>2, <1>3

LEMMA QueueDeliveryKeeps ==
  ASSUME IInv, NEW n \in Note, QueueDelivery(n)
  PROVE  IInv'
<1>1. Typed /\ <<n, 1>> \in Row /\ Copies[n] \in Nat \ {0}
  BY RowParts, NoteAssumption DEF IInv
<1>2. status[<<n, 1>>] = "none" /\ status' = [status EXCEPT ![<<n, 1>>] = "pending"]
      /\ note' = [note EXCEPT ![n] = "pending"]
      /\ UNCHANGED <<leased, spent, inflight, sent, excused, reading>>
  BY DEF QueueDelivery, IInv, history
<1>3. Typed' /\ \A d \in Row : SendsCounted(d)' /\ OneAttempt(d)'
  BY <1>1, <1>2, QueuedKeeps DEF Typed
<1>4. ASSUME NEW p \in Note PROVE Numbered(p)'
  <2>1. CASE p # n
    <3>1. PICK m \in 0..Copies[p] : \A k \in 1..Copies[p] : status[<<p, k>>] # "none" <=> k <= m
      BY DEF IInv, Numbered
    <3>2. \A k \in 1..Copies[p] : status'[<<p, k>>] = status[<<p, k>>]
      BY <1>1, <1>2, <2>1, RowParts DEF Typed
    <3>3. QED
      BY <3>1, <3>2 DEF Numbered
  <2>2. CASE p = n
    <3>1. PICK m \in 0..Copies[n] : \A k \in 1..Copies[n] : status[<<n, k>>] # "none" <=> k <= m
      BY DEF IInv, Numbered
    <3>2. m = 0
      BY <1>1, <1>2, <3>1
    <3>3. \A k \in 1..Copies[n] : status'[<<n, k>>] # "none" <=> k <= 1
      <4> SUFFICES ASSUME NEW k \in 1..Copies[n] PROVE status'[<<n, k>>] # "none" <=> k <= 1
        OBVIOUS
      <4>1. <<n, k>> \in Row /\ (k <= 1 <=> k = 1) /\ (status[<<n, k>>] = "none")
        BY <1>1, <3>1, <3>2, RowParts
      <4>2. CASE k = 1
        BY <1>1, <1>2, <4>1, <4>2 DEF Typed
      <4>3. CASE k # 1
        BY <1>1, <1>2, <4>1, <4>3 DEF Typed
      <4>4. QED
        BY <4>2, <4>3
    <3>4. 1 \in 0..Copies[n]
      BY <1>1
    <3>5. QED
      BY <2>2, <3>3, <3>4 DEF Numbered
  <2>3. QED
    BY <2>1, <2>2
<1>5. ASSUME NEW p \in Note, note'[p] = "none" PROVE status'[<<p, 1>>] = "none"
  <2>1. p # n /\ note[p] = "none"
    BY <1>1, <1>5 DEF QueueDelivery, Typed
  <2>2. QED
    BY <1>1, <1>2, <2>1, RowParts DEF IInv, Typed
<1>6. QED
  BY <1>3, <1>4, <1>5 DEF IInv

LEMMA InsertResendKeeps ==
  ASSUME IInv, NEW a \in Admin, InsertResend(a)
  PROVE  IInv'
<1> DEFINE n == reading[a][1]
           fresh == <<n, Inserted(n) + 1>>
<1>1. Typed /\ reading[a] \in Row /\ n \in Note
  BY RowParts DEF InsertResend, IInv, Typed
<1>2. Typed'
  BY <1>1 DEF InsertResend, Typed, history
<1>3. CASE fresh \notin Row
  BY <1>2, <1>3, NothingKeeps DEF InsertResend, history
<1>4. CASE fresh \in Row
  <2>1. PICK p \in Note, i \in Nat : p = n /\ i = Inserted(p)
    <3>1. IsFiniteSet({k \in 1..Copies[n] : status[<<n, k>>] # "none"})
      <4>1. Copies[n] \in Nat /\ IsFiniteSet(1..Copies[n])
        <5>1. Copies[n] \in Nat
          BY <1>1, NoteAssumption
        <5>2. Copies[n] \in Int /\ 1 \in Int
          BY <5>1
        <5>3. QED
          BY <5>1, <5>2, FS_Interval
      <4>2. QED
        BY <4>1, FS_Subset
    <3>2. Inserted(n) \in Nat
      BY <3>1, FS_CardinalityType DEF Inserted
    <3>3. QED
      BY <1>1, <3>2
  <2>2. /\ <<p, i + 1>> \in Row /\ status[<<p, i + 1>>] = "none" /\ i + 1 \in 1..Copies[p]
        /\ \A k \in 1..Copies[p] : status[<<p, k>>] # "none" <=> k <= i
    BY <1>4, <2>1, NextNumber
  <2>3. /\ status' = [status EXCEPT ![<<p, i + 1>>] = "pending"]
        /\ note' = [note EXCEPT ![p] = "pending"]
        /\ UNCHANGED <<leased, spent, inflight, sent, excused>>
    BY <1>4, <2>1 DEF InsertResend, history
  <2>4. \A d \in Row : SendsCounted(d)' /\ OneAttempt(d)'
    BY <2>2, <2>3, QueuedKeeps
  <2>5. ASSUME NEW q \in Note PROVE Numbered(q)'
    <3>1. CASE q # p
      <4>1. PICK m \in 0..Copies[q] : \A k \in 1..Copies[q] : status[<<q, k>>] # "none" <=> k <= m
        BY DEF IInv, Numbered
      <4>2. \A k \in 1..Copies[q] : status'[<<q, k>>] = status[<<q, k>>]
        BY <1>1, <2>3, <3>1, RowParts DEF Typed
      <4>3. QED
        BY <4>1, <4>2 DEF Numbered
    <3>2. CASE q = p
      <4>1. \A k \in 1..Copies[p] : status'[<<p, k>>] # "none" <=> k <= i + 1
        <5> SUFFICES ASSUME NEW k \in 1..Copies[p] PROVE status'[<<p, k>>] # "none" <=> k <= i + 1
          OBVIOUS
        <5>1. <<p, k>> \in Row /\ (k <= i + 1 <=> k <= i \/ k = i + 1)
          BY RowParts
        <5>2. CASE k = i + 1
          BY <1>1, <2>2, <2>3, <5>1, <5>2 DEF Typed
        <5>3. CASE k # i + 1
          BY <1>1, <2>2, <2>3, <5>1, <5>3 DEF Typed
        <5>4. QED
          BY <5>2, <5>3
      <4>2. i + 1 \in 0..Copies[p]
        BY <2>2
      <4>3. QED
        BY <3>2, <4>1, <4>2 DEF Numbered
    <3>3. QED
      BY <3>1, <3>2
  <2>6. ASSUME NEW q \in Note, note'[q] = "none" PROVE status'[<<q, 1>>] = "none"
    <3>1. q # p /\ note[q] = "none"
      BY <1>1, <2>1, <2>3, <2>6 DEF Typed
    <3>2. QED
      BY <1>1, <2>3, <3>1, RowParts DEF IInv, Typed
  <2>7. QED
    BY <1>2, <2>4, <2>5, <2>6 DEF IInv
<1>5. QED
  BY <1>3, <1>4

LEMMA AcknowledgeKeeps ==
  ASSUME IInv, NEW n \in Note, Acknowledge(n)
  PROVE  IInv'
<1>1. PICK gone \in SUBSET Row :
        /\ \A d \in gone : status[d] = "pending" /\ Untried(d)
        /\ status' = [d \in Row |-> IF d \in gone THEN "withdrawn" ELSE status[d]]
        /\ note' \in [Note -> {"none", "pending", "delivered", "failed", "withdrawn"}]
        /\ \A p \in Note : note'[p] = "none" => note[p] = "none"
  <2> DEFINE gone == {<<n, k>> : k \in {j \in Stored(n) :
                        status[<<n, j>>] = "pending" /\ Untried(<<n, j>>)}}
  <2>1. gone \in SUBSET Row
    BY RowParts DEF Stored
  <2>2. \A d \in gone : status[d] = "pending" /\ Untried(d)
    OBVIOUS
  <2>3. /\ note' \in [Note -> {"none", "pending", "delivered", "failed", "withdrawn"}]
        /\ \A p \in Note : note'[p] = "none" => note[p] = "none"
    BY DEF Acknowledge, IInv, Typed
  <2>4. status' = [d \in Row |-> IF d \in gone THEN "withdrawn" ELSE status[d]]
    BY DEF Acknowledge
  <2> HIDE DEF gone
  <2>5. QED
    BY <2>1, <2>2, <2>3, <2>4
<1>2. Typed /\ UNCHANGED <<leased, spent, inflight, reading, sent, excused>>
  BY DEF IInv, Acknowledge, history
<1>3. Typed'
  BY <1>1, <1>2 DEF Typed
<1>4. \A d \in Row : SendsCounted(d)' /\ OneAttempt(d)'
  <2> SUFFICES ASSUME NEW d \in Row PROVE SendsCounted(d)' /\ OneAttempt(d)'
    OBVIOUS
  <2>1. CASE d \in gone
    <3>1. /\ status[d] = "pending" /\ d \notin spent /\ ~Tried(d) /\ ~Accepted(d)
          /\ status'[d] = "withdrawn" /\ ~Tried(d)' /\ sent[d] \in 0..2
      BY <1>1, <1>2, <2>1 DEF Untried, Tried, Accepted, Typed
    <3>2. sent[d] = 0
      BY <3>1 DEF IInv, SendsCounted
    <3>3. QED
      BY <1>2, <3>1, <3>2 DEF SendsCounted, OneAttempt, Tried, Alone
  <2>2. CASE d \notin gone
    BY <1>1, <1>2, <2>2, RowKeeps, SameAttempts
  <2>3. QED
    BY <2>1, <2>2
<1>5. \A n_1 \in Note : Numbered(n_1)'
  BY <1>1, NumbersKeep
<1>6. \A p \in Note : note'[p] = "none" => status'[<<p, 1>>] = "none"
  BY <1>1, RowParts DEF IInv
<1>7. QED
  BY <1>3, <1>4, <1>5, <1>6 DEF IInv

-----------------------------------------------------------------------------
(* Time *)

LEMMA TimeKeeps ==
  ASSUME IInv, NEW d \in Row, FallDue(d) \/ HoldEnds(d)
  PROVE  IInv'
  BY NothingKeeps DEF FallDue, HoldEnds, IInv, Typed, history

LEMMA LeaseLapsesKeeps ==
  ASSUME IInv, NEW l \in Row, LeaseLapses(l)
  PROVE  IInv'
<1>1. Typed /\ UNCHANGED <<status, spent, note, inflight, reading, sent>> /\ leased' = leased \ {l}
      /\ excused \subseteq excused' /\ (Tried(l) => l \in excused')
  BY DEF IInv, LeaseLapses, Tried
<1>2. Typed'
  BY <1>1 DEF Typed
<1>3. \A d \in Row : SendsCounted(d)' /\ OneAttempt(d)'
  <2> SUFFICES ASSUME NEW d \in Row PROVE SendsCounted(d)' /\ OneAttempt(d)'
    OBVIOUS
  <2>1. CASE d # l
    BY <1>1, <2>1, RowKeeps, SameAttempts
  <2>2. CASE d = l
    BY <1>1, <2>2 DEF IInv, SendsCounted, OneAttempt, Tried, Accepted, Alone
  <2>3. QED
    BY <2>1, <2>2
<1>4. QED
  BY <1>1, <1>2, <1>3 DEF IInv, Numbered

-----------------------------------------------------------------------------
(* A worker's pass *)

LEMMA ClaimKeeps ==
  ASSUME IInv, NEW w \in Worker, Claim(w)
  PROVE  IInv'
<1> DEFINE new(d) == [worker |-> w, row |-> d, stage |-> "claimed", current |-> TRUE]
<1>1. PICK rows \in SUBSET Row :
        /\ \A d \in rows : status[d] = "pending" /\ d \notin leased
        /\ leased' = leased \cup rows
        /\ inflight' = inflight \cup {new(d) : d \in rows}
  BY DEF Claim, FirstDue, Claimable, ClaimUnleased
<1>2. Typed /\ UNCHANGED <<status, spent, note, reading, sent, excused>>
  BY DEF IInv, Claim, ClaimUnleased, history
<1>3. \A d \in Row : new(d) \in Attempt /\ new(d).row = d /\ new(d).stage = "claimed"
  BY DEF Attempt, Stage
<1> HIDE DEF new
<1>4. Typed'
  BY <1>1, <1>2, <1>3 DEF Typed
<1>5. \A d \in Row : SendsCounted(d)' /\ OneAttempt(d)'
  <2> SUFFICES ASSUME NEW d \in Row PROVE SendsCounted(d)' /\ OneAttempt(d)'
    OBVIOUS
  <2>1. SendsCounted(d) /\ OneAttempt(d) /\ sent[d] \in 0..2
    BY <1>2 DEF IInv, Typed
  <2>2. \A b \in inflight' : b.row = d => b \in inflight \/ (d \in rows /\ b = new(d))
    BY <1>1, <1>3
  <2>3. Accepted(d) => Accepted(d)'
    BY <1>1 DEF Accepted
  <2>4. CASE d \in rows
    <3>1. d \notin excused => ~Tried(d) /\ ~Accepted(d) /\ sent[d] = 0
      BY <1>1, <2>1, <2>4 DEF OneAttempt, Tried, Accepted
    <3>2. SendsCounted(d)'
      BY <1>1, <1>2, <2>1, <2>3, <2>4 DEF SendsCounted
    <3>3. OneAttempt(d)'
      BY <1>1, <1>2, <2>2, <2>4, <3>1 DEF OneAttempt, Tried, Alone
    <3>4. QED
      BY <3>2, <3>3
  <2>5. CASE d \notin rows
    BY <1>1, <1>2, <2>1, <2>2, <2>3, <2>5 DEF SendsCounted, OneAttempt, Tried, Alone
  <2>6. QED
    BY <2>4, <2>5
<1>6. QED
  BY <1>2, <1>4, <1>5 DEF IInv, Numbered

-----------------------------------------------------------------------------
(* Attempts *)

\* Attempt a has ended, and the others go on.
LEMMA OthersGoOn ==
  ASSUME Typed, NEW a \in inflight,
         \/ inflight' = inflight \ {a}
         \/ inflight' = {IF b.worker = a.worker THEN [b EXCEPT !.current = FALSE] ELSE b :
                           b \in inflight \ {a}}
  PROVE  Continue(inflight \ {a})
<1>1. inflight \subseteq Attempt
  BY DEF Typed
<1>2. CASE inflight' = inflight \ {a}
  BY <1>1, <1>2 DEF Continue, Alone
<1>3. CASE inflight' = {IF b.worker = a.worker THEN [b EXCEPT !.current = FALSE] ELSE b :
                           b \in inflight \ {a}}
  <2> DEFINE left(b) == IF b.worker = a.worker THEN [b EXCEPT !.current = FALSE] ELSE b
  <2>1. \A b \in inflight : left(b) \in Attempt /\ left(b).row = b.row /\ left(b).stage = b.stage
    BY <1>1 DEF Attempt
  <2>2. inflight' = {left(b) : b \in inflight \ {a}}
    BY <1>3
  <2> HIDE DEF left
  <2>3. QED
    BY <2>1, <2>2 DEF Continue, Alone
<1>4. QED
  BY <1>2, <1>3

LEMMA RestagedGoesOn ==
  ASSUME Typed, NEW a \in inflight, NEW stage \in Stage, inflight' = Restaged(a, stage)
  PROVE  /\ inflight' \subseteq Attempt
         /\ \E c \in inflight' : c.row = a.row /\ c.stage = stage /\ inflight' = (inflight \ {a}) \cup {c}
<1>1. a \in Attempt /\ inflight \subseteq Attempt
  BY DEF Typed
<1>2. [a EXCEPT !.stage = stage] \in Attempt
      /\ [a EXCEPT !.stage = stage].row = a.row /\ [a EXCEPT !.stage = stage].stage = stage
  BY <1>1 DEF Attempt
<1>3. QED
  BY <1>1, <1>2 DEF Restaged

\* What a settlement, or a settlement that failed, does to the rows.
Settled(d) ==
  /\ status' \in [Row -> Final \cup {"none", "pending", "withdrawn"}]
  /\ leased' \subseteq Row /\ spent' \subseteq Row
  /\ \A e \in Row : e # d => /\ status'[e] = status[e] /\ (e \in leased => e \in leased')
                             /\ (e \in spent => e \in spent')
  /\ status'[d] = status[d] \/ (status[d] = "pending" /\ status'[d] \in Final)
  /\ note' \in [Note -> {"none", "pending", "delivered", "failed", "withdrawn"}]
  /\ \A n \in Note : note'[n] = "none" => note[n] = "none"

LEMMA SettleRowSettles ==
  ASSUME IInv, NEW d \in Row, NEW outcome \in Final \cup {"retry", "deferred"},
         SettleRow(d, outcome)
  PROVE  /\ Settled(d)
         /\ status'[d] = "pending" /\ outcome = "retry" => d \in spent'
         /\ status'[d] = "pending" /\ outcome = "deferred" => (d \in spent => d \in spent')
         /\ outcome \in Final => status'[d] # "pending"
<1>1. Typed
  BY DEF IInv
<1>2. CASE status[d] # "pending"
  BY <1>1, <1>2 DEF SettleRow, rowVars, Settled, Typed
<1>3. CASE status[d] = "pending"
  <2>1. status' = [status EXCEPT ![d] = IF outcome \in Final THEN outcome ELSE "pending"]
        /\ leased' = leased \ {d}
    BY <1>3 DEF SettleRow
  <2>2. /\ outcome \in Final => spent' = spent \ {d}
        /\ outcome = "retry" => spent' = spent \cup {d}
        /\ outcome = "deferred" => spent' = spent
    BY <1>3 DEF SettleRow, Final
  <2>3. /\ note' \in [Note -> {"none", "pending", "delivered", "failed", "withdrawn"}]
        /\ \A n \in Note : note'[n] = "none" => note[n] = "none"
    <3>1. \E now : /\ note' = [note EXCEPT ![d[1]] = now]
                   /\ now \in {"delivered", "failed", note[d[1]]}
      BY <1>3 DEF SettleRow
    <3>2. d[1] \in Note
      BY RowParts
    <3>3. QED
      BY <1>1, <3>1, <3>2 DEF Typed
  <2>4. "pending" \notin Final
    BY DEF Final
  <2>5. QED
    BY <1>1, <1>3, <2>1, <2>2, <2>3, <2>4 DEF Settled, Typed
<1>4. QED
  BY <1>2, <1>3

\* An attempt that ends, having sent what its stage says, leaves its row sound.
LEMMA EndKeeps ==
  ASSUME IInv, NEW a \in inflight, Continue(inflight \ {a}), Settled(a.row),
         \A e \in Row : e # a.row => sent'[e] = sent[e], sent' \in [Row -> 0..2],
         sent'[a.row] = sent[a.row] \/ a.row \in excused',
         excused \subseteq excused', UNCHANGED reading,
         a.stage = "accepted" => status'[a.row] # "pending" \/ a.row \in excused',
         status'[a.row] = "pending" =>
           \/ a.row \in spent'
           \/ /\ a.stage # "accepted" /\ sent'[a.row] = sent[a.row]
              /\ a.row \in spent => a.row \in spent'
  PROVE  IInv'
<1> DEFINE d == a.row
<1>1. Typed /\ d \in Row /\ SendsCounted(d) /\ OneAttempt(d)
  BY DEF IInv, Typed, Attempt
<1>2. Typed'
  BY <1>1 DEF Typed, Settled, Continue
<1>3. Tried(d) /\ status[d] \notin {"none", "withdrawn"} /\ status'[d] \notin {"none", "withdrawn"}
  BY <1>1 DEF SendsCounted, Tried, Settled, Final
<1>4. ASSUME NEW e \in Row PROVE SendsCounted(e)' /\ OneAttempt(e)'
  <2>1. CASE e # d
    BY <1>4, <2>1, RowKeeps DEF Settled
  <2>2. CASE e = d
    <3>1. SendsCounted(e)'
      <4>1. ASSUME status'[e] = "pending", sent'[e] > 0 PROVE e \in spent' \/ Accepted(e)'
        <5>1. CASE e \in spent'
          BY <5>1
        <5>2. CASE e \notin spent'
          <6>1. a.stage # "accepted" /\ sent'[e] = sent[e] /\ e \notin spent /\ status[e] = "pending"
            BY <2>2, <4>1, <5>2 DEF Settled, Final
          <6>2. Accepted(e)
            BY <1>1, <2>2, <4>1, <6>1 DEF SendsCounted
          <6>3. Accepted(e)'
            BY <6>1, <6>2 DEF Accepted, Continue
          <6>4. QED
            BY <6>3
        <5>3. QED
          BY <5>1, <5>2
      <4>2. status'[e] \notin {"none", "withdrawn"}
        BY <1>3, <2>2
      <4>3. QED
        BY <4>1, <4>2 DEF SendsCounted
    <3>2. ASSUME e \notin excused'
          PROVE  ~Tried(e)' /\ sent'[e] = sent[e] /\ sent[e] <= 1
                 /\ (status'[e] = "pending" => sent[e] = 0)
      <4>1. e \notin excused /\ sent'[e] = sent[e]
        BY <2>2, <3>2
      <4>2. \A b \in inflight : b.row = e => b = a
        BY <1>1, <2>2, <4>1 DEF OneAttempt, Alone
      <4>3. ~Tried(e)'
        BY <4>2 DEF Continue, Tried
      <4>4. status'[e] = "pending" => a.stage # "accepted"
        BY <2>2, <3>2
      <4>5. QED
        BY <1>1, <2>2, <4>1, <4>3, <4>4 DEF OneAttempt
    <3>3. OneAttempt(e)'
      <4>1. ASSUME e \notin excused' PROVE Alone(e)'
        BY <3>2, <4>1 DEF Tried, Alone
      <4>2. QED
        BY <3>2, <4>1 DEF OneAttempt, Tried
    <3>4. QED
      BY <3>1, <3>3
  <2>3. QED
    BY <2>1, <2>2
<1>5. \A n \in Note : Numbered(n)'
  <2>1. \A e \in Row : status'[e] = "none" <=> status[e] = "none"
    BY <1>3 DEF Settled
  <2>2. QED
    BY <2>1, NumbersKeep
<1>6. \A n \in Note : note'[n] = "none" => status'[<<n, 1>>] = "none"
  <2>1. \A e \in Row : status'[e] = "none" <=> status[e] = "none"
    BY <1>3 DEF Settled
  <2>2. QED
    BY <2>1, RowParts DEF Settled, IInv
<1>7. QED
  BY <1>2, <1>4, <1>5, <1>6 DEF IInv

\* The settlement an attempt ends with, written or not.
LEMMA EndsWithSettles ==
  ASSUME IInv, NEW a \in inflight, NEW outcome \in Final \cup {"retry", "deferred"},
         EndsWith(a, outcome)
  PROVE  /\ Settled(a.row) /\ Continue(inflight \ {a})
         /\ status'[a.row] = "pending" =>
              \/ a.row \in spent'
              \/ outcome = "deferred" /\ (a.row \in spent => a.row \in spent')
<1>1. Typed /\ a.row \in Row
  BY DEF IInv, Typed, Attempt
<1>2. Continue(inflight \ {a})
  BY <1>1, OthersGoOn DEF EndsWith
<1>3. CASE SettleRow(a.row, outcome)
  BY <1>1, <1>2, <1>3, SettleRowSettles
<1>4. CASE /\ spent' = spent \cup Pending({a.row})
           /\ UNCHANGED <<status, due, scheduled, leased, held, note>>
  BY <1>1, <1>2, <1>4 DEF Settled, Pending, Typed
<1>5. QED
  BY <1>3, <1>4 DEF EndsWith

LEMMA UnsentKeeps ==
  ASSUME IInv, NEW a \in inflight, NEW outcome \in Final \cup {"retry", "deferred"},
         EndsWith(a, outcome), UNCHANGED reading, a.stage # "accepted",
         \A e \in Row : e # a.row => sent'[e] = sent[e], sent' \in [Row -> 0..2],
         sent'[a.row] = sent[a.row] \/ (a.row \in excused' /\ outcome # "deferred"),
         excused \subseteq excused'
  PROVE  IInv'
<1>1. /\ Settled(a.row) /\ Continue(inflight \ {a})
      /\ status'[a.row] = "pending" =>
           \/ a.row \in spent'
           \/ outcome = "deferred" /\ (a.row \in spent => a.row \in spent')
  BY EndsWithSettles
<1>2. QED
  BY <1>1, EndKeeps

LEMMA RefusedKeeps ==
  ASSUME IInv, NEW a \in inflight, Refuse(a) \/ Defer(a) \/ RelayRefuses(a)
  PROVE  IInv'
<1>1. PICK outcome \in Final \cup {"retry", "deferred"} : EndsWith(a, outcome)
  BY DEF Refuse, Defer, RelayRefuses, Final
<1>2. a.stage # "accepted" /\ UNCHANGED <<reading, sent, excused>> /\ sent \in [Row -> 0..2]
  BY DEF Refuse, Defer, RelayRefuses, history, IInv, Typed
<1>3. QED
  BY <1>1, <1>2, UnsentKeeps

LEMMA TookBounds ==
  ASSUME Typed, NEW d \in Row
  PROVE  /\ Took(d) \in [Row -> 0..2] /\ \A e \in Row : e # d => Took(d)[e] = sent[e]
         /\ Took(d)[d] > 0
         /\ sent[d] = 0 => Took(d)[d] = 1
<1>1. sent \in [Row -> 0..2]
  BY DEF Typed
<1>2. QED
  BY <1>1 DEF Took

LEMMA SendFailsKeeps ==
  ASSUME IInv, NEW a \in inflight, SendFails(a)
  PROVE  IInv'
<1>1. Typed /\ a.row \in Row
  BY DEF IInv, Typed, Attempt
<1>2. PICK outcome \in {"retry", "expired"} : EndsWith(a, outcome)
  BY DEF SendFails, AfterFailure
<1>3. a.stage # "accepted" /\ UNCHANGED reading /\ excused \subseteq excused'
  BY DEF SendFails
<1>4. \/ sent' = sent
      \/ sent' = Took(a.row) /\ a.row \in excused'
  BY DEF SendFails
<1>5. /\ \A e \in Row : e # a.row => sent'[e] = sent[e]
      /\ sent' \in [Row -> 0..2]
      /\ sent'[a.row] = sent[a.row] \/ a.row \in excused'
  BY <1>1, <1>4, TookBounds DEF Typed
<1>6. QED
  BY <1>2, <1>3, <1>5, UnsentKeeps DEF Final

LEMMA DeliveredKeeps ==
  ASSUME IInv, NEW a \in inflight, Delivered(a) \/ DeliveredNotSettled(a)
  PROVE  IInv'
<1>1. Typed /\ a.row \in Row
  BY DEF IInv, Typed, Attempt
<1>2. Continue(inflight \ {a})
  BY <1>1, OthersGoOn DEF Delivered, DeliveredNotSettled
<1>3. UNCHANGED <<reading, sent>> /\ excused \subseteq excused' /\ sent \in [Row -> 0..2]
  BY <1>1 DEF Delivered, DeliveredNotSettled, history, Typed
<1>4. CASE SettleRow(a.row, "delivered")
  BY <1>1, <1>2, <1>3, <1>4, SettleRowSettles, EndKeeps DEF Final
<1>5. CASE SettleRow(a.row, AfterFailure(a.row)) /\ a.row \in excused'
  <2>1. PICK outcome \in {"retry", "expired"} : SettleRow(a.row, outcome)
    BY <1>5 DEF AfterFailure
  <2>2. QED
    BY <1>1, <1>2, <1>3, <1>5, <2>1, SettleRowSettles, EndKeeps DEF Final
<1>6. QED
  BY <1>4, <1>5 DEF Delivered, DeliveredNotSettled

LEMMA SendKeeps ==
  ASSUME IInv, NEW a \in inflight, Send(a) \/ RelayAccepts(a)
  PROVE  IInv'
<1> DEFINE d == a.row
<1>1. Typed /\ d \in Row
  BY DEF IInv, Typed, Attempt
<1>2. PICK stage \in {"sending", "accepted"} :
        /\ inflight' = Restaged(a, stage)
        /\ stage = "sending" => a.stage = "claimed" /\ sent' = sent
        /\ stage = "accepted" => a.stage = "sending" /\ sent' = Took(d)
  BY DEF Send, RelayAccepts, history
<1>3. UNCHANGED <<status, leased, spent, note, reading, excused>>
  BY DEF Send, RelayAccepts, rowVars, history
<1>4. PICK c \in inflight' : /\ c.row = d /\ c.stage = stage
                             /\ inflight' = (inflight \ {a}) \cup {c}
                             /\ inflight' \subseteq Attempt
  BY <1>1, <1>2, RestagedGoesOn DEF Stage
<1>5. /\ sent' \in [Row -> 0..2] /\ \A e \in Row : e # d => sent'[e] = sent[e]
  BY <1>1, <1>2, TookBounds DEF Typed
<1>6. Typed'
  BY <1>1, <1>3, <1>4, <1>5 DEF Typed
<1>7. ASSUME NEW e \in Row, e # d PROVE SendsCounted(e)' /\ OneAttempt(e)'
  <2>1. \A b : b.row = e => (b \in inflight' <=> b \in inflight)
    BY <1>4, <1>7
  <2>2. SendsCounted(e) /\ OneAttempt(e)
    BY DEF IInv
  <2>3. QED
    BY <1>3, <1>5, <1>7, <2>1, <2>2 DEF SendsCounted, OneAttempt, Tried, Accepted, Alone
<1>8. SendsCounted(d)' /\ OneAttempt(d)'
  <2>1. SendsCounted(d) /\ OneAttempt(d) /\ Tried(d) /\ a.stage # "accepted"
    BY <1>1, <1>2 DEF IInv, Tried
  <2>2. Accepted(d) => Accepted(d)'
    BY <1>4, <2>1 DEF Accepted
  <2>3. stage = "accepted" => Accepted(d)'
    BY <1>4 DEF Accepted
  <2>4. status'[d] \notin {"none", "withdrawn"}
    BY <1>3, <2>1 DEF SendsCounted
  <2>5. SendsCounted(d)'
    BY <1>2, <1>3, <2>1, <2>2, <2>3, <2>4 DEF SendsCounted
  <2>6. OneAttempt(d)'
    <3>1. SUFFICES ASSUME d \notin excused'
                   PROVE  /\ Tried(d)' => status'[d] = "pending" /\ d \in leased'
                          /\ \A b \in inflight' : b.row = d /\ b.stage # "accepted" => sent'[d] = 0
                          /\ Alone(d)'
                          /\ sent'[d] <= 1
                          /\ status'[d] = "pending" /\ sent'[d] = 1 => Accepted(d)'
      BY DEF OneAttempt
    <3>2. /\ status[d] = "pending" /\ d \in leased /\ sent[d] = 0
          /\ \A b \in inflight : b.row = d => b = a
      BY <1>3, <2>1, <3>1 DEF OneAttempt, Alone
    <3>3. \A b \in inflight' : b.row = d => b = c
      BY <1>4, <3>2
    <3>4. stage = "accepted" => sent'[d] = 1
      BY <1>1, <1>2, <3>2, TookBounds
    <3>5. stage = "sending" => sent'[d] = 0
      BY <1>2, <3>2
    <3>6. QED
      BY <1>2, <1>3, <1>4, <2>3, <3>2, <3>3, <3>4, <3>5 DEF Alone
  <2>7. QED
    BY <2>5, <2>6
<1>9. QED
  BY <1>3, <1>6, <1>7, <1>8 DEF IInv, Numbered

LEMMA StopKeeps ==
  ASSUME IInv, NEW w \in Worker, Stop(w)
  PROVE  IInv'
<1>1. /\ Typed /\ UNCHANGED <<status, leased, note, reading, sent>>
      /\ inflight' = {a \in inflight : a.worker # w}
      /\ spent' = spent \cup Pending({a.row : a \in {b \in inflight : b.worker = w}})
      /\ excused' = excused \cup
           {a.row : a \in {b \in inflight : b.worker = w /\ b.stage = "accepted"}}
  BY DEF IInv, Stop
<1>2. \A a \in inflight \ inflight' : status[a.row] = "pending" => a.row \in spent'
  BY <1>1 DEF Pending
<1>3. \A a \in inflight \ inflight' : a.stage = "accepted" => a.row \in excused'
  BY <1>1
<1>4. spent' \subseteq Row /\ inflight' \subseteq inflight
  BY <1>1 DEF Pending, Typed, Attempt
<1>5. Typed'
  BY <1>1, <1>4 DEF Typed
<1>6. ASSUME NEW d \in Row PROVE SendsCounted(d)' /\ OneAttempt(d)'
  <2>1. SendsCounted(d) /\ OneAttempt(d) /\ spent \subseteq spent' /\ excused \subseteq excused'
    BY <1>1 DEF IInv
  <2>2. Tried(d)' => Tried(d)
    BY <1>4 DEF Tried
  <2>3. Accepted(d) => Accepted(d)' \/ (d \in excused' /\ (status[d] = "pending" => d \in spent'))
    BY <1>2, <1>3 DEF Accepted
  <2>4. SendsCounted(d)'
    BY <1>1, <2>1, <2>2, <2>3 DEF SendsCounted
  <2>5. OneAttempt(d)'
    BY <1>1, <1>4, <2>1, <2>2, <2>3 DEF OneAttempt, Alone
  <2>6. QED
    BY <2>4, <2>5
<1>7. QED
  BY <1>1, <1>5, <1>6 DEF IInv, Numbered

-----------------------------------------------------------------------------
LEMMA StepInv == IInv /\ [Next]_vars => IInv'
<1> SUFFICES ASSUME IInv, [Next]_vars PROVE IInv'
  OBVIOUS
<1>1. ASSUME NEW n \in Note, NEW a \in Admin, ReadLatest(a, n) PROVE IInv'
  <2>1. Typed'
    BY <1>1, RowParts DEF ReadLatest, rowVars, history, IInv, Typed, Stored
  <2>2. QED
    BY <1>1, <2>1, NothingKeeps DEF ReadLatest, rowVars, history
<1>2. ASSUME NEW w \in Worker, CircuitCools(w) PROVE IInv'
  BY <1>2, NothingKeeps DEF CircuitCools, rowVars, history, IInv, Typed
<1>3. CASE UNCHANGED vars
  BY <1>3, NothingKeeps DEF vars, IInv, Typed
<1>4. QED
  BY <1>1, <1>2, <1>3, QueueDeliveryKeeps, InsertResendKeeps, AcknowledgeKeeps, TimeKeeps,
     LeaseLapsesKeeps, ClaimKeeps, RefusedKeeps, SendFailsKeeps, DeliveredKeeps, SendKeeps, StopKeeps
  DEF Next, Proceed

\* Every reachable state satisfies the inductive invariant.
THEOREM Invariant == Spec => []IInv
  BY InitInv, StepInv, PTL DEF Spec

\* No delivery is sent twice but for a lapsed lease, an answer or a settlement
\* lost, or a stop between the two.
THEOREM SendsOnce == Spec => []SentOnce
<1>1. IInv => SentOnce
  BY DEF IInv, Typed, OneAttempt, SentOnce
<1>2. QED
  BY <1>1, Invariant, PTL

\* A withdrawn fallback was never sent, and will not be.
THEOREM WithdrawnUnsent == Spec => []WithdrawnIsUnsent
<1>1. IInv => WithdrawnIsUnsent
  BY DEF IInv, SendsCounted, Tried, WithdrawnIsUnsent
<1>2. QED
  BY <1>1, Invariant, PTL

\* A settled delivery stays settled as it was.
THEOREM Settles == Spec => SettledStays
<1> DEFINE A == \A d \in Row : status[d] \in Final => status'[d] = status[d]
<1>1. ASSUME IInv, [Next]_vars PROVE [A]_vars
  <2>1. Typed /\ Final = {"delivered", "dead", "expired"}
    BY <1>1 DEF IInv, Final
  <2>2. ASSUME NEW q \in Row, status[q] \notin Final,
               status' = [status EXCEPT ![q] = "pending"] PROVE A
    BY <2>1, <2>2 DEF Typed
  <2>3. ASSUME NEW n \in Note, QueueDelivery(n) PROVE A
    BY <1>1, <2>1, <2>2, <2>3, RowParts DEF QueueDelivery, IInv
  <2>4. ASSUME NEW a \in Admin, InsertResend(a) PROVE A
    <3>1. reading[a][1] \in Note
      BY <2>1, <2>4, RowParts DEF InsertResend, Typed
    <3>2. QED
      BY <1>1, <2>1, <2>2, <2>4, <3>1, NextNumber DEF InsertResend
  <2>5. ASSUME NEW n \in Note, Acknowledge(n) PROVE A
    <3>1. ASSUME NEW d \in Row, status[d] \in Final PROVE status'[d] = status[d]
      <4>1. d \notin {<<n, k>> : k \in {j \in Stored(n) :
                        status[<<n, j>>] = "pending" /\ Untried(<<n, j>>)}}
        BY <2>1, <3>1
      <4>2. QED
        BY <2>5, <4>1 DEF Acknowledge
    <3>2. QED
      BY <3>1
  <2>6. ASSUME NEW d \in Row, NEW outcome, SettleRow(d, outcome) PROVE A
    BY <2>1, <2>6 DEF SettleRow, rowVars, Typed
  <2>7. ASSUME NEW a \in inflight, Proceed(a) \/ DeliveredNotSettled(a) PROVE A
    <3>1. a.row \in Row
      BY <2>1 DEF Typed, Attempt
    <3>2. UNCHANGED status \/ \E outcome : SettleRow(a.row, outcome)
      BY <2>7 DEF Proceed, Refuse, Defer, Send, RelayAccepts, RelayRefuses, SendFails, Delivered,
           DeliveredNotSettled, EndsWith, rowVars
    <3>3. QED
      BY <2>6, <3>1, <3>2
  <2>8. CASE UNCHANGED status
    BY <2>8
  <2>9. QED
    BY <1>1, <2>3, <2>4, <2>5, <2>7, <2>8
    DEF Next, vars, rowVars, history, ReadLatest, FallDue, HoldEnds, LeaseLapses, CircuitCools,
        Claim, ClaimUnleased, Stop
<1>2. QED
  BY <1>1, Invariant, PTL DEF Spec, SettledStays

-----------------------------------------------------------------------------
(* What a notification tells, when one administrator resends: only its      *)
(* newest delivery can still wait, and an administrator who reads the       *)
(* newest one, dead or expired, queues the next before anything else does.  *)

\* What a notification reads as, by the status of its newest delivery.
Tells(s) == CASE s = "pending" -> "pending" [] s = "delivered" -> "delivered" [] OTHER -> "failed"

NoteSound(n) ==
  /\ \A k \in 1..Copies[n] : status[<<n, k>>] # "withdrawn"
  /\ \A j, k \in 1..Copies[n] :
       j < k /\ status[<<n, k>>] # "none" => status[<<n, j>>] \in Final
  /\ \A k \in 1..Copies[n] : IsLatest(n, k) => note[n] = Tells(status[<<n, k>>])
  /\ \A a \in Admin, k \in 1..Copies[n] :
       reading[a] = <<n, k>> => IsLatest(n, k) /\ status[<<n, k>>] \in {"dead", "expired"}

NotesSound == \A n \in Note \ acked : NoteSound(n)

\* A notification the step leaves alone, with its rows and who reads them.
LEMMA NoteKeeps ==
  ASSUME NEW n \in Note, NoteSound(n), note'[n] = note[n],
         \A k \in 1..Copies[n] : status'[<<n, k>>] = status[<<n, k>>],
         \A a \in Admin, k \in 1..Copies[n] :
           reading'[a] = <<n, k>> =>
             \/ reading[a] = <<n, k>>
             \/ IsLatest(n, k) /\ status[<<n, k>>] \in {"dead", "expired"}
  PROVE  NoteSound(n)'
<1>1. Stored(n)' = Stored(n)
  BY DEF Stored
<1>2. \A k \in 1..Copies[n] : IsLatest(n, k)' <=> IsLatest(n, k)
  BY <1>1 DEF IsLatest
<1>3. QED
  BY <1>2 DEF NoteSound, Tells

\* A delivery that waits is its notification's newest, and no one resends it.
LEMMA PendingIsLatest ==
  ASSUME NEW n \in Note, NoteSound(n), NEW k \in 1..Copies[n], status[<<n, k>>] = "pending"
  PROVE  /\ IsLatest(n, k) /\ \A a \in Admin, j \in 1..Copies[n] : reading[a] # <<n, j>>
         /\ \A j \in 1..Copies[n] : IsLatest(n, j) => j = k
<1>1. Copies[n] \in Nat
  BY NoteAssumption
<1>2. k \in Stored(n)
  BY DEF Stored
<1>3. \A j \in Stored(n) : j <= k
  <2> SUFFICES ASSUME NEW j \in Stored(n), ~(j <= k) PROVE FALSE
    OBVIOUS
  <2>1. j \in 1..Copies[n] /\ status[<<n, j>>] # "none"
    BY DEF Stored
  <2>2. k < j
    BY <1>1, <2>1
  <2>3. QED
    BY <2>1, <2>2 DEF NoteSound, Final
<1>4. \A j \in 1..Copies[n] : IsLatest(n, j) => j = k
  BY <1>1, <1>2, <1>3 DEF IsLatest, Stored
<1>5. QED
  BY <1>2, <1>3, <1>4 DEF IsLatest, NoteSound

LEMMA SettleKeepsNotes ==
  ASSUME Typed, NotesSound, NEW d \in Row, NEW outcome \in Final \cup {"retry", "deferred"},
         SettleRow(d, outcome), UNCHANGED <<acked, reading>>
  PROVE  NotesSound'
<1> SUFFICES ASSUME NEW n \in Note, n \notin acked PROVE NoteSound(n)'
  BY DEF NotesSound
<1>1. NoteSound(n)
  BY DEF NotesSound
<1>2. CASE status[d] # "pending"
  BY <1>1, <1>2, NoteKeeps DEF SettleRow, rowVars
<1>3. CASE status[d] = "pending" /\ d[1] # n
  <2>1. /\ status' = [status EXCEPT ![d] = IF outcome \in Final THEN outcome ELSE "pending"]
        /\ \E now : note' = [note EXCEPT ![d[1]] = now]
    BY <1>3 DEF SettleRow
  <2>2. note'[n] = note[n]
    BY <1>3, <2>1 DEF Typed
  <2>3. \A k \in 1..Copies[n] : status'[<<n, k>>] = status[<<n, k>>]
    BY <1>3, <2>1, RowParts DEF Typed
  <2>4. QED
    BY <1>1, <2>2, <2>3, NoteKeeps
<1>4. CASE status[d] = "pending" /\ d[1] = n
  <2>1. PICK k \in 1..Copies[n] : d = <<n, k>>
    BY <1>4, RowParts
  <2>2. /\ IsLatest(n, k) /\ \A a \in Admin, j \in 1..Copies[n] : reading[a] # <<n, j>>
        /\ \A j \in 1..Copies[n] : IsLatest(n, j) => j = k
    BY <1>1, <1>4, <2>1, PendingIsLatest
  <2>3. note[n] = "pending"
    BY <1>1, <1>4, <2>1, <2>2 DEF NoteSound, Tells
  <2>4. status'[d] = (IF outcome \in Final THEN outcome ELSE "pending")
        /\ \A e \in Row : e # d => status'[e] = status[e]
    BY <1>4 DEF SettleRow, Typed
  <2>5. note'[n] = Tells(status'[d])
    <3>1. note'[n] = CASE outcome = "delivered" -> "delivered"
                      [] outcome \in {"dead", "expired"} -> "failed"
                      [] OTHER -> "pending"
      BY <1>4, <2>3 DEF SettleRow, Typed
    <3>2. CASE outcome = "delivered"
      BY <2>4, <3>1, <3>2 DEF Tells, Final
    <3>3. CASE outcome \in {"dead", "expired"}
      BY <2>4, <3>1, <3>3 DEF Tells, Final
    <3>4. CASE outcome \in {"retry", "deferred"}
      BY <2>4, <3>1, <3>4 DEF Tells, Final
    <3>5. QED
      BY <3>2, <3>3, <3>4 DEF Final
  <2>6. /\ \A j \in 1..Copies[n] : <<n, j>> \in Row
        /\ \A j \in 1..Copies[n] : j # k => status'[<<n, j>>] = status[<<n, j>>]
        /\ status'[<<n, k>>] \in Final \cup {"pending"}
    BY <2>1, <2>4, RowParts
  <2>7. Stored(n)' = Stored(n)
    BY <1>4, <2>1, <2>6 DEF Stored, Final
  <2>8. \A j \in 1..Copies[n] : IsLatest(n, j)' => j = k
    BY <2>2, <2>7 DEF IsLatest
  <2>9. \A j \in 1..Copies[n] : status'[<<n, j>>] # "withdrawn"
    BY <1>1, <2>6 DEF NoteSound, Final
  <2>10. \A i, j \in 1..Copies[n] :
           i < j /\ status'[<<n, j>>] # "none" => status'[<<n, i>>] \in Final
    <3> SUFFICES ASSUME NEW i \in 1..Copies[n], NEW j \in 1..Copies[n],
                        i < j, status'[<<n, j>>] # "none"
                 PROVE  status'[<<n, i>>] \in Final
      OBVIOUS
    <3>1. status[<<n, j>>] # "none"
      BY <1>4, <2>1, <2>6
    <3>2. status[<<n, i>>] \in Final
      BY <1>1, <3>1 DEF NoteSound
    <3>3. i # k
      BY <1>4, <2>1, <3>2 DEF Final
    <3>4. QED
      BY <2>6, <3>2, <3>3
  <2>11. QED
    BY <2>1, <2>2, <2>5, <2>8, <2>9, <2>10 DEF NoteSound, Tells
<1>5. QED
  BY <1>2, <1>3, <1>4

LEMMA InsertResendKeepsNotes ==
  ASSUME IInv, NotesSound, \A b, c \in Admin : b = c, NEW a \in Admin, InsertResend(a)
  PROVE  NotesSound'
<1> SUFFICES ASSUME NEW n \in Note, n \notin acked PROVE NoteSound(n)'
  BY DEF NotesSound, InsertResend
<1>1. Typed /\ NoteSound(n) /\ reading[a] \in Row /\ reading[a][1] \in Note
  BY RowParts DEF NotesSound, InsertResend, IInv, Typed
<1>2. \A b \in Admin, k \in 1..Copies[n] : reading'[b] # <<n, k>>
  <2>1. \A b \in Admin : reading'[b] = NoRow
    BY <1>1 DEF InsertResend, Typed
  <2>2. QED
    BY <2>1, RowParts, NoRowAssumption
<1> DEFINE p == reading[a][1]
<1>3. CASE <<p, Inserted(p) + 1>> \notin Row
  BY <1>1, <1>2, <1>3, NoteKeeps DEF InsertResend
<1>4. CASE <<p, Inserted(p) + 1>> \in Row /\ p # n
  <2>1. /\ status' = [status EXCEPT ![<<p, Inserted(p) + 1>>] = "pending"]
        /\ note' = [note EXCEPT ![p] = "pending"]
    BY <1>4 DEF InsertResend
  <2>2. \A k \in 1..Copies[n] : status'[<<n, k>>] = status[<<n, k>>]
    BY <1>1, <1>4, <2>1, RowParts DEF Typed
  <2>3. note'[n] = note[n]
    BY <1>1, <1>4, <2>1 DEF Typed
  <2>4. QED
    BY <1>1, <1>2, <2>2, <2>3, NoteKeeps
<1>5. CASE <<p, Inserted(p) + 1>> \in Row /\ p = n
  <2>1. PICK f : f = Inserted(n) + 1
    OBVIOUS
  <2>2. /\ status[<<n, f>>] = "none" /\ f \in 1..Copies[n] /\ Copies[n] \in Nat
        /\ \A k \in 1..Copies[n] : status[<<n, k>>] # "none" <=> k < f
    <3>1. <<n, Inserted(n) + 1>> \in Row /\ Copies[n] \in Nat
      BY <1>5, NoteAssumption
    <3>2. /\ status[<<n, Inserted(n) + 1>>] = "none" /\ Inserted(n) + 1 \in 1..Copies[n]
          /\ \A k \in 1..Copies[n] : status[<<n, k>>] # "none" <=> k <= Inserted(n)
      BY <3>1, NextNumber
    <3>3. Inserted(n) \in Nat
      <4>1. Copies[n] \in Int /\ 1 \in Int
        BY <3>1
      <4>2. IsFiniteSet(1..Copies[n])
        BY <4>1, FS_Interval
      <4>3. IsFiniteSet({k \in 1..Copies[n] : status[<<n, k>>] # "none"})
        BY <4>2, FS_Subset
      <4>4. QED
        BY <4>3, FS_CardinalityType DEF Inserted
    <3>4. \A k \in 1..Copies[n] : k <= Inserted(n) <=> k < Inserted(n) + 1
      BY <3>1, <3>3
    <3>5. QED
      BY <2>1, <3>1, <3>2, <3>4
  <2>3. status' = [status EXCEPT ![<<n, f>>] = "pending"] /\ note'[n] = "pending"
    BY <1>1, <1>5, <2>1 DEF InsertResend, Typed
  <2>4. /\ status'[<<n, f>>] = "pending"
        /\ \A k \in 1..Copies[n] : k # f => status'[<<n, k>>] = status[<<n, k>>]
    BY <1>1, <2>2, <2>3, RowParts DEF Typed
  <2>5. \A k \in 1..Copies[n] : k < f => status[<<n, k>>] \in Final
    <3>1. PICK r \in 1..Copies[n] : reading[a] = <<n, r>>
      BY <1>1, <1>5, RowParts
    <3>2. IsLatest(n, r) /\ status[<<n, r>>] \in Final
      BY <1>1, <3>1 DEF NoteSound, Final
    <3>3. \A k \in 1..Copies[n] : k < f => k <= r
      BY <1>1, <2>2, <3>2 DEF IsLatest, Stored, NoteSound
    <3>4. \A k \in 1..Copies[n] : k < r => status[<<n, k>>] \in Final
      BY <1>1, <3>2 DEF NoteSound, Final
    <3>5. \A k \in 1..Copies[n] : k <= r => k < r \/ k = r
      BY <2>2
    <3>6. QED
      BY <3>2, <3>3, <3>4, <3>5
  <2>6. \A i, j \in 1..Copies[n] :
          i < j /\ status'[<<n, j>>] # "none" => status'[<<n, i>>] \in Final
    <3> SUFFICES ASSUME NEW i \in 1..Copies[n], NEW j \in 1..Copies[n],
                        i < j, status'[<<n, j>>] # "none"
                 PROVE  status'[<<n, i>>] \in Final
      OBVIOUS
    <3>1. j = f \/ j < f
      BY <2>2, <2>4
    <3>2. i < f /\ i # f
      BY <2>2, <3>1
    <3>3. QED
      BY <2>4, <2>5, <3>2
  <2>7. \A k \in 1..Copies[n] : IsLatest(n, k)' => k = f
    <3> SUFFICES ASSUME NEW k \in 1..Copies[n], IsLatest(n, k)' PROVE k = f
      OBVIOUS
    <3>1. f \in Stored(n)'
      BY <2>2, <2>4 DEF Stored
    <3>2. f <= k /\ status'[<<n, k>>] # "none"
      BY <3>1 DEF IsLatest, Stored
    <3>3. k # f => k < f
      BY <2>2, <2>4, <3>2
    <3>4. QED
      BY <2>2, <3>2, <3>3
  <2>8. \A k \in 1..Copies[n] : status'[<<n, k>>] # "withdrawn"
    BY <1>1, <2>4 DEF NoteSound
  <2>9. QED
    BY <1>2, <2>3, <2>4, <2>6, <2>7, <2>8 DEF NoteSound, Tells
<1>6. QED
  BY <1>3, <1>4, <1>5

LEMMA QueueDeliveryKeepsNotes ==
  ASSUME IInv, NotesSound, NEW q \in Note, QueueDelivery(q)
  PROVE  NotesSound'
<1> SUFFICES ASSUME NEW n \in Note, n \notin acked PROVE NoteSound(n)'
  BY DEF NotesSound, QueueDelivery
<1>1. /\ Typed /\ NoteSound(n) /\ note[q] = "none" /\ reading' = reading
      /\ status' = [status EXCEPT ![<<q, 1>>] = "pending"]
      /\ note' = [note EXCEPT ![q] = "pending"]
  BY DEF NotesSound, QueueDelivery, IInv
<1>2. CASE n # q
  <2>1. \A k \in 1..Copies[n] : status'[<<n, k>>] = status[<<n, k>>]
    BY <1>1, <1>2, RowParts DEF Typed
  <2>2. note'[n] = note[n]
    BY <1>1, <1>2 DEF Typed
  <2>3. QED
    BY <1>1, <2>1, <2>2, NoteKeeps
<1>3. CASE n = q
  <2>1. \A k \in 1..Copies[n] : status[<<n, k>>] = "none"
    <3>1. status[<<n, 1>>] = "none" /\ Copies[n] \in Nat
      BY <1>1, <1>3, NoteAssumption DEF IInv
    <3>2. \A k \in 1..Copies[n] : k = 1 \/ 1 < k
      BY <3>1
    <3>3. 1 \in 1..Copies[n]
      BY RowParts
    <3>4. QED
      BY <1>1, <3>1, <3>2, <3>3 DEF NoteSound, Final
  <2>2. status'[<<n, 1>>] = "pending" /\ note'[n] = "pending"
        /\ \A k \in 1..Copies[n] : k # 1 => status'[<<n, k>>] = "none"
    BY <1>1, <1>3, <2>1, RowParts DEF Typed
  <2>3. \A k \in 1..Copies[n] : IsLatest(n, k)' => k = 1
    BY <2>2 DEF IsLatest, Stored
  <2>4. \A a \in Admin, k \in 1..Copies[n] : reading'[a] # <<n, k>>
    BY <1>1, <2>1 DEF NoteSound
  <2>5. \A j, k \in 1..Copies[n] : j < k => k # 1
    BY NoteAssumption
  <2>6. \A k \in 1..Copies[n] : status'[<<n, k>>] # "withdrawn"
    BY <2>2
  <2>7. QED
    BY <2>2, <2>3, <2>4, <2>5, <2>6 DEF NoteSound, Tells
<1>4. QED
  BY <1>2, <1>3

LEMMA AcknowledgeKeepsNotes ==
  ASSUME IInv, NotesSound, NEW q \in Note, Acknowledge(q)
  PROVE  NotesSound'
<1> SUFFICES ASSUME NEW n \in Note, n \notin acked' PROVE NoteSound(n)'
  BY DEF NotesSound
<1>1. n # q /\ NoteSound(n) /\ Typed /\ reading' = reading
  BY DEF Acknowledge, NotesSound, IInv
<1>2. note'[n] = note[n]
  BY <1>1 DEF Acknowledge, Typed
<1>3. \A k \in 1..Copies[n] : status'[<<n, k>>] = status[<<n, k>>]
  <2> DEFINE gone == {<<q, k>> : k \in {j \in Stored(q) :
                        status[<<q, j>>] = "pending" /\ Untried(<<q, j>>)}}
  <2>1. \A k \in 1..Copies[n] : <<n, k>> \in Row /\ <<n, k>> \notin gone
    BY <1>1, RowParts
  <2>2. status' = [d \in Row |-> IF d \in gone THEN "withdrawn" ELSE status[d]]
    BY DEF Acknowledge
  <2> HIDE DEF gone
  <2>3. QED
    BY <2>1, <2>2
<1>4. QED
  BY <1>1, <1>2, <1>3, NoteKeeps

\* Steps that change no status, note or reading.
LEMMA OtherKeepsNotes ==
  ASSUME NotesSound, UNCHANGED <<status, note, acked, reading>>
  PROVE  NotesSound'
  BY NoteKeeps DEF NotesSound

LEMMA NotesStep ==
  ASSUME IInv, NotesSound, \A b, c \in Admin : b = c, [Next]_vars
  PROVE  NotesSound'
<1>1. Typed
  BY DEF IInv
<1>2. ASSUME NEW p \in Note, NEW a \in Admin, ReadLatest(a, p) PROVE NotesSound'
  <2>1. UNCHANGED <<status, note, acked>> /\ \E k \in Stored(p) :
          /\ IsLatest(p, k) /\ status[<<p, k>>] \in {"dead", "expired"}
          /\ reading' = [reading EXCEPT ![a] = <<p, k>>]
    BY <1>2 DEF ReadLatest, rowVars
  <2>2. ASSUME NEW n \in Note, n \notin acked PROVE NoteSound(n)'
    <3>1. NoteSound(n) /\ reading \in [Admin -> Row \cup {NoRow}]
      BY <1>1, <2>2 DEF NotesSound, Typed
    <3>2. \A b \in Admin, k \in 1..Copies[n] :
            reading'[b] = <<n, k>> =>
              \/ reading[b] = <<n, k>>
              \/ IsLatest(n, k) /\ status[<<n, k>>] \in {"dead", "expired"}
      BY <2>1, <3>1
    <3>3. QED
      BY <2>1, <3>1, <3>2, NoteKeeps
  <2>3. QED
    BY <2>1, <2>2 DEF NotesSound
<1>3. ASSUME NEW a \in inflight, Proceed(a) \/ DeliveredNotSettled(a) PROVE NotesSound'
  <2>1. a.row \in Row /\ UNCHANGED <<acked, reading>>
    BY <1>1, <1>3 DEF Typed, Attempt, Proceed, Refuse, Defer, Send, RelayAccepts, RelayRefuses,
       SendFails, Delivered, DeliveredNotSettled
  <2>2. \/ UNCHANGED <<status, note>>
        \/ \E outcome \in Final \cup {"retry", "deferred"} : SettleRow(a.row, outcome)
    BY <1>3 DEF Proceed, Refuse, Defer, Send, RelayAccepts, RelayRefuses, SendFails, Delivered,
       DeliveredNotSettled, EndsWith, rowVars, Final, AfterFailure
  <2>3. QED
    BY <1>1, <2>1, <2>2, SettleKeepsNotes, OtherKeepsNotes
<1>4. CASE UNCHANGED <<status, note, acked, reading>>
  BY <1>4, OtherKeepsNotes
<1>5. QED
  BY <1>2, <1>3, <1>4, QueueDeliveryKeepsNotes, InsertResendKeepsNotes, AcknowledgeKeepsNotes
  DEF Next, vars, rowVars, history, FallDue, HoldEnds, LeaseLapses, CircuitCools, Claim,
      ClaimUnleased, Stop

\* A notification reads as its newest delivery does until its recipient
\* acknowledges, whichever worker settled last: provided one administrator
\* resends. (Two may queue two deliveries at once.)
THEOREM NotesTellTruth == ASSUME \A b, c \in Admin : b = c PROVE Spec => []NoteTellsLatest
<1>1. Init => NotesSound
  <2> SUFFICES ASSUME Init, NEW n \in Note PROVE NoteSound(n)
    BY DEF NotesSound
  <2>1. \A k \in 1..Copies[n] : status[<<n, k>>] = "none" /\ ~IsLatest(n, k)
    BY RowParts DEF Init, IsLatest, Stored
  <2>2. \A a \in Admin, k \in 1..Copies[n] : reading[a] # <<n, k>>
    BY RowParts, NoRowAssumption DEF Init
  <2>3. QED
    BY <2>1, <2>2 DEF NoteSound
<1>2. IInv /\ NotesSound /\ [Next]_vars => NotesSound'
  BY NotesStep
<1>3. NotesSound => NoteTellsLatest
  BY DEF NotesSound, NoteSound, NoteTellsLatest, Stored, Tells
<1>4. QED
  BY <1>1, <1>2, <1>3, Invariant, PTL DEF Spec

=============================================================================
