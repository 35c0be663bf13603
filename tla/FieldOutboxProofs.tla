------------------------- MODULE FieldOutboxProofs -------------------------
(***************************************************************************)
(* Theorems about FieldOutbox where one object changes the list, for any   *)
(* operations, passes, refusals and pages closed.                          *)
(***************************************************************************)
EXTENDS FieldOutbox, FiniteSetTheorems, TLAPS

OneObject == \A b, c \in Box : b = c

\* Operations the server has, or their person discarded.
Settled == applied \cup discarded \cup {o \in Op : late[o] # "none"}

-----------------------------------------------------------------------------
(* The inductive invariant *)

\* A caller that waits for an answer has one request, for its current operation.
Requested ==
  /\ \A r \in requests : r.from # Nobody =>
       call[r.from].at = "waiting" /\ Current(r.from) = r.op
  /\ \A q, r \in requests : q.from = r.from /\ q.from # Nobody => q = r

\* A caller that waits for a change has one in the chain; what is to be dropped
\* is settled.
Chained ==
  \A b \in Box : \A i \in 1..Len(chain[b]) :
    /\ chain[b][i].wake # Nobody =>
         /\ call[chain[b][i].wake].at = "changing"
         /\ \A j \in 1..Len(chain[b]) : chain[b][j].wake = chain[b][i].wake => j = i
    /\ chain[b][i].what = "drop" => chain[b][i].op \in Settled

\* What a change has read is still what is stored.
ReadStands ==
  \A b \in Box : read[b] # <<>> => chain[b] # <<>> /\ Head(read[b]) = stored

\* What is entered is dealt with by a caller of its own, once.
Entering ==
  \A o \in Op : /\ call[o].rest \in {<<>>, <<o>>}
                /\ o \notin entered => call[o].at = "idle"

LateKnown ==
  \A x \in Caller :
    call[x].at \in {"readLate", "writeLate"} => late[Current(x)] # "none"

\* What a pass over the completions is to send is stored, or settled since.
PassHolds ==
  ~keeps =>
    /\ \A o \in Op : call[o].at \in {"idle", "changing"}
    /\ \A x \in Pass : \A i \in 1..Len(call[x].rest) :
         InQueue(stored, call[x].rest[i]) \/ call[x].rest[i] \in Settled

IInv ==
  TypeOK /\ Requested /\ Chained /\ ReadStands /\ Entering /\ LateKnown /\ PassHolds

-----------------------------------------------------------------------------
(* What every step needs of the state *)

\* What is settled stays so, and what was kept for the administrators is known.
Grows ==
  \A o \in Op : (o \in Settled => o \in Settled') /\ (late[o] # "none" => late'[o] # "none")

\* The types of what a caller's step leaves to the rest.
RestTyped ==
  /\ lateKept \subseteq Op /\ requests \subseteq Request /\ Server!OnceTypeOK
  /\ entered \subseteq Op /\ discarded \subseteq Op /\ closes \in 0..MaxCloses[keeps]

LEMMA Parts ==
  ASSUME TypeOK
  PROVE  /\ stored \in Seq(Item) /\ chain \in [Box -> Seq(Change)] /\ call \in [Caller -> Call]
         /\ read \in [Box -> Seq(Seq(Item))] /\ keeps \in BOOLEAN /\ keeps \in Kinds
         /\ RestTyped
         /\ \A x \in Caller : call[x] \in Call /\ call[x].rest \in Seq(Op)
                                /\ (call[x].at = "idle" <=> call[x].rest = <<>>)
  BY BoxAssumption DEF TypeOK, RestTyped, Call

LEMMA CallParts ==
  ASSUME NEW c \in Call, NEW at \in {"next", "waiting", "readLate", "writeLate", "changing"}
  PROVE  /\ [c EXCEPT !.at = at] \in Call /\ [c EXCEPT !.at = at].at = at
         /\ [c EXCEPT !.at = at].rest = c.rest
  BY DEF Call

LEMMA IdleParts == IdleCall \in Call /\ IdleCall.at = "idle" /\ IdleCall.rest = <<>>
  BY DEF IdleCall, Call

LEMMA CurrentTyped ==
  ASSUME TypeOK, NEW x \in Caller, call[x].at # "idle"
  PROVE  Current(x) \in Op /\ call[x].rest # <<>>
<1>1. call[x].rest \in Seq(Op) /\ call[x].rest # <<>>
  BY Parts
<1>2. QED
  BY <1>1 DEF Current

LEMMA NobodyElse ==
  /\ Nobody \notin Caller /\ Op \subseteq Caller /\ Pass \subseteq Caller
  /\ \A x \in Caller : BoxOf[x] \in Box /\ (x \in Op \/ x \in Pass) /\ ~(x \in Op /\ x \in Pass)
  BY CallerAssumption, BoxAssumption DEF Caller

-----------------------------------------------------------------------------
(* A step of one caller *)

\* The chain after x's step to c: one more change if c waits for it.
Asks(x, c) ==
  \/ chain' = chain /\ c.at # "changing"
  \/ /\ c.at = "changing"
     /\ \E what \in {"add", "drop", "refuse"} :
          /\ chain' = [chain EXCEPT ![BoxOf[x]] =
                         Append(@, [what |-> what, op |-> Head(c.rest), wake |-> x])]
          /\ what = "drop" => Head(c.rest) \in Settled'

\* The requests after it: x's own is for its current operation, the others are old.
Asked(x, c) ==
  /\ \A r \in requests' : r.from # Nobody =>
       IF r.from = x THEN c.at = "waiting" /\ Head(c.rest) = r.op
       ELSE \E q \in requests : q.from = r.from /\ q.op = r.op
  /\ \A q, r \in requests' : q.from = r.from /\ q.from # Nobody => q = r

LEMMA MoveTypes ==
  ASSUME IInv, NEW x \in Caller, NEW c \in Call, call' = [call EXCEPT ![x] = c],
         c.at = "idle" <=> c.rest = <<>>,
         UNCHANGED <<keeps, stored, read>>, RestTyped', Asks(x, c)
  PROVE  TypeOK' /\ call'[x] = c /\ \A y \in Caller : y # x => call'[y] = call[y]
<1>1. /\ call \in [Caller -> Call] /\ chain \in [Box -> Seq(Change)] /\ TypeOK
      /\ \A y \in Caller : call[y].at = "idle" <=> call[y].rest = <<>>
  BY Parts DEF IInv
<1>2. call' \in [Caller -> Call] /\ call'[x] = c /\ \A y \in Caller : y # x => call'[y] = call[y]
  BY <1>1
<1>3. chain' \in [Box -> Seq(Change)]
  <2>1. CASE chain' = chain
    BY <1>1, <2>1
  <2>2. ASSUME c.at = "changing", NEW what \in {"add", "drop", "refuse"},
               chain' = [chain EXCEPT ![BoxOf[x]] =
                           Append(@, [what |-> what, op |-> Head(c.rest), wake |-> x])]
        PROVE  chain' \in [Box -> Seq(Change)]
    <3>1. c.rest \in Seq(Op) /\ c.rest # <<>>
      BY <2>2 DEF Call
    <3>2. Head(c.rest) \in Op
      BY <3>1
    <3> DEFINE change == [what |-> what, op |-> Head(c.rest), wake |-> x]
    <3>3. change \in Change
      BY <2>2, <3>2 DEF Change
    <3> HIDE DEF change
    <3>4. chain' = [chain EXCEPT ![BoxOf[x]] = Append(@, change)]
      BY <2>2 DEF change
    <3>5. BoxOf[x] \in Box /\ Append(chain[BoxOf[x]], change) \in Seq(Change)
      BY <1>1, <3>3, NobodyElse
    <3>6. QED
      BY <1>1, <3>4, <3>5
  <2>3. QED
    BY <2>1, <2>2 DEF Asks
<1>4. \A y \in Caller : call'[y].at = "idle" <=> call'[y].rest = <<>>
  BY <1>1, <1>2
<1>5. QED
  BY <1>1, <1>2, <1>3, <1>4 DEF TypeOK, RestTyped

LEMMA MoveRequested ==
  ASSUME IInv, NEW x \in Caller, NEW c \in Call, call'[x] = c, requests' \subseteq Request,
         \A y \in Caller : y # x => call'[y] = call[y], Asked(x, c)
  PROVE  Requested'
<1>1. ASSUME NEW r \in requests', r.from # Nobody
      PROVE  call'[r.from].at = "waiting" /\ Head(call'[r.from].rest) = r.op
  <2>1. r.from \in Caller
    BY <1>1 DEF Request
  <2>2. CASE r.from = x
    BY <1>1, <2>2 DEF Asked
  <2>3. CASE r.from # x
    <3>1. PICK q \in requests : q.from = r.from /\ q.op = r.op
      BY <1>1, <2>3 DEF Asked
    <3>2. call[r.from].at = "waiting" /\ Head(call[r.from].rest) = r.op
      BY <1>1, <3>1 DEF IInv, Requested, Current
    <3>3. QED
      BY <2>1, <2>3, <3>2
  <2>4. QED
    BY <2>2, <2>3
<1>2. QED
  BY <1>1 DEF Asked, Requested, Current

\* A chain that gains a change at most.
LEMMA ChainGrows ==
  ASSUME IInv, Grows, NEW e \in Box, NEW change,
         \/ chain' = chain
         \/ /\ chain' = [chain EXCEPT ![e] = Append(@, change)]
            /\ change.wake # Nobody =>
                 /\ change.wake \in Caller /\ call[change.wake].at # "changing"
                 /\ call'[change.wake].at = "changing"
            /\ change.what = "drop" => change.op \in Settled',
         \A y \in Caller : call[y].at = "changing" => call'[y].at = "changing"
  PROVE  Chained'
<1>1. chain \in [Box -> Seq(Change)] /\ Chained
  BY Parts DEF IInv
<1>2. ASSUME NEW b \in Box, NEW i \in 1..Len(chain[b])
      PROVE  /\ chain[b][i].wake # Nobody =>
                  /\ call[chain[b][i].wake].at = "changing"
                  /\ call'[chain[b][i].wake].at = "changing"
                  /\ \A j \in 1..Len(chain[b]) : chain[b][j].wake = chain[b][i].wake => j = i
             /\ chain[b][i].what = "drop" => chain[b][i].op \in Settled'
  <2>1. chain[b][i] \in Change
    BY <1>1
  <2>2. QED
    BY <1>1, <2>1 DEF Chained, Change, Grows
<1>3. CASE chain' = chain
  BY <1>2, <1>3 DEF Chained
<1>4. CASE chain' # chain
  <2>1. ASSUME NEW b \in Box, NEW i \in 1..Len(chain'[b])
        PROVE  /\ chain'[b][i].wake # Nobody =>
                    /\ call'[chain'[b][i].wake].at = "changing"
                    /\ \A j \in 1..Len(chain'[b]) : chain'[b][j].wake = chain'[b][i].wake => j = i
               /\ chain'[b][i].what = "drop" => chain'[b][i].op \in Settled'
    <3>1. CASE b # e
      <4>1. chain'[b] = chain[b]
        BY <1>1, <1>4, <3>1
      <4>2. QED
        BY <1>2, <2>1, <4>1
    <3>2. CASE b = e
      <4>1. chain'[b] = Append(chain[b], change) /\ chain[b] \in Seq(Change)
        BY <1>1, <1>4, <3>2
      <4> DEFINE s == chain[b]
                 n == Len(s)
      <4>2. /\ n \in Nat /\ Len(chain'[b]) = n + 1 /\ chain'[b][n + 1] = change
            /\ \A j \in 1..n : chain'[b][j] = s[j]
        BY <4>1
      <4>3. \A j \in 1..n : s[j].wake = change.wake => change.wake = Nobody
        BY <1>2, <1>4
      <4>4. \A j \in 1..n :
              /\ s[j].wake # Nobody =>
                   /\ call'[s[j].wake].at = "changing"
                   /\ \A k \in 1..n : s[k].wake = s[j].wake => k = j
              /\ s[j].what = "drop" => s[j].op \in Settled'
        BY <1>2
      <4> HIDE DEF s, n
      <4>5. \A j \in 1..Len(chain'[b]) : j \in 1..n \/ j = n + 1
        BY <4>2
      <4>6. CASE i = n + 1
        BY <1>4, <4>2, <4>3, <4>5, <4>6
      <4>7. CASE i \in 1..n
        BY <4>2, <4>3, <4>4, <4>5, <4>7
      <4>8. QED
        BY <2>1, <4>5, <4>6, <4>7
    <3>3. QED
      BY <3>1, <3>2
  <2>2. QED
    BY <2>1 DEF Chained
<1>5. QED
  BY <1>3, <1>4

LEMMA MoveChained ==
  ASSUME IInv, NEW x \in Caller, NEW c \in Call, call'[x] = c, call[x].at # "changing",
         \A y \in Caller : y # x => call'[y] = call[y], Asks(x, c), Grows
  PROVE  Chained'
<1>1. BoxOf[x] \in Box /\ \A y \in Caller : call[y].at = "changing" => call'[y].at = "changing"
  BY NobodyElse
<1>2. CASE chain' = chain
  BY <1>1, <1>2, ChainGrows
<1>3. ASSUME c.at = "changing", NEW what,
             chain' = [chain EXCEPT ![BoxOf[x]] =
                         Append(@, [what |-> what, op |-> Head(c.rest), wake |-> x])],
             what = "drop" => Head(c.rest) \in Settled'
      PROVE  Chained'
  <2> DEFINE change == [what |-> what, op |-> Head(c.rest), wake |-> x]
  <2>1. change.what = what /\ change.op = Head(c.rest) /\ change.wake = x
    OBVIOUS
  <2>2. chain' = [chain EXCEPT ![BoxOf[x]] = Append(@, change)]
    BY <1>3
  <2>3. /\ change.wake \in Caller /\ call[change.wake].at # "changing"
        /\ call'[change.wake].at = "changing"
        /\ change.what = "drop" => change.op \in Settled'
    BY <1>3, <2>1
  <2> HIDE DEF change
  <2>4. QED
    BY <1>1, <2>2, <2>3, ChainGrows
<1>4. QED
  BY <1>2, <1>3 DEF Asks

\* What x's step to c has to show for what it is going to send, and of whom x is.
Sends(x, c) ==
  /\ c.at \in {"readLate", "writeLate"} => late'[Head(c.rest)] # "none"
  /\ x \in Op => c.rest \in {<<>>, <<x>>} /\ (x \notin entered' => c.at = "idle")
  /\ ~keeps => IF x \in Op THEN c.at \in {"idle", "changing"}
               ELSE \A i \in 1..Len(c.rest) : InQueue(stored, c.rest[i]) \/ c.rest[i] \in Settled'

LEMMA MoveRest ==
  ASSUME IInv, NEW x \in Caller, NEW c \in Call, call'[x] = c,
         \A y \in Caller : y # x => call'[y] = call[y],
         UNCHANGED <<keeps, stored, read>>, entered \subseteq entered',
         Asks(x, c), Grows, Sends(x, c)
  PROVE  ReadStands' /\ Entering' /\ LateKnown' /\ PassHolds'
<1>1. ReadStands'
  <2>1. \A b \in Box : chain[b] # <<>> => chain'[b] # <<>>
    <3>1. chain \in [Box -> Seq(Change)] /\ BoxOf[x] \in Box
      BY Parts, NobodyElse DEF IInv
    <3>2. ASSUME NEW s \in Seq(Change), NEW e
          PROVE  Append(s, e) # <<>>
      OBVIOUS
    <3>3. QED
      BY <3>1, <3>2 DEF Asks
  <2>2. QED
    BY <2>1 DEF IInv, ReadStands
<1>2. Entering'
  BY NobodyElse DEF IInv, Entering, Sends
<1>3. LateKnown'
  <2>1. ASSUME NEW y \in Caller, y # x, call[y].at \in {"readLate", "writeLate"}
        PROVE  late'[Current(y)] # "none"
    <3>1. Current(y) \in Op
      BY <2>1, CurrentTyped DEF IInv
    <3>2. QED
      BY <2>1, <3>1 DEF IInv, LateKnown, Grows
  <2>2. QED
    BY <2>1 DEF LateKnown, Current, Sends
<1>4. PassHolds'
  <2>1. ASSUME ~keeps, NEW y \in Pass, y # x, NEW i \in 1..Len(call[y].rest)
        PROVE  InQueue(stored, call[y].rest[i]) \/ call[y].rest[i] \in Settled'
    <3>1. call[y].rest[i] \in Op
      BY <2>1, Parts, NobodyElse DEF IInv
    <3>2. QED
      BY <2>1, <3>1 DEF IInv, PassHolds, Grows
  <2>2. ASSUME ~keeps, NEW o \in Op
        PROVE  call'[o].at \in {"idle", "changing"}
    BY <2>2, NobodyElse DEF IInv, PassHolds, Sends
  <2>3. QED
    BY <2>1, <2>2, NobodyElse DEF PassHolds, Sends
<1>5. QED
  BY <1>1, <1>2, <1>3, <1>4

\* One caller's step keeps the invariant.
LEMMA CallerMoves ==
  ASSUME IInv, NEW x \in Caller, NEW c \in Call, call' = [call EXCEPT ![x] = c],
         call[x].at # "changing", c.at = "idle" <=> c.rest = <<>>,
         UNCHANGED <<keeps, stored, read>>, entered \subseteq entered', RestTyped',
         Asks(x, c), Asked(x, c), Grows, Sends(x, c)
  PROVE  IInv'
<1>1. TypeOK' /\ call'[x] = c /\ \A y \in Caller : y # x => call'[y] = call[y]
  BY MoveTypes
<1>2. Requested'
  BY <1>1, MoveRequested DEF RestTyped
<1>3. Chained'
  BY <1>1, MoveChained
<1>4. ReadStands' /\ Entering' /\ LateKnown' /\ PassHolds'
  BY <1>1, MoveRest
<1>5. QED
  BY <1>1, <1>2, <1>3, <1>4 DEF IInv

\* A step no caller notices.
LEMMA NoneMoves ==
  ASSUME IInv, UNCHANGED <<keeps, stored, read, chain, call, entered>>, RestTyped', Grows,
         \A r \in requests' : r.from # Nobody => \E q \in requests : q.from = r.from /\ q.op = r.op,
         \A q, r \in requests' : q.from = r.from /\ q.from # Nobody => q = r
  PROVE  IInv'
<1>1. TypeOK'
  BY DEF IInv, TypeOK, RestTyped
<1>2. Requested'
  BY DEF IInv, Requested, Current
<1>3. Chained'
  <2>1. chain \in [Box -> Seq(Change)]
    BY Parts DEF IInv
  <2>2. ASSUME NEW b \in Box, NEW i \in 1..Len(chain[b])
        PROVE  chain[b][i].what = "drop" => chain[b][i].op \in Settled'
    <3>1. chain[b][i] \in Change
      BY <2>1
    <3>2. chain[b][i].op \in Op
      BY <3>1 DEF Change
    <3>3. QED
      BY <3>2 DEF IInv, Chained, Grows
  <2>3. QED
    BY <2>2 DEF IInv, Chained
<1>4. ReadStands' /\ Entering'
  BY DEF IInv, ReadStands, Entering
<1>5. LateKnown'
  <2>1. \A x \in Caller : call[x].at # "idle" => Current(x) \in Op
    BY CurrentTyped DEF IInv
  <2>2. QED
    BY <2>1 DEF IInv, LateKnown, Current, Grows
<1>6. PassHolds'
  <2>1. \A x \in Pass : \A i \in 1..Len(call[x].rest) : call[x].rest[i] \in Op
    BY Parts, NobodyElse DEF IInv
  <2>2. QED
    BY <2>1 DEF IInv, PassHolds, Grows
<1>7. QED
  BY <1>1, <1>2, <1>3, <1>4, <1>5, <1>6 DEF IInv

-----------------------------------------------------------------------------
(* Asking, sending and hearing *)

\* x has no request left, and no one has a new one.
LEMMA AskedNone ==
  ASSUME IInv, NEW x \in Caller, NEW c,
         \A r \in requests' : r.from # Nobody => r \in requests /\ r.from # x
  PROVE  Asked(x, c)
  BY DEF Asked, IInv, Requested

LEMMA NotWaiting ==
  ASSUME IInv, NEW x \in Caller, call[x].at # "waiting", NEW r \in requests
  PROVE  r.from # x
  BY NobodyElse DEF IInv, Requested

LEMMA AskedOne ==
  ASSUME IInv, NEW x \in Caller, call[x].at # "waiting", NEW c, c.at = "waiting",
         requests' = requests \cup {Sent(Head(c.rest), x)}
  PROVE  Asked(x, c)
<1>1. \A r \in requests : r.from # x
  BY NotWaiting
<1>2. Sent(Head(c.rest), x).from = x /\ Sent(Head(c.rest), x).op = Head(c.rest)
  BY DEF Sent
<1>3. QED
  BY <1>1, <1>2 DEF Asked, IInv, Requested

\* A caller under way stops, or goes on with the same operation.
LEMMA Continues ==
  ASSUME IInv, NEW x \in Caller, NEW c \in Call, call' = [call EXCEPT ![x] = c],
         call[x].at \notin {"idle", "changing"},
         c = IdleCall \/ (c.rest = call[x].rest /\ c.at # "idle"),
         UNCHANGED <<keeps, stored, read, entered>>, RestTyped',
         Asks(x, c), Asked(x, c), Grows,
         c.at \in {"readLate", "writeLate"} => late'[Current(x)] # "none"
  PROVE  IInv'
<1>1. /\ call[x].rest \in Seq(Op) /\ call[x].rest # <<>> /\ TypeOK
  BY Parts DEF IInv
<1>2. c.at = "idle" <=> c.rest = <<>>
  BY <1>1, IdleParts
<1>3. Sends(x, c)
  <2>1. CASE c = IdleCall
    <3>1. c.at = "idle" /\ c.rest = <<>> /\ Len(c.rest) = 0
      BY <2>1, IdleParts
    <3>2. QED
      BY <3>1 DEF Sends
  <2>2. CASE c.rest = call[x].rest /\ c.at # "idle"
    <3>1. x \in Op => x \in entered /\ c.rest \in {<<>>, <<x>>} /\ keeps
      BY <2>2 DEF IInv, Entering, PassHolds
    <3>2. ASSUME ~keeps, x \in Pass, NEW i \in 1..Len(c.rest)
          PROVE  InQueue(stored, c.rest[i]) \/ c.rest[i] \in Settled'
      BY <1>1, <2>2, <3>2 DEF IInv, PassHolds, Grows
    <3>3. QED
      BY <2>2, <3>1, <3>2, NobodyElse DEF Sends, Current
  <2>3. QED
    BY <2>1, <2>2
<1>4. QED
  BY <1>2, <1>3, CallerMoves

LEMMA StopContinues ==
  ASSUME IInv, NEW x \in Caller, call[x].at \notin {"idle", "changing"},
         Stop(x), UNCHANGED <<keeps, stored, read, entered, chain>>, RestTyped', Grows,
         \A r \in requests' : r.from # Nobody => r \in requests /\ r.from # x
  PROVE  IInv'
<1>1. Asks(x, IdleCall) /\ Asked(x, IdleCall)
  BY IdleParts, AskedNone DEF Asks
<1>2. QED
  BY <1>1, IdleParts, Continues DEF Stop

LEMMA AskContinues ==
  ASSUME IInv, NEW x \in Caller, call[x].at \notin {"idle", "changing"},
         NEW what \in {"add", "drop", "refuse"}, Ask(x, what),
         what = "drop" => Current(x) \in Settled',
         UNCHANGED <<keeps, stored, read, entered>>, RestTyped', Grows,
         \A r \in requests' : r.from # Nobody => r \in requests /\ r.from # x
  PROVE  IInv'
<1> DEFINE c == [call[x] EXCEPT !.at = "changing"]
<1>1. call \in [Caller -> Call] /\ call[x] \in Call
  BY Parts DEF IInv
<1>2. c \in Call /\ c.at = "changing" /\ c.rest = call[x].rest
  BY <1>1, CallParts
<1>3. call' = [call EXCEPT ![x] = c]
  BY <1>1 DEF Ask
<1> HIDE DEF c
<1>4. Asks(x, c)
  BY <1>2 DEF Asks, Ask, Current
<1>5. Asked(x, c)
  BY AskedNone
<1>6. QED
  BY <1>2, <1>3, <1>4, <1>5, Continues

LEMMA LateContinues ==
  ASSUME IInv, NEW x \in Caller, call[x].at \notin {"idle", "changing"},
         NEW c \in Call, c.at \in {"readLate", "writeLate"}, c.rest = call[x].rest,
         call' = [call EXCEPT ![x] = c], late'[Current(x)] # "none",
         UNCHANGED <<keeps, stored, read, entered, chain>>, RestTyped', Grows,
         \A r \in requests' : r.from # Nobody => r \in requests /\ r.from # x
  PROVE  IInv'
<1>1. Asks(x, c) /\ Asked(x, c)
  BY AskedNone DEF Asks
<1>2. QED
  BY <1>1, Continues

LEMMA SettleContinues ==
  ASSUME IInv, NEW x \in Caller, call[x].at \notin {"idle", "changing"},
         Settle(x), Current(x) \in Settled',
         UNCHANGED <<keeps, stored, read, entered>>, RestTyped', Grows,
         \A r \in requests' : r.from # Nobody => r \in requests /\ r.from # x
  PROVE  IInv'
<1>1. CASE x \in Pass
  BY <1>1, AskContinues DEF Settle
<1>2. CASE x \notin Pass
  BY <1>2, StopContinues DEF Settle
<1>3. QED
  BY <1>1, <1>2

\* An answer reaches the caller that waits for it, or no one.
LEMMA HearKeeps ==
  ASSUME IInv, NEW r \in requests, requests' = requests \ {r},
         NEW answer \in {"applied", "late", "refused", "fault"}, Hear(r.from, answer),
         answer = "applied" => r.op \in Settled',
         answer = "late" => late'[r.op] # "none",
         UNCHANGED entered, RestTyped', Grows
  PROVE  IInv'
<1>1. r.from \in Caller \cup {Nobody}
  BY Parts DEF IInv, RestTyped, Request
<1>2. UNCHANGED <<keeps, stored, lateKept, read>>
  BY DEF Hear
<1>3. CASE r.from = Nobody
  <2>1. UNCHANGED <<call, chain>>
    BY <1>3 DEF Hear
  <2>2. \A q, s \in requests' : q.from = s.from /\ q.from # Nobody => q = s
    BY DEF IInv, Requested
  <2>3. QED
    BY <1>2, <2>1, <2>2, NoneMoves
<1>4. ASSUME NEW x \in Caller, r.from = x
      PROVE  IInv'
  <2>1. x # Nobody /\ call[x].at = "waiting" /\ Current(x) = r.op
    BY <1>4, NobodyElse DEF IInv, Requested
  <2>2. \A q \in requests' : q.from # Nobody => q \in requests /\ q.from # x
    BY <1>4, <2>1 DEF IInv, Requested
  <2>3. CASE answer = "applied"
    <3>1. Settle(x)
      BY <1>4, <2>1, <2>3 DEF Hear
    <3>2. QED
      BY <1>2, <2>1, <2>2, <2>3, <3>1, SettleContinues
  <2>4. CASE answer = "late"
    <3> DEFINE c == [call[x] EXCEPT !.at = "readLate"]
    <3>1. call \in [Caller -> Call] /\ call[x] \in Call
      BY Parts DEF IInv
    <3>2. c \in Call /\ c.at = "readLate" /\ c.rest = call[x].rest
      BY <3>1, CallParts
    <3>3. call' = [call EXCEPT ![x] = c] /\ UNCHANGED chain
      BY <1>4, <2>1, <2>4, <3>1 DEF Hear
    <3> HIDE DEF c
    <3>4. QED
      BY <1>2, <2>1, <2>2, <2>4, <3>2, <3>3, LateContinues
  <2>5. CASE answer = "refused"
    <3>1. HearRefusal(x)
      BY <1>4, <2>1, <2>5 DEF Hear
    <3>2. QED
      BY <1>2, <2>1, <2>2, <3>1, AskContinues, StopContinues DEF HearRefusal
  <2>6. CASE answer = "fault"
    <3>1. Stop(x) /\ UNCHANGED chain
      BY <1>4, <2>1, <2>6 DEF Hear, HearFault
    <3>2. QED
      BY <1>2, <2>1, <2>2, <3>1, StopContinues
  <2>7. QED
    BY <2>3, <2>4, <2>5, <2>6
<1>5. QED
  BY <1>1, <1>3, <1>4


-----------------------------------------------------------------------------
(* Steps of the person, the passes and the late receipts *)

\* Nothing the rest is about changes.
LEMMA NothingElse ==
  ASSUME IInv, UNCHANGED <<keeps, server, discarded, closes>>
  PROVE  /\ lateKept' \subseteq Op /\ requests' \subseteq Request /\ entered' \subseteq Op => RestTyped'
         /\ Grows
<1>1. RestTyped
  BY Parts DEF IInv
<1>2. QED
  BY <1>1 DEF RestTyped, Server!OnceTypeOK, Server!LateStatus, server, Grows, Settled

LEMMA EnqueueKeeps ==
  ASSUME IInv, NEW o \in Op, Enqueue(o)
  PROVE  IInv'
<1> DEFINE c == [at |-> "changing", rest |-> <<o>>, seen |-> {}]
<1>1. o \in Caller /\ call[o].at = "idle"
  BY NobodyElse DEF IInv, Entering, Enqueue
<1>2. /\ c \in Call /\ c.at = "changing" /\ c.rest = <<o>> /\ c.rest # <<>> /\ Head(c.rest) = o
      /\ Len(c.rest) = 1 /\ o \in entered'
  BY DEF Call, Enqueue
<1>3. call' = [call EXCEPT ![o] = c] /\ UNCHANGED <<keeps, stored, read, requests>>
  BY DEF Enqueue
<1>4. Asks(o, c)
  BY <1>2 DEF Asks, Enqueue
<1> HIDE DEF c
<1>5. Asked(o, c)
  BY <1>1, <1>3, AskedNone, NotWaiting
<1>6. RestTyped' /\ Grows
  BY NothingElse, Parts DEF IInv, RestTyped, Enqueue
<1>7. Sends(o, c)
  BY <1>2 DEF Sends
<1>8. QED
  BY <1>1, <1>2, <1>3, <1>4, <1>5, <1>6, <1>7, CallerMoves DEF Enqueue

LEMMA SendEnteredKeeps ==
  ASSUME IInv, NEW o \in Op, SendEntered(o)
  PROVE  IInv'
<1> DEFINE c == [at |-> "waiting", rest |-> <<o>>, seen |-> {}]
<1>1. o \in Caller /\ call[o].at = "idle"
  BY NobodyElse DEF IInv, Entering, SendEntered
<1>2. /\ c \in Call /\ c.at = "waiting" /\ c.rest = <<o>> /\ c.rest # <<>> /\ Head(c.rest) = o
      /\ Len(c.rest) = 1 /\ o \in entered' /\ Sent(o, o) \in Request
  BY <1>1 DEF Call, SendEntered, Sent, Request
<1>3. /\ call' = [call EXCEPT ![o] = c] /\ UNCHANGED <<keeps, stored, read, chain, lateKept>>
      /\ requests' = requests \cup {Sent(o, o)} /\ keeps
  BY DEF SendEntered, device
<1> HIDE DEF c
<1>4. Asks(o, c) /\ Asked(o, c)
  BY <1>1, <1>2, <1>3, AskedOne DEF Asks
<1>5. RestTyped' /\ Grows
  BY <1>2, <1>3, NothingElse, Parts DEF IInv, RestTyped, SendEntered
<1>6. Sends(o, c)
  BY <1>2, <1>3 DEF Sends
<1>7. QED
  BY <1>1, <1>2, <1>3, <1>4, <1>5, <1>6, CallerMoves DEF SendEntered

\* What is due is stored, and typed.
LEMMA DueStored ==
  ASSUME TypeOK, NEW rest \in Due
  PROVE  rest \in Seq(Op) /\ \A k \in 1..Len(rest) : InQueue(stored, rest[k])
<1> DEFINE waits == {i \in DOMAIN stored : ~stored[i].refused}
           n == Cardinality(waits)
<1>1. PICK s \in [1..n -> waits] : rest = [k \in DOMAIN s |-> stored[s[k]].op]
  BY DEF Due
<1>2. n \in Nat
  <2>1. stored \in Seq(Item)
    BY Parts
  <2>2. IsFiniteSet(1..Len(stored)) /\ waits \subseteq 1..Len(stored)
    BY <2>1, FS_Interval
  <2>3. QED
    BY <2>2, FS_Subset, FS_CardinalityType
<1> HIDE DEF n
<1>3. \A k \in 1..n : s[k] \in DOMAIN stored /\ stored[s[k]] \in Item
  BY Parts
<1>4. rest \in [1..n -> Op] /\ \A k \in 1..n : rest[k] = stored[s[k]].op
  BY <1>1, <1>3 DEF Item
<1>5. rest \in Seq(Op) /\ Len(rest) = n
  BY <1>2, <1>4
<1>6. QED
  BY <1>3, <1>4, <1>5 DEF InQueue

LEMMA StartFlushKeeps ==
  ASSUME IInv, NEW p \in Pass, StartFlush(p)
  PROVE  IInv'
<1>1. PICK rest \in Due : rest # <<>> /\
        call' = [call EXCEPT ![p] = [at |-> "next", seen |-> {}, rest |-> rest]]
  BY DEF StartFlush
<1> DEFINE c == [at |-> "next", seen |-> {}, rest |-> rest]
<1>2. rest \in Seq(Op) /\ \A k \in 1..Len(rest) : InQueue(stored, rest[k])
  BY DueStored DEF IInv
<1>3. c \in Call /\ c.at = "next" /\ c.rest = rest
  BY <1>2 DEF Call
<1>4. p \in Caller /\ p \notin Op /\ call[p].at = "idle"
  BY NobodyElse DEF StartFlush
<1>5. UNCHANGED <<keeps, stored, read, chain, lateKept, requests, server, history>>
  BY DEF StartFlush, device
<1>6. call' = [call EXCEPT ![p] = c]
  BY <1>1
<1> HIDE DEF c
<1>7. Asks(p, c) /\ Asked(p, c)
  BY <1>3, <1>4, <1>5, AskedNone, NotWaiting DEF Asks
<1>8. RestTyped' /\ Grows
  BY <1>5, NothingElse, Parts DEF IInv, RestTyped, history
<1>9. Sends(p, c)
  BY <1>2, <1>3, <1>4 DEF Sends
<1>10. QED
  BY <1>1, <1>3, <1>4, <1>5, <1>6, <1>7, <1>8, <1>9, CallerMoves DEF history

LEMMA SendNextKeeps ==
  ASSUME IInv, NEW p \in Pass, SendNext(p)
  PROVE  IInv'
<1> DEFINE c == [call[p] EXCEPT !.at = "waiting"]
<1>1. call \in [Caller -> Call] /\ p \in Caller /\ call[p] \in Call /\ call[p].at = "next"
  BY Parts, NobodyElse DEF IInv, SendNext
<1>2. c \in Call /\ c.at = "waiting" /\ c.rest = call[p].rest
  BY <1>1, CallParts
<1>3. call' = [call EXCEPT ![p] = c]
  BY <1>1 DEF SendNext
<1> HIDE DEF c
<1>4. /\ UNCHANGED <<keeps, stored, read, chain, lateKept, server, history>>
      /\ requests' = requests \cup {Sent(Head(c.rest), p)} /\ Current(p) = Head(c.rest)
  BY <1>2 DEF SendNext, device, Current
<1>5. Sent(Head(c.rest), p) \in Request
  BY <1>1, <1>4, CurrentTyped DEF Sent, Request, IInv
<1>6. Asks(p, c) /\ Asked(p, c)
  BY <1>1, <1>2, <1>4, AskedOne DEF Asks
<1>7. RestTyped' /\ Grows
  BY <1>4, <1>5, NothingElse, Parts DEF IInv, RestTyped, history
<1>8. QED
  BY <1>1, <1>2, <1>3, <1>4, <1>6, <1>7, Continues DEF history

LEMMA NoAnswerKeeps ==
  ASSUME IInv, NEW x \in Caller, NoAnswer(x)
  PROVE  IInv'
<1>1. PICK r \in requests :
        /\ r.from = x /\ x # Nobody
        /\ \/ r.at = "sent" /\ requests' = requests \ {r}
           \/ requests' = (requests \ {r}) \cup {[r EXCEPT !.from = Nobody]}
        /\ IF x \in Op THEN Ask(x, "add") ELSE Stop(x) /\ UNCHANGED chain
        /\ UNCHANGED <<keeps, stored, lateKept, read, server, history>>
  BY DEF NoAnswer
<1>2. call[x].at = "waiting" /\ RestTyped
  BY <1>1, Parts DEF IInv, Requested
<1>3. [r EXCEPT !.from = Nobody] \in Request /\ [r EXCEPT !.from = Nobody].from = Nobody
  BY <1>2 DEF RestTyped, Request
<1>4. requests' \subseteq Request /\ \A q \in requests' : q.from # Nobody => q \in requests /\ q # r
  BY <1>1, <1>2, <1>3 DEF RestTyped
<1>5. \A q \in requests' : q.from # Nobody => q \in requests /\ q.from # x
  BY <1>1, <1>4 DEF IInv, Requested
<1>6. RestTyped' /\ Grows
  BY <1>1, <1>2, <1>4, NothingElse DEF RestTyped, history
<1>7. QED
  BY <1>1, <1>2, <1>5, <1>6, AskContinues, StopContinues DEF history

LEMMA ReadLateKeeps ==
  ASSUME IInv, NEW x \in Caller, ReadLate(x)
  PROVE  IInv'
<1>1. /\ call[x].at = "readLate" /\ UNCHANGED <<keeps, stored, lateKept, read, requests, server, history>>
      /\ RestTyped /\ call \in [Caller -> Call] /\ call[x] \in Call
  BY Parts DEF IInv, ReadLate
<1>2. \A r \in requests' : r.from # Nobody => r \in requests /\ r.from # x
  BY <1>1, NotWaiting
<1>3. RestTyped' /\ Grows
  BY <1>1, NothingElse DEF RestTyped, history
<1>4. Current(x) \in Op /\ late[Current(x)] # "none"
  BY <1>1, CurrentTyped DEF IInv, LateKnown
<1>5. Current(x) \in Settled'
  BY <1>3, <1>4 DEF Settled, Grows
<1>6. CASE Current(x) \in lateKept
  <2>1. Settle(x)
    BY <1>6 DEF ReadLate
  <2>2. QED
    BY <1>1, <1>2, <1>3, <1>5, <2>1, SettleContinues DEF history
<1>7. CASE Current(x) \notin lateKept
  <2> DEFINE c == [call[x] EXCEPT !.at = "writeLate", !.seen = lateKept]
  <2>1. c \in Call /\ c.at = "writeLate" /\ c.rest = call[x].rest
    BY <1>1 DEF Call, RestTyped
  <2>2. call' = [call EXCEPT ![x] = c] /\ UNCHANGED chain
    BY <1>1, <1>7 DEF ReadLate
  <2> HIDE DEF c
  <2>3. late'[Current(x)] # "none"
    BY <1>3, <1>4 DEF Grows
  <2>4. QED
    BY <1>1, <1>2, <1>3, <2>1, <2>2, <2>3, LateContinues DEF history
<1>8. QED
  BY <1>6, <1>7

LEMMA WriteLateKeeps ==
  ASSUME IInv, NEW x \in Caller, WriteLate(x)
  PROVE  IInv'
<1>1. /\ call[x].at = "writeLate" /\ UNCHANGED <<keeps, stored, read, requests, server, history>>
      /\ RestTyped /\ call[x] \in Call /\ Settle(x) /\ lateKept' = call[x].seen \cup {Current(x)}
  BY Parts DEF IInv, WriteLate
<1>2. \A r \in requests' : r.from # Nobody => r \in requests /\ r.from # x
  BY <1>1, NotWaiting
<1>3. Current(x) \in Op /\ late[Current(x)] # "none"
  BY <1>1, CurrentTyped DEF IInv, LateKnown
<1>4. lateKept' \subseteq Op
  BY <1>1, <1>3 DEF Call
<1>5. RestTyped' /\ Grows
  BY <1>1, <1>4, NothingElse DEF RestTyped, history
<1>6. Current(x) \in Settled'
  BY <1>3, <1>5 DEF Settled, Grows
<1>7. QED
  BY <1>1, <1>2, <1>5, <1>6, SettleContinues DEF history


-----------------------------------------------------------------------------
(* Steps of the API and of the administrators *)

LEMMA AppliesGrows ==
  ASSUME IInv, NEW o \in Op, Server!OnceApply(o), UNCHANGED discarded
  PROVE  Server!OnceTypeOK' /\ Grows /\ o \in Settled'
  BY Parts DEF IInv, RestTyped, Server!OnceApply, Server!OnceTypeOK, Server!LateStatus, Grows, Settled

LEMMA KeepsGrows ==
  ASSUME IInv, NEW o \in Op, Server!OnceKeep(o), UNCHANGED discarded
  PROVE  Server!OnceTypeOK' /\ Grows /\ late'[o] # "none"
  BY Parts DEF IInv, RestTyped, Server!OnceKeep, Server!OnceTypeOK, Server!LateStatus, Grows, Settled

LEMMA AnswerKeeps ==
  ASSUME IInv, NEW r \in requests, NEW answer \in {"applied", "late", "refused", "fault"},
         Answer(r, answer), Server!OnceTypeOK', Grows,
         answer = "applied" => r.op \in Settled',
         answer = "late" => late'[r.op] # "none"
  PROVE  IInv'
<1>1. /\ requests' = requests \ {r} /\ Hear(r.from, answer) /\ UNCHANGED history
      /\ UNCHANGED <<lateKept, keeps>>
  BY DEF Answer, Hear
<1>2. RestTyped'
  BY <1>1, Parts DEF IInv, RestTyped, history
<1>3. QED
  BY <1>1, <1>2, HearKeeps DEF history

LEMMA ServeKeeps ==
  ASSUME IInv, NEW r \in requests, Serve(r) \/ ServerFaults(r)
  PROVE  IInv'
<1>1. r \in Request /\ r.op \in Op /\ RestTyped
  BY Parts DEF IInv, RestTyped, Request
<1>2. ASSUME UNCHANGED <<server, discarded>>
      PROVE  Server!OnceTypeOK' /\ Grows
  BY <1>1, <1>2 DEF RestTyped, server, Server!OnceTypeOK, Server!LateStatus, Grows, Settled
<1>3. ASSUME NEW answer, Answer(r, answer)
      PROVE  UNCHANGED discarded
  BY <1>3 DEF Answer, history
<1>4. CASE ServerReads(r)
  <2>1. CASE r.op \in applied /\ Answer(r, "applied") /\ UNCHANGED server
    <3>1. Server!OnceTypeOK' /\ Grows /\ r.op \in Settled'
      BY <1>1, <1>2, <1>3, <2>1 DEF Settled, Grows
    <3>2. QED
      BY <2>1, <3>1, AnswerKeeps
  <2>2. CASE late[r.op] # "none" /\ Answer(r, "late") /\ UNCHANGED server
    <3>1. Server!OnceTypeOK' /\ Grows /\ late'[r.op] # "none"
      BY <1>1, <1>2, <1>3, <2>2 DEF Grows
    <3>2. QED
      BY <2>2, <3>1, AnswerKeeps
  <2>3. CASE Server!OnceKeep(r.op) /\ Answer(r, "late")
    <3>1. Server!OnceTypeOK' /\ Grows /\ late'[r.op] # "none"
      BY <1>1, <1>3, <2>3, KeepsGrows
    <3>2. QED
      BY <2>3, <3>1, AnswerKeeps
  <2>4. CASE /\ requests' = (requests \ {r}) \cup {[r EXCEPT !.at = "open"]}
             /\ UNCHANGED <<device, call, server, history>>
    <3> DEFINE s == [r EXCEPT !.at = "open"]
    <3>1. s \in Request /\ s.from = r.from /\ s.op = r.op
      BY <1>1 DEF Request
    <3> HIDE DEF s
    <3>2. requests' = (requests \ {r}) \cup {s}
      BY <2>4 DEF s
    <3>3. /\ \A q \in requests' : q.from # Nobody => \E t \in requests : t.from = q.from /\ t.op = q.op
          /\ \A q, t \in requests' : q.from = t.from /\ q.from # Nobody => q = t
      BY <3>1, <3>2 DEF IInv, Requested
    <3>4. RestTyped' /\ Grows
      BY <1>1, <1>2, <2>4, <3>1, <3>2 DEF RestTyped, history, device
    <3>5. QED
      BY <2>4, <3>3, <3>4, NoneMoves DEF device, history
  <2>5. QED
    BY <1>4, <2>1, <2>2, <2>3, <2>4 DEF ServerReads
<1>5. CASE ServerRuns(r)
  <2>1. Server!OnceApply(r.op) /\ Answer(r, "applied")
    BY <1>5 DEF ServerRuns
  <2>2. Server!OnceTypeOK' /\ Grows /\ r.op \in Settled'
    BY <1>1, <1>3, <2>1, AppliesGrows
  <2>3. QED
    BY <2>1, <2>2, AnswerKeeps
<1>6. ASSUME NEW answer \in {"refused", "fault"}, Answer(r, answer), UNCHANGED server
      PROVE  IInv'
  BY <1>2, <1>3, <1>6, AnswerKeeps
<1>7. QED
  BY <1>4, <1>5, <1>6 DEF Serve, ServerRefuses, ServerFaults

LEMMA AdministratorKeeps ==
  ASSUME IInv, AdministratorActs
  PROVE  IInv'
<1>1. UNCHANGED <<device, call, requests, history>> /\ RestTyped
  BY Parts DEF IInv, AdministratorActs
<1>2. Server!OnceTypeOK' /\ Grows
  <2>1. CASE Server!OnceCloseOrReopen
    BY <1>1, <2>1 DEF RestTyped, Server!OnceCloseOrReopen, Server!OnceTypeOK, Server!LateStatus,
       Grows, Settled, history
  <2>2. CASE \E o \in Op : Server!OnceApply(o)
    BY <1>1, <2>2, AppliesGrows DEF history
  <2>3. QED
    BY <2>1, <2>2 DEF AdministratorActs
<1>3. RestTyped'
  BY <1>1, <1>2 DEF RestTyped, history, device
<1>4. \A q, r \in requests' : q.from = r.from /\ q.from # Nobody => q = r
  BY <1>1 DEF IInv, Requested
<1>5. QED
  BY <1>1, <1>2, <1>3, <1>4, NoneMoves DEF device, history

LEMMA DiscardKeeps ==
  ASSUME IInv, NEW o \in Op, NEW b \in Box, Discard(o, b)
  PROVE  IInv'
<1> DEFINE change == [what |-> "drop", op |-> o, wake |-> Nobody]
<1>1. /\ discarded' = discarded \cup {o}
      /\ UNCHANGED <<keeps, stored, lateKept, read, call, requests, server, entered, closes>>
      /\ TypeOK /\ RestTyped /\ chain \in [Box -> Seq(Change)]
  BY Parts DEF IInv, Discard
<1>2. change \in Change /\ change.wake = Nobody /\ change.op = o
  BY DEF Change
<1>3. chain' = [chain EXCEPT ![b] = Append(@, change)]
  BY DEF Discard
<1> HIDE DEF change
<1>4. Grows /\ o \in Settled'
  BY <1>1 DEF Grows, Settled, server
<1>5. chain' \in [Box -> Seq(Change)] /\ \A d \in Box : chain[d] # <<>> => chain'[d] # <<>>
  <2>1. Append(chain[b], change) \in Seq(Change) /\ Append(chain[b], change) # <<>>
    BY <1>1, <1>2
  <2>2. QED
    BY <1>1, <1>3, <2>1
<1>6. TypeOK'
  BY <1>1, <1>5 DEF TypeOK, Server!OnceTypeOK, Server!LateStatus, server
<1>7. Requested' /\ Entering'
  BY <1>1 DEF IInv, Requested, Entering, Current
<1>8. Chained'
  BY <1>1, <1>2, <1>3, <1>4, ChainGrows
<1>9. ReadStands'
  BY <1>1, <1>5 DEF IInv, ReadStands
<1>10. LateKnown'
  BY <1>1 DEF IInv, LateKnown, Current, server
<1>11. PassHolds'
  <2>1. \A x \in Pass : \A i \in 1..Len(call[x].rest) : call[x].rest[i] \in Op
    BY Parts, NobodyElse DEF IInv
  <2>2. QED
    BY <1>1, <1>4, <2>1 DEF IInv, PassHolds, Grows
<1>12. QED
  BY <1>6, <1>7, <1>8, <1>9, <1>10, <1>11 DEF IInv


-----------------------------------------------------------------------------
(* The list *)

\* Without takes out one item at most: the operation's own.
LEMMA WithoutParts ==
  ASSUME NEW list \in Seq(Item), NEW o \in Op, InQueue(list, o)
  PROVE  /\ Without(list, o) \in Seq(Item)
         /\ \A e \in Op : e # o /\ InQueue(list, e) => InQueue(Without(list, o), e)
<1> DEFINE k == CHOOSE j \in DOMAIN list : list[j].op = o
           n == Len(list)
<1>1. k \in DOMAIN list /\ list[k].op = o
  BY DEF InQueue
<1>2. n \in Nat /\ k \in 1..n /\ \A j \in 1..n : list[j] \in Item
  BY <1>1
<1>3. Without(list, o) = [j \in 1..n - 1 |-> list[IF j < k THEN j ELSE j + 1]]
  BY DEF Without
<1> HIDE DEF k, n
<1>4. Without(list, o) \in [1..n - 1 -> Item] /\ n - 1 \in Nat
  BY <1>2, <1>3
<1>5. Without(list, o) \in Seq(Item)
  BY <1>4
<1>6. ASSUME NEW e \in Op, e # o, NEW j \in 1..n, list[j].op = e
      PROVE  InQueue(Without(list, o), e)
  <2>1. j # k
    BY <1>1, <1>6
  <2>2. CASE j < k
    <3>1. j \in 1..n - 1 /\ Without(list, o)[j] = list[j]
      BY <1>2, <1>3, <2>2
    <3>2. QED
      BY <1>3, <1>6, <3>1 DEF InQueue
  <2>3. CASE j > k
    <3>1. j - 1 \in 1..n - 1 /\ Without(list, o)[j - 1] = list[j]
      BY <1>2, <1>3, <2>3
    <3>2. QED
      BY <1>3, <1>6, <3>1 DEF InQueue
  <2>4. QED
    BY <1>2, <2>1, <2>2, <2>3
<1>7. ASSUME NEW e \in Op, e # o, InQueue(list, e)
      PROVE  InQueue(Without(list, o), e)
  BY <1>6, <1>7 DEF InQueue, n
<1>8. QED
  BY <1>5, <1>7

\* A change keeps a list of items, and takes nothing out but what it is to drop.
LEMMA UpdatedParts ==
  ASSUME NEW list \in Seq(Item), NEW change \in Change
  PROVE  /\ Updated(list, change) \in Seq(Item)
         /\ \A e \in Op : InQueue(list, e) =>
              \/ InQueue(Updated(list, change), e)
              \/ change.what = "drop" /\ change.op = e
<1>1. change.op \in Op /\ change.what \in {"add", "drop", "refuse"}
  BY DEF Change
<1>2. CASE change.what = "add"
  <2>1. CASE InQueue(list, change.op)
    BY <1>2, <2>1 DEF Updated
  <2>2. CASE ~InQueue(list, change.op)
    <3> DEFINE item == [op |-> change.op, refused |-> FALSE]
    <3>1. item \in Item
      BY <1>1 DEF Item
    <3>2. Updated(list, change) = Append(list, item)
      BY <1>2, <2>2 DEF Updated
    <3> HIDE DEF item
    <3>3. /\ Append(list, item) \in Seq(Item)
          /\ \A j \in DOMAIN list : j \in DOMAIN Append(list, item) /\ Append(list, item)[j] = list[j]
      BY <3>1
    <3>4. QED
      BY <3>2, <3>3 DEF InQueue
  <2>3. QED
    BY <2>1, <2>2
<1>3. CASE change.what = "drop"
  BY <1>1, <1>3, WithoutParts DEF Updated
<1>4. CASE change.what = "refuse"
  <2>1. Updated(list, change) =
          [i \in DOMAIN list |-> IF list[i].op = change.op
                                   THEN [list[i] EXCEPT !.refused = TRUE] ELSE list[i]]
    BY <1>4 DEF Updated
  <2>2. ASSUME NEW i \in DOMAIN list
        PROVE  Updated(list, change)[i] \in Item /\ Updated(list, change)[i].op = list[i].op
    <3>1. list[i] \in Item
      OBVIOUS
    <3>2. [list[i] EXCEPT !.refused = TRUE] \in Item /\ [list[i] EXCEPT !.refused = TRUE].op = list[i].op
      BY <3>1 DEF Item
    <3>3. QED
      BY <2>1, <3>1, <3>2
  <2>3. Updated(list, change) \in [1..Len(list) -> Item] /\ Len(list) \in Nat
    BY <2>1, <2>2
  <2>4. Updated(list, change) \in Seq(Item)
    BY <2>3
  <2>5. QED
    BY <2>1, <2>2, <2>4 DEF InQueue
<1>5. QED
  BY <1>1, <1>2, <1>3, <1>4

LEMMA ReadListKeeps ==
  ASSUME IInv, NEW b \in Box, ReadList(b)
  PROVE  IInv'
<1>1. /\ chain[b] # <<>> /\ read' = [read EXCEPT ![b] = <<stored>>]
      /\ UNCHANGED <<keeps, stored, lateKept, chain, call, requests, server, history>>
      /\ read \in [Box -> Seq(Seq(Item))] /\ stored \in Seq(Item)
  BY Parts DEF IInv, ReadList
<1>2. <<stored>> \in Seq(Seq(Item)) /\ Head(<<stored>>) = stored
  BY <1>1
<1>3. TypeOK' /\ ReadStands'
  BY <1>1, <1>2 DEF IInv, TypeOK, ReadStands, Server!OnceTypeOK, Server!LateStatus, server, history
<1>4. Requested' /\ Entering'
  BY <1>1 DEF IInv, Requested, Entering, Current, history
<1>5. Chained'
  BY <1>1 DEF IInv, Chained, Settled, server, history
<1>6. LateKnown' /\ PassHolds'
  BY <1>1 DEF IInv, LateKnown, PassHolds, Settled, Current, server, history
<1>7. QED
  BY <1>3, <1>4, <1>5, <1>6 DEF IInv

\* With one object, what is written is what was read and its first change.
LEMMA WriteParts ==
  ASSUME IInv, NEW b \in Box, WriteList(b)
  PROVE  /\ Head(chain[b]) \in Change
         /\ stored' = Updated(stored, Head(chain[b]))
         /\ stored' \in Seq(Item)
         /\ UNCHANGED <<keeps, lateKept, requests, server, history>>
         /\ \A e \in Op : InQueue(stored, e) => InQueue(stored', e) \/ e \in Settled
<1>1. /\ chain[b] # <<>> /\ read[b] # <<>> /\ chain[b] \in Seq(Change) /\ stored \in Seq(Item)
      /\ stored' = Updated(Head(read[b]), Head(chain[b]))
  BY Parts DEF IInv, WriteList
<1>2. Head(chain[b]) \in Change /\ Head(chain[b]) = chain[b][1] /\ 1 \in 1..Len(chain[b])
  BY <1>1
<1>3. stored' = Updated(stored, Head(chain[b]))
  BY <1>1 DEF IInv, ReadStands
<1>4. Head(chain[b]).what = "drop" => Head(chain[b]).op \in Settled
  BY <1>2 DEF IInv, Chained
<1>5. /\ Updated(stored, Head(chain[b])) \in Seq(Item)
      /\ \A e \in Op : InQueue(stored, e) =>
           \/ InQueue(Updated(stored, Head(chain[b])), e)
           \/ Head(chain[b]).what = "drop" /\ Head(chain[b]).op = e
  BY <1>1, <1>2, UpdatedParts
<1>6. UNCHANGED <<keeps, lateKept, requests, server, history>>
  BY DEF WriteList
<1>7. QED
  BY <1>2, <1>3, <1>4, <1>5, <1>6

\* The caller a change wakes goes on with what is left of its own.
LEMMA WokenParts ==
  ASSUME IInv, NEW x \in Caller, call[x].at = "changing", call' = GoOn(x)
  PROVE  /\ call' \in [Caller -> Call] /\ call'[x].at \in {"idle", "next"}
         /\ \A y \in Caller : y # x => call'[y] = call[y]
         /\ \A y \in Caller : call'[y].at = "idle" <=> call'[y].rest = <<>>
         /\ call'[x].rest = Tail(call[x].rest)
<1>1. /\ call \in [Caller -> Call] /\ call[x].rest \in Seq(Op) /\ call[x].rest # <<>>
      /\ \A y \in Caller : call[y].at = "idle" <=> call[y].rest = <<>>
  BY Parts DEF IInv
<1> DEFINE rest == Tail(call[x].rest)
           c == IF rest = <<>> THEN IdleCall ELSE [at |-> "next", rest |-> rest, seen |-> {}]
<1>2. rest \in Seq(Op)
  BY <1>1
<1>3. call' = [call EXCEPT ![x] = c]
  BY DEF GoOn
<1>4. /\ c \in Call /\ c.rest = rest /\ c.at \in {"idle", "next"}
      /\ c.at = "idle" <=> c.rest = <<>>
  BY <1>2, IdleParts DEF Call
<1> HIDE DEF c
<1>5. QED
  BY <1>1, <1>3, <1>4

LEMMA WriteListKeeps ==
  ASSUME OneObject, IInv, NEW b \in Box, WriteList(b)
  PROVE  IInv'
<1> DEFINE change == Head(chain[b])
           x == change.wake
           s == chain[b]
<1>1. /\ change \in Change /\ stored' \in Seq(Item)
      /\ UNCHANGED <<keeps, lateKept, requests, server, history>>
      /\ \A e \in Op : InQueue(stored, e) => InQueue(stored', e) \/ e \in Settled
  BY WriteParts
<1>2. /\ s \in Seq(Change) /\ s # <<>> /\ chain \in [Box -> Seq(Change)]
      /\ read \in [Box -> Seq(Seq(Item))] /\ read' = [read EXCEPT ![b] = <<>>]
      /\ chain' = [chain EXCEPT ![b] = Tail(@)] /\ call \in [Caller -> Call]
      /\ call' = IF x = Nobody THEN call ELSE GoOn(x)
  BY Parts DEF IInv, WriteList
<1>3. /\ Tail(s) \in Seq(Change) /\ s[1] = change /\ 1 \in 1..Len(s)
      /\ \A i \in 1..Len(Tail(s)) : Tail(s)[i] = s[i + 1] /\ i + 1 \in 1..Len(s) /\ i + 1 # 1
      /\ \A i \in 1..Len(Tail(s)) : \A j \in 1..Len(Tail(s)) : i + 1 = j + 1 => i = j
  BY <1>2
<1>4. chain' \in [Box -> Seq(Change)] /\ read' \in [Box -> Seq(Seq(Item))] /\ chain'[b] = Tail(s)
  <2>1. <<>> \in Seq(Seq(Item))
    OBVIOUS
  <2>2. QED
    BY <1>2, <1>3, <2>1
<1>5. \A d \in Box : d = b
  BY DEF OneObject
<1>6. x # Nobody => x \in Caller /\ call[x].at = "changing"
  BY <1>1, <1>3 DEF IInv, Chained, Change
<1>7. /\ call' \in [Caller -> Call]
      /\ \A y \in Caller : y # x => call'[y] = call[y]
      /\ \A y \in Caller : call'[y].at = "idle" <=> call'[y].rest = <<>>
      /\ x # Nobody => call'[x].at \in {"idle", "next"} /\ call'[x].rest = Tail(call[x].rest)
  <2>1. CASE x = Nobody
    BY <1>2, <2>1, Parts DEF IInv
  <2>2. CASE x # Nobody
    BY <1>2, <1>6, <2>2, WokenParts
  <2>3. QED
    BY <2>1, <2>2
<1> HIDE DEF change, x, s
<1>8. TypeOK'
  BY <1>1, <1>4, <1>7 DEF IInv, TypeOK, Server!OnceTypeOK, Server!LateStatus, server, history
<1>9. Requested'
  <2>1. ASSUME NEW r \in requests, r.from # Nobody
        PROVE  r.from \in Caller /\ r.from # x
    BY <1>6, <2>1, Parts DEF IInv, RestTyped, Request, Requested
  <2>2. QED
    BY <1>1, <1>7, <2>1 DEF IInv, Requested, Current
<1>10. Chained'
  <2>1. ASSUME NEW i \in 1..Len(chain'[b])
        PROVE  /\ chain'[b][i].wake # Nobody =>
                    /\ call'[chain'[b][i].wake].at = "changing"
                    /\ \A j \in 1..Len(chain'[b]) : chain'[b][j].wake = chain'[b][i].wake => j = i
               /\ chain'[b][i].what = "drop" => chain'[b][i].op \in Settled'
    <3>0. i \in 1..Len(Tail(s)) /\ chain'[b][i] = Tail(s)[i]
      BY <1>4
    <3>1. chain'[b][i] = s[i + 1] /\ i + 1 \in 1..Len(s) /\ i + 1 # 1 /\ s[i + 1] \in Change
      BY <1>2, <1>3, <3>0
    <3>2. s[i + 1].wake # Nobody =>
            /\ s[i + 1].wake \in Caller /\ call[s[i + 1].wake].at = "changing"
            /\ \A j \in 1..Len(s) : s[j].wake = s[i + 1].wake => j = i + 1
      BY <3>1 DEF IInv, Chained, Change, s
    <3>3. s[i + 1].wake # Nobody => s[i + 1].wake # x
      BY <1>3, <3>1, <3>2 DEF x
    <3>4. s[i + 1].what = "drop" => s[i + 1].op \in Settled'
      BY <1>1, <3>1 DEF IInv, Chained, s, Settled, server, history
    <3>5. QED
      BY <1>3, <1>4, <1>7, <3>1, <3>2, <3>3, <3>4
  <2>2. QED
    BY <1>5, <2>1 DEF Chained
<1>11. ReadStands'
  BY <1>2, <1>5 DEF ReadStands
<1>12. Entering' /\ LateKnown'
  <2>1. \A y \in Caller : y # x => call'[y] = call[y]
    BY <1>7
  <2>2. ASSUME NEW o \in Op, o = x
        PROVE  call'[o].rest = <<>> /\ o \in entered
    <3>1. call[o].rest \in {<<>>, <<o>>} /\ o \in entered /\ call[o].rest # <<>> /\ o # Nobody
      BY <1>6, <2>2, Parts, NobodyElse DEF IInv, Entering
    <3>2. call[o].rest = <<o>> /\ Tail(<<o>>) = <<>>
      BY <3>1
    <3>3. QED
      BY <1>7, <2>2, <3>1, <3>2
  <2>3. Entering'
    BY <1>1, <2>1, <2>2, NobodyElse DEF IInv, Entering, history
  <2>4. LateKnown'
    BY <1>1, <1>7, NobodyElse DEF IInv, LateKnown, Current, server
  <2>5. QED
    BY <2>3, <2>4
<1>13. PassHolds'
  <2>1. Settled' = Settled /\ keeps' = keeps
    BY <1>1 DEF Settled, server, history
  <2>2. ASSUME ~keeps, NEW o \in Op
        PROVE  call'[o].at \in {"idle", "changing"}
    <3>1. CASE o = x
      <4>1. call[o].rest \in {<<>>, <<o>>} /\ call[o].rest # <<>> /\ o # Nobody /\ o \in Caller
        BY <1>6, <3>1, Parts, NobodyElse DEF IInv, Entering
      <4>2. call[o].rest = <<o>> /\ Tail(<<o>>) = <<>>
        BY <4>1
      <4>3. call'[o].rest = <<>>
        BY <1>7, <3>1, <4>1, <4>2
      <4>4. QED
        BY <1>7, <4>1, <4>3
    <3>2. QED
      BY <1>7, <2>2, <3>1, NobodyElse DEF IInv, PassHolds
  <2>3. ASSUME ~keeps, NEW y \in Pass, NEW i \in 1..Len(call'[y].rest)
        PROVE  InQueue(stored', call'[y].rest[i]) \/ call'[y].rest[i] \in Settled
    <3>1. call[y].rest \in Seq(Op) /\ y \in Caller
      BY Parts, NobodyElse DEF IInv
    <3>2. \A k \in 1..Len(call[y].rest) :
            InQueue(stored', call[y].rest[k]) \/ call[y].rest[k] \in Settled
      BY <1>1, <2>3, <3>1 DEF IInv, PassHolds
    <3>3. CASE y = x
      <4>1. x # Nobody /\ call[y].rest # <<>>
        BY <1>6, <3>1, <3>3, Parts, NobodyElse DEF IInv
      <4>2. call'[y].rest = Tail(call[y].rest)
        BY <1>7, <3>3, <4>1
      <4>3. i + 1 \in 1..Len(call[y].rest) /\ call'[y].rest[i] = call[y].rest[i + 1]
        BY <3>1, <4>1, <4>2
      <4>4. QED
        BY <3>2, <4>3
    <3>4. QED
      BY <1>7, <3>1, <3>2, <3>3
  <2>4. QED
    BY <2>1, <2>2, <2>3 DEF PassHolds
<1>14. QED
  BY <1>8, <1>9, <1>10, <1>11, <1>12, <1>13 DEF IInv

LEMMA PageClosesKeeps ==
  ASSUME OneObject, IInv, NEW b \in Box, PageCloses(b)
  PROVE  IInv'
<1>1. {x \in Caller : BoxOf[x] = b} = Caller
  BY NobodyElse DEF OneObject
<1>2. /\ closes < MaxCloses[keeps] /\ closes' = closes + 1
      /\ chain' = [chain EXCEPT ![b] = <<>>] /\ read' = [read EXCEPT ![b] = <<>>]
      /\ call' = [x \in Caller |-> IdleCall]
      /\ requests' = {[r EXCEPT !.from = IF @ \in Caller THEN Nobody ELSE @] : r \in requests}
      /\ UNCHANGED <<keeps, stored, lateKept, server, entered, discarded>>
  BY <1>1 DEF PageCloses
<1>3. requests' \subseteq Request /\ \A r \in requests' : r.from = Nobody
  <2>1. ASSUME NEW q \in requests'
        PROVE  q \in Request /\ q.from = Nobody
    <3>1. PICK r \in requests : q = [r EXCEPT !.from = IF @ \in Caller THEN Nobody ELSE @]
      BY <1>2
    <3>2. r \in Request
      BY Parts DEF IInv, RestTyped
    <3>3. q = [r EXCEPT !.from = Nobody]
      BY <3>1, <3>2 DEF Request
    <3>4. QED
      BY <3>2, <3>3 DEF Request
  <2>2. QED
    BY <2>1
<1>4. /\ chain \in [Box -> Seq(Change)] /\ read \in [Box -> Seq(Seq(Item))] /\ \A d \in Box : d = b
      /\ closes \in 0..MaxCloses[keeps] /\ MaxCloses[keeps] \in Nat
  BY Parts, ClosesAssumption DEF IInv, OneObject, RestTyped
<1>5. chain' \in [Box -> Seq(Change)] /\ read' \in [Box -> Seq(Seq(Item))] /\ closes' \in 0..MaxCloses[keeps]
  <2>1. <<>> \in Seq(Change) /\ <<>> \in Seq(Seq(Item))
    OBVIOUS
  <2>2. QED
    BY <1>2, <1>4, <2>1
<1>6. call' \in [Caller -> Call] /\ \A x \in Caller : call'[x].at = "idle" /\ call'[x].rest = <<>>
  BY <1>2, IdleParts
<1>7. TypeOK'
  BY <1>2, <1>3, <1>5, <1>6 DEF IInv, TypeOK, Server!OnceTypeOK, Server!LateStatus, server
<1>8. Requested' /\ LateKnown' /\ Entering'
  BY <1>3, <1>6, NobodyElse DEF Requested, LateKnown, Entering
<1>9. Chained' /\ ReadStands'
  <2>1. \A d \in Box : chain'[d] = <<>> /\ read'[d] = <<>> /\ Len(chain'[d]) = 0
    BY <1>2, <1>4
  <2>2. QED
    BY <2>1 DEF Chained, ReadStands
<1>10. PassHolds'
  <2>1. \A x \in Caller : Len(call'[x].rest) = 0
    BY <1>6
  <2>2. QED
    BY <1>6, <2>1, NobodyElse DEF PassHolds
<1>11. QED
  BY <1>7, <1>8, <1>9, <1>10 DEF IInv

-----------------------------------------------------------------------------
LEMMA InitInv ==
  ASSUME Init
  PROVE  IInv
<1>1. /\ stored = <<>> /\ lateKept = {} /\ chain = [b \in Box |-> <<>>] /\ read = [b \in Box |-> <<>>]
      /\ call = [x \in Caller |-> IdleCall] /\ requests = {} /\ keeps \in Kinds
      /\ entered = {} /\ discarded = {} /\ closes = 0 /\ Server!OnceInit
  BY DEF Init
<1>2. <<>> \in Seq(Item) /\ <<>> \in Seq(Change) /\ <<>> \in Seq(Seq(Item))
  OBVIOUS
<1>3. \A x \in Caller : call[x].at = "idle" /\ call[x].rest = <<>> /\ Len(call[x].rest) = 0
  BY <1>1, IdleParts
<1>4. TypeOK
  <2>1. MaxCloses[keeps] \in Nat
    BY <1>1, ClosesAssumption, BoxAssumption
  <2>2. Server!OnceTypeOK
    BY <1>1 DEF Server!OnceInit, Server!OnceTypeOK, Server!LateStatus
  <2>3. call \in [Caller -> Call] /\ \A x \in Caller : call[x].at = "idle" <=> call[x].rest = <<>>
    BY <1>1, <1>3, IdleParts
  <2>4. QED
    BY <1>1, <1>2, <2>1, <2>2, <2>3 DEF TypeOK
<1>5. Requested /\ Entering /\ LateKnown /\ PassHolds
  BY <1>1, <1>3, NobodyElse DEF Requested, Entering, LateKnown, PassHolds
<1>6. Chained /\ ReadStands
  <2>1. \A b \in Box : chain[b] = <<>> /\ read[b] = <<>> /\ Len(chain[b]) = 0
    BY <1>1
  <2>2. QED
    BY <2>1 DEF Chained, ReadStands
<1>7. QED
  BY <1>4, <1>5, <1>6 DEF IInv

LEMMA StepInv ==
  ASSUME OneObject, IInv, [Next]_vars
  PROVE  IInv'
<1>1. CASE \E o \in Op : Enqueue(o) \/ SendEntered(o)
  BY <1>1, EnqueueKeeps, SendEnteredKeeps
<1>2. CASE \E o \in Op, b \in Box : Discard(o, b)
  BY <1>2, DiscardKeeps
<1>3. CASE \E b \in Box : ReadList(b) \/ WriteList(b) \/ PageCloses(b)
  BY <1>3, ReadListKeeps, WriteListKeeps, PageClosesKeeps
<1>4. CASE \E p \in Pass : StartFlush(p) \/ SendNext(p)
  BY <1>4, StartFlushKeeps, SendNextKeeps
<1>5. CASE \E x \in Caller : ReadLate(x) \/ WriteLate(x) \/ NoAnswer(x)
  BY <1>5, ReadLateKeeps, WriteLateKeeps, NoAnswerKeeps
<1>6. CASE \E r \in requests : Serve(r) \/ ServerFaults(r)
  BY <1>6, ServeKeeps
<1>7. CASE AdministratorActs
  BY <1>7, AdministratorKeeps
<1>8. CASE UNCHANGED vars
  <2>1. UNCHANGED <<keeps, stored, lateKept, chain, read, call, requests, closed, applied, late,
                    entered, discarded, closes>>
    BY <1>8 DEF vars, device, server, history
  <2>2. TypeOK'
    BY <2>1 DEF IInv, TypeOK, Server!OnceTypeOK, Server!LateStatus
  <2>3. Requested' /\ Entering' /\ LateKnown' /\ PassHolds'
    BY <2>1 DEF IInv, Requested, Entering, LateKnown, PassHolds, Settled, Current
  <2>4. Chained' /\ ReadStands'
    BY <2>1 DEF IInv, Chained, ReadStands, Settled
  <2>5. QED
    BY <2>2, <2>3, <2>4 DEF IInv
<1>9. QED
  BY <1>1, <1>2, <1>3, <1>4, <1>5, <1>6, <1>7, <1>8 DEF Next

\* What a completion sent is, in a state of the invariant.
LEMMA SentHolds ==
  ASSUME IInv
  PROVE  SentIsStored
<1>1. ASSUME ~keeps, NEW r \in requests, r.from # Nobody
      PROVE  InQueue(stored, r.op) \/ r.op \in Settled
  <2>1. r.from \in Caller /\ call[r.from].at = "waiting" /\ Current(r.from) = r.op
    BY <1>1, Parts DEF IInv, RestTyped, Request, Requested
  <2>2. r.from \in Pass
    BY <1>1, <2>1, NobodyElse DEF IInv, PassHolds
  <2>3. call[r.from].rest \in Seq(Op) /\ call[r.from].rest # <<>>
    BY <2>1, Parts DEF IInv
  <2>4. call[r.from].rest[1] = r.op /\ 1 \in 1..Len(call[r.from].rest)
    BY <2>1, <2>3 DEF Current
  <2>5. QED
    BY <1>1, <2>2, <2>4 DEF IInv, PassHolds
<1>2. QED
  BY <1>1 DEF SentIsStored, Settled

\* Only a change that is written alters the list.
LEMMA OnlyWrites ==
  ASSUME [Next]_vars
  PROVE  UNCHANGED stored \/ \E b \in Box : WriteList(b)
<1>1. ASSUME NEW r \in requests, NEW answer, Answer(r, answer)
      PROVE  UNCHANGED stored
  BY <1>1 DEF Answer, Hear
<1>2. ASSUME NEW r \in requests, Serve(r) \/ ServerFaults(r)
      PROVE  UNCHANGED stored
  BY <1>1, <1>2 DEF Serve, ServerFaults, ServerReads, ServerRuns, ServerRefuses, device
<1>3. ASSUME NEW x \in Caller, ReadLate(x) \/ WriteLate(x) \/ NoAnswer(x)
      PROVE  UNCHANGED stored
  BY <1>3 DEF ReadLate, WriteLate, NoAnswer
<1>4. QED
  BY <1>2, <1>3 DEF Next, vars, device, Enqueue, SendEntered, Discard, ReadList,
     PageCloses, StartFlush, SendNext, AdministratorActs

\* What leaves the list in a step, in a state of the invariant.
LEMMA LeavesSettled ==
  ASSUME IInv, [Next]_vars, NEW o \in Op, InQueue(stored, o), ~InQueue(stored', o)
  PROVE  o \in Settled
  BY OnlyWrites, WriteParts

-----------------------------------------------------------------------------
(* A list holds an operation once *)

Once(list) == \A i, j \in DOMAIN list : list[i].op = list[j].op => i = j

LEMMA UpdatedOnce ==
  ASSUME NEW list \in Seq(Item), NEW change \in Change, Once(list)
  PROVE  Once(Updated(list, change))
<1> DEFINE n == Len(list)
<1>1. /\ n \in Nat /\ DOMAIN list = 1..n /\ \A i \in 1..n : list[i] \in Item
      /\ change.what \in {"add", "drop", "refuse"} /\ change.op \in Op
  BY DEF Change
<1>2. CASE change.what = "add" /\ ~InQueue(list, change.op)
  <2> DEFINE item == [op |-> change.op, refused |-> FALSE]
  <2>1. item \in Item /\ item.op = change.op
    BY <1>1 DEF Item
  <2>2. Updated(list, change) = Append(list, item)
    BY <1>2 DEF Updated
  <2> HIDE DEF item
  <2>3. /\ DOMAIN Append(list, item) = 1..n + 1 /\ Append(list, item)[n + 1] = item
        /\ \A i \in 1..n : Append(list, item)[i] = list[i] /\ list[i].op # item.op
    BY <1>1, <1>2, <2>1 DEF InQueue
  <2>4. \A i \in 1..n + 1 : i \in 1..n \/ i = n + 1
    BY <1>1
  <2> HIDE DEF n
  <2>5. QED
    BY <1>1, <2>2, <2>3, <2>4 DEF Once
<1>3. CASE change.what = "drop" /\ InQueue(list, change.op)
  <2> DEFINE k == CHOOSE j \in DOMAIN list : list[j].op = change.op
             at(j) == IF j < k THEN j ELSE j + 1
  <2>1. k \in 1..n
    BY <1>1, <1>3 DEF InQueue
  <2>2. Updated(list, change) = [j \in 1..n - 1 |-> list[at(j)]]
    BY <1>3 DEF Updated, Without
  <2> HIDE DEF k, n
  <2>3. \A i, j \in 1..n - 1 : at(i) \in 1..n /\ (at(i) = at(j) => i = j)
    BY <1>1, <2>1
  <2> HIDE DEF at
  <2>4. QED
    BY <1>1, <2>2, <2>3 DEF Once
<1>4. CASE change.what = "refuse"
  <2>1. Updated(list, change) =
          [i \in DOMAIN list |-> IF list[i].op = change.op
                                   THEN [list[i] EXCEPT !.refused = TRUE] ELSE list[i]]
    BY <1>4 DEF Updated
  <2>2. \A i \in DOMAIN list : Updated(list, change)[i].op = list[i].op
    BY <1>1, <2>1 DEF Item
  <2>3. QED
    BY <2>1, <2>2 DEF Once
<1>5. CASE /\ change.what = "add" => InQueue(list, change.op)
           /\ change.what = "drop" => ~InQueue(list, change.op)
           /\ change.what # "refuse"
  BY <1>1, <1>5 DEF Updated
<1>6. QED
  BY <1>1, <1>2, <1>3, <1>4, <1>5


-----------------------------------------------------------------------------
(* What follows of the specification *)

(***************************************************************************)
(* One object over the list, one change at a time: every reachable state   *)
(* of the device and its requests satisfies the invariant (outbox.ts and   *)
(* task-completions.ts, the promise chain of change).                      *)
(***************************************************************************)
THEOREM Invariant ==
  ASSUME OneObject
  PROVE  Spec => []IInv
<1>1. Init => IInv
  BY InitInv
<1>2. IInv /\ [Next]_vars => IInv'
  BY StepInv
<1>3. QED
  BY <1>1, <1>2, PTL DEF Spec

(***************************************************************************)
(* The lists, the changes that wait and what each caller does keep their   *)
(* types: a caller is idle exactly when it has nothing left to send.       *)
(***************************************************************************)
THEOREM TypeCorrect ==
  ASSUME OneObject
  PROVE  Spec => []TypeOK
<1>1. IInv => TypeOK
  BY DEF IInv
<1>2. QED
  BY <1>1, Invariant, PTL

(***************************************************************************)
(* A completion that was sent is on the device until the server has it or  *)
(* its person discarded it, whatever passes cross, answers are lost and    *)
(* pages close (task-completions.ts:25-26).                                *)
(***************************************************************************)
THEOREM SentStored ==
  ASSUME OneObject
  PROVE  Spec => []SentIsStored
<1>1. IInv => SentIsStored
  BY SentHolds
<1>2. QED
  BY <1>1, Invariant, PTL

(***************************************************************************)
(* No step takes an operation off the device's list before the server has  *)
(* it or its person discarded it: what a change writes is what it read and *)
(* that change (outbox.ts:15-18, task-completions.ts:25-26).               *)
(***************************************************************************)
THEOREM LeavesWhenSettled ==
  ASSUME OneObject
  PROVE  Spec => LeavesOnReceipt
<1>1. IInv /\ [Next]_vars =>
        [\A o \in Op : InQueue(stored, o) /\ ~InQueue(stored', o) =>
           o \in applied \cup discarded \/ late[o] # "none"]_vars
  BY LeavesSettled DEF Settled
<1>2. QED
  BY <1>1, Invariant, PTL DEF Spec, LeavesOnReceipt

(***************************************************************************)
(* The list never holds an operation twice, however often its entry, its   *)
(* retries and its answers cross: what enqueue looks for before it adds    *)
(* (outbox.ts:64-65, task-completions.ts:46-49).                           *)
(***************************************************************************)
THEOREM HeldOnce ==
  ASSUME OneObject
  PROVE  Spec => []Once(stored)
<1>1. Init => Once(stored)
  BY DEF Init, Once
<1>2. IInv /\ Once(stored) /\ [Next]_vars => Once(stored)'
  <2> SUFFICES ASSUME IInv, Once(stored), [Next]_vars PROVE Once(stored')
    BY DEF Once
  <2>1. CASE UNCHANGED stored
    BY <2>1
  <2>2. ASSUME NEW b \in Box, WriteList(b)
        PROVE  Once(stored')
    <3>1. Head(chain[b]) \in Change /\ stored' = Updated(stored, Head(chain[b]))
      BY <2>2, WriteParts
    <3>2. QED
      BY <3>1, UpdatedOnce, Parts DEF IInv
  <2>3. QED
    BY <2>1, <2>2, OnlyWrites
<1>3. QED
  BY <1>1, <1>2, Invariant, PTL DEF Spec
=============================================================================
