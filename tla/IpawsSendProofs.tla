-------------------------- MODULE IpawsSendProofs --------------------------
(***************************************************************************)
(* Theorems about IpawsSend, for any number of administrators, requests,   *)
(* COGs, edits of the configuration and failures.                          *)
(***************************************************************************)
EXTENDS IpawsSend, Integers, TLAPS

\* A confirmation in progress was begun by someone else than who requested, and
\* knows how often its alert can have gone out.
CallSound(c) ==
  LET q == requests[c.request] IN
  /\ q.requestedBy \notin {Nobody, c.by}
  /\ q.record = "none"
  /\ c.stage = "checked" => q.status = "pending"
  /\ c.stage # "checked" => q.status = "confirmed" /\ q.decidedBy = c.by
  /\ c.stage # "called" => aired[c.request] = 0
  /\ c.outcome = "not sent" => aired[c.request] = 0
  /\ c.outcome = "accepted" => aired[c.request] = 1
  /\ q.kind = "handshake" => c.config.environment = "test"

\* A request that nobody confirmed has not gone out; its record is true.
RequestSound(r) ==
  /\ requests[r].status = "none" <=> requests[r].requestedBy = Nobody
  /\ requests[r].status # "confirmed" =>
       aired[r] = 0 /\ wentTo[r] = {} /\ requests[r].record = "none"
  /\ requests[r].status = "confirmed" => requests[r].decidedBy # Nobody
  /\ requests[r].record = "not sent" => aired[r] = 0
  /\ requests[r].record = "accepted" => aired[r] = 1
  /\ requests[r].kind = "handshake" => "production" \notin wentTo[r]

\* The inductive invariant. That a request has one confirmation at a time is
\* what keeps a second from airing what the first has aired.
IInv ==
  /\ TypeOK
  /\ \A c \in calls : CallSound(c)
  /\ \A c, d \in calls : c.request = d.request => c = d
  /\ \A r \in Request : RequestSound(r)

-----------------------------------------------------------------------------
(* What the actions do to confirmations and requests. *)

\* A confirmation that goes on stays the only one of its request.
LEMMA GoesFields ==
  ASSUME IInv, NEW c \in calls, NEW stage \in {"claimed", "called"},
         NEW outcome \in Outcome, Goes(c, stage, outcome)
  PROVE  /\ calls' \subseteq Call
         /\ \A d \in calls' :
              \/ d \in calls /\ d.request # c.request
              \/ /\ d.request = c.request /\ d.by = c.by /\ d.config = c.config
                 /\ d.stage = stage /\ d.outcome = outcome
         /\ \A d, e \in calls' : d.request = e.request => d = e
<1> DEFINE new == [c EXCEPT !.stage = stage, !.outcome = outcome]
<1>1. c \in Call /\ calls \subseteq Call
  BY DEF IInv, TypeOK
<1>2. new \in Call /\ new.request = c.request /\ new.by = c.by /\ new.config = c.config
      /\ new.stage = stage /\ new.outcome = outcome
  BY <1>1 DEF Call
<1>3. calls' = (calls \ {c}) \cup {new}
  BY DEF Goes
<1>4. \A d \in calls \ {c} : d.request # c.request
  BY DEF IInv
<1>5. \A d, e \in calls : d.request = e.request => d = e
  BY DEF IInv
<1> HIDE DEF new
<1> QED
  BY <1>1, <1>2, <1>3, <1>4, <1>5

\* A request whose row is free and pending has no confirmation in progress.
LEMMA FreePending ==
  ASSUME IInv, NEW r \in Request, ~RowLocked(r), requests[r].status = "pending"
  PROVE  \A c \in calls : c.request # r
  BY DEF IInv, CallSound, RowLocked

\* What a step leaves alone stays sound.
LEMMA SameCall ==
  ASSUME IInv, NEW c \in calls, requests'[c.request] = requests[c.request],
         aired'[c.request] = aired[c.request]
  PROVE  CallSound(c)'
<1>1. CallSound(c)
  BY DEF IInv
<1>2. QED
  BY <1>1 DEF CallSound

LEMMA SameRequest ==
  ASSUME IInv, NEW r \in Request, requests'[r] = requests[r], aired'[r] = aired[r],
         wentTo'[r] = wentTo[r]
  PROVE  RequestSound(r)'
<1>1. RequestSound(r)
  BY DEF IInv
<1>2. QED
  BY <1>1 DEF RequestSound

\* Only a row of requests is changed, one that no confirmation in progress has.
LEMMA RowStep ==
  ASSUME IInv, NEW r \in Request, NEW row \in Row,
         requests' = [requests EXCEPT ![r] = row],
         \A c \in calls : c.request # r,
         UNCHANGED <<configVars, lapsed, calls, history, faults>>,
         row.decidedBy # Nobody => row.status \in {"confirmed", "cancelled"},
         RequestSound(r)'
  PROVE  IInv'
<1>1. requests \in [Request -> Row] /\ calls \subseteq Call
  BY DEF IInv, TypeOK
<1>2. requests' \in [Request -> Row] /\ requests'[r] = row
      /\ \A q \in Request \ {r} : requests'[q] = requests[q]
  BY <1>1
<1>3. TypeOK'
  BY <1>2 DEF IInv, TypeOK, configVars, history
<1>4. \A c \in calls' : CallSound(c)'
  BY <1>1, <1>2 DEF IInv, CallSound, Call, history
<1>5. \A q \in Request : RequestSound(q)'
  BY <1>2 DEF IInv, RequestSound, history
<1>6. QED
  BY <1>3, <1>4, <1>5 DEF IInv

\* Requesting makes a pending request that has not gone out.
LEMMA RequestKeeps ==
  ASSUME IInv, NEW a \in Admin, NEW r \in Request, NEW kind \in {"live", "handshake"},
         RequestSend(a, r, kind)
  PROVE  IInv'
<1> DEFINE row == [requests[r] EXCEPT !.status = "pending", !.kind = kind, !.requestedBy = a]
<1>1. requests[r] \in Row /\ requests \in [Request -> Row] /\ a # Nobody
  BY IpawsAssumption DEF IInv, TypeOK
<1>2. row \in Row /\ row.status = "pending" /\ row.requestedBy = a /\ row.kind = kind
      /\ row.record = requests[r].record /\ row.decidedBy = requests[r].decidedBy
  BY <1>1 DEF Row
<1>3. requests' = [requests EXCEPT ![r] = row] /\ requests[r].status = "none"
      /\ UNCHANGED <<configVars, lapsed, calls, history, faults>>
  BY <1>1 DEF RequestSend
<1>4. \A c \in calls : c.request # r
  BY <1>3 DEF IInv, CallSound
<1>5. requests'[r] = row
  BY <1>1, <1>3
<1>6. row.decidedBy = Nobody
  BY <1>2, <1>3 DEF IInv, TypeOK
<1> HIDE DEF row
<1>7. RequestSound(r)'
  BY <1>1, <1>2, <1>3, <1>5 DEF IInv, RequestSound, history
<1>8. QED
  BY <1>2, <1>3, <1>4, <1>6, <1>7, RowStep

\* Withdrawing takes a request that nobody is confirming.
LEMMA CancelKeeps ==
  ASSUME IInv, NEW a \in Admin, NEW r \in Request, CancelSend(a, r)
  PROVE  IInv'
<1> DEFINE row == [requests[r] EXCEPT !.status = "cancelled", !.decidedBy = a]
<1>1. requests[r] \in Row /\ requests \in [Request -> Row] /\ a # Nobody
  BY IpawsAssumption DEF IInv, TypeOK
<1>2. row \in Row /\ row.status = "cancelled" /\ row.requestedBy = requests[r].requestedBy
      /\ row.record = requests[r].record /\ row.kind = requests[r].kind
  BY <1>1 DEF Row
<1>3. requests' = [requests EXCEPT ![r] = row] /\ requests[r].status = "pending"
      /\ ~RowLocked(r) /\ UNCHANGED <<configVars, lapsed, calls, history, faults>>
  BY <1>1 DEF CancelSend
<1>4. requests'[r] = row
  BY <1>1, <1>3
<1> HIDE DEF row
<1>5. RequestSound(r)'
  BY <1>2, <1>3, <1>4 DEF IInv, RequestSound, history
<1>6. QED
  BY <1>2, <1>3, <1>5, FreePending, RowStep

\* A confirmation begins with the request's row in hand.
LEMMA CheckKeeps ==
  ASSUME IInv, NEW a \in Admin, NEW r \in Request, CheckConfirm(a, r)
  PROVE  IInv'
<1> DEFINE new == [request |-> r, by |-> a, config |-> config, stage |-> "checked",
                   outcome |-> "none"]
<1>1. TypeOK /\ config \in Config /\ calls \subseteq Call
  BY DEF IInv, TypeOK
<1>2. calls' = calls \cup {new} /\ requests[r].status = "pending"
      /\ requests[r].requestedBy # a /\ Sendable(requests[r].kind)
      /\ UNCHANGED <<configVars, requests, lapsed, history, faults>> /\ ~RowLocked(r)
  BY DEF CheckConfirm, Checked
<1>3. new \in Call
  BY <1>1 DEF Call, Outcome
<1>4. \A c \in calls : c.request # r
  BY <1>2, FreePending
<1>5. TypeOK'
  BY <1>1, <1>2, <1>3 DEF TypeOK, configVars, history
<1>6. ASSUME NEW c \in calls' PROVE CallSound(c)'
  <2>1. CASE c = new
    <3>1. RequestSound(r) /\ aired' = aired /\ requests' = requests
      BY <1>2 DEF IInv, history
    <3>2. /\ c.request = r /\ c.by = a /\ c.config = config /\ c.stage = "checked"
          /\ c.outcome = "none"
      BY <2>1
    <3>3. QED
      BY <1>2, <3>1, <3>2 DEF RequestSound, CallSound, Sendable
  <2>2. CASE c \in calls
    BY <1>2, <2>2 DEF IInv, CallSound, history
  <2>3. QED
    BY <1>2, <2>1, <2>2
<1>7. \A c, d \in calls' : c.request = d.request => c = d
  BY <1>2, <1>4 DEF IInv
<1>8. \A q \in Request : RequestSound(q)'
  BY <1>2 DEF IInv, RequestSound, history
<1>9. QED
  BY <1>5, <1>6, <1>7, <1>8 DEF IInv

\* The claim confirms the request in its confirmer's name.
LEMMA ClaimKeeps ==
  ASSUME IInv, NEW c \in calls, ClaimConfirm(c)
  PROVE  IInv'
<1> DEFINE r == c.request
<1>1. TypeOK /\ requests \in [Request -> Row] /\ c \in Call /\ calls \subseteq Call /\ CallSound(c)
  BY DEF IInv, TypeOK
<1>2. r \in Request /\ c.by \in Admin /\ c.by # Nobody /\ c.stage = "checked"
  BY <1>1, IpawsAssumption DEF Call, ClaimConfirm
<1>3. /\ requests' \in [Request -> Row]
      /\ requests'[r].status = "confirmed" /\ requests'[r].decidedBy = c.by
      /\ requests'[r].requestedBy = requests[r].requestedBy
      /\ requests'[r].record = requests[r].record /\ requests'[r].kind = requests[r].kind
      /\ \A q \in Request \ {r} : requests'[q] = requests[q]
  BY <1>1, <1>2 DEF ClaimConfirm, Row
<1>4. Goes(c, "claimed", "none") /\ UNCHANGED <<configVars, lapsed, history, faults>>
  BY DEF ClaimConfirm
<1>5. /\ calls' \subseteq Call
      /\ \A d \in calls' :
           \/ d \in calls /\ d.request # r
           \/ d.request = r /\ d.by = c.by /\ d.config = c.config /\ d.stage = "claimed"
              /\ d.outcome = "none"
      /\ \A d, e \in calls' : d.request = e.request => d = e
  <2>1. "none" \in Outcome /\ "claimed" \in {"claimed", "called"}
    BY DEF Outcome
  <2>2. QED
    BY <1>4, <2>1, GoesFields
<1>6. TypeOK'
  BY <1>1, <1>2, <1>3, <1>4, <1>5 DEF TypeOK, configVars, history
<1>7. ASSUME NEW d \in calls' PROVE CallSound(d)'
  <2>1. CASE d.request = r
    BY <1>1, <1>2, <1>3, <1>4, <1>5, <2>1 DEF CallSound, history
  <2>2. CASE d \in calls /\ d.request # r
    <3>1. d.request \in Request \ {r}
      BY <1>1, <2>2 DEF Call
    <3>2. QED
      BY <1>3, <1>4, <2>2, <3>1, SameCall DEF history
  <2>3. QED
    BY <1>5, <2>1, <2>2
<1>8. ASSUME NEW q \in Request PROVE RequestSound(q)'
  <2>1. CASE q = r
    BY <1>1, <1>2, <1>3, <1>4, <2>1 DEF IInv, RequestSound, CallSound, history
  <2>2. CASE q # r
    BY <1>3, <1>4, <2>2, SameRequest DEF history
  <2>3. QED
    BY <2>1, <2>2
<1>9. QED
  BY <1>5, <1>6, <1>7, <1>8 DEF IInv

\* The first time an alert is taken.
LEMMA AirsCounts ==
  ASSUME NEW c, aired \in [Request -> Nat], c.request \in Request, aired[c.request] = 0,
         Airs(c)
  PROVE  aired' = [aired EXCEPT ![c.request] = 1]
<1>1. aired[c.request] + 1 = 1
  OBVIOUS
<1>2. QED
  BY <1>1 DEF Airs

\* A confirmation whose call is over stays the only one of its request.
LEMMA CallEnds ==
  ASSUME IInv, NEW c \in calls, NEW outcome \in Outcome, Goes(c, "called", outcome)
  PROVE  /\ calls' \subseteq Call
         /\ \A d \in calls' :
              \/ d \in calls /\ d.request # c.request
              \/ d.request = c.request /\ d.by = c.by /\ d.config = c.config
                 /\ d.stage = "called" /\ d.outcome = outcome
         /\ \A d, e \in calls' : d.request = e.request => d = e
  BY GoesFields

\* A call that is made airs the alert at most once, where the configuration
\* that the claim read says.
LEMMA CallKeeps ==
  ASSUME IInv, NEW c \in calls, NEW outcome \in Outcome, c.stage = "claimed",
         Goes(c, "called", outcome), UNCHANGED <<configVars, requests, lapsed, stranded, faults>>,
         \/ Airs(c) /\ outcome # "not sent"
         \/ UNCHANGED <<aired, wentTo>> /\ outcome # "accepted"
  PROVE  IInv'
<1> DEFINE r == c.request
<1>1. TypeOK /\ c \in Call /\ calls \subseteq Call /\ CallSound(c)
      /\ aired \in [Request -> Nat] /\ wentTo \in [Request -> SUBSET Environment]
  BY DEF IInv, TypeOK
<1>2. r \in Request /\ aired[r] = 0 /\ requests[r].status = "confirmed"
      /\ c.config.environment \in Environment
  BY <1>1 DEF Call, Config, CallSound
<1>3. /\ calls' \subseteq Call
      /\ \A d \in calls' :
           \/ d \in calls /\ d.request # r
           \/ d.request = r /\ d.by = c.by /\ d.config = c.config /\ d.stage = "called"
              /\ d.outcome = outcome
      /\ \A d, e \in calls' : d.request = e.request => d = e
  BY CallEnds
<1>4. /\ aired' \in [Request -> Nat] /\ wentTo' \in [Request -> SUBSET Environment]
      /\ \A q \in Request \ {r} : aired'[q] = aired[q] /\ wentTo'[q] = wentTo[q]
      /\ outcome = "not sent" => aired'[r] = 0
      /\ outcome = "accepted" => aired'[r] = 1
      /\ wentTo'[r] \subseteq wentTo[r] \cup {c.config.environment}
  <2>1. CASE Airs(c) /\ outcome # "not sent"
    <3>1. /\ aired' = [aired EXCEPT ![r] = aired[r] + 1]
          /\ wentTo' = [wentTo EXCEPT ![r] = wentTo[r] \cup {c.config.environment}]
      BY <2>1 DEF Airs
    <3>2. aired' = [aired EXCEPT ![r] = 1]
      BY <1>1, <1>2, <2>1, AirsCounts
    <3>3. /\ aired' \in [Request -> Nat] /\ aired'[r] = 1
          /\ \A q \in Request \ {r} : aired'[q] = aired[q]
      BY <1>1, <1>2, <3>2
    <3>4. wentTo[r] \cup {c.config.environment} \in SUBSET Environment
      BY <1>1, <1>2
    <3>5. /\ wentTo' \in [Request -> SUBSET Environment]
          /\ wentTo'[r] = wentTo[r] \cup {c.config.environment}
          /\ \A q \in Request \ {r} : wentTo'[q] = wentTo[q]
      BY <1>1, <1>2, <3>1, <3>4
    <3>6. QED
      BY <2>1, <3>3, <3>5
  <2>2. CASE UNCHANGED <<aired, wentTo>> /\ outcome # "accepted"
    BY <1>1, <1>2, <2>2
  <2>3. QED
    BY <2>1, <2>2
<1>5. TypeOK'
  BY <1>1, <1>3, <1>4 DEF TypeOK, configVars
<1>6. ASSUME NEW d \in calls' PROVE CallSound(d)'
  <2>1. CASE d.request = r
    BY <1>1, <1>2, <1>3, <1>4, <2>1 DEF CallSound
  <2>2. CASE d \in calls /\ d.request # r
    <3>1. d.request \in Request \ {r}
      BY <1>1, <2>2 DEF Call
    <3>2. QED
      BY <1>4, <2>2, <3>1, SameCall
  <2>3. QED
    BY <1>3, <2>1, <2>2
<1>7. ASSUME NEW q \in Request PROVE RequestSound(q)'
  <2>1. CASE q = r
    BY <1>1, <1>2, <1>4, <2>1 DEF IInv, RequestSound, CallSound
  <2>2. CASE q # r
    BY <1>4, <2>2, SameRequest
  <2>3. QED
    BY <2>1, <2>2
<1>8. QED
  BY <1>3, <1>5, <1>6, <1>7 DEF IInv

\* The record says what came of the call, and the confirmation is over.
LEMMA RecordKeeps ==
  ASSUME IInv, NEW c \in calls, RecordSubmission(c)
  PROVE  IInv'
<1> DEFINE r == c.request
<1> DEFINE row == [requests[r] EXCEPT !.record = c.outcome]
<1>1. TypeOK /\ requests \in [Request -> Row] /\ c \in Call /\ CallSound(c) /\ r \in Request
      /\ c.outcome \in Outcome /\ calls \subseteq Call
  BY DEF IInv, TypeOK, Call
<1>2. requests[r].status = "confirmed" /\ c.stage = "called"
  BY <1>1 DEF CallSound, RecordSubmission
<1>3. /\ requests' \in [Request -> Row]
      /\ requests'[r].status = requests[r].status
      /\ requests'[r].decidedBy = requests[r].decidedBy
      /\ requests'[r].requestedBy = requests[r].requestedBy
      /\ requests'[r].record = c.outcome /\ requests'[r].kind = requests[r].kind
      /\ \A q \in Request \ {r} : requests'[q] = requests[q]
  BY <1>1 DEF RecordSubmission, Row
<1>4. calls' = calls \ {c} /\ UNCHANGED <<configVars, lapsed, history, faults>>
  BY DEF RecordSubmission
<1>5. \A d \in calls' : d \in calls /\ d.request # r
  BY <1>4 DEF IInv
<1>6. TypeOK'
  BY <1>1, <1>3, <1>4 DEF TypeOK, configVars, history
<1>7. ASSUME NEW d \in calls' PROVE CallSound(d)'
  <2>1. d \in calls /\ d.request \in Request \ {r}
    BY <1>1, <1>5 DEF Call
  <2>2. QED
    BY <1>3, <1>4, <2>1, SameCall DEF history
<1>8. ASSUME NEW q \in Request PROVE RequestSound(q)'
  <2>1. CASE q = r
    BY <1>1, <1>2, <1>3, <1>4, <2>1 DEF IInv, RequestSound, CallSound, history
  <2>2. CASE q # r
    BY <1>3, <1>4, <2>2, SameRequest DEF history
  <2>3. QED
    BY <2>1, <2>2
<1>9. QED
  BY <1>4, <1>6, <1>7, <1>8 DEF IInv

\* What changes neither requests nor what went out, and begins no confirmation.
LEMMA OtherKeeps ==
  ASSUME IInv, TypeOK', calls' \subseteq calls, UNCHANGED <<requests, aired, wentTo>>
  PROVE  IInv'
<1>1. \A c \in calls' : CallSound(c)'
  BY DEF IInv, CallSound
<1>2. \A q \in Request : RequestSound(q)'
  BY DEF IInv, RequestSound
<1>3. QED
  BY <1>1, <1>2 DEF IInv

-----------------------------------------------------------------------------
(* The invariant, and what follows from it. *)

LEMMA InitInv == Init => IInv
<1> SUFFICES ASSUME Init PROVE IInv
  OBVIOUS
<1>1. TypeOK
  BY IpawsAssumption DEF Init, TypeOK, Config, Environment, Row, Outcome
<1>2. calls = {} /\ \A r \in Request : RequestSound(r)
  BY DEF Init, RequestSound
<1>3. QED
  BY <1>1, <1>2 DEF IInv

\* The configuration keeps its types while reconfigurations cross.
LEMMA ConfigTypes ==
  ASSUME TypeOK, UNCHANGED <<requests, calls, aired, wentTo, stranded, faults, lapsed>>,
         \/ \E environment \in Environment, cog \in Cog, given \in Cog \cup {Nobody} :
              CheckCertificate(environment, cog, given)
         \/ \E e \in edits : WriteConfig(e)
         \/ \E enabled \in BOOLEAN : SetEnabled(enabled)
  PROVE  TypeOK'
<1>1. config' \in Config /\ edits' \subseteq Edit /\ edited' \in 0..MaxEdits
  <2>1. CASE \E environment \in Environment, cog \in Cog, given \in Cog \cup {Nobody} :
               CheckCertificate(environment, cog, given)
    BY <2>1, IpawsAssumption DEF TypeOK, CheckCertificate, Edit
  <2>2. CASE \E e \in edits : WriteConfig(e)
    BY <2>2 DEF TypeOK, WriteConfig, Config, Edit
  <2>3. CASE \E enabled \in BOOLEAN : SetEnabled(enabled)
    BY <2>3, IpawsAssumption DEF TypeOK, SetEnabled, Config
  <2>4. QED
    BY <2>1, <2>2, <2>3
<1>2. QED
  BY <1>1 DEF TypeOK

LEMMA StepInv == IInv /\ [Next]_vars => IInv'
<1> SUFFICES ASSUME IInv, [Next]_vars PROVE IInv'
  OBVIOUS
<1>1. TypeOK
  BY DEF IInv
<1>2. ASSUME \/ \E environment \in Environment, cog \in Cog, given \in Cog \cup {Nobody} :
                  CheckCertificate(environment, cog, given)
             \/ \E e \in edits : WriteConfig(e)
             \/ \E enabled \in BOOLEAN : SetEnabled(enabled)
      PROVE  IInv'
  <2>1. UNCHANGED <<requests, calls, aired, wentTo, stranded, faults, lapsed>>
    BY <1>2 DEF CheckCertificate, WriteConfig, SetEnabled, history
  <2>2. QED
    BY <1>1, <1>2, <2>1, ConfigTypes, OtherKeeps
<1>3. ASSUME NEW r \in Request, Lapse(r) PROVE IInv'
  BY <1>1, <1>3, OtherKeeps DEF Lapse, TypeOK, configVars, history
<1>4. ASSUME NEW c \in calls, CallRefused(c) \/ CallUnanswered(c)
                              \/ CallAccepted(c) \/ CallRejected(c)
      PROVE  IInv'
  <2>1. CASE CallRefused(c)
    BY <2>1, CallKeeps DEF CallRefused, Outcome, history
  <2>2. CASE CallUnanswered(c)
    BY <2>2, CallKeeps DEF CallUnanswered, Outcome
  <2>3. CASE CallAccepted(c)
    BY <2>3, CallKeeps DEF CallAccepted, Outcome
  <2>4. CASE CallRejected(c)
    BY <2>4, CallKeeps DEF CallRejected, Outcome
  <2>5. QED
    BY <1>4, <2>1, <2>2, <2>3, <2>4
<1>5. ASSUME NEW c \in calls, CutOff(c) PROVE IInv'
  <2>1. TypeOK'
    BY <1>1, <1>5, IpawsAssumption DEF CutOff, TypeOK, configVars, Call
  <2>2. QED
    BY <1>5, <2>1, OtherKeeps DEF CutOff
<1>6. CASE UNCHANGED vars
  BY <1>1, <1>6, OtherKeeps DEF vars, TypeOK
<1>7. QED
  BY <1>2, <1>3, <1>4, <1>5, <1>6, RequestKeeps, CancelKeeps, CheckKeeps, ClaimKeeps,
     RecordKeeps DEF Next, Proceed

\* Every reachable state satisfies the inductive invariant.
THEOREM Invariant == Spec => []IInv
  BY InitInv, StepInv, PTL DEF Spec

\* The state keeps its types.
THEOREM TypeCorrect == Spec => []TypeOK
  BY Invariant, PTL DEF IInv

\* The record of a submission is true, whatever races and stops preceded it.
THEOREM RecordTrue == Spec => []RecordTellsTruth
<1>1. IInv => RecordTellsTruth
  BY DEF IInv, RequestSound, RecordTellsTruth
<1>2. QED
  BY <1>1, Invariant, PTL

\* A dry run stays in the test environment, whatever is reconfigured meanwhile.
THEOREM HandshakeInTest == Spec => []HandshakeStaysInTest
<1>1. IInv => HandshakeStaysInTest
  BY DEF IInv, RequestSound, HandshakeStaysInTest
<1>2. QED
  BY <1>1, Invariant, PTL

-----------------------------------------------------------------------------
(* The refinement: only four kinds of step show in the two-person rule. *)

LEMMA AirsOnce ==
  ASSUME IInv, NEW c \in calls, c.stage = "claimed", UNCHANGED requests,
         Airs(c) \/ UNCHANGED <<aired, wentTo>>
  PROVE  c.request \in Request /\ (Rule!Air(c.request) \/ UNCHANGED Rule!ruleVars)
<1>1. c \in Call /\ CallSound(c) /\ RequestSound(c.request)
  BY DEF IInv, TypeOK, Call
<1>2. c.request \in Request /\ aired[c.request] = 0 /\ aired \in [Request -> Nat]
      /\ requests[c.request].status = "confirmed" /\ requests[c.request].decidedBy # Nobody
  BY <1>1 DEF Call, CallSound, RequestSound, IInv, TypeOK
<1>3. CASE Airs(c)
  BY <1>2, <1>3 DEF Airs, Rule!Air
<1>4. CASE UNCHANGED <<aired, wentTo>>
  <2>1. requests' = requests /\ aired' = aired
    BY <1>4
  <2>2. QED
    BY <1>2, <2>1 DEF Rule!ruleVars
<1>5. QED
  BY <1>2, <1>3, <1>4

\* The confirmations, cancellations, lapses and stops of IpawsSend implement
\* the two-person rule of docs/IPAWS-ENABLEMENT.md.
THEOREM ImplementsTwoPersonRule == Spec => KeepsTwoPersonRule
<1>1. Init => Rule!RuleInit
  BY DEF Init, Rule!RuleInit
<1>2. ASSUME IInv, [Next]_vars
      PROVE  [Rule!RuleNext]_(Rule!ruleVars)
  <2>1. TypeOK /\ requests \in [Request -> Row] /\ calls \subseteq Call
    BY <1>2 DEF IInv, TypeOK
  <2>2. ASSUME NEW a \in Admin, NEW r \in Request, NEW kind \in {"live", "handshake"},
               RequestSend(a, r, kind)
        PROVE  Rule!Ask(a, r)
    <3>1. requests[r].requestedBy = Nobody /\ requests[r].status = "none"
      BY <1>2, <2>2 DEF IInv, RequestSound, RequestSend
    <3>2. /\ requests'[r].requestedBy = a /\ requests'[r].status = "pending"
          /\ requests' \in [Request -> Row]
          /\ \A q \in Request \ {r} : requests'[q] = requests[q]
      BY <2>1, <2>2 DEF RequestSend, Row
    <3>3. QED
      BY <2>2, <3>1, <3>2 DEF RequestSend, Rule!Ask, history
  <2>3. ASSUME NEW a \in Admin, NEW r \in Request, CancelSend(a, r)
        PROVE  Rule!Withdraw(r)
    <3>1. requests[r].requestedBy # Nobody /\ requests[r].status = "pending"
      BY <1>2, <2>3 DEF IInv, RequestSound, CancelSend
    <3>2. /\ requests'[r].requestedBy = requests[r].requestedBy
          /\ requests'[r].status = "cancelled"
          /\ \A q \in Request \ {r} : requests'[q] = requests[q]
      BY <2>1, <2>3 DEF CancelSend, Row
    <3>3. {q \in Request : requests'[q].status = "cancelled"}
            = {q \in Request : requests[q].status = "cancelled"} \cup {r}
      BY <3>2
    <3>4. \A q \in Request : /\ requests'[q].requestedBy = requests[q].requestedBy
                             /\ (requests'[q].status = "confirmed")
                                  = (requests[q].status = "confirmed")
                             /\ requests[q].status = "confirmed" => requests'[q] = requests[q]
      BY <3>1, <3>2
    <3>5. aired' = aired
      BY <2>3 DEF CancelSend, history
    <3>6. QED
      BY <3>1, <3>3, <3>4, <3>5 DEF Rule!Withdraw
  <2>4. ASSUME NEW c \in calls, ClaimConfirm(c)
        PROVE  c.request \in Request /\ c.by \in Admin /\ Rule!Agree(c.by, c.request)
    <3>1. c \in Call /\ CallSound(c) /\ c.stage = "checked"
      BY <1>2, <2>1, <2>4 DEF IInv, ClaimConfirm
    <3>2. c.request \in Request /\ c.by \in Admin /\ requests[c.request].status = "pending"
          /\ requests[c.request].requestedBy \notin {Nobody, c.by}
      BY <3>1 DEF Call, CallSound
    <3>3. /\ requests'[c.request].requestedBy = requests[c.request].requestedBy
          /\ requests'[c.request].status = "confirmed"
          /\ requests'[c.request].decidedBy = c.by
          /\ \A q \in Request \ {c.request} : requests'[q] = requests[q]
      BY <2>1, <2>4, <3>2 DEF ClaimConfirm, Row
    <3>4. {q \in Request : requests'[q].status = "cancelled"}
            = {q \in Request : requests[q].status = "cancelled"}
      BY <3>2, <3>3
    <3>5. aired' = aired
      BY <2>4 DEF ClaimConfirm, history
    <3>6. QED
      BY <3>2, <3>3, <3>4, <3>5 DEF Rule!Agree
  <2>5. ASSUME NEW c \in calls, CallRefused(c) \/ CallUnanswered(c)
                                \/ CallAccepted(c) \/ CallRejected(c)
        PROVE  c.request \in Request /\ (Rule!Air(c.request) \/ UNCHANGED Rule!ruleVars)
    BY <1>2, <2>5, AirsOnce DEF CallRefused, CallUnanswered, CallAccepted, CallRejected, history
  <2>6. ASSUME NEW c \in calls, RecordSubmission(c)
        PROVE  UNCHANGED Rule!ruleVars
    <3>1. c.request \in Request
      BY <2>1 DEF Call
    <3>2. \A q \in Request : /\ requests'[q].requestedBy = requests[q].requestedBy
                             /\ requests'[q].status = requests[q].status
                             /\ requests'[q].decidedBy = requests[q].decidedBy
      BY <2>1, <2>6, <3>1 DEF RecordSubmission, Row
    <3>3. QED
      BY <2>6, <3>2 DEF RecordSubmission, Rule!ruleVars, history
  <2>7. ASSUME UNCHANGED <<requests, aired>>
        PROVE  UNCHANGED Rule!ruleVars
    BY <2>7 DEF Rule!ruleVars
  <2>8. ASSUME NEW c \in calls, CutOff(c)
        PROVE  UNCHANGED <<requests, aired>>
    BY <2>8 DEF CutOff
  <2>9. ASSUME NEW a \in Admin, NEW r \in Request, CheckConfirm(a, r) \/ Lapse(r)
        PROVE  UNCHANGED <<requests, aired>>
    BY <2>9 DEF CheckConfirm, Checked, Lapse, history
  <2>10. ASSUME \/ \E environment \in Environment, cog \in Cog, given \in Cog \cup {Nobody} :
                     CheckCertificate(environment, cog, given)
                \/ \E e \in edits : WriteConfig(e)
                \/ \E enabled \in BOOLEAN : SetEnabled(enabled)
                \/ \E r \in Request : Lapse(r)
                \/ UNCHANGED vars
         PROVE  UNCHANGED <<requests, aired>>
    BY <2>10 DEF CheckCertificate, WriteConfig, SetEnabled, Lapse, history, vars
  <2>11. QED
    BY <1>2, <2>2, <2>3, <2>4, <2>5, <2>6, <2>7, <2>8, <2>9, <2>10
    DEF Next, Proceed, Rule!RuleNext
<1>3. QED
  BY <1>1, <1>2, Invariant, PTL DEF Spec, KeepsTwoPersonRule, Rule!RuleSpec

=============================================================================
