----------------------------- MODULE IpawsSend -----------------------------
(***************************************************************************)
(* Sending a public alert to IPAWS-OPEN (server/src/ipaws/service.ts): one *)
(* administrator requests, another confirms. A confirmation is claimed in  *)
(* one transaction that locks the request, IPAWS-OPEN is called with none  *)
(* open, and the submission is recorded in a second. Meanwhile             *)
(* administrators cancel requests, requests lapse, and the COG is          *)
(* reconfigured, enabled and disabled under no lock at all.                *)
(*                                                                         *)
(* A certificate is known by the COG id its CN contains. The CAP XML, its  *)
(* signature and the SOAP exchange are abstracted to what comes of them.   *)
(***************************************************************************)
EXTENDS Naturals, FiniteSets

CONSTANTS
  Admin,      \* administrators of the jurisdiction
  Request,    \* send requests
  Cog,        \* COG ids
  MaxEdits,   \* bound: reconfigurations and switches
  MaxFaults,  \* bound: processes that stop and transactions that fail
  Nobody      \* no administrator, and no COG

ASSUME IpawsAssumption ==
  /\ Nobody \notin Admin /\ Nobody \notin Cog
  /\ MaxEdits \in Nat /\ MaxFaults \in Nat

Environment == {"test", "production"}
Config == [environment : Environment, cog : Cog, certificate : Cog \cup {Nobody},
           enabled : BOOLEAN]
Outcome == {"none", "not sent", "did not answer", "rejected", "accepted"}
Row == [status : {"none", "pending", "confirmed", "cancelled"},
        kind : {"live", "handshake"}, requestedBy : Admin \cup {Nobody},
        decidedBy : Admin \cup {Nobody}, record : Outcome]
Call == [request : Request, by : Admin, config : Config,
         stage : {"checked", "claimed", "called"}, outcome : Outcome]
Edit == [environment : Environment, cog : Cog,
         given : Cog \cup {Nobody}]

VARIABLES
  config,     \* the jurisdiction's ipaws_config row
  edits,      \* reconfigurations that have checked a certificate, not written yet
  edited,     \* reconfigurations and switches so far
  requests,   \* ipaws_send_requests
  lapsed,     \* pending requests whose time has run out
  calls,      \* confirmations in progress
  aired,      \* how often IPAWS-OPEN took each request's alert (for properties)
  wentTo,     \* the environments it went to (for properties)
  stranded,   \* requests whose confirmation was cut off (for properties)
  faults

history == <<aired, wentTo, stranded>>
configVars == <<config, edits, edited>>
vars == <<config, edits, edited, requests, lapsed, calls, aired, wentTo, stranded, faults>>

TypeOK ==
  /\ config \in Config /\ edits \subseteq Edit /\ edited \in 0..MaxEdits
  /\ requests \in [Request -> Row]
  /\ lapsed \subseteq Request
  /\ calls \subseteq Call
  /\ aired \in [Request -> Nat]
  /\ wentTo \in [Request -> SUBSET Environment]
  /\ stranded \subseteq Request
  /\ faults \in 0..MaxFaults
  /\ \A r \in Request : requests[r].decidedBy # Nobody =>
       requests[r].status \in {"confirmed", "cancelled"}

Init ==
  /\ \E c \in Cog, certificate \in Cog \cup {Nobody} :
       /\ certificate \in {c, Nobody}
       /\ config = [environment |-> "test", cog |-> c, certificate |-> certificate,
                    enabled |-> FALSE]
  /\ edits = {} /\ edited = 0
  /\ requests = [r \in Request |-> [status |-> "none", kind |-> "live",
       requestedBy |-> Nobody, decidedBy |-> Nobody, record |-> "none"]]
  /\ lapsed = {} /\ calls = {}
  /\ aired = [r \in Request |-> 0] /\ wentTo = [r \in Request |-> {}]
  /\ stranded = {} /\ faults = 0

-----------------------------------------------------------------------------
(* The configuration *)

\* A reconfiguration checks the certificate it was given, or the stored one,
\* against the COG id ...
CheckCertificate(environment, cog, given) ==
  /\ edited < MaxEdits /\ edited' = edited + 1
  /\ (IF given # Nobody THEN given ELSE config.certificate) \in {cog, Nobody}
  /\ edits' = edits \cup {[environment |-> environment, cog |-> cog, given |-> given]}
  /\ UNCHANGED <<config, requests, lapsed, calls, history, faults>>

\* ... and writes it. The row stays enabled or not.
WriteConfig(e) ==
  /\ config' = [config EXCEPT !.environment = e.environment, !.cog = e.cog,
                  !.certificate = IF e.given # Nobody THEN e.given ELSE @]
  /\ edits' = edits \ {e}
  /\ UNCHANGED <<edited, requests, lapsed, calls, history, faults>>

\* Enabling asks for a certificate (and for the memorandum of agreement).
SetEnabled(enabled) ==
  /\ edited < MaxEdits /\ edited' = edited + 1
  /\ enabled => config.certificate # Nobody
  /\ config' = [config EXCEPT !.enabled = enabled]
  /\ UNCHANGED <<edits, requests, lapsed, calls, history, faults>>

-----------------------------------------------------------------------------
(* Requesting, cancelling, lapsing *)

\* Mutant: a handshake goes wherever the COG is configured.
SendableAnywhere(kind) ==
  config.certificate # Nobody /\ (kind = "live" => config.enabled)

Sendable(kind) ==
  /\ config.certificate # Nobody
  /\ kind = "live" => config.enabled
  /\ kind = "handshake" => config.environment = "test"

RequestSend(a, r, kind) ==
  /\ requests[r].status = "none" /\ Sendable(kind)
  /\ requests' = [requests EXCEPT ![r] = [@ EXCEPT !.status = "pending",
                    !.kind = kind, !.requestedBy = a]]
  /\ UNCHANGED <<configVars, lapsed, calls, history, faults>>

\* The fifteen minutes run out. Only a confirmation asks about it.
Lapse(r) ==
  /\ requests[r].status = "pending" /\ r \notin lapsed
  /\ lapsed' = lapsed \cup {r}
  /\ UNCHANGED <<configVars, requests, calls, history, faults>>

\* A confirmation's first transaction holds the request's row.
RowLocked(r) == \E c \in calls : c.request = r /\ c.stage = "checked"

\* Any administrator may withdraw a pending request, a lapsed one too.
CancelSend(a, r) ==
  /\ ~RowLocked(r) /\ requests[r].status = "pending"
  /\ requests' = [requests EXCEPT ![r].status = "cancelled", ![r].decidedBy = a]
  /\ UNCHANGED <<configVars, lapsed, calls, history, faults>>

-----------------------------------------------------------------------------
(* Confirming *)

Checked(a, r) ==
  /\ r \notin lapsed /\ requests[r].requestedBy # a
  /\ Sendable(requests[r].kind)
  /\ calls' = calls \cup {[request |-> r, by |-> a, config |-> config,
                           stage |-> "checked", outcome |-> "none"]}
  /\ UNCHANGED <<configVars, requests, lapsed, history, faults>>

\* Mutant: reads the request without locking it.
CheckConfirmUnlocked(a, r) ==
  /\ requests[r].status = "pending"
  /\ Checked(a, r)

\* The request's row is locked and checked; the configuration is read.
CheckConfirm(a, r) ==
  /\ ~RowLocked(r) /\ requests[r].status = "pending"
  /\ Checked(a, r)

Goes(c, stage, outcome) ==
  calls' = (calls \ {c}) \cup {[c EXCEPT !.stage = stage, !.outcome = outcome]}

\* The claim commits: the request is confirmed and will not be sent again.
ClaimConfirm(c) ==
  /\ c.stage = "checked"
  /\ requests' = [requests EXCEPT ![c.request].status = "confirmed",
                                  ![c.request].decidedBy = c.by]
  /\ Goes(c, "claimed", "none")
  /\ UNCHANGED <<configVars, lapsed, history, faults>>

\* IPAWS-OPEN takes the alert.
Airs(c) ==
  /\ aired' = [aired EXCEPT ![c.request] = @ + 1]
  /\ wentTo' = [wentTo EXCEPT ![c.request] = @ \cup {c.config.environment}]

\* A certificate that does not belong to the COG is found before the call.
CallRefused(c) ==
  /\ c.stage = "claimed" /\ c.config.certificate # c.config.cog
  /\ Goes(c, "called", "not sent")
  /\ UNCHANGED <<configVars, requests, lapsed, history, faults>>

\* Mutant: a call that is not answered is taken for one that was not made.
CallUnansweredNotSent(c) ==
  /\ c.stage = "claimed" /\ c.config.certificate = c.config.cog
  /\ Goes(c, "called", "not sent")
  /\ Airs(c) \/ UNCHANGED <<aired, wentTo>>
  /\ UNCHANGED <<configVars, requests, lapsed, stranded, faults>>

\* No answer in time: the alert may have arrived.
CallUnanswered(c) ==
  /\ c.stage = "claimed" /\ c.config.certificate = c.config.cog
  /\ Goes(c, "called", "did not answer")
  /\ Airs(c) \/ UNCHANGED <<aired, wentTo>>
  /\ UNCHANGED <<configVars, requests, lapsed, stranded, faults>>

\* A 2xx that lists channels, none in error.
CallAccepted(c) ==
  /\ c.stage = "claimed" /\ c.config.certificate = c.config.cog
  /\ Goes(c, "called", "accepted")
  /\ Airs(c)
  /\ UNCHANGED <<configVars, requests, lapsed, stranded, faults>>

\* Any other answer is a rejection: some channels may have acknowledged, and a
\* fault, another status or a body that cannot be read does not tell.
CallRejected(c) ==
  /\ c.stage = "claimed" /\ c.config.certificate = c.config.cog
  /\ Goes(c, "called", "rejected")
  /\ Airs(c) \/ UNCHANGED <<aired, wentTo>>
  /\ UNCHANGED <<configVars, requests, lapsed, stranded, faults>>

\* Mutant: only an answer is recorded.
RecordAnswer(c) ==
  /\ c.stage = "called"
  /\ requests' = [requests EXCEPT ![c.request].record =
       IF c.outcome \in {"accepted", "rejected"} THEN c.outcome ELSE @]
  /\ calls' = calls \ {c}
  /\ UNCHANGED <<configVars, lapsed, history, faults>>

\* The submission is recorded, whatever came of the call.
RecordSubmission(c) ==
  /\ c.stage = "called"
  /\ requests' = [requests EXCEPT ![c.request].record = c.outcome]
  /\ calls' = calls \ {c}
  /\ UNCHANGED <<configVars, lapsed, history, faults>>

\* The process stops, or a transaction of the confirmation fails: a claim not
\* committed is undone, a submission not recorded is lost.
CutOff(c) ==
  /\ faults < MaxFaults /\ faults' = faults + 1
  /\ calls' = calls \ {c}
  /\ stranded' = IF c.stage = "checked" THEN stranded ELSE stranded \cup {c.request}
  /\ UNCHANGED <<configVars, requests, lapsed, aired, wentTo>>

Proceed(c) ==
  \/ ClaimConfirm(c) \/ CallRefused(c) \/ CallUnanswered(c)
  \/ CallAccepted(c) \/ CallRejected(c)
  \/ RecordSubmission(c)

-----------------------------------------------------------------------------

Next ==
  \/ \E environment \in Environment, cog \in Cog, given \in Cog \cup {Nobody} :
       CheckCertificate(environment, cog, given)
  \/ \E e \in edits : WriteConfig(e)
  \/ \E enabled \in BOOLEAN : SetEnabled(enabled)
  \/ \E a \in Admin, r \in Request :
       \/ \E kind \in {"live", "handshake"} : RequestSend(a, r, kind)
       \/ CancelSend(a, r) \/ CheckConfirm(a, r)
  \/ \E r \in Request : Lapse(r)
  \/ \E c \in calls : Proceed(c) \/ CutOff(c)

Spec == Init /\ [][Next]_vars

\* The call to IPAWS-OPEN has a timeout, and the transactions end.
Fairness == \A r \in Request : WF_vars(\E c \in calls : c.request = r /\ Proceed(c))

FairSpec == Spec /\ Fairness

-----------------------------------------------------------------------------
(* Properties *)

\* The two-person rule: a request's claim is its agreement, and what IPAWS-OPEN
\* took went out under it.
Rule == INSTANCE TwoPersonSend WITH
  Person <- Admin,
  asked <- [r \in Request |-> requests[r].requestedBy],
  agreed <- [r \in Request |->
    IF requests[r].status = "confirmed" THEN requests[r].decidedBy ELSE Nobody],
  over <- {r \in Request : requests[r].status = "cancelled"}

\* Confirmations, cancellations, lapses, reconfigurations and stops of the
\* process in any order keep the two-person rule: no alert goes out on one
\* person's word, twice for one request, or after its request was withdrawn.
KeepsTwoPersonRule == Rule!RuleSpec

\* The record of a submission is true, though nothing is locked during the call:
\* one that says the alert was not sent means it never went out, and one that
\* says IPAWS-OPEN accepted it means it went out, once. The other two promise
\* nothing: the alert may have reached the public, or not.
RecordTellsTruth ==
  \A r \in Request :
    /\ requests[r].record = "not sent" => aired[r] = 0
    /\ requests[r].record = "accepted" => aired[r] = 1

\* A dry run goes to the test environment, though the COG be pointed at
\* production between the request and the confirmation, or during the call.
HandshakeStaysInTest ==
  \A r \in Request : requests[r].kind = "handshake" => "production" \notin wentTo[r]

\* Every confirmed request gets its record, unless its confirmation was cut
\* off; "the request stays confirmed with no submission" only then.
ConfirmedIsRecorded ==
  \A r \in Request :
    requests[r].status = "confirmed" ~> requests[r].record # "none" \/ r \in stranded

\* "The certificate bundle, new or stored, is checked against the COG id":
\* two reconfigurations that cross store a pair that neither checked.
StoredPairWasChecked == config.certificate \in {config.cog, Nobody}
=============================================================================
