--------------------------- MODULE TwoPersonSend ---------------------------
(***************************************************************************)
(* What the two-person rule for public alerts promises                     *)
(* (docs/IPAWS-ENABLEMENT.md, held by server/src/ipaws/service.ts): an     *)
(* alert goes out only after one administrator has asked for it and        *)
(* another has agreed, at most once for each request, and never once the   *)
(* request has been withdrawn. IpawsSend implements it.                    *)
(***************************************************************************)
EXTENDS Naturals

CONSTANTS
  Person,     \* administrators
  Request,    \* requests to send
  Nobody      \* nobody yet

VARIABLES
  asked,      \* who asked for each request
  agreed,     \* who agreed to it
  over,       \* requests withdrawn
  aired       \* how often each request's alert went out

ruleVars == <<asked, agreed, over, aired>>

RuleInit ==
  /\ asked = [r \in Request |-> Nobody]
  /\ agreed = [r \in Request |-> Nobody]
  /\ over = {}
  /\ aired = [r \in Request |-> 0]

Ask(p, r) ==
  /\ asked[r] = Nobody
  /\ asked' = [asked EXCEPT ![r] = p]
  /\ UNCHANGED <<agreed, over, aired>>

Agree(p, r) ==
  /\ asked[r] \notin {Nobody, p} /\ agreed[r] = Nobody /\ r \notin over
  /\ agreed' = [agreed EXCEPT ![r] = p]
  /\ UNCHANGED <<asked, over, aired>>

Withdraw(r) ==
  /\ asked[r] # Nobody /\ agreed[r] = Nobody
  /\ over' = over \cup {r}
  /\ UNCHANGED <<asked, agreed, aired>>

Air(r) ==
  /\ agreed[r] # Nobody /\ aired[r] = 0
  /\ aired' = [aired EXCEPT ![r] = 1]
  /\ UNCHANGED <<asked, agreed, over>>

RuleNext ==
  \E r \in Request :
    Withdraw(r) \/ Air(r) \/ \E p \in Person : Ask(p, r) \/ Agree(p, r)

RuleSpec == RuleInit /\ [][RuleNext]_ruleVars
=============================================================================
