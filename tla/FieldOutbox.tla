---------------------------- MODULE FieldOutbox ----------------------------
(***************************************************************************)
(* The device side of queued field work: the outbox for messages and new   *)
(* tasks (web/src/offline/outbox.ts) and the queue of task completions     *)
(* (task-completions.ts, app/surfaces/task-continuity.ts), each a list     *)
(* under one key of the device's IndexedDB, and the API they deliver to.   *)
(*                                                                         *)
(* Every surface that mounts the outbox makes a FieldOutbox of its own     *)
(* over the same key (a "box" here). A box changes the list by reading it  *)
(* in one IndexedDB transaction and writing it in another; its promise     *)
(* chain keeps its own changes apart, and nothing keeps two boxes apart.   *)
(* The API is module ExactlyOnce, with the two reads of runFieldOperation  *)
(* and what it runs as separate steps, so requests cross.                  *)
(*                                                                         *)
(* Abstracted: what an operation says, the counts a surface shows, and the *)
(* refresh a receipt causes.                                               *)
(***************************************************************************)
EXTENDS Naturals, Sequences, FiniteSets

CONSTANTS
  Op,              \* operations, each entered once
  Passes,          \* passes over each kind of queue, which may run at once
  Box,             \* FieldOutbox or TaskCompletionQueue objects over the key
  BoxOf,           \* the box each pass, and each operation entered, uses
  Kinds,           \* kinds of queue, by whether they keep refusals (keeps)
  Refusable,       \* operations the API may refuse
  MaxCloses,       \* bound: pages closed
  Nobody           \* no caller: it closed, or stopped waiting

Pass == Passes[TRUE] \cup Passes[FALSE]
Caller == Pass \cup Op

ASSUME CallerAssumption == Pass \cap Op = {} /\ Nobody \notin Caller
ASSUME BoxAssumption == BoxOf \in [Caller -> Box] /\ Kinds \subseteq BOOLEAN
ASSUME RefusableAssumption == Refusable \subseteq Op
ASSUME ClosesAssumption == MaxCloses \in [BOOLEAN -> Nat]

VARIABLES
  keeps,      \* the queue's kind. TRUE: FieldOutbox. FALSE: TaskCompletionQueue
  stored,     \* IndexedDB field-outbox: the list, each item with its refusal
  lateKept,   \* IndexedDB late-receipts
  chain,      \* each box's changes, run one after another
  read,       \* the list a box's first change has read, as <<list>>; <<>> before
  call,       \* what each pass, and each operation sent when entered, does
  requests,   \* requests the API is serving
  closed, applied, late,  \* the API: module ExactlyOnce
  entered,    \* history: operations a person entered
  discarded,  \* history: operations a person discarded
  closes      \* history: pages closed

device == <<keeps, stored, lateKept, chain, read>>
server == <<closed, applied, late>>
history == <<entered, discarded, closes>>
vars == <<device, call, requests, server, history>>

Server == INSTANCE ExactlyOnce

Item == [op : Op, refused : BOOLEAN]
Change == [what : {"add", "drop", "refuse"}, op : Op, wake : Caller \cup {Nobody}]
Call == [at : {"idle", "next", "waiting", "readLate", "writeLate", "changing"},
         rest : Seq(Op), seen : SUBSET Op]
Request == [op : Op, from : Caller \cup {Nobody}, at : {"sent", "open"}]

IdleCall == [at |-> "idle", rest |-> <<>>, seen |-> {}]

InQueue(list, o) == \E i \in DOMAIN list : list[i].op = o
Refused(o) == \E i \in DOMAIN stored : stored[i] = [op |-> o, refused |-> TRUE]
Waiting(o) == \E i \in DOMAIN stored : stored[i] = [op |-> o, refused |-> FALSE]
Current(x) == Head(call[x].rest)

TypeOK ==
  /\ keeps \in Kinds
  /\ stored \in Seq(Item)
  /\ lateKept \subseteq Op
  /\ chain \in [Box -> Seq(Change)]
  /\ read \in [Box -> Seq(Seq(Item))]
  /\ call \in [Caller -> Call]
  /\ \A x \in Caller : call[x].at = "idle" <=> call[x].rest = <<>>
  /\ requests \subseteq Request
  /\ Server!OnceTypeOK
  /\ entered \subseteq Op /\ discarded \subseteq Op
  /\ closes \in 0..MaxCloses[keeps]

Init ==
  /\ keeps \in Kinds
  /\ stored = <<>> /\ lateKept = {}
  /\ chain = [b \in Box |-> <<>>]
  /\ read = [b \in Box |-> <<>>]
  /\ call = [x \in Caller |-> IdleCall]
  /\ requests = {}
  /\ Server!OnceInit
  /\ entered = {} /\ discarded = {} /\ closes = 0

-----------------------------------------------------------------------------
(* Changes to the list *)

\* The list without o, which it holds once at most.
Without(list, o) ==
  LET i == CHOOSE j \in DOMAIN list : list[j].op = o
  IN  [j \in 1..Len(list) - 1 |-> list[IF j < i THEN j ELSE j + 1]]

Updated(list, change) ==
  CASE change.what = "add" ->
         IF InQueue(list, change.op) THEN list
         ELSE Append(list, [op |-> change.op, refused |-> FALSE])
    [] change.what = "drop" ->
         IF InQueue(list, change.op) THEN Without(list, change.op) ELSE list
    [] OTHER ->
         [i \in DOMAIN list |-> IF list[i].op = change.op
                                  THEN [list[i] EXCEPT !.refused = TRUE]
                                  ELSE list[i]]

\* A caller asks its box for a change to its operation and waits for it.
Ask(x, what) ==
  /\ chain' = [chain EXCEPT ![BoxOf[x]] =
                 Append(@, [what |-> what, op |-> Current(x), wake |-> x])]
  /\ call' = [call EXCEPT ![x].at = "changing"]

\* A pass goes on with its next operation; an operation entered has been dealt with.
GoOn(x) ==
  LET rest == Tail(call[x].rest)
  IN  [call EXCEPT ![x] = IF rest = <<>> THEN IdleCall
                          ELSE [at |-> "next", rest |-> rest, seen |-> {}]]

Stop(x) == call' = [call EXCEPT ![x] = IdleCall]

ReadList(b) ==
  /\ chain[b] # <<>> /\ read[b] = <<>>
  /\ read' = [read EXCEPT ![b] = <<stored>>]
  /\ UNCHANGED <<keeps, stored, lateKept, chain, call, requests, server, history>>

WriteList(b) ==
  LET change == Head(chain[b])
  IN  /\ chain[b] # <<>> /\ read[b] # <<>>
      /\ stored' = Updated(Head(read[b]), change)
      /\ read' = [read EXCEPT ![b] = <<>>]
      /\ chain' = [chain EXCEPT ![b] = Tail(@)]
      /\ call' = IF change.wake = Nobody THEN call ELSE GoOn(change.wake)
      /\ UNCHANGED <<keeps, lateKept, requests, server, history>>

-----------------------------------------------------------------------------
(* The person at the device *)

Sent(o, x) == [op |-> o, from |-> x, at |-> "sent"]

\* Mutant: an operation is sent while it is being kept.
EnqueueAndSend(o) ==
  /\ o \notin entered
  /\ entered' = entered \cup {o}
  /\ chain' = [chain EXCEPT ![BoxOf[o]] =
                 Append(@, [what |-> "add", op |-> o, wake |-> o])]
  /\ call' = [call EXCEPT ![o] = [at |-> "changing", rest |-> <<o>>, seen |-> {}]]
  /\ requests' = requests \cup {Sent(o, o)}
  /\ UNCHANGED <<keeps, stored, lateKept, read, server, discarded, closes>>

\* useFieldOutbox.send with no connection, and useTaskContinuity.complete always.
Enqueue(o) ==
  /\ o \notin entered
  /\ entered' = entered \cup {o}
  /\ chain' = [chain EXCEPT ![BoxOf[o]] =
                 Append(@, [what |-> "add", op |-> o, wake |-> o])]
  /\ call' = [call EXCEPT ![o] = [at |-> "changing", rest |-> <<o>>, seen |-> {}]]
  /\ UNCHANGED <<keeps, stored, lateKept, read, requests, server, discarded, closes>>

\* useFieldOutbox.send when the browser reports a connection.
SendEntered(o) ==
  /\ keeps
  /\ o \notin entered
  /\ entered' = entered \cup {o}
  /\ call' = [call EXCEPT ![o] = [at |-> "waiting", rest |-> <<o>>, seen |-> {}]]
  /\ requests' = requests \cup {Sent(o, o)}
  /\ UNCHANGED <<device, server, discarded, closes>>

\* Offered for a refused operation only.
Discard(o, b) ==
  /\ Refused(o) /\ o \notin discarded
  /\ discarded' = discarded \cup {o}
  /\ chain' = [chain EXCEPT ![b] =
                 Append(@, [what |-> "drop", op |-> o, wake |-> Nobody])]
  /\ UNCHANGED <<keeps, stored, lateKept, read, call, requests, server, entered, closes>>

\* The page closes, or the device restarts: what was not written is gone.
PageCloses(b) ==
  LET here == {x \in Caller : BoxOf[x] = b}
  IN  /\ closes < MaxCloses[keeps]
      /\ closes' = closes + 1
      /\ chain' = [chain EXCEPT ![b] = <<>>]
      /\ read' = [read EXCEPT ![b] = <<>>]
      /\ call' = [x \in Caller |-> IF x \in here THEN IdleCall ELSE call[x]]
      /\ requests' = {[r EXCEPT !.from = IF @ \in here THEN Nobody ELSE @] : r \in requests}
      /\ UNCHANGED <<keeps, stored, lateKept, server, entered, discarded>>

-----------------------------------------------------------------------------
(* flush *)

\* The operations that wait, in the list's order, as the only member of a set.
Due ==
  LET waits == {i \in DOMAIN stored : ~stored[i].refused}
      orders == {s \in [1..Cardinality(waits) -> waits] :
                   \A j, k \in DOMAIN s : j < k => s[j] < s[k]}
  IN  {[k \in DOMAIN s |-> stored[s[k]].op] : s \in orders}

\* On mount, and each time the device comes back online.
StartFlush(p) ==
  /\ p \in Passes[keeps] /\ call[p].at = "idle"
  /\ \E rest \in Due :
       /\ rest # <<>>
       /\ call' = [call EXCEPT ![p] = [at |-> "next", seen |-> {}, rest |-> rest]]
  /\ UNCHANGED <<device, requests, server, history>>

SendNext(p) ==
  /\ call[p].at = "next"
  /\ requests' = requests \cup {Sent(Current(p), p)}
  /\ call' = [call EXCEPT ![p].at = "waiting"]
  /\ UNCHANGED <<device, server, history>>

\* What a settled operation does: a pass drops it from the list.
Settle(x) ==
  IF x \in Pass THEN Ask(x, "drop") ELSE Stop(x) /\ UNCHANGED chain

\* Mutant: a refusal stops the pass and is not marked.
HearRefusalStops(x) == Stop(x) /\ UNCHANGED chain

\* An ApiError below 500 other than 401. The outbox keeps it with its reason and goes on;
\* a completion's pass, and an operation just entered, end with the error.
HearRefusal(x) ==
  IF x \in Pass /\ keeps THEN Ask(x, "refuse") ELSE Stop(x) /\ UNCHANGED chain

\* Mutant: the answer of a server fault is taken for a receipt.
HearFaultSettles(x) == Settle(x)

\* A 401 or a 5xx: the pass stops with the rest kept; one just entered is not kept.
HearFault(x) == Stop(x) /\ UNCHANGED chain

Hear(x, answer) ==
  /\ IF x = Nobody THEN UNCHANGED <<call, chain>>
     ELSE CASE answer = "applied" -> Settle(x)
            [] answer = "late" -> /\ call' = [call EXCEPT ![x].at = "readLate"]
                                  /\ UNCHANGED chain
            [] answer = "refused" -> HearRefusal(x)
            [] answer = "fault" -> HearFault(x)
  /\ UNCHANGED <<keeps, stored, lateKept, read>>

\* fetch fails: the request never arrived, or its answer never does. An operation just
\* entered is then kept.
NoAnswer(x) ==
  \E r \in requests :
    /\ r.from = x /\ x # Nobody
    /\ \/ r.at = "sent" /\ requests' = requests \ {r}
       \/ requests' = (requests \ {r}) \cup {[r EXCEPT !.from = Nobody]}
    /\ IF x \in Op THEN Ask(x, "add") ELSE Stop(x) /\ UNCHANGED chain
    /\ UNCHANGED <<keeps, stored, lateKept, read, server, history>>

\* keepLateReceipt reads the receipts kept, then writes them with one more.
ReadLate(x) ==
  /\ call[x].at = "readLate"
  /\ IF Current(x) \in lateKept
       THEN Settle(x)
       ELSE /\ call' = [call EXCEPT ![x].at = "writeLate", ![x].seen = lateKept]
            /\ UNCHANGED chain
  /\ UNCHANGED <<keeps, stored, lateKept, read, requests, server, history>>

WriteLate(x) ==
  /\ call[x].at = "writeLate"
  /\ lateKept' = call[x].seen \cup {Current(x)}
  /\ Settle(x)
  /\ UNCHANGED <<keeps, stored, read, requests, server, history>>

-----------------------------------------------------------------------------
(* The API *)

Answer(r, answer) ==
  /\ requests' = requests \ {r}
  /\ Hear(r.from, answer)
  /\ UNCHANGED history

\* runFieldOperation: an earlier receipt or late submission answers; a closed incident
\* keeps the operation; otherwise it is going to run.
ServerReads(r) ==
  /\ r.at = "sent"
  /\ \/ r.op \in applied /\ Answer(r, "applied") /\ UNCHANGED server
     \/ r.op \notin applied /\ late[r.op] # "none" /\ Answer(r, "late") /\ UNCHANGED server
     \/ /\ r.op \notin applied /\ closed
        /\ Server!OnceKeep(r.op)
        /\ Answer(r, "late")
     \/ /\ r.op \notin applied /\ late[r.op] = "none" /\ ~closed
        /\ requests' = (requests \ {r}) \cup {[r EXCEPT !.at = "open"]}
        /\ UNCHANGED <<device, call, server, history>>

ServerRuns(r) ==
  /\ r.at = "open"
  /\ Server!OnceApply(r.op)
  /\ Answer(r, "applied")

\* The sender may not, the task is not there, or the incident closed since it was read: one
\* of a task's two runs is told so even when the other has been applied.
ServerRefuses(r) ==
  /\ r.at = "open" /\ r.op \in Refusable
  /\ Answer(r, "refused")
  /\ UNCHANGED server

\* The session lapsed, or the server failed and rolled back.
ServerFaults(r) ==
  /\ Answer(r, "fault")
  /\ UNCHANGED server

\* Administrators close and reopen the incident and apply what was kept. The decision they
\* then record changes no answer a device gets.
AdministratorActs ==
  /\ \/ Server!OnceCloseOrReopen
     \/ \E o \in Op : late[o] = "pending" /\ Server!OnceApply(o)
  /\ UNCHANGED <<device, call, requests, history>>

-----------------------------------------------------------------------------
Serve(r) == ServerReads(r) \/ ServerRuns(r) \/ ServerRefuses(r)

Next ==
  \/ \E o \in Op : Enqueue(o) \/ SendEntered(o)
  \/ \E o \in Op, b \in Box : Discard(o, b)
  \/ \E b \in Box : ReadList(b) \/ WriteList(b) \/ PageCloses(b)
  \/ \E p \in Pass : StartFlush(p) \/ SendNext(p)
  \/ \E x \in Caller : ReadLate(x) \/ WriteLate(x) \/ NoAnswer(x)
  \/ \E r \in requests : Serve(r) \/ ServerFaults(r)
  \/ AdministratorActs

Spec == Init /\ [][Next]_vars

(***************************************************************************)
(* The page runs what it started (WF). The device comes online again, and  *)
(* the API is not unreachable or failing for ever: a request that can be   *)
(* served again and again is served, past each of its steps (SF). Pages    *)
(* close finitely often (MaxCloses). Only the outbox is claimed to drain,  *)
(* so only its passes are asked to run.                                    *)
(***************************************************************************)
ServeFor(p, step) ==
  \E r \in requests : r.from = p /\ r.at = step /\ Serve(r)

Fairness ==
  /\ \A b \in Box : WF_vars(ReadList(b)) /\ WF_vars(WriteList(b))
  /\ \A p \in Passes[TRUE] :
       /\ WF_vars(StartFlush(p))
       /\ WF_vars(SendNext(p) \/ ReadLate(p) \/ WriteLate(p))
       /\ SF_vars(ServeFor(p, "sent")) /\ SF_vars(ServeFor(p, "open"))

FairSpec == Spec /\ Fairness

-----------------------------------------------------------------------------
(***************************************************************************)
(* Properties                                                              *)
(***************************************************************************)

(* An operation kept on the device leaves only once the server has it or its *)
(* person discarded it (outbox.ts:15-18, task-completions.ts:25-26).         *)
LeavesOnReceipt ==
  [][\A o \in Op : InQueue(stored, o) /\ ~InQueue(stored', o) =>
       o \in applied \cup discarded \/ late[o] # "none"]_vars

(* What waits in the outbox is sent and settled, or marked refused: neither a *)
(* lost answer nor another operation's refusal keeps it for ever. A           *)
(* completion that is refused does stop the ones behind it.                   *)
QueueDrains ==
  \A o \in Op : (keeps /\ Waiting(o)) ~> ~Waiting(o)

(* A completion is kept before it is sent, until the server has it           *)
(* (task-completions.ts:25-26).                                              *)
SentIsStored ==
  ~keeps => \A r \in requests :
    r.from # Nobody =>
      InQueue(stored, r.op) \/ r.op \in applied \cup discarded \/ late[r.op] # "none"
=============================================================================
