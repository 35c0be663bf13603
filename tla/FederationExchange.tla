------------------------- MODULE FederationExchange -------------------------
(***************************************************************************)
(* One board shared with one peer (server/src/federation/service.ts). A    *)
(* write queues its update or deletion for the peer in its own             *)
(* transaction; delivery workers push what waits, oldest first, as signed  *)
(* batches; where there is no network an administrator carries a batch in  *)
(* a file and brings a receipt back. The peer applies a batch update by    *)
(* update, each in a transaction of its own. The agreement may be revoked  *)
(* and made again at any time.                                             *)
(*                                                                         *)
(* A record is its edits, numbered from the one that creates it; an update *)
(* carries some edits of some records and merges as a CRDT update does,    *)
(* whatever was applied before it. A signature is known to verify or the   *)
(* peer refuses the batch, as it does one it has no agreement for.         *)
(***************************************************************************)
EXTENDS Naturals, Sequences, FiniteSets

CONSTANTS
  Record,       \* records of the board
  Worker,       \* delivery workers: two nodes' leaders may overlap
  MaxEdits,     \* bound: edits of one record
  MaxShares,    \* bound: agreements made
  MaxFiles,     \* bound: files exported
  MaxFaults,    \* bound: requests given up, transactions failed, refusals begun
  Batch,        \* entries in one batch
  Overlaps,     \* may a board be shared while a write to it is open?
  NoWrite       \* no write is open

Edits == Record \X (1..MaxEdits)
Entry == [adds : SUBSET Edits, removes : SUBSET Record]
Write == [record : Record, removes : BOOLEAN, queued : BOOLEAN]
File == "file"
Orphan == "nobody"

ASSUME FederationAssumption ==
  /\ IsFiniteSet(Record)
  /\ File \notin Worker /\ Orphan \notin Worker
  /\ NoWrite \notin Write
  /\ MaxEdits \in Nat /\ MaxShares \in Nat /\ MaxFiles \in Nat /\ MaxFaults \in Nat
  /\ Batch \in Nat \ {0} /\ Overlaps \in BOOLEAN

VARIABLES
  version,    \* edits each record has had here; 0: not created
  deleted,    \* records deleted here
  writing,    \* the write that holds the board's lock, not committed
  agreement,  \* the sharing agreement: "none", "being made", "made"
  copied,     \* the backfill of the agreement being made
  shares,     \* agreements made so far
  queue,      \* federation_outbox for the peer and board, in queue order
  dropped,    \* entries a revocation deleted
  delivered,  \* entries with delivered_at
  pushing,    \* the batch each worker has claimed, or {}
  answered,   \* workers whose push the peer took
  requests,   \* batches at the peer: who waits, what they carry, what is left
  copy,       \* the edits of each record the peer's document holds
  buried,     \* the peer's tombstones
  takes,      \* has the peer our key and an agreement that lets us write?
  exported,   \* batches put in files (federation_file_exports)
  imported,   \* batches the peer took from files (federation_file_imports)
  receipts,   \* batches the peer's receipts name
  deletedIn,  \* the agreement each record was deleted under (for properties)
  faults

rows == <<version, deleted, writing, deletedIn>>
outbox == <<queue, dropped, delivered>>
lane == <<pushing, answered, requests>>
peer == <<copy, buried, takes>>
files == <<exported, imported, receipts>>
sharing == <<agreement, copied, shares>>
vars == <<rows, sharing, outbox, lane, peer, files, faults>>

Ids == 1..Len(queue)
Waiting == Ids \ (dropped \cup delivered)

\* The peer has the record: its creating edit arrived and it is not deleted.
Has(r) == 1 \in copy[r]

TypeOK ==
  /\ version \in [Record -> 0..MaxEdits] /\ deleted \subseteq Record
  /\ writing \in Write \cup {NoWrite}
  /\ agreement \in {"none", "being made", "made"}
  /\ copied \in Seq(Entry) /\ shares \in 0..MaxShares
  /\ queue \in Seq(Entry)
  /\ dropped \subseteq Ids /\ delivered \subseteq Ids /\ dropped \cap delivered = {}
  /\ pushing \in [Worker -> SUBSET Ids] /\ answered \subseteq Worker
  /\ requests \subseteq [who : Worker \cup {File, Orphan}, batch : SUBSET Ids,
                         left : SUBSET Ids, begun : BOOLEAN]
  /\ copy \in [Record -> SUBSET (1..MaxEdits)] /\ buried \subseteq Record
  /\ takes \in BOOLEAN
  /\ \A b \in exported \cup imported \cup receipts : b \subseteq Ids
  /\ deletedIn \in [Record -> 0..MaxShares]
  /\ faults \in 0..MaxFaults

Init ==
  /\ version = [r \in Record |-> 0] /\ deleted = {} /\ writing = NoWrite
  /\ agreement = "none" /\ copied = <<>> /\ shares = 0
  /\ queue = <<>> /\ dropped = {} /\ delivered = {}
  /\ pushing = [w \in Worker |-> {}] /\ answered = {} /\ requests = {}
  /\ copy = [r \in Record |-> {}] /\ buried = {} /\ takes = TRUE
  /\ exported = {} /\ imported = {} /\ receipts = {}
  /\ deletedIn = [r \in Record |-> 0] /\ faults = 0

-----------------------------------------------------------------------------
(* Writes, each in one transaction under the board's lock *)

\* A write queues for the peer if it sees an agreement. A synced edit of a
\* deleted record changes no row, and is queued like any other.
BeginWrite(r, removes) ==
  /\ writing = NoWrite
  /\ Overlaps \/ agreement # "being made"
  /\ IF removes THEN version[r] > 0 /\ r \notin deleted ELSE version[r] < MaxEdits
  /\ writing' = [record |-> r, removes |-> removes, queued |-> agreement = "made"]
  /\ UNCHANGED <<version, deleted, deletedIn, sharing, outbox, lane, peer, files, faults>>

EntryOf(w) ==
  IF w.removes THEN [adds |-> {}, removes |-> {w.record}]
  ELSE [adds |-> {<<w.record, version[w.record] + 1>>}, removes |-> {}]

CommitWrite ==
  /\ writing # NoWrite
  /\ version' = IF writing.removes THEN version
                ELSE [version EXCEPT ![writing.record] = @ + 1]
  /\ deleted' = IF writing.removes THEN deleted \cup {writing.record} ELSE deleted
  /\ deletedIn' = IF writing.removes
                  THEN [deletedIn EXCEPT ![writing.record] =
                          IF writing.queued /\ agreement = "made" THEN shares ELSE 0]
                  ELSE deletedIn
  /\ queue' = IF writing.queued THEN Append(queue, EntryOf(writing)) ELSE queue
  /\ writing' = NoWrite
  /\ UNCHANGED <<sharing, dropped, delivered, lane, peer, files, faults>>

-----------------------------------------------------------------------------
(* Sharing the board, and revoking *)

\* Mutant: only what is written from now on is shared.
BackfillNothing == {<<>>}

\* A record as it stands.
Part(r) == [adds |-> {r} \X (1..version[r]), removes |-> {}]

\* The records as they stand, each a part of its own, queued in the order the
\* records were created, which is not kept here: in any order.
Backfill ==
  LET live == {r \in Record \ deleted : version[r] > 0}
      orders == {s \in [1..Cardinality(live) -> live] :
                   \A r \in live : \E i \in DOMAIN s : s[i] = r}
  IN  {[i \in DOMAIN s |-> Part(s[i])] : s \in orders}

\* The agreement is inserted and the records read, without the board's lock ...
BeginShare ==
  /\ agreement = "none" /\ shares < MaxShares
  /\ Overlaps \/ writing = NoWrite
  /\ agreement' = "being made" /\ copied' \in Backfill /\ shares' = shares + 1
  /\ UNCHANGED <<rows, outbox, lane, peer, files, faults>>

\* ... and seen by writes and workers once the transaction commits.
CommitShare ==
  /\ agreement = "being made"
  /\ agreement' = "made" /\ copied' = <<>>
  /\ queue' = queue \o copied
  /\ UNCHANGED <<rows, shares, dropped, delivered, lane, peer, files, faults>>

Revoke ==
  /\ agreement = "made"
  /\ agreement' = "none"
  /\ dropped' = dropped \cup Waiting
  /\ UNCHANGED <<rows, copied, shares, queue, delivered, lane, peer, files, faults>>

-----------------------------------------------------------------------------
(* The network lane *)

\* Mutant: the last of what waits is claimed first.
OldestLast(n) == {i \in Waiting : Cardinality({j \in Waiting : j > i}) < n}

\* The first of what waits, in queue order.
Oldest(n) == {i \in Waiting : Cardinality({j \in Waiting : j < i}) < n}

Updates(i) == queue[i].removes = {}

\* Mutant: a batch's deletions go first.
DeletesBefore(i, j) == IF Updates(i) = Updates(j) THEN i < j ELSE Updates(j)

\* A batch's updates go before its deletions, each in queue order.
Before(i, j) == IF Updates(i) = Updates(j) THEN i < j ELSE Updates(i)

Request(who, b) == [who |-> who, batch |-> b, left |-> b, begun |-> FALSE]

\* A claim takes no lease: another worker may claim and push the same entries.
Push(w) ==
  /\ pushing[w] = {}
  /\ agreement = "made" /\ Oldest(Batch) # {}
  /\ pushing' = [pushing EXCEPT ![w] = Oldest(Batch)]
  /\ requests' = requests \cup {Request(w, Oldest(Batch))}
  /\ UNCHANGED <<rows, sharing, outbox, answered, peer, files, faults>>

\* Mutant: an entry the revocation deleted is marked as well.
MarkDeliveredDropped(w) ==
  /\ w \in answered
  /\ delivered' = delivered \cup pushing[w]
  /\ pushing' = [pushing EXCEPT ![w] = {}]
  /\ answered' = answered \ {w}
  /\ UNCHANGED <<rows, sharing, queue, dropped, requests, peer, files, faults>>

MarkDelivered(w) ==
  /\ w \in answered
  /\ delivered' = delivered \cup (pushing[w] \ dropped)
  /\ pushing' = [pushing EXCEPT ![w] = {}]
  /\ answered' = answered \ {w}
  /\ UNCHANGED <<rows, sharing, queue, dropped, requests, peer, files, faults>>

\* The push times out, or the worker's process stops: the entries are put
\* off, and the peer goes on with what it received.
GiveUp(w) ==
  /\ pushing[w] # {}
  /\ faults < MaxFaults /\ faults' = faults + 1
  /\ pushing' = [pushing EXCEPT ![w] = {}]
  /\ answered' = answered \ {w}
  /\ requests' = {IF q.who = w THEN [q EXCEPT !.who = Orphan] ELSE q : q \in requests}
  /\ UNCHANGED <<rows, sharing, outbox, peer, files>>

-----------------------------------------------------------------------------
(* At the peer *)

\* Mutant: the worker of a refused push is never free again.
RefusedHeld(q) ==
  /\ requests' = requests \ {q}
  /\ UNCHANGED <<rows, sharing, outbox, pushing, answered, peer, files>>

\* The request is over with an error, and its worker puts the entries off.
Refused(q) ==
  /\ requests' = requests \ {q}
  /\ pushing' = IF q.who \in Worker THEN [pushing EXCEPT ![q.who] = {}] ELSE pushing
  /\ UNCHANGED <<rows, sharing, outbox, answered, peer, files>>

Check(q) ==
  /\ ~q.begun /\ takes
  /\ requests' = (requests \ {q}) \cup {[q EXCEPT !.begun = TRUE]}
  /\ UNCHANGED <<rows, sharing, outbox, pushing, answered, peer, files, faults>>

Refuse(q) == ~q.begun /\ ~takes /\ Refused(q) /\ UNCHANGED faults

\* One of the batch's transactions fails; those before it stay applied.
Fail(q) ==
  /\ q.begun
  /\ faults < MaxFaults /\ faults' = faults + 1
  /\ Refused(q)

\* An edit of a deleted record is a conflict, and changes nothing.
Merge(e) ==
  /\ copy' = [r \in Record |-> copy[r] \cup
               {n \in 1..MaxEdits : <<r, n>> \in e.adds /\ r \notin buried}]
  /\ UNCHANGED buried

\* A deletion of a record the peer does not have does nothing.
Bury(e) ==
  LET had == {r \in e.removes : Has(r)}
  IN  /\ buried' = buried \cup had
      /\ copy' = [r \in Record |-> IF r \in had THEN {} ELSE copy[r]]

Apply(q) ==
  /\ q.begun
  /\ \E i \in q.left :
       /\ \A j \in q.left \ {i} : Before(i, j)
       /\ IF Updates(i) THEN Merge(queue[i]) ELSE Bury(queue[i])
       /\ requests' = (requests \ {q}) \cup {[q EXCEPT !.left = @ \ {i}]}
  /\ UNCHANGED <<rows, sharing, outbox, pushing, answered, takes, files, faults>>

\* A push is answered; a file's batch is recorded, and its receipt made.
Done(q) ==
  /\ q.begun /\ q.left = {}
  /\ requests' = requests \ {q}
  /\ answered' = answered \cup ({q.who} \cap Worker)
  /\ imported' = imported \cup (IF q.who = File THEN {q.batch} ELSE {})
  /\ receipts' = receipts \cup (IF q.who = File THEN {q.batch} ELSE {})
  /\ UNCHANGED <<rows, sharing, outbox, pushing, peer, exported, faults>>

\* The peer's administrator revokes or makes its agreement, or replaces the key.
PeerTakes ==
  /\ IF takes THEN faults < MaxFaults /\ faults' = faults + 1 ELSE UNCHANGED faults
  /\ takes' = ~takes
  /\ UNCHANGED <<rows, sharing, outbox, lane, copy, buried, files>>

-----------------------------------------------------------------------------
(* The file lane. A longer file is cut into batches, each of them handled   *)
(* like this one, so a file is one batch here.                              *)

ExportFile ==
  /\ agreement = "made" /\ Oldest(Batch) # {}
  /\ Cardinality(exported) < MaxFiles
  /\ exported' = exported \cup {Oldest(Batch)}
  /\ UNCHANGED <<rows, sharing, outbox, lane, peer, imported, receipts, faults>>

\* Mutant: a receipt is made before the file is applied.
ImportFileAtOnce(b) ==
  /\ b \in exported /\ \A q \in requests : q.who # File
  /\ takes
  /\ receipts' = receipts \cup {b}
  /\ requests' = requests \cup {[Request(File, b) EXCEPT !.begun = TRUE]}
  /\ UNCHANGED <<rows, sharing, outbox, pushing, answered, peer, exported, imported, faults>>

\* A file imported before is not applied again, and yields its receipt again.
ImportFile(b) ==
  /\ b \in exported /\ \A q \in requests : q.who # File
  /\ takes
  /\ IF b \in imported
     THEN /\ receipts' = receipts \cup {b} /\ UNCHANGED requests
     ELSE /\ requests' = requests \cup {[Request(File, b) EXCEPT !.begun = TRUE]}
          /\ UNCHANGED receipts
  /\ UNCHANGED <<rows, sharing, outbox, pushing, answered, peer, exported, imported, faults>>

ImportReceipt(b) ==
  /\ b \in receipts
  /\ delivered' = delivered \cup (b \ dropped)
  /\ receipts' = receipts \ {b}
  /\ UNCHANGED <<rows, sharing, queue, dropped, lane, peer, exported, imported, faults>>

-----------------------------------------------------------------------------
PeerStep(q) == Check(q) \/ Refuse(q) \/ Apply(q) \/ Done(q)

Next ==
  \/ \E r \in Record, removes \in BOOLEAN : BeginWrite(r, removes)
  \/ CommitWrite
  \/ BeginShare \/ CommitShare \/ Revoke
  \/ \E w \in Worker : Push(w) \/ MarkDelivered(w) \/ GiveUp(w)
  \/ \E q \in requests : PeerStep(q) \/ Fail(q)
  \/ PeerTakes
  \/ ExportFile
  \/ \E b \in exported : ImportFile(b) \/ ImportReceipt(b)

Spec == Init /\ [][Next]_vars

\* Open transactions end, a worker that runs claims, pushes and marks, and the
\* peer handles what reaches it. Nothing makes anyone share, write, revoke,
\* carry a file or repair a refusal.
Fairness ==
  /\ WF_vars(CommitWrite) /\ WF_vars(CommitShare)
  /\ \A w \in Worker : WF_vars(Push(w)) /\ WF_vars(MarkDelivered(w))
  /\ WF_vars(\E q \in requests : PeerStep(q))

FairSpec == Spec /\ Fairness

-----------------------------------------------------------------------------
(* Properties *)

\* Store and forward (service.ts:214-217): while the board is shared, every
\* edit of every record not deleted is at the peer or waits for it, whatever
\* was pushed twice, carried in a file, given up, dropped by a revocation or
\* written before the agreement.
NothingLost ==
  agreement = "made" =>
    \A r \in Record \ deleted : \A n \in 1..version[r] :
      \/ n \in copy[r]
      \/ \E i \in Waiting : <<r, n>> \in queue[i].adds

\* A deletion made while the board is shared reaches the peer too: the record
\* is not there, or its deletion waits behind everything that could bring it.
DeletionsReach ==
  agreement = "made" =>
    \A r \in deleted : deletedIn[r] = shares =>
      \/ ~Has(r)
      \/ \E i \in Waiting : r \in queue[i].removes

\* An entry is marked delivered, by an answer or by a receipt, only when the
\* peer has applied it, and a record deleted while shared has not come back.
DeliveredIsApplied ==
  \A i \in delivered :
    /\ \A a \in queue[i].adds : a[2] \in copy[a[1]] \/ a[1] \in buried
    /\ \A r \in queue[i].removes : deletedIn[r] # 0 => ~Has(r)

\* Entries go strictly in queue order (0144_federation_batches.sql:8-11): no
\* entry is delivered, by either lane, while an older one waits.
DeliveredInOrder == \A i \in delivered, j \in Waiting : i < j

\* What waits arrives while the board stays shared and the peer takes it.
EditsArrive ==
  \A r \in Record : \A n \in 1..MaxEdits :
    (agreement = "made" /\ n <= version[r]) ~>
      (n \in copy[r] \/ r \in deleted \/ agreement # "made" \/ ~takes)

=============================================================================
