------------------------------ MODULE SyncHub ------------------------------
(***************************************************************************)
(* The board sync hub (server/src/sync/hub.ts): the live Yjs document of   *)
(* one board, its durable log and its snapshot, the sockets that follow it *)
(* and what changes it: sync updates, REST record writes, template         *)
(* upgrades, idle eviction, and the restart of the process.                *)
(*                                                                         *)
(* A document is the set of the updates in it: Yjs updates commute and     *)
(* repeat harmlessly. A transaction that appends to the log is one step,   *)
(* at its commit: the board's advisory lock keeps such transactions apart. *)
(* The process hears of a commit in a later step, when it runs what        *)
(* afterCommit registered; what it then does up to its next await is one   *)
(* step. "Caller" is a socket that joins, or an apply.                     *)
(*                                                                         *)
(* Abstracted: record contents and conflicts, record deletions, the        *)
(* incident documents' per-reader row projections.                         *)
(***************************************************************************)
EXTENDS Naturals, Sequences, FiniteSets

CONSTANTS
  Session,      \* sockets, each opened once
  Guest,        \* sessions of people whose row-level security hides the log
  Apply,        \* sync updates, each by its own call of apply
  Write,        \* REST record writes
  Triggers,     \* the writes each apply's board actions make (actions.ts)
  Partial,      \* applies that write no row: a required field is missing, or a conflict
  Threshold,    \* HubOptions.snapshotThreshold
  InOrder,      \* TRUE: the process hears commits in the order they happened
  MaxVersion,   \* bound: versions of the board's template
  MaxRestarts   \* bound: restarts of the process

Caller == Session \cup Apply
Update == Apply \cup Write

ASSUME SetsAssumption ==
  /\ Session \cap Apply = {} /\ Write \cap Apply = {}
  /\ Guest \subseteq Session /\ Partial \subseteq Apply
ASSUME TriggersAssumption == Triggers \in [Apply -> {{}} \cup {{w} : w \in Write}]
ASSUME PartialAssumption == \A a \in Partial : Triggers[a] = {}
ASSUME NumbersAssumption ==
  /\ Threshold \in Nat \ {0} /\ MaxVersion \in Nat \ {0} /\ MaxRestarts \in Nat
ASSUME InOrderAssumption == InOrder \in BOOLEAN

VARIABLES
  log,        \* sync_updates of the board
  snapshot,   \* sync_snapshots of the scope
  version,    \* boards.template_version
  heap,       \* every HubEntry made, in the order they were made
  current,    \* BoardSyncHub.entries: the entry of the scope, or 0
  subs,       \* every subscribers Set made, by the entry it was made with
  call,       \* what each caller is doing
  unheard,    \* commits the process has not heard of, oldest first
  held,       \* what each joined session's own document holds
  owed,       \* history: updates announced while the session was joined
  restarts    \* history

database == <<log, snapshot, version>>
vars == <<log, snapshot, version, heap, current, subs, call, unheard, held, owed, restarts>>

Image == [doc : SUBSET Update, through : Nat, since : Nat, version : 1..MaxVersion]

Entry == [doc : SUBSET Update, through : Nat, since : Nat, version : 1..MaxVersion,
          room : Nat, active : Nat, idle : BOOLEAN, before : SUBSET Caller]

\* at: where the caller is. entry: the entry it was given, or has cached.
\* fresh: it hydrated an image of its own.
Call == [at : {"new", "retry", "loaded", "compacting", "ready", "committed", "saving",
               "joined", "done"},
         entry : Nat, fresh : BOOLEAN, image : Image]

NoImage == [doc |-> {}, through |-> 0, since |-> 0, version |-> 1]
At(place) == [at |-> place, entry |-> 0, fresh |-> FALSE, image |-> NoImage]
Elements(s) == {s[i] : i \in DOMAIN s}

TypeOK ==
  /\ log \in Seq(Update)
  /\ snapshot \in [state : SUBSET Update, through : Nat]
  /\ version \in 1..MaxVersion
  /\ heap \in Seq(Entry)
  /\ current \in 0..Len(heap)
  /\ subs \in Seq(SUBSET Session)
  /\ Len(subs) = Len(heap)
  /\ \A e \in DOMAIN heap : heap[e].room \in 1..e
  /\ call \in [Caller -> Call]
  /\ \A c \in Caller : call[c].entry \in 0..Len(heap)
  /\ unheard \in Seq(Update)
  /\ held \in [Session -> SUBSET Update]
  /\ owed \in [Session -> SUBSET Update]
  /\ restarts \in 0..MaxRestarts

Init ==
  /\ log = <<>> /\ snapshot = [state |-> {}, through |-> 0] /\ version = 1
  /\ heap = <<>> /\ current = 0 /\ subs = <<>>
  /\ call = [c \in Caller |-> At("new")]
  /\ unheard = <<>>
  /\ held = [s \in Session |-> {}] /\ owed = [s \in Session |-> {}]
  /\ restarts = 0

----------------------------------------------------------------------------
(* The durable side.                                                       *)

\* Fields of records in board_records. A partial record has no row yet.
Rows == Elements(log) \ Partial

\* hydrateBoardDoc, by a reader who may read the log: the snapshot, the log
\* after it, and the rows. A guest is shown neither of the first two.
Hydrated(c) ==
  IF c \in Guest THEN [NoImage EXCEPT !.doc = Rows, !.version = version]
  ELSE [doc |-> snapshot.state \cup Rows
                  \cup {log[i] : i \in snapshot.through + 1 .. Len(log)},
        through |-> Len(log), since |-> Len(log) - snapshot.through, version |-> version]

\* The image a committing apply installs: what it hydrated under the lock,
\* and its own update.
Committing(a) ==
  LET h == Hydrated(a) IN
  [h EXCEPT !.doc = @ \cup {a}, !.through = Len(log) + 1, !.since = @ + 1]

----------------------------------------------------------------------------
(* Entries.                                                                *)

Subscribers(e) == subs[heap[e].room]

\* scheduleEvict, the subscribers being sb: nothing while the entry is followed
\* or an apply uses it. The timer outlasts whatever call was in a transaction
\* when it was set.
Scheduled(h, sb, e) ==
  IF sb[h[e].room] = {} /\ h[e].active = 0
  THEN [h EXCEPT ![e].idle = TRUE,
                 ![e].before = {c \in Caller : call[c].at \in {"loaded", "compacting"}}]
  ELSE h

Cancelled(h, e) == [h EXCEPT ![e].idle = FALSE, ![e].before = {}]

\* foldRecordWrite, for the writes ws.
Folded(h, ws) ==
  IF current = 0 THEN h ELSE [h EXCEPT ![current].doc = @ \cup ws]

\* Mutant: the apply's end does not restart the grace period.
ReleasedOnly(h, e) == [h EXCEPT ![e].active = @ - 1]

\* An apply's finally: one call fewer, and perhaps nobody left.
Released(h, e) == Scheduled([h EXCEPT ![e].active = @ - 1], subs, e)

\* Each session is sent sent[s], and is owed all of news.
Announce(sent, news) ==
  /\ held' = [s \in Session |-> held[s] \cup sent[s]]
  /\ owed' = [s \in Session |-> IF call[s].at = "joined" THEN owed[s] \cup news ELSE {}]

----------------------------------------------------------------------------
(* entry(): the scope's entry, cached or made.                             *)

\* Its transaction: access, the template version, the cached entry or an image.
Load(c) ==
  /\ call[c].at \in {"new", "retry"}
  /\ LET hit == current # 0 /\ heap[current].version = version IN
     call' = [call EXCEPT ![c] =
       [at |-> "loaded", entry |-> current, fresh |-> ~hit,
        image |-> IF hit THEN [NoImage EXCEPT !.version = version] ELSE Hydrated(c)]]
  /\ UNCHANGED <<database, heap, current, subs, unheard, held, owed, restarts>>

\* The cached entry was evicted meanwhile and nothing was hydrated: again.
Reload(c) ==
  /\ call[c].at = "loaded" /\ current = 0 /\ ~call[c].fresh
  /\ call' = [call EXCEPT ![c] = At("retry")]
  /\ UNCHANGED <<database, heap, current, subs, unheard, held, owed, restarts>>

\* A session (routes.ts) is sent the document of e, then subscribes to whatever
\* entry cur the map h has.
Joins(s, e, h, sb, cur) ==
  /\ heap' = Cancelled(h, cur)
  /\ subs' = [sb EXCEPT ![h[cur].room] = @ \cup {s}]
  /\ held' = [held EXCEPT ![s] = h[e].doc]
  /\ call' = [call EXCEPT ![s] = [At("joined") EXCEPT !.entry = cur]]

\* What the caller does once it has entry e: an apply counts itself in, a session
\* joins. It cannot if the map has no entry any more ("board not open").
Enter(c, e, h, sb, cur) ==
  IF c \in Apply
  THEN /\ heap' = [h EXCEPT ![e].active = @ + 1]
       /\ call' = [call EXCEPT ![c] = [At("ready") EXCEPT !.entry = e]]
       /\ UNCHANGED held /\ subs' = sb
  ELSE IF cur # 0 THEN Joins(c, e, h, sb, cur)
  ELSE /\ call' = [call EXCEPT ![c] = At("done")]
       /\ heap' = h /\ subs' = sb /\ UNCHANGED held

\* Mutant: the last of several concurrent first opens makes its entry the map's.
ReusableUnlessFresh(c) ==
  IF call[c].fresh THEN 0
  ELSE IF current # 0 /\ heap[current].version = call[c].image.version THEN current
  ELSE call[c].entry

\* The entry to use again: the map's if its version is the caller's, else the
\* one the caller found cached; none if the caller hydrated.
Reusable(c) ==
  IF current # 0 /\ heap[current].version = call[c].image.version THEN current
  ELSE IF call[c].fresh THEN 0 ELSE call[c].entry

\* Mutant: a cached entry that was evicted meanwhile is handed out.
AdoptEvicted(c) ==
  /\ call[c].at = "loaded"
  /\ Reusable(c) # 0
  /\ Enter(c, Reusable(c), Cancelled(heap, Reusable(c)), subs, current)
  /\ UNCHANGED <<database, current, unheard, owed, restarts>>

Adopt(c) ==
  /\ call[c].at = "loaded"
  /\ current # 0 \/ call[c].fresh
  /\ Reusable(c) # 0
  /\ Enter(c, Reusable(c), Cancelled(heap, Reusable(c)), subs, current)
  /\ UNCHANGED <<database, current, unheard, owed, restarts>>

\* A new entry. It replaces one of an older template version and takes over
\* its Set of subscribers and its count of open applies.
Made(c) ==
  LET image == call[c].image IN
  [doc |-> image.doc, through |-> image.through, since |-> image.since,
   version |-> image.version,
   room |-> IF current # 0 THEN heap[current].room ELSE Len(heap) + 1,
   active |-> IF current # 0 THEN heap[current].active ELSE 0,
   idle |-> FALSE, before |-> {}]
Grown(c) ==
  Append(IF current # 0 THEN Cancelled(heap, current) ELSE heap, Made(c))

Install(c) ==
  /\ call[c].at = "loaded"
  /\ current # 0 \/ call[c].fresh
  /\ Reusable(c) = 0
  /\ current' = Len(heap) + 1
  /\ IF call[c].image.since >= Threshold
     THEN /\ heap' = Grown(c) /\ subs' = Append(subs, {})
          /\ call' = [call EXCEPT ![c].at = "compacting", ![c].entry = Len(heap) + 1]
          /\ UNCHANGED held
     ELSE Enter(c, Len(heap) + 1, Grown(c), Append(subs, {}), Len(heap) + 1)
  /\ UNCHANGED <<database, unheard, owed, restarts>>

----------------------------------------------------------------------------
(* writeSnapshot.                                                          *)

\* Mutant: a snapshot claims the newest number at the time it is written.
UpsertedToNewest(image) ==
  IF snapshot.through < image.through
  THEN [state |-> image.doc, through |-> Len(log)] ELSE snapshot

\* The upsert keeps the later snapshot; a failure is swallowed.
Upserted(image) ==
  IF snapshot.through < image.through
  THEN [state |-> image.doc, through |-> image.through] ELSE snapshot

Saved(c, h) ==
  \/ /\ snapshot' = Upserted(call[c].image)
     /\ h = [heap EXCEPT ![call[c].entry].since = 0]
  \/ snapshot' = snapshot /\ h = heap

\* Written by entry() after a long replay: the caller then goes on.
Compact(c) ==
  /\ call[c].at = "compacting"
  /\ \E h \in {heap, [heap EXCEPT ![call[c].entry].since = 0]} :
       /\ Saved(c, h)
       /\ Enter(c, call[c].entry, h, subs, current)
  /\ UNCHANGED <<log, version, current, unheard, owed, restarts>>

\* Written by an apply that passed the threshold: the apply then ends.
Save(a) ==
  /\ call[a].at = "saving"
  /\ \E h \in {heap, [heap EXCEPT ![call[a].entry].since = 0]} :
       /\ Saved(a, h)
       /\ heap' = Released(h, call[a].entry)
  /\ call' = [call EXCEPT ![a] = At("done")]
  /\ UNCHANGED <<log, version, current, subs, unheard, held, owed, restarts>>

----------------------------------------------------------------------------
(* Changes.                                                                *)

\* applyLocked: the transaction commits, its board actions' writes with it.
Commit(a) ==
  /\ call[a].at = "ready"
  /\ log' = log \o <<a>> \o (IF Triggers[a] = {} THEN <<>>
                             ELSE <<CHOOSE w \in Triggers[a] : TRUE>>)
  /\ call' = [call EXCEPT ![a].at = "committed", ![a].image = Committing(a)]
  /\ unheard' = Append(unheard, a)
  /\ UNCHANGED <<snapshot, version, heap, current, subs, held, owed, restarts>>

\* Or it is refused, rolls back, and the apply ends.
Refuse(a) ==
  /\ call[a].at = "ready"
  /\ heap' = Released(heap, call[a].entry)
  /\ call' = [call EXCEPT ![a] = At("done")]
  /\ UNCHANGED <<database, current, subs, unheard, held, owed, restarts>>

\* A REST record write commits (service.ts, record-sync.ts).
WriteRecord(w) ==
  /\ w \notin Elements(log) /\ \A a \in Apply : w \notin Triggers[a]
  /\ log' = Append(log, w)
  /\ unheard' = Append(unheard, w)
  /\ UNCHANGED <<snapshot, version, heap, current, subs, call, held, owed, restarts>>

\* Whose commit the process may hear of now.
Audible(u) ==
  /\ u \in Elements(unheard)
  /\ InOrder => u = Head(unheard)
Without(u) ==
  LET i == CHOOSE j \in DOMAIN unheard : unheard[j] = u
  IN  [j \in 1 .. Len(unheard) - 1 |-> unheard[IF j < i THEN j ELSE j + 1]]

\* install(): the apply's image becomes its entry's document.
Installed(a) ==
  LET image == call[a].image IN
  [heap EXCEPT ![call[a].entry].doc = image.doc, ![call[a].entry].through = image.through,
               ![call[a].entry].since = image.since, ![call[a].entry].version = image.version]

\* After an apply's commit: install, then fold its actions' writes, then a
\* snapshot if one is due.
HearApply(a) ==
  LET e == call[a].entry
      h == Folded(Installed(a), Triggers[a])
      sent == [s \in Session |->
                 (IF s \in Subscribers(e) THEN {a} ELSE {})
                   \cup (IF current # 0 /\ s \in Subscribers(current) THEN Triggers[a] ELSE {})]
      due == h[e].since >= Threshold
  IN /\ call[a].at = "committed" /\ Audible(a)
     /\ unheard' = Without(a)
     /\ Announce(sent, {a} \cup Triggers[a])
     /\ heap' = IF due THEN h ELSE Released(h, e)
     /\ call' = [call EXCEPT ![a] =
          IF due THEN [@ EXCEPT !.at = "saving", !.image.doc = h[e].doc] ELSE At("done")]
     /\ UNCHANGED <<database, current, subs, restarts>>

\* After a REST write's commit: foldRecordWrite.
HearWrite(w) ==
  LET sent == [s \in Session |->
                 IF current # 0 /\ s \in Subscribers(current) THEN {w} ELSE {}] IN
  /\ Audible(w)
  /\ unheard' = Without(w)
  /\ Announce(sent, {w})
  /\ heap' = Folded(heap, {w})
  /\ UNCHANGED <<database, current, subs, call, restarts>>

\* upgradeBoard.
Upgrade ==
  /\ version < MaxVersion
  /\ version' = version + 1
  /\ UNCHANGED <<log, snapshot, heap, current, subs, call, unheard, held, owed, restarts>>

----------------------------------------------------------------------------
(* Leaving.                                                                *)

\* A socket closes and releases its subscription.
Leave(s) ==
  LET e == call[s].entry
      left == [subs EXCEPT ![heap[e].room] = @ \ {s}]
  IN /\ call[s].at = "joined"
     /\ subs' = left
     /\ heap' = Scheduled(heap, left, e)
     /\ call' = [call EXCEPT ![s] = At("done")]
     /\ held' = [held EXCEPT ![s] = {}] /\ owed' = [owed EXCEPT ![s] = {}]
     /\ UNCHANGED <<database, current, unheard, restarts>>

\* An entry's idle timer fires.
Evict(e) ==
  /\ heap[e].idle
  /\ \A c \in heap[e].before : call[c].at \notin {"loaded", "compacting"}
  /\ heap' = Cancelled(heap, e)
  /\ current' = IF Subscribers(e) = {} /\ heap[e].active = 0 /\ current = e
                THEN 0 ELSE current
  /\ UNCHANGED <<database, subs, call, unheard, held, owed, restarts>>

\* The process restarts: what it held in memory is gone, and so are its callers.
Restart ==
  /\ restarts < MaxRestarts
  /\ restarts' = restarts + 1
  /\ heap' = <<>> /\ current' = 0 /\ subs' = <<>> /\ unheard' = <<>>
  /\ call' = [c \in Caller |-> IF call[c].at = "new" THEN call[c] ELSE At("done")]
  /\ held' = [s \in Session |-> {}] /\ owed' = [s \in Session |-> {}]
  /\ UNCHANGED database

----------------------------------------------------------------------------

Progress(c) == Reload(c) \/ Adopt(c) \/ Install(c) \/ Compact(c)
                 \/ (call[c].at = "retry" /\ Load(c))
Finish(a) == Commit(a) \/ Refuse(a) \/ HearApply(a) \/ Save(a)

Next ==
  \/ \E c \in Caller : Load(c) \/ Reload(c) \/ Adopt(c) \/ Install(c) \/ Compact(c)
  \/ \E a \in Apply : Commit(a) \/ Refuse(a) \/ HearApply(a) \/ Save(a)
  \/ \E w \in Write : WriteRecord(w) \/ HearWrite(w)
  \/ \E s \in Session : Leave(s)
  \/ \E e \in DOMAIN heap : Evict(e)
  \/ Upgrade
  \/ Restart

Spec == Init /\ [][Next]_vars

\* A transaction ends and a timer fires. Nobody has to open, write or leave.
FairSpec ==
  /\ Spec
  /\ \A c \in Caller : WF_vars(Progress(c))
  /\ \A a \in Apply : WF_vars(Finish(a))
  /\ \A w \in Write : WF_vars(HearWrite(w))
  /\ WF_vars(\E e \in DOMAIN heap : Evict(e))

----------------------------------------------------------------------------
(* Properties.                                                             *)

Holds(doc, through) ==
  through <= Len(log) /\ \A i \in 1..through : log[i] \in doc

\* The durable snapshot holds every update of the log up to the number it
\* claims, so a hydration that replays only what follows it misses none
\* (hub.ts:802-806, 0102_sync_snapshots.sql:10).
SnapshotWhole == Holds(snapshot.state, snapshot.through)

\* So does every entry's document, for the number that would go with it into
\* a snapshot (hub.ts:70).
ThroughIsTrue == \A e \in DOMAIN heap : Holds(heap[e].doc, heap[e].through)

\* Whatever is announced while a session is joined reaches it: no replaced,
\* evicted or rebuilt entry keeps its subscribers to itself (hub.ts:737-739).
SubscribersHearAll == \A s \in Session : owed[s] \subseteq held[s]

\* Once the process has heard of every commit, the document it serves holds
\* every committed update: a REST record write too (hub.ts:50-52, 172-177).
DocumentWhole ==
  unheard = <<>> /\ current # 0 => Elements(log) \subseteq heap[current].doc

\* The part of it that concurrent opens, evictions and other writes cannot
\* break while the board keeps its template version: every sync update, and
\* every write its actions made (hub.ts:435-439, 485-488).
FromApplies == Apply \cup UNION {Triggers[a] : a \in Apply}
DocumentHoldsApplies ==
  unheard = <<>> /\ current # 0 => Elements(log) \cap FromApplies \subseteq heap[current].doc

\* An entry nobody follows or uses is dropped after its grace period, if
\* nobody comes back (hub.ts:283).
Unused ==
  /\ current # 0 /\ Subscribers(current) = {}
  /\ \A c \in Caller : call[c].at \in {"new", "done", "joined"}
IdleIsDropped == Unused ~> ~Unused

=============================================================================
