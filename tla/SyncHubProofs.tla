---------------------------- MODULE SyncHubProofs ----------------------------
(***************************************************************************)
(* Theorems about SyncHub, for every set of sessions, updates and writes:  *)
(* those about snapshots for every bound and commits heard in any order,   *)
(* those about what is served with the hypotheses they state.              *)
(***************************************************************************)
EXTENDS SyncHub, Integers, FiniteSetTheorems, TLAPS

\* The document d holds the first t updates of the log l.
Sound(l, d, t) == t \in Nat /\ t <= Len(l) /\ \A i \in 1..t : l[i] \in d

\* An entry, whatever its count of open applies.
LooseEntry ==
  [doc : SUBSET Update, through : Nat, since : Nat, version : 1..MaxVersion,
   room : Nat, active : Int, idle : BOOLEAN, before : SUBSET Caller]

\* Entries h are sound for the log l.
Good(l, h) ==
  /\ h \in Seq(LooseEntry)
  /\ \A e \in 1..Len(h) : Sound(l, h[e].doc, h[e].through)

\* Callers' images are sound for the log l, and of n entries each caller that
\* has one has one of them.
GoodCall(l, n, r) ==
  /\ r \in Call
  /\ Sound(l, r.image.doc, r.image.through)
  /\ r.entry <= n
  /\ r.at = "new" => r.entry = 0
  /\ r.at \in {"compacting", "ready", "committed"} => r.entry # 0
GoodCalls(l, n, k) ==
  /\ k \in [Caller -> Call]
  /\ \A c \in Caller : GoodCall(l, n, k[c])

\* The inductive invariant: whatever may become a snapshot is sound, the
\* images that callers still carry included.
HubInv ==
  /\ log \in Seq(Update)
  /\ snapshot \in [state : SUBSET Update, through : Nat]
  /\ version \in 1..MaxVersion
  /\ current \in 0..Len(heap)
  /\ Sound(log, snapshot.state, snapshot.through)
  /\ Good(log, heap)
  /\ GoodCalls(log, Len(heap), call)

----------------------------------------------------------------------------
(* Sequences of entries, changed in place.                                 *)

LEMMA InPlace ==
  ASSUME NEW l, NEW h, Good(l, h), NEW g \in [1..Len(h) -> LooseEntry],
         \A e \in 1..Len(h) : h[e].doc \subseteq g[e].doc /\ g[e].through = h[e].through
  PROVE  Good(l, g) /\ Len(g) = Len(h)
<1>1. Len(h) \in Nat
  BY DEF Good
<1>2. g \in Seq(LooseEntry) /\ Len(g) = Len(h)
  BY <1>1
<1>3. ASSUME NEW e \in 1..Len(h) PROVE Sound(l, g[e].doc, g[e].through)
  <2>1. Sound(l, h[e].doc, h[e].through)
    BY DEF Good
  <2>2. h[e].doc \subseteq g[e].doc /\ g[e].through = h[e].through
    OBVIOUS
  <2> QED
    BY <2>1, <2>2 DEF Sound
<1> QED
  BY <1>2, <1>3 DEF Good

LEMMA AsFunction ==
  ASSUME NEW l, NEW h, Good(l, h)
  PROVE  h \in [1..Len(h) -> LooseEntry] /\ Len(h) \in Nat
  BY DEF Good

\* The changes the actions make, named so that facts about them can be cited.
Timed(h, e, waits) == [h EXCEPT ![e].idle = TRUE, ![e].before = waits]
Counted(h, e, n) == [h EXCEPT ![e].active = n]
Compacted(h, e) == [h EXCEPT ![e].since = 0]
Added(h, e, ws) == [h EXCEPT ![e].doc = @ \cup ws]
Put(h, e, image) ==
  [h EXCEPT ![e].doc = image.doc, ![e].through = image.through,
            ![e].since = image.since, ![e].version = image.version]

LEMMA CancelledGood ==
  ASSUME NEW l, NEW h, Good(l, h), NEW e
  PROVE  Good(l, Cancelled(h, e)) /\ Len(Cancelled(h, e)) = Len(h)
<1> DEFINE D == 1..Len(h)
           g == Cancelled(h, e)
<1>1. h \in [D -> LooseEntry]
  BY AsFunction
<1> HIDE DEF D
<1>2. g \in [D -> LooseEntry]
  BY <1>1 DEF LooseEntry, Cancelled
<1>3. \A i \in D : h[i].doc \subseteq g[i].doc /\ g[i].through = h[i].through
  BY <1>1 DEF LooseEntry, Cancelled
<1> HIDE DEF g
<1>4. Good(l, g) /\ Len(g) = Len(h)
  BY <1>2, <1>3, InPlace DEF D
<1> QED
  BY <1>4 DEF g

LEMMA TimedGood ==
  ASSUME NEW l, NEW h, Good(l, h), NEW e, NEW waits \in SUBSET Caller
  PROVE  Good(l, Timed(h, e, waits)) /\ Len(Timed(h, e, waits)) = Len(h)
<1> DEFINE D == 1..Len(h)
           g == Timed(h, e, waits)
<1>1. h \in [D -> LooseEntry]
  BY AsFunction
<1> HIDE DEF D
<1>2. g \in [D -> LooseEntry]
  BY <1>1 DEF LooseEntry, Timed
<1>3. \A i \in D : h[i].doc \subseteq g[i].doc /\ g[i].through = h[i].through
  BY <1>1 DEF LooseEntry, Timed
<1> HIDE DEF g
<1>4. Good(l, g) /\ Len(g) = Len(h)
  BY <1>2, <1>3, InPlace DEF D
<1> QED
  BY <1>4 DEF g

LEMMA CountedGood ==
  ASSUME NEW l, NEW h, Good(l, h), NEW e, NEW n \in Int
  PROVE  Good(l, Counted(h, e, n)) /\ Len(Counted(h, e, n)) = Len(h)
<1> DEFINE D == 1..Len(h)
           g == Counted(h, e, n)
<1>1. h \in [D -> LooseEntry]
  BY AsFunction
<1> HIDE DEF D
<1>2. g \in [D -> LooseEntry]
  BY <1>1 DEF LooseEntry, Counted
<1>3. \A i \in D : h[i].doc \subseteq g[i].doc /\ g[i].through = h[i].through
  BY <1>1 DEF LooseEntry, Counted
<1> HIDE DEF g
<1>4. Good(l, g) /\ Len(g) = Len(h)
  BY <1>2, <1>3, InPlace DEF D
<1> QED
  BY <1>4 DEF g

LEMMA CompactedGood ==
  ASSUME NEW l, NEW h, Good(l, h), NEW e
  PROVE  Good(l, Compacted(h, e)) /\ Len(Compacted(h, e)) = Len(h)
<1> DEFINE D == 1..Len(h)
           g == Compacted(h, e)
<1>1. h \in [D -> LooseEntry]
  BY AsFunction
<1> HIDE DEF D
<1>2. g \in [D -> LooseEntry]
  BY <1>1 DEF LooseEntry, Compacted
<1>3. \A i \in D : h[i].doc \subseteq g[i].doc /\ g[i].through = h[i].through
  BY <1>1 DEF LooseEntry, Compacted
<1> HIDE DEF g
<1>4. Good(l, g) /\ Len(g) = Len(h)
  BY <1>2, <1>3, InPlace DEF D
<1> QED
  BY <1>4 DEF g

LEMMA AddedGood ==
  ASSUME NEW l, NEW h, Good(l, h), NEW e, NEW ws \in SUBSET Update
  PROVE  Good(l, Added(h, e, ws)) /\ Len(Added(h, e, ws)) = Len(h)
<1> DEFINE D == 1..Len(h)
           g == Added(h, e, ws)
<1>1. h \in [D -> LooseEntry]
  BY AsFunction
<1> HIDE DEF D
<1>2. g \in [D -> LooseEntry]
  BY <1>1 DEF LooseEntry, Added
<1>3. \A i \in D : h[i].doc \subseteq g[i].doc /\ g[i].through = h[i].through
  BY <1>1 DEF LooseEntry, Added
<1> HIDE DEF g
<1>4. Good(l, g) /\ Len(g) = Len(h)
  BY <1>2, <1>3, InPlace DEF D
<1> QED
  BY <1>4 DEF g

LEMMA ScheduledGood ==
  ASSUME NEW l, NEW h, Good(l, h), NEW sb, NEW e
  PROVE  Good(l, Scheduled(h, sb, e)) /\ Len(Scheduled(h, sb, e)) = Len(h)
<1> DEFINE waits == {c \in Caller : call[c].at \in {"loaded", "compacting"}}
<1>1. waits \in SUBSET Caller
  OBVIOUS
<1>2. Scheduled(h, sb, e) = Timed(h, e, waits) \/ Scheduled(h, sb, e) = h
  BY DEF Scheduled, Timed
<1> HIDE DEF waits
<1> QED
  BY <1>1, <1>2, TimedGood

LEMMA FoldedGood ==
  ASSUME NEW l, NEW h, Good(l, h), NEW ws \in SUBSET Update
  PROVE  Good(l, Folded(h, ws)) /\ Len(Folded(h, ws)) = Len(h)
<1>1. Folded(h, ws) = Added(h, current, ws) \/ Folded(h, ws) = h
  BY DEF Folded, Added
<1> QED
  BY <1>1, AddedGood

LEMMA UncountedGood ==
  ASSUME NEW l, NEW h, Good(l, h), NEW e
  PROVE  LET g == Counted(h, e, h[e].active - 1) IN Good(l, g) /\ Len(g) = Len(h)
<1>1. CASE e \in 1..Len(h)
  <2>1. h[e].active - 1 \in Int
    BY <1>1, AsFunction DEF LooseEntry
  <2> QED
    BY <2>1, CountedGood
<1>2. CASE e \notin 1..Len(h)
  <2>1. h \in [1..Len(h) -> LooseEntry]
    BY AsFunction
  <2>2. Counted(h, e, h[e].active - 1) = h
    BY <1>2, <2>1 DEF Counted
  <2> QED
    BY <2>2
<1> QED
  BY <1>1, <1>2

LEMMA ReleasedGood ==
  ASSUME NEW l, NEW h, Good(l, h), NEW e
  PROVE  Good(l, Released(h, e)) /\ Len(Released(h, e)) = Len(h)
<1> DEFINE g == Counted(h, e, h[e].active - 1)
<1>1. Released(h, e) = Scheduled(g, subs, e)
  BY DEF Released, Counted
<1>2. Good(l, g) /\ Len(g) = Len(h)
  BY UncountedGood
<1> HIDE DEF g
<1> QED
  BY <1>1, <1>2, ScheduledGood

\* A sound image put in an entry's place.
LEMMA PutGood ==
  ASSUME NEW l, NEW h, Good(l, h), NEW e, NEW image \in Image,
         Sound(l, image.doc, image.through)
  PROVE  Good(l, Put(h, e, image)) /\ Len(Put(h, e, image)) = Len(h)
<1> DEFINE D == 1..Len(h)
           g == Put(h, e, image)
<1>1. h \in [D -> LooseEntry] /\ Len(h) \in Nat
  BY AsFunction
<1>2. \A i \in D : Sound(l, h[i].doc, h[i].through)
  BY DEF Good
<1> HIDE DEF D
<1>3. image.doc \in SUBSET Update /\ image.through \in Nat
        /\ image.since \in Nat /\ image.version \in 1..MaxVersion
  BY DEF Image
<1>4. CASE e \in D
  <2> DEFINE r == [h[e] EXCEPT !.doc = image.doc, !.through = image.through,
                               !.since = image.since, !.version = image.version]
  <2>1. r \in LooseEntry /\ r.doc = image.doc /\ r.through = image.through
    BY <1>1, <1>3, <1>4 DEF LooseEntry
  <2>2. g = [h EXCEPT ![e] = r]
    BY <1>1, <1>4 DEF Put, LooseEntry
  <2> HIDE DEF r, g
  <2>3. g \in [D -> LooseEntry]
    BY <1>1, <2>1, <2>2
  <2>4. ASSUME NEW i \in D PROVE Sound(l, g[i].doc, g[i].through)
    <3>1. CASE i = e
      BY <1>1, <2>1, <2>2, <3>1
    <3>2. CASE i # e
      BY <1>1, <1>2, <2>2, <3>2
    <3> QED
      BY <3>1, <3>2
  <2>5. g \in Seq(LooseEntry) /\ Len(g) = Len(h)
    BY <1>1, <2>3 DEF D
  <2>6. Good(l, g) /\ Len(g) = Len(h)
    BY <2>4, <2>5 DEF Good, D
  <2> QED
    BY <2>6 DEF g
<1>5. CASE e \notin D
  <2>1. g = h
    BY <1>1, <1>5 DEF Put
  <2> QED
    BY <2>1
<1> QED
  BY <1>4, <1>5

\* What an apply puts in its snapshot: the number that goes with its entry.
LEMMA InstalledThrough ==
  ASSUME NEW l, NEW h, Good(l, h), NEW e \in 1..Len(h), NEW image \in Image,
         NEW ws \in SUBSET Update
  PROVE  Folded(Put(h, e, image), ws)[e].through = image.through
<1> DEFINE D == 1..Len(h)
           g == Put(h, e, image)
           r == [h[e] EXCEPT !.doc = image.doc, !.through = image.through,
                             !.since = image.since, !.version = image.version]
<1>1. h \in [D -> LooseEntry] /\ e \in D
  BY AsFunction
<1> HIDE DEF D
<1>2. image.doc \in SUBSET Update /\ image.through \in Nat
        /\ image.since \in Nat /\ image.version \in 1..MaxVersion
  BY DEF Image
<1>3. r \in LooseEntry /\ r.through = image.through
  BY <1>1, <1>2 DEF LooseEntry
<1>4. g = [h EXCEPT ![e] = r]
  BY <1>1 DEF Put, LooseEntry
<1> HIDE DEF g, r
<1>5. g[e].through = image.through /\ g \in [D -> LooseEntry]
  BY <1>1, <1>3, <1>4
<1>6. Added(g, current, ws)[e].through = g[e].through
  BY <1>1, <1>5 DEF Added, LooseEntry
<1> QED
  BY <1>5, <1>6 DEF Folded, Added, g

----------------------------------------------------------------------------
(* The log only grows, and what was sound stays sound.                     *)

LEMMA SoundExtends ==
  ASSUME NEW l \in Seq(Update), NEW m \in Seq(Update), NEW d, NEW t, Sound(l, d, t)
  PROVE  Sound(l \o m, d, t)
  BY DEF Sound

LEMMA GoodExtends ==
  ASSUME NEW l \in Seq(Update), NEW m \in Seq(Update), NEW h, Good(l, h)
  PROVE  Good(l \o m, h)
  BY SoundExtends DEF Good

LEMMA CallsExtend ==
  ASSUME NEW l \in Seq(Update), NEW m \in Seq(Update), NEW n, NEW k, GoodCalls(l, n, k)
  PROVE  GoodCalls(l \o m, n, k)
  BY SoundExtends DEF GoodCalls, GoodCall

LEMMA CallsAtMore ==
  ASSUME NEW l, NEW n \in Nat, NEW m \in Nat, n <= m, NEW k, GoodCalls(l, n, k)
  PROVE  GoodCalls(l, m, k)
  BY DEF GoodCalls, GoodCall, Call

LEMMA CallPut ==
  ASSUME NEW l, NEW n, NEW k, GoodCalls(l, n, k), NEW c \in Caller, NEW r, GoodCall(l, n, r)
  PROVE  GoodCalls(l, n, [k EXCEPT ![c] = r])
  BY DEF GoodCalls, GoodCall

\* A caller with no image, at a place where it needs no entry or has one.
LEMMA NoImageSound ==
  ASSUME NEW l \in Seq(Update)
  PROVE  NoImage \in Image /\ Sound(l, NoImage.doc, NoImage.through)
<1>1. NoImage \in Image /\ NoImage.doc = {} /\ NoImage.through = 0
  BY NumbersAssumption DEF NoImage, Image
<1>2. Sound(l, NoImage.doc, NoImage.through)
  BY <1>1 DEF Sound
<1> QED
  BY <1>1, <1>2

Placed(place, e) == [At(place) EXCEPT !.entry = e]

LEMMA PlaceGood ==
  ASSUME NEW l \in Seq(Update), NEW n \in Nat, NEW e \in Nat, e <= n,
         NEW place \in {"retry", "joined", "done", "ready"}, place = "ready" => e # 0
  PROVE  GoodCall(l, n, Placed(place, e))
<1> DEFINE q == At(place)
           r == Placed(place, e)
<1>1. q \in Call /\ q.image = NoImage /\ q.at = place
  BY NoImageSound DEF At, Call
<1>2. r = [q EXCEPT !.entry = e]
  BY DEF Placed
<1> HIDE DEF q, r
<1>3. r \in Call /\ r.image = NoImage /\ r.entry = e /\ r.at = place
  BY <1>1, <1>2 DEF Call
<1>4. GoodCall(l, n, r)
  BY <1>3, NoImageSound DEF GoodCall
<1> QED
  BY <1>4 DEF r

LEMMA NowhereGood ==
  ASSUME NEW l \in Seq(Update), NEW n \in Nat,
         NEW place \in {"new", "retry", "joined", "done"}
  PROVE  GoodCall(l, n, At(place))
<1> DEFINE r == [at |-> place, entry |-> 0, fresh |-> FALSE, image |-> NoImage]
<1>1. At(place) = r
  BY DEF At
<1>2. r \in Call
  BY NoImageSound DEF Call
<1>3. r.image = NoImage /\ r.entry = 0 /\ r.at = place
  OBVIOUS
<1> HIDE DEF r
<1>4. GoodCall(l, n, r)
  BY <1>2, <1>3, NoImageSound DEF GoodCall
<1> QED
  BY <1>1, <1>4

----------------------------------------------------------------------------
(* Images.                                                                 *)

\* What a caller hydrates is sound, a guest's image because it claims nothing.
LEMMA HydratedSound ==
  ASSUME HubInv, NEW c
  PROVE  /\ Hydrated(c) \in Image
         /\ Sound(log, Hydrated(c).doc, Hydrated(c).through)
<1>1. Rows \in SUBSET Update
  BY DEF Rows, Elements, HubInv
<1>2. CASE c \in Guest
  <2>1. Hydrated(c) = [doc |-> Rows, through |-> 0, since |-> 0, version |-> version]
    BY <1>2 DEF Hydrated, NoImage
  <2>2. version \in 1..MaxVersion /\ Len(log) \in Nat
    BY DEF HubInv
  <2> QED
    BY <1>1, <2>1, <2>2 DEF Image, Sound
<1>3. CASE c \notin Guest
  <2> DEFINE after == {log[i] : i \in snapshot.through + 1 .. Len(log)}
             d == snapshot.state \cup Rows \cup after
  <2>1. snapshot.through \in Nat /\ snapshot.through <= Len(log) /\ Len(log) \in Nat
    BY DEF HubInv, Sound
  <2>2. after \in SUBSET Update
    BY <2>1 DEF HubInv
  <2>3. \A i \in 1..Len(log) : log[i] \in d
    <3>1. TAKE i \in 1..Len(log)
    <3>2. CASE i <= snapshot.through
      BY <2>1, <3>2 DEF HubInv, Sound
    <3>3. CASE i > snapshot.through
      BY <2>1, <3>3
    <3> QED
      BY <2>1, <3>2, <3>3
  <2>4. d \in SUBSET Update
    BY <1>1, <2>2 DEF HubInv
  <2> HIDE DEF d
  <2>5. Hydrated(c) = [doc |-> d, through |-> Len(log),
                       since |-> Len(log) - snapshot.through, version |-> version]
    BY <1>3 DEF Hydrated, d
  <2> QED
    BY <2>1, <2>3, <2>4, <2>5 DEF Image, Sound, HubInv
<1> QED
  BY <1>2, <1>3

\* What a committing apply installs is sound for the log it appended to.
LEMMA CommittingSound ==
  ASSUME HubInv, NEW a \in Apply, a \notin Guest, NEW m \in Seq(Update)
  PROVE  /\ Committing(a) \in Image
         /\ Sound(log \o <<a>> \o m, Committing(a).doc, Committing(a).through)
<1> DEFINE h == Hydrated(a)
<1>1. h \in Image /\ Sound(log, h.doc, h.through)
  BY HydratedSound
<1>2. h.through = Len(log)
  BY DEF Hydrated
<1> HIDE DEF h
<1>3. Committing(a) = [h EXCEPT !.doc = @ \cup {a}, !.through = Len(log) + 1, !.since = @ + 1]
  BY DEF Committing, h
<1>4. Len(log) \in Nat /\ log \in Seq(Update) /\ a \in Update
  BY DEF HubInv, Update
<1>5. Committing(a) \in Image
  <2>1. Committing(a) = [doc |-> h.doc \cup {a}, through |-> Len(log) + 1,
                         since |-> h.since + 1, version |-> h.version]
    BY <1>1, <1>3 DEF Image
  <2>2. h.doc \in SUBSET Update /\ h.since \in Nat /\ h.version \in 1..MaxVersion
    BY <1>1 DEF Image
  <2> QED
    BY <1>4, <2>1, <2>2 DEF Image
<1>6. Committing(a).doc = h.doc \cup {a} /\ Committing(a).through = Len(log) + 1
  BY <1>1, <1>3 DEF Image
<1>7. \A i \in 1..Len(log) : log[i] \in h.doc
  BY <1>1, <1>2 DEF Sound
<1>8. Sound(log \o <<a>>, Committing(a).doc, Committing(a).through)
  BY <1>4, <1>6, <1>7 DEF Sound
<1>9. log \o <<a>> \in Seq(Update)
  BY <1>4
<1> QED
  BY <1>5, <1>8, <1>9, SoundExtends

----------------------------------------------------------------------------
(* Every step keeps HubInv.                                                *)

\* Where the database stays as it is, entries and callers are what matters.
LEMMA DatabaseKept ==
  ASSUME HubInv, UNCHANGED database, current' \in 0..Len(heap'),
         Good(log, heap'), GoodCalls(log, Len(heap'), call')
  PROVE  HubInv'
  BY DEF HubInv, database

LEMMA InvFacts ==
  ASSUME HubInv
  PROVE  /\ Len(heap) \in Nat /\ Len(log) \in Nat /\ log \in Seq(Update)
         /\ Good(log, heap) /\ GoodCalls(log, Len(heap), call)
         /\ call \in [Caller -> Call]
         /\ \A c \in Caller : GoodCall(log, Len(heap), call[c])
         /\ current \in 0..Len(heap)
  BY DEF HubInv, Good, GoodCalls

LEMMA EnterGood ==
  ASSUME HubInv, NEW c \in Caller, NEW h, Good(log, h), NEW sb, NEW e \in 1..Len(h),
         NEW cur \in 0..Len(h), Len(heap) <= Len(h), Enter(c, e, h, sb, cur)
  PROVE  Good(log, heap') /\ Len(heap') = Len(h) /\ GoodCalls(log, Len(heap'), call')
<1>1. Len(h) \in Nat
  BY AsFunction
<1>2. GoodCalls(log, Len(h), call) /\ log \in Seq(Update)
  BY <1>1, InvFacts, CallsAtMore
<1>3. CASE c \in Apply
  <2>1. heap' = Counted(h, e, h[e].active + 1)
    BY <1>3 DEF Enter, Counted
  <2>2. h[e].active + 1 \in Int
    BY AsFunction DEF LooseEntry
  <2>3. Good(log, heap') /\ Len(heap') = Len(h)
    BY <2>1, <2>2, CountedGood
  <2>4. call' = [call EXCEPT ![c] = Placed("ready", e)]
    BY <1>3 DEF Enter, Placed
  <2>5. GoodCall(log, Len(h), Placed("ready", e))
    BY <1>1, <1>2, PlaceGood
  <2> QED
    BY <1>2, <2>3, <2>4, <2>5, CallPut
<1>4. CASE c \notin Apply /\ cur # 0
  <2>1. heap' = Cancelled(h, cur) /\ call' = [call EXCEPT ![c] = Placed("joined", cur)]
    BY <1>4 DEF Enter, Joins, Placed
  <2>2. Good(log, heap') /\ Len(heap') = Len(h)
    BY <2>1, CancelledGood
  <2>3. GoodCall(log, Len(h), Placed("joined", cur))
    BY <1>1, <1>2, PlaceGood
  <2> QED
    BY <1>2, <2>1, <2>2, <2>3, CallPut
<1>5. CASE c \notin Apply /\ cur = 0
  <2>1. heap' = h /\ call' = [call EXCEPT ![c] = At("done")]
    BY <1>5 DEF Enter
  <2>2. GoodCall(log, Len(h), At("done"))
    BY <1>1, <1>2, NowhereGood
  <2> QED
    BY <1>2, <2>1, <2>2, CallPut
<1> QED
  BY <1>3, <1>4, <1>5

LEMMA LoadKeeps ==
  ASSUME HubInv, NEW c \in Caller, Load(c)
  PROVE  HubInv'
<1> DEFINE hit == current # 0 /\ heap[current].version = version
           image == IF hit THEN [NoImage EXCEPT !.version = version] ELSE Hydrated(c)
           r == [at |-> "loaded", entry |-> current, fresh |-> ~hit, image |-> image]
<1>1. call' = [call EXCEPT ![c] = r] /\ UNCHANGED <<database, heap, current>>
  BY DEF Load
<1>2. hit \in BOOLEAN
  OBVIOUS
<1> HIDE DEF hit
<1>3. image \in Image /\ Sound(log, image.doc, image.through)
  <2>1. CASE hit
    <3>1. image = [doc |-> {}, through |-> 0, since |-> 0, version |-> version]
      BY <2>1 DEF NoImage
    <3>2. version \in 1..MaxVersion /\ Len(log) \in Nat
      BY DEF HubInv
    <3> QED
      BY <3>1, <3>2 DEF Image, Sound
  <2>2. CASE ~hit
    BY <2>2, HydratedSound
  <2> QED
    BY <2>1, <2>2
<1> HIDE DEF image
<1>4. r \in Call /\ r.entry <= Len(heap) /\ r.at = "loaded" /\ r.image = image
  BY <1>2, <1>3, InvFacts DEF Call
<1> HIDE DEF r
<1>5. GoodCall(log, Len(heap), r)
  BY <1>3, <1>4 DEF GoodCall
<1>6. GoodCalls(log, Len(heap), call')
  BY <1>1, <1>5, InvFacts, CallPut
<1> QED
  BY <1>1, <1>6, InvFacts, DatabaseKept

LEMMA ReloadKeeps ==
  ASSUME HubInv, NEW c \in Caller, Reload(c)
  PROVE  HubInv'
<1>1. call' = [call EXCEPT ![c] = At("retry")] /\ UNCHANGED <<database, heap, current>>
  BY DEF Reload
<1>2. GoodCall(log, Len(heap), At("retry"))
  BY InvFacts, NowhereGood
<1>3. GoodCalls(log, Len(heap), call')
  BY <1>1, <1>2, InvFacts, CallPut
<1> QED
  BY <1>1, <1>3, InvFacts, DatabaseKept

LEMMA AdoptKeeps ==
  ASSUME HubInv, NEW c \in Caller, Adopt(c)
  PROVE  HubInv'
<1> DEFINE e == Reusable(c)
           h == Cancelled(heap, e)
<1>1. UNCHANGED <<database, current>> /\ e # 0 /\ Enter(c, e, h, subs, current)
  BY DEF Adopt
<1>2. e \in {current, 0, call[c].entry}
  BY DEF Reusable
<1>3. call[c].entry \in 0..Len(heap)
  BY InvFacts DEF GoodCall, Call
<1> HIDE DEF e
<1>4. e \in 1..Len(heap)
  BY <1>1, <1>2, <1>3, InvFacts
<1>5. Good(log, h) /\ Len(h) = Len(heap)
  BY InvFacts, CancelledGood
<1> HIDE DEF h
<1>6. Good(log, heap') /\ Len(heap') = Len(h) /\ GoodCalls(log, Len(heap'), call')
  BY <1>1, <1>4, <1>5, InvFacts, EnterGood
<1> QED
  BY <1>1, <1>5, <1>6, InvFacts, DatabaseKept

LEMMA GrownGood ==
  ASSUME HubInv, NEW c \in Caller
  PROVE  Good(log, Grown(c)) /\ Len(Grown(c)) = Len(heap) + 1
<1> DEFINE h == IF current # 0 THEN Cancelled(heap, current) ELSE heap
           m == Made(c)
<1>1. Good(log, h) /\ Len(h) = Len(heap) /\ Len(heap) \in Nat
  BY InvFacts, CancelledGood
<1>2. m \in LooseEntry /\ m.doc = call[c].image.doc /\ m.through = call[c].image.through
  <2>1. call[c].image \in Image
    BY InvFacts DEF GoodCall, Call
  <2>2. current # 0 => heap[current].room \in Nat /\ heap[current].active \in Int
    BY InvFacts, AsFunction DEF LooseEntry
  <2> QED
    BY <1>1, <2>1, <2>2 DEF Made, LooseEntry, Image
<1>3. Sound(log, m.doc, m.through)
  BY <1>2, InvFacts DEF GoodCall
<1>4. Grown(c) = Append(h, m)
  BY DEF Grown
<1> HIDE DEF h, m
<1>5. Append(h, m) \in Seq(LooseEntry) /\ Len(Append(h, m)) = Len(h) + 1
  BY <1>1, <1>2 DEF Good
<1>6. ASSUME NEW i \in 1..Len(h) + 1
      PROVE  Sound(log, Append(h, m)[i].doc, Append(h, m)[i].through)
  <2>1. CASE i = Len(h) + 1
    BY <1>1, <1>3, <2>1 DEF Good
  <2>2. CASE i # Len(h) + 1
    <3>1. i \in 1..Len(h) /\ Append(h, m)[i] = h[i]
      BY <1>1, <2>2 DEF Good
    <3> QED
      BY <1>1, <3>1 DEF Good
  <2> QED
    BY <2>1, <2>2
<1>7. Good(log, Append(h, m))
  BY <1>5, <1>6 DEF Good
<1> QED
  BY <1>1, <1>4, <1>5, <1>7

LEMMA InstallKeeps ==
  ASSUME HubInv, NEW c \in Caller, Install(c)
  PROVE  HubInv'
<1> DEFINE n == Len(heap) + 1
           h == Grown(c)
           sb == Append(subs, {})
<1>1. UNCHANGED database /\ current' = n
  BY DEF Install
<1>2. Good(log, h) /\ Len(h) = n /\ Len(heap) \in Nat
  BY GrownGood, InvFacts
<1>3. CASE call[c].image.since >= Threshold
  <2> DEFINE r == [call[c] EXCEPT !.at = "compacting", !.entry = n]
  <2>1. call[c] \in Call /\ GoodCall(log, Len(heap), call[c])
    BY InvFacts
  <2>2. heap' = h /\ call' = [call EXCEPT ![c] = r]
    BY <1>3, InvFacts DEF Install
  <2> HIDE DEF h, n
  <2>3. n \in Nat /\ n # 0
    BY <1>2 DEF n
  <2>4. r \in Call /\ r.at = "compacting" /\ r.entry = n /\ r.image = call[c].image
    BY <2>1, <2>3 DEF Call
  <2> HIDE DEF r
  <2>5. GoodCall(log, n, r)
    BY <2>1, <2>3, <2>4 DEF GoodCall
  <2>6. GoodCalls(log, n, call)
    BY <1>2, <2>3, InvFacts, CallsAtMore DEF n
  <2>7. GoodCalls(log, n, call')
    BY <2>2, <2>5, <2>6, CallPut
  <2>8. current' \in 0..Len(heap') /\ Good(log, heap') /\ GoodCalls(log, Len(heap'), call')
    BY <1>1, <1>2, <2>2, <2>3, <2>7
  <2> QED
    BY <1>1, <2>8, DatabaseKept
<1>4. CASE ~(call[c].image.since >= Threshold)
  <2>1. Enter(c, n, h, sb, n)
    BY <1>4 DEF Install
  <2> HIDE DEF h, sb
  <2>2. n \in 1..Len(h) /\ n \in 0..Len(h) /\ Len(heap) <= Len(h)
    BY <1>2
  <2> HIDE DEF n
  <2>3. Good(log, heap') /\ Len(heap') = Len(h) /\ GoodCalls(log, Len(heap'), call')
    BY <1>2, <2>1, <2>2, EnterGood
  <2>4. current' \in 0..Len(heap')
    BY <1>1, <2>2, <2>3
  <2> QED
    BY <1>1, <2>3, <2>4, DatabaseKept
<1> QED
  BY <1>3, <1>4

\* A snapshot written from a caller's image, and the entry's count of what
\* followed the last snapshot.
LEMMA SavedGood ==
  ASSUME HubInv, NEW c \in Caller, NEW h \in {heap, Compacted(heap, call[c].entry)},
         Saved(c, h)
  PROVE  /\ Good(log, h) /\ Len(h) = Len(heap)
         /\ snapshot' \in [state : SUBSET Update, through : Nat]
         /\ Sound(log, snapshot'.state, snapshot'.through)
<1>1. Good(log, h) /\ Len(h) = Len(heap)
  BY InvFacts, CompactedGood
<1>2. call[c].image \in Image /\ Sound(log, call[c].image.doc, call[c].image.through)
  BY InvFacts DEF GoodCall, Call
<1>3. snapshot' = snapshot
        \/ snapshot' = [state |-> call[c].image.doc, through |-> call[c].image.through]
  BY DEF Saved, Upserted
<1>4. snapshot \in [state : SUBSET Update, through : Nat]
        /\ Sound(log, snapshot.state, snapshot.through)
  BY DEF HubInv
<1>5. CASE snapshot' = snapshot
  BY <1>1, <1>4, <1>5
<1>6. CASE snapshot' = [state |-> call[c].image.doc, through |-> call[c].image.through]
  <2>1. call[c].image.doc \in SUBSET Update /\ call[c].image.through \in Nat
    BY <1>2 DEF Image
  <2> QED
    BY <1>1, <1>2, <1>6, <2>1
<1> QED
  BY <1>3, <1>5, <1>6

LEMMA SnapshotPut ==
  ASSUME HubInv, UNCHANGED <<log, version>>, current' \in 0..Len(heap'),
         Good(log, heap'), GoodCalls(log, Len(heap'), call'),
         snapshot' \in [state : SUBSET Update, through : Nat],
         Sound(log, snapshot'.state, snapshot'.through)
  PROVE  HubInv'
  BY DEF HubInv

LEMMA CompactKeeps ==
  ASSUME HubInv, NEW c \in Caller, Compact(c)
  PROVE  HubInv'
<1>1. PICK h \in {heap, Compacted(heap, call[c].entry)} :
        Saved(c, h) /\ Enter(c, call[c].entry, h, subs, current)
  BY DEF Compact, Compacted
<1>2. UNCHANGED <<log, version, current>> /\ call[c].at = "compacting"
  BY DEF Compact
<1>3. /\ Good(log, h) /\ Len(h) = Len(heap)
      /\ snapshot' \in [state : SUBSET Update, through : Nat]
      /\ Sound(log, snapshot'.state, snapshot'.through)
  BY <1>1, SavedGood
<1>4. call[c].entry \in 1..Len(h) /\ current \in 0..Len(h) /\ Len(heap) <= Len(h)
  BY <1>2, <1>3, InvFacts DEF GoodCall, Call
<1>5. Good(log, heap') /\ Len(heap') = Len(h) /\ GoodCalls(log, Len(heap'), call')
  BY <1>1, <1>3, <1>4, EnterGood
<1>6. current' \in 0..Len(heap')
  BY <1>2, <1>4, <1>5
<1> QED
  BY <1>2, <1>3, <1>5, <1>6, SnapshotPut

LEMMA SaveKeeps ==
  ASSUME HubInv, NEW a \in Apply, Save(a)
  PROVE  HubInv'
<1>1. a \in Caller
  BY DEF Caller
<1>2. PICK h \in {heap, Compacted(heap, call[a].entry)} :
        Saved(a, h) /\ heap' = Released(h, call[a].entry)
  BY DEF Save, Compacted
<1>3. UNCHANGED <<log, version, current>> /\ call' = [call EXCEPT ![a] = At("done")]
  BY DEF Save
<1>4. /\ Good(log, h) /\ Len(h) = Len(heap)
      /\ snapshot' \in [state : SUBSET Update, through : Nat]
      /\ Sound(log, snapshot'.state, snapshot'.through)
  BY <1>1, <1>2, SavedGood
<1>5. Good(log, heap') /\ Len(heap') = Len(heap)
  BY <1>2, <1>4, ReleasedGood
<1>6. GoodCall(log, Len(heap), At("done"))
  BY InvFacts, NowhereGood
<1>7. GoodCalls(log, Len(heap'), call')
  BY <1>1, <1>3, <1>5, <1>6, InvFacts, CallPut
<1>8. current' \in 0..Len(heap')
  BY <1>3, <1>5, InvFacts
<1> QED
  BY <1>3, <1>4, <1>5, <1>7, <1>8, SnapshotPut

LEMMA RefuseKeeps ==
  ASSUME HubInv, NEW a \in Apply, Refuse(a)
  PROVE  HubInv'
<1>1. a \in Caller
  BY DEF Caller
<1>2. /\ heap' = Released(heap, call[a].entry)
      /\ call' = [call EXCEPT ![a] = At("done")]
      /\ UNCHANGED <<database, current>>
  BY DEF Refuse
<1>3. Good(log, heap') /\ Len(heap') = Len(heap)
  BY <1>2, InvFacts, ReleasedGood
<1>4. GoodCall(log, Len(heap), At("done"))
  BY InvFacts, NowhereGood
<1>5. GoodCalls(log, Len(heap'), call')
  BY <1>1, <1>2, <1>3, <1>4, InvFacts, CallPut
<1>6. current' \in 0..Len(heap')
  BY <1>2, <1>3, InvFacts
<1> QED
  BY <1>2, <1>3, <1>5, <1>6, DatabaseKept

\* The log grows by m, and the callers' images stay sound.
LEMMA LogGrown ==
  ASSUME HubInv, NEW m \in Seq(Update), log' = log \o m,
         UNCHANGED <<snapshot, version, heap, current>>,
         GoodCalls(log \o m, Len(heap), call')
  PROVE  HubInv'
<1>1. log \in Seq(Update) /\ log \o m \in Seq(Update)
  BY InvFacts
<1>2. Good(log \o m, heap)
  BY <1>1, InvFacts, GoodExtends
<1>3. Sound(log \o m, snapshot.state, snapshot.through)
  BY <1>1, SoundExtends DEF HubInv
<1> QED
  BY <1>1, <1>2, <1>3 DEF HubInv

LEMMA CommitKeeps ==
  ASSUME HubInv, NEW a \in Apply, Commit(a)
  PROVE  HubInv'
<1> DEFINE m == IF Triggers[a] = {} THEN <<>> ELSE <<CHOOSE w \in Triggers[a] : TRUE>>
           l == log \o <<a>> \o m
           r == [call[a] EXCEPT !.at = "committed", !.image = Committing(a)]
<1>1. a \in Caller /\ a \in Update /\ a \notin Guest
  BY SetsAssumption DEF Caller, Update
<1>2. m \in Seq(Update)
  <2>1. Triggers[a] \subseteq Write
    BY TriggersAssumption
  <2>2. CASE Triggers[a] = {}
    BY <2>2
  <2>3. CASE Triggers[a] # {}
    <3>1. (CHOOSE w \in Triggers[a] : TRUE) \in Update
      BY <2>1, <2>3 DEF Update
    <3> QED
      BY <2>3, <3>1
  <2> QED
    BY <2>2, <2>3
<1>3. /\ log' = l /\ call[a].at = "ready"
      /\ UNCHANGED <<snapshot, version, heap, current>>
  BY DEF Commit
<1>4. call[a] \in Call /\ GoodCall(log, Len(heap), call[a]) /\ call \in [Caller -> Call]
  BY <1>1, InvFacts
<1>5. call' = [call EXCEPT ![a] = r]
  BY <1>1, <1>4 DEF Commit
<1> HIDE DEF m
<1>6. Committing(a) \in Image /\ Sound(l, Committing(a).doc, Committing(a).through)
  BY <1>1, <1>2, CommittingSound
<1>7. r \in Call /\ r.at = "committed" /\ r.entry = call[a].entry /\ r.image = Committing(a)
  BY <1>4, <1>6 DEF Call
<1>8. log \o <<a>> \in Seq(Update)
  BY <1>1, InvFacts
<1>9. GoodCalls(l, Len(heap), call)
  <2>1. <<a>> \in Seq(Update)
    BY <1>1
  <2>2. GoodCalls(log \o <<a>>, Len(heap), call)
    BY <2>1, InvFacts, CallsExtend
  <2> QED
    BY <1>2, <1>8, <2>2, CallsExtend
<1> HIDE DEF l, r
<1>10. GoodCall(l, Len(heap), r)
  BY <1>3, <1>4, <1>6, <1>7 DEF GoodCall
<1>11. GoodCalls(l, Len(heap), call')
  BY <1>1, <1>5, <1>9, <1>10, CallPut
<1>12. l = log \o (<<a>> \o m) /\ <<a>> \o m \in Seq(Update)
  BY <1>1, <1>2, InvFacts DEF l
<1> QED
  BY <1>3, <1>11, <1>12, LogGrown

LEMMA WriteRecordKeeps ==
  ASSUME HubInv, NEW w \in Write, WriteRecord(w)
  PROVE  HubInv'
<1>1. <<w>> \in Seq(Update)
  BY DEF Update
<1>2. log' = log \o <<w>> /\ UNCHANGED <<snapshot, version, heap, current, call>>
  BY InvFacts DEF WriteRecord
<1>3. GoodCalls(log \o <<w>>, Len(heap), call')
  BY <1>1, <1>2, InvFacts, CallsExtend
<1> QED
  BY <1>1, <1>2, <1>3, LogGrown

LEMMA HearWriteKeeps ==
  ASSUME HubInv, NEW w \in Write, HearWrite(w)
  PROVE  HubInv'
<1>1. heap' = Folded(heap, {w}) /\ UNCHANGED <<database, current, call>>
  BY DEF HearWrite
<1>2. {w} \in SUBSET Update
  BY DEF Update
<1>3. Good(log, heap') /\ Len(heap') = Len(heap)
  BY <1>1, <1>2, InvFacts, FoldedGood
<1> QED
  BY <1>1, <1>3, InvFacts, DatabaseKept

LEMMA HearApplyKeeps ==
  ASSUME HubInv, NEW a \in Apply, HearApply(a)
  PROVE  HubInv'
<1> DEFINE e == call[a].entry
           image == call[a].image
           g == Put(heap, e, image)
           h == Folded(g, Triggers[a])
           due == h[e].since >= Threshold
<1>1. a \in Caller /\ Triggers[a] \in SUBSET Update
  BY TriggersAssumption DEF Caller, Update
<1>2. /\ call[a].at = "committed"
      /\ UNCHANGED <<database, current>>
      /\ heap' = IF due THEN h ELSE Released(h, e)
      /\ call' = [call EXCEPT ![a] =
           IF due THEN [@ EXCEPT !.at = "saving", !.image.doc = h[e].doc] ELSE At("done")]
  BY DEF HearApply, Installed, Put
<1>3. call[a] \in Call /\ GoodCall(log, Len(heap), call[a]) /\ call \in [Caller -> Call]
  BY <1>1, InvFacts
<1>4. image \in Image /\ Sound(log, image.doc, image.through) /\ e \in 1..Len(heap)
  BY <1>2, <1>3, InvFacts DEF GoodCall, Call
<1>5. Good(log, g) /\ Len(g) = Len(heap)
  BY <1>4, InvFacts, PutGood
<1>6. h[e].through = image.through
  BY <1>1, <1>4, InvFacts, InstalledThrough
<1> HIDE DEF g
<1>7. Good(log, h) /\ Len(h) = Len(heap)
  BY <1>1, <1>5, FoldedGood
<1> HIDE DEF h
<1>8. CASE due
  <2> DEFINE r == [call[a] EXCEPT !.at = "saving", !.image.doc = h[e].doc]
             i == [image EXCEPT !.doc = h[e].doc]
  <2>1. heap' = h /\ call' = [call EXCEPT ![a] = r]
    BY <1>1, <1>2, <1>3, <1>8
  <2>2. h[e].doc \in SUBSET Update /\ Sound(log, h[e].doc, image.through)
    BY <1>4, <1>6, <1>7, AsFunction DEF Good, LooseEntry
  <2>3. i \in Image /\ i.doc = h[e].doc /\ i.through = image.through
    BY <1>4, <2>2 DEF Image
  <2>4. r = [call[a] EXCEPT !.at = "saving", !.image = i]
    BY <1>3 DEF Call, Image
  <2> HIDE DEF i, r
  <2>5. r \in Call /\ r.at = "saving" /\ r.entry = e /\ r.image = i
    BY <1>3, <2>3, <2>4 DEF Call
  <2>6. GoodCall(log, Len(heap), r)
    BY <1>3, <2>2, <2>3, <2>5 DEF GoodCall
  <2>7. GoodCalls(log, Len(heap'), call')
    BY <1>1, <1>7, <2>1, <2>6, InvFacts, CallPut
  <2> QED
    BY <1>2, <1>7, <2>1, <2>7, InvFacts, DatabaseKept
<1>9. CASE ~due
  <2>1. heap' = Released(h, e) /\ call' = [call EXCEPT ![a] = At("done")]
    BY <1>2, <1>9
  <2>2. Good(log, heap') /\ Len(heap') = Len(heap)
    BY <1>7, <2>1, ReleasedGood
  <2>3. GoodCall(log, Len(heap), At("done"))
    BY InvFacts, NowhereGood
  <2>4. GoodCalls(log, Len(heap'), call')
    BY <1>1, <2>1, <2>2, <2>3, InvFacts, CallPut
  <2> QED
    BY <1>2, <2>2, <2>4, InvFacts, DatabaseKept
<1> QED
  BY <1>8, <1>9

LEMMA UpgradeKeeps ==
  ASSUME HubInv, Upgrade
  PROVE  HubInv'
<1>1. version' \in 1..MaxVersion
  BY NumbersAssumption DEF Upgrade, HubInv
<1> QED
  BY <1>1 DEF Upgrade, HubInv

LEMMA LeaveKeeps ==
  ASSUME HubInv, NEW s \in Session, Leave(s)
  PROVE  HubInv'
<1> DEFINE e == call[s].entry
           left == [subs EXCEPT ![heap[e].room] = @ \ {s}]
<1>1. s \in Caller
  BY DEF Caller
<1>2. /\ heap' = Scheduled(heap, left, e) /\ call' = [call EXCEPT ![s] = At("done")]
      /\ UNCHANGED <<database, current>>
  BY DEF Leave
<1> HIDE DEF left
<1>3. Good(log, heap') /\ Len(heap') = Len(heap)
  BY <1>2, InvFacts, ScheduledGood
<1>4. GoodCall(log, Len(heap), At("done"))
  BY InvFacts, NowhereGood
<1>5. GoodCalls(log, Len(heap'), call')
  BY <1>1, <1>2, <1>3, <1>4, InvFacts, CallPut
<1> QED
  BY <1>2, <1>3, <1>5, InvFacts, DatabaseKept

LEMMA EvictKeeps ==
  ASSUME HubInv, NEW e \in DOMAIN heap, Evict(e)
  PROVE  HubInv'
<1>1. heap' = Cancelled(heap, e) /\ UNCHANGED <<database, call>> /\ current' \in {0, current}
  BY DEF Evict
<1>2. Good(log, heap') /\ Len(heap') = Len(heap)
  BY <1>1, InvFacts, CancelledGood
<1>3. current' \in 0..Len(heap')
  BY <1>1, <1>2, InvFacts
<1> QED
  BY <1>1, <1>2, <1>3, InvFacts, DatabaseKept

LEMMA RestartKeeps ==
  ASSUME HubInv, Restart
  PROVE  HubInv'
<1>1. heap' = <<>> /\ current' = 0 /\ UNCHANGED database
  BY DEF Restart
<1>2. Good(log, heap') /\ Len(heap') = 0
  BY <1>1 DEF Good
<1>3. ASSUME NEW c \in Caller PROVE GoodCall(log, 0, call'[c])
  <2>1. CASE call[c].at = "new"
    <3>1. call'[c] = call[c]
      BY <2>1 DEF Restart
    <3> QED
      BY <2>1, <3>1, InvFacts DEF GoodCall
  <2>2. CASE call[c].at # "new"
    <3>1. call'[c] = At("done")
      BY <2>2 DEF Restart
    <3> QED
      BY <3>1, InvFacts, NowhereGood
  <2> QED
    BY <2>1, <2>2
<1>4. call' \in [Caller -> Call]
  <2>1. \A c \in Caller : call'[c] \in Call
    BY <1>3 DEF GoodCall
  <2>2. call' = [c \in Caller |-> IF call[c].at = "new" THEN call[c] ELSE At("done")]
    BY DEF Restart
  <2> QED
    BY <2>1, <2>2
<1>5. GoodCalls(log, Len(heap'), call')
  BY <1>2, <1>3, <1>4 DEF GoodCalls
<1> QED
  BY <1>1, <1>2, <1>5, DatabaseKept

----------------------------------------------------------------------------
(* Theorems.                                                               *)

LEMMA InitHubInv ==
  ASSUME Init
  PROVE  HubInv
<1>1. Good(log, heap) /\ Len(heap) = 0 /\ log \in Seq(Update) /\ Len(log) = 0
  BY DEF Init, Good
<1>2. \A c \in Caller : call[c] = At("new") /\ GoodCall(log, 0, At("new"))
  BY <1>1, NowhereGood DEF Init
<1>3. call \in [Caller -> Call]
  BY <1>2 DEF Init, GoodCall
<1>4. GoodCalls(log, Len(heap), call)
  BY <1>1, <1>2, <1>3 DEF GoodCalls
<1>5. snapshot.state = {} /\ snapshot.through = 0
        /\ snapshot \in [state : SUBSET Update, through : Nat]
  BY DEF Init
<1>6. Sound(log, snapshot.state, snapshot.through)
  BY <1>1, <1>5 DEF Sound
<1>7. current \in 0..Len(heap) /\ version \in 1..MaxVersion
  BY <1>1, NumbersAssumption DEF Init
<1> QED
  BY <1>1, <1>4, <1>5, <1>6, <1>7 DEF HubInv

LEMMA StepHubInv ==
  ASSUME HubInv, [Next]_vars
  PROVE  HubInv'
<1>1. ASSUME NEW c \in Caller,
             Load(c) \/ Reload(c) \/ Adopt(c) \/ Install(c) \/ Compact(c)
      PROVE  HubInv'
  BY <1>1, LoadKeeps, ReloadKeeps, AdoptKeeps, InstallKeeps, CompactKeeps
<1>2. ASSUME NEW a \in Apply, Commit(a) \/ Refuse(a) \/ HearApply(a) \/ Save(a)
      PROVE  HubInv'
  BY <1>2, CommitKeeps, RefuseKeeps, HearApplyKeeps, SaveKeeps
<1>3. ASSUME NEW w \in Write, WriteRecord(w) \/ HearWrite(w)
      PROVE  HubInv'
  BY <1>3, WriteRecordKeeps, HearWriteKeeps
<1>4. ASSUME NEW s \in Session, Leave(s)
      PROVE  HubInv'
  BY <1>4, LeaveKeeps
<1>5. ASSUME NEW e \in DOMAIN heap, Evict(e)
      PROVE  HubInv'
  BY <1>5, EvictKeeps
<1>6. CASE Upgrade
  BY <1>6, UpgradeKeeps
<1>7. CASE Restart
  BY <1>7, RestartKeeps
<1>8. CASE UNCHANGED vars
  BY <1>8 DEF vars, database, HubInv
<1> QED
  BY <1>1, <1>2, <1>3, <1>4, <1>5, <1>6, <1>7, <1>8 DEF Next

\* Whatever may become a snapshot of the board, the images that callers carry
\* across an await included, holds every update up to the number it claims.
THEOREM Invariant == Spec => []HubInv
<1>1. Init => HubInv
  BY InitHubInv
<1>2. HubInv /\ [Next]_vars => HubInv'
  BY StepHubInv
<1> QED
  BY <1>1, <1>2, PTL DEF Spec

\* The snapshot a hydration starts from holds every update up to its number,
\* whatever interleaves with it, restarts included (hub.ts:802-806).
THEOREM SnapshotIsWhole == Spec => []SnapshotWhole
<1>1. HubInv => SnapshotWhole
  BY DEF HubInv, SnapshotWhole, Holds, Sound
<1> QED
  BY <1>1, Invariant, PTL

\* No entry, live or replaced, claims a number whose update it lacks, whichever
\* order the commits are heard in (hub.ts:70).
THEOREM ThroughHolds == Spec => []ThroughIsTrue
<1>1. HubInv => ThroughIsTrue
  BY InvFacts, AsFunction DEF ThroughIsTrue, Holds, Sound, Good
<1> QED
  BY <1>1, Invariant, PTL

----------------------------------------------------------------------------
(* While the board keeps its template version: whoever follows or uses an   *)
(* entry has the one in the map, so everyone who has joined hears all that  *)
(* is announced, and the document served misses no apply the process has    *)
(* heard of.                                                                *)

\* Calls that count in their entry's active.
Users == {a \in Apply : call[a].at \in {"ready", "committed", "saving"}}

\* Callers that have an entry.
Uses(c) == call[c].at \in {"joined", "compacting", "ready", "committed", "saving"}

\* Callers that hold an image of their own, or save the one of their entry.
Waits(c) == call[c].at = "compacting" \/ (call[c].at = "loaded" /\ call[c].fresh)

Follows ==
  /\ subs \in Seq(SUBSET Session) /\ Len(subs) = Len(heap)
  /\ current # 0 => heap[current].room = current
  /\ \A c \in Caller : Uses(c) => call[c].entry = current /\ current # 0
  /\ \A c \in Caller : call[c].at = "joined" => c \in Session /\ c \in subs[current]
  /\ \A c \in Caller : call[c].at \in {"ready", "committed", "saving"} => c \in Apply

\* An entry in use is not evicted: its count is right, and its timer outlasts
\* whoever waited when it was set.
Kept ==
  current # 0 =>
    /\ IsFiniteSet(Users) /\ heap[current].active = Cardinality(Users)
    /\ heap[current].idle => \A c \in Caller : Waits(c) => c \in heap[current].before

Heard ==
  /\ DOMAIN owed = Session /\ DOMAIN held = Session
  /\ \A s \in Session : owed[s] \subseteq held[s] /\ (call[s].at # "joined" => owed[s] = {})

LiveInv == Follows /\ Kept /\ Heard

\* The applies' part of the log.
Applied == Elements(log) \cap FromApplies

\* The n-th commit not heard of, or a later one, brings u.
Coming(u, n) ==
  \E j \in n..Len(unheard) :
    unheard[j] \in Apply /\ (u = unheard[j] \/ u \in Triggers[unheard[j]])

\* What the document lacks is in a commit still to be heard of, in order.
DocInv ==
  /\ unheard \in Seq(Update)
  /\ current # 0 => \A u \in Applied : u \in heap[current].doc \/ Coming(u, 1)
  /\ \A i \in 1..Len(unheard) : unheard[i] \in Apply =>
       /\ call[unheard[i]].at = "committed"
       /\ \A j \in 1..Len(unheard) : unheard[j] = unheard[i] => j = i
       /\ \A u \in Applied : \/ u \in call[unheard[i]].image.doc
                              \/ u \in Triggers[unheard[i]] \/ Coming(u, i + 1)
  /\ current = 0 =>
       \A c \in Caller : call[c].at = "loaded" /\ call[c].fresh =>
         Applied \subseteq call[c].image.doc

----------------------------------------------------------------------------
(* What the changes of an entry leave as it was.                           *)

\* Entry i of g has the followers, count and timer it has in h.
SameUse(g, h, i) ==
  /\ g[i].room = h[i].room /\ g[i].active = h[i].active
  /\ g[i].idle => h[i].idle /\ g[i].before = h[i].before

LEMMA CancelledFields ==
  ASSUME NEW l, NEW h, Good(l, h), NEW e, NEW i \in 1..Len(h)
  PROVE  /\ SameUse(Cancelled(h, e), h, i) /\ Cancelled(h, e)[i].doc = h[i].doc
         /\ e = i => ~Cancelled(h, e)[i].idle
<1> DEFINE D == 1..Len(h)
<1>1. h \in [D -> LooseEntry] /\ i \in D
  BY AsFunction
<1> HIDE DEF D
<1> QED
  BY <1>1 DEF LooseEntry, Cancelled, SameUse

LEMMA CompactedFields ==
  ASSUME NEW l, NEW h, Good(l, h), NEW e, NEW i \in 1..Len(h)
  PROVE  SameUse(Compacted(h, e), h, i) /\ Compacted(h, e)[i].doc = h[i].doc
<1> DEFINE D == 1..Len(h)
<1>1. h \in [D -> LooseEntry] /\ i \in D
  BY AsFunction
<1> HIDE DEF D
<1> QED
  BY <1>1 DEF LooseEntry, Compacted, SameUse

LEMMA AddedFields ==
  ASSUME NEW l, NEW h, Good(l, h), NEW e, NEW ws, NEW i \in 1..Len(h)
  PROVE  /\ SameUse(Added(h, e, ws), h, i)
         /\ i = e => Added(h, e, ws)[i].doc = h[i].doc \cup ws
<1> DEFINE D == 1..Len(h)
<1>1. h \in [D -> LooseEntry] /\ i \in D
  BY AsFunction
<1> HIDE DEF D
<1> QED
  BY <1>1 DEF LooseEntry, Added, SameUse

LEMMA PutFields ==
  ASSUME NEW l, NEW h, Good(l, h), NEW e, NEW image, NEW i \in 1..Len(h)
  PROVE  /\ SameUse(Put(h, e, image), h, i)
         /\ i = e => Put(h, e, image)[i].doc = image.doc
<1> DEFINE D == 1..Len(h)
<1>1. h \in [D -> LooseEntry] /\ i \in D
  BY AsFunction
<1> HIDE DEF D
<1> QED
  BY <1>1 DEF LooseEntry, Put, SameUse

LEMMA CountedFields ==
  ASSUME NEW l, NEW h, Good(l, h), NEW n, NEW i \in 1..Len(h)
  PROVE  LET g == Counted(h, i, n) IN
         /\ g[i].room = h[i].room /\ g[i].active = n /\ g[i].doc = h[i].doc
         /\ g[i].idle = h[i].idle /\ g[i].before = h[i].before
<1> DEFINE D == 1..Len(h)
<1>1. h \in [D -> LooseEntry] /\ i \in D
  BY AsFunction
<1> HIDE DEF D
<1> QED
  BY <1>1 DEF LooseEntry, Counted

LEMMA ScheduledFields ==
  ASSUME NEW l, NEW h, Good(l, h), NEW sb, NEW i \in 1..Len(h)
  PROVE  LET g == Scheduled(h, sb, i) IN
         /\ g[i].room = h[i].room /\ g[i].active = h[i].active /\ g[i].doc = h[i].doc
         /\ g[i].idle => \/ h[i].idle /\ g[i].before = h[i].before
                         \/ \A c \in Caller : Waits(c) => c \in g[i].before
<1> DEFINE D == 1..Len(h)
           waits == {c \in Caller : call[c].at \in {"loaded", "compacting"}}
<1>1. h \in [D -> LooseEntry] /\ i \in D
  BY AsFunction
<1>2. Scheduled(h, sb, i) = Timed(h, i, waits) \/ Scheduled(h, sb, i) = h
  BY DEF Scheduled, Timed
<1>3. \A c \in Caller : Waits(c) => c \in waits
  BY DEF Waits
<1> HIDE DEF D, waits
<1>4. LET g == Timed(h, i, waits) IN
      /\ g[i].room = h[i].room /\ g[i].active = h[i].active /\ g[i].doc = h[i].doc
      /\ g[i].before = waits
  BY <1>1 DEF LooseEntry, Timed
<1> QED
  BY <1>2, <1>3, <1>4

LEMMA ReleasedFields ==
  ASSUME NEW l, NEW h, Good(l, h), NEW i \in 1..Len(h)
  PROVE  LET g == Released(h, i) IN
         /\ g[i].room = h[i].room /\ g[i].active = h[i].active - 1 /\ g[i].doc = h[i].doc
         /\ g[i].idle => \/ h[i].idle /\ g[i].before = h[i].before
                         \/ \A c \in Caller : Waits(c) => c \in g[i].before
<1> DEFINE k == Counted(h, i, h[i].active - 1)
<1>1. Released(h, i) = Scheduled(k, subs, i)
  BY DEF Released, Counted
<1>2. Good(l, k) /\ Len(k) = Len(h)
  BY UncountedGood
<1>3. /\ k[i].room = h[i].room /\ k[i].active = h[i].active - 1 /\ k[i].doc = h[i].doc
      /\ k[i].idle = h[i].idle /\ k[i].before = h[i].before
  BY CountedFields
<1> HIDE DEF k
<1>4. i \in 1..Len(k)
  BY <1>2
<1> QED
  BY <1>1, <1>2, <1>3, <1>4, ScheduledFields

\* A caller's new place.
LEMMA PlaceFields ==
  ASSUME NEW e, NEW place
  PROVE  /\ [At(place) EXCEPT !.entry = e].at = place /\ [At(place) EXCEPT !.entry = e].entry = e
         /\ At(place).at = place
  BY DEF At

----------------------------------------------------------------------------
(* The hub's life while the template stays.                                *)

LEMMA OneVersion ==
  ASSUME HubInv, MaxVersion = 1
  PROVE  /\ version = 1 /\ ~Upgrade
         /\ \A e \in 1..Len(heap) : heap[e].version = 1
         /\ \A c \in Caller : call[c].image.version = 1
<1>1. version = 1 /\ ~Upgrade
  BY DEF HubInv, Upgrade
<1>2. \A e \in 1..Len(heap) : heap[e].version = 1
  BY InvFacts, AsFunction DEF LooseEntry
<1>3. \A c \in Caller : call[c].image.version = 1
  BY InvFacts DEF GoodCall, Call, Image
<1> QED
  BY <1>1, <1>2, <1>3

\* A caller that has waited enters entry cur, which is the map's.
LEMMA EnterLive ==
  ASSUME HubInv, Heard, NEW c \in Caller, call[c].at \in {"loaded", "compacting"},
         NEW h, Good(log, h), NEW sb \in Seq(SUBSET Session), Len(sb) = Len(h),
         NEW cur \in 1..Len(h), Enter(c, cur, h, sb, cur), current' = cur, UNCHANGED owed,
         h[cur].room = cur, IsFiniteSet(Users), h[cur].active = Cardinality(Users),
         h[cur].idle => \A b \in Caller : Waits(b) => b \in h[cur].before \/ b = c,
         \A b \in Caller : Uses(b) => call[b].entry = cur \/ b = c,
         \A b \in Caller : call[b].at = "joined" => b \in Session /\ b \in sb[cur],
         \A b \in Caller : call[b].at \in {"ready", "committed", "saving"} => b \in Apply
  PROVE  LiveInv'
<1>1. call \in [Caller -> Call] /\ cur # 0 /\ Len(h) \in Nat
  BY InvFacts, AsFunction
<1>2. Apply \subseteq Caller /\ Session \subseteq Caller /\ (c \notin Apply => c \in Session)
        /\ Session \cap Apply = {}
  BY SetsAssumption DEF Caller
<1>3. CASE c \in Apply
  <2> DEFINE r == [At("ready") EXCEPT !.entry = cur]
  <2>1. r.at = "ready" /\ r.entry = cur
    BY PlaceFields
  <2>2. /\ heap' = Counted(h, cur, h[cur].active + 1) /\ call' = [call EXCEPT ![c] = r]
        /\ UNCHANGED held /\ subs' = sb
    BY <1>3 DEF Enter, Counted
  <2> HIDE DEF r
  <2>3. call'[c].at = "ready" /\ call'[c].entry = cur
        /\ \A b \in Caller : b # c => call'[b] = call[b]
    BY <1>1, <2>1, <2>2
  <2>4. /\ heap'[cur].room = cur /\ heap'[cur].active = h[cur].active + 1
        /\ heap'[cur].idle = h[cur].idle /\ heap'[cur].before = h[cur].before
    BY <2>2, CountedFields
  <2>5. h[cur].active + 1 \in Int /\ Len(heap') = Len(h)
    BY <2>2, CountedGood, AsFunction DEF LooseEntry
  <2>6. Users' = Users \cup {c} /\ c \notin Users
    BY <1>2, <1>3, <2>3 DEF Users
  <2>7. IsFiniteSet(Users') /\ Cardinality(Users') = Cardinality(Users) + 1
    BY <2>6, FS_AddElement
  <2>8. Follows'
    BY <1>1, <1>2, <1>3, <2>2, <2>3, <2>4, <2>5 DEF Follows, Uses
  <2>9. Kept'
    BY <2>3, <2>4, <2>7 DEF Kept, Waits
  <2>10. Heard'
    BY <1>2, <1>3, <2>2, <2>3 DEF Heard
  <2> QED
    BY <2>8, <2>9, <2>10 DEF LiveInv
<1>4. CASE c \notin Apply
  <2> DEFINE r == [At("joined") EXCEPT !.entry = cur]
  <2>1. r.at = "joined" /\ r.entry = cur
    BY PlaceFields
  <2>2. /\ heap' = Cancelled(h, cur) /\ call' = [call EXCEPT ![c] = r]
        /\ subs' = [sb EXCEPT ![cur] = @ \cup {c}]
        /\ held' = [held EXCEPT ![c] = h[cur].doc]
    BY <1>1, <1>4 DEF Enter, Joins
  <2> HIDE DEF r
  <2>3. call'[c].at = "joined" /\ call'[c].entry = cur
        /\ \A b \in Caller : b # c => call'[b] = call[b]
    BY <1>1, <2>1, <2>2
  <2>4. /\ heap'[cur].room = cur /\ heap'[cur].active = h[cur].active /\ ~heap'[cur].idle
        /\ Len(heap') = Len(h)
    BY <2>2, CancelledFields, CancelledGood DEF SameUse
  <2>5. /\ subs' \in Seq(SUBSET Session) /\ Len(subs') = Len(heap')
        /\ subs'[cur] = sb[cur] \cup {c}
    BY <1>2, <1>4, <2>2, <2>4
  <2>6. Users' = Users
    BY <1>2, <1>4, <2>3 DEF Users
  <2>7. Follows'
    BY <1>1, <1>2, <1>4, <2>3, <2>4, <2>5 DEF Follows, Uses
  <2>8. Kept'
    BY <2>4, <2>6 DEF Kept
  <2>9. \A s \in Session : owed[s] \subseteq held'[s] /\ (s # c => held'[s] = held[s])
    <3>1. owed[c] = {}
      BY <1>2, <1>4 DEF Heard
    <3>2. \A s \in Session : s # c => held'[s] = held[s]
      BY <2>2
    <3> QED
      BY <3>1, <3>2 DEF Heard
  <2>10. DOMAIN held' = DOMAIN held
    BY <2>2
  <2>11. Heard'
    BY <1>2, <2>3, <2>9, <2>10 DEF Heard
  <2> QED
    BY <2>7, <2>8, <2>11 DEF LiveInv
<1> QED
  BY <1>3, <1>4

\* Callers that move without taking or leaving an entry.
LEMMA MoveLive ==
  ASSUME HubInv, LiveInv, NEW c \in Caller, NEW r, call' = [call EXCEPT ![c] = r],
         UNCHANGED <<current, subs, owed, held>>, Len(heap') = Len(heap),
         current # 0 => SameUse(heap', heap, current),
         \/ ~Uses(c) /\ r.at \in {"loaded", "retry"}
              /\ (current # 0 /\ r.at = "loaded" => ~r.fresh)
         \/ c \in Users /\ r.at \in {"committed", "saving"} /\ r.entry = call[c].entry
  PROVE  LiveInv'
<1>1. /\ call \in [Caller -> Call] /\ Apply \subseteq Caller /\ Session \subseteq Caller
      /\ Session \cap Apply = {}
  BY InvFacts, SetsAssumption DEF Caller
<1>2. call'[c] = r /\ \A b \in Caller : b # c => call'[b] = call[b]
  BY <1>1
<1>3. Users' = Users
  BY <1>1, <1>2 DEF Users, Uses
<1>4. Follows'
  BY <1>1, <1>2 DEF LiveInv, Follows, Uses, Users, SameUse
<1>5. current # 0 => \A b \in Caller : Waits(b)' => Waits(b)
  BY <1>2 DEF Waits
<1>6. Kept'
  BY <1>3, <1>5 DEF LiveInv, Kept, SameUse
<1>7. Heard'
  BY <1>1, <1>2 DEF LiveInv, Heard, Uses, Users
<1> QED
  BY <1>4, <1>6, <1>7 DEF LiveInv

LEMMA LoadLive ==
  ASSUME HubInv, LiveInv, MaxVersion = 1, NEW c \in Caller, Load(c)
  PROVE  LiveInv'
<1> DEFINE hit == current # 0 /\ heap[current].version = version
           r == [at |-> "loaded", entry |-> current, fresh |-> ~hit,
                 image |-> IF hit THEN [NoImage EXCEPT !.version = version] ELSE Hydrated(c)]
<1>1. /\ call' = [call EXCEPT ![c] = r] /\ ~Uses(c)
      /\ UNCHANGED <<heap, current, subs, owed, held>>
  BY DEF Load, Uses
<1>2. current # 0 => hit
  BY OneVersion, InvFacts
<1>3. r.at = "loaded" /\ r.fresh = ~hit
  OBVIOUS
<1> HIDE DEF r, hit
<1> QED
  BY <1>1, <1>2, <1>3, MoveLive DEF SameUse

LEMMA ReloadLive ==
  ASSUME HubInv, LiveInv, NEW c \in Caller, Reload(c)
  PROVE  LiveInv'
<1> DEFINE r == At("retry")
<1>1. /\ call' = [call EXCEPT ![c] = r] /\ ~Uses(c)
      /\ UNCHANGED <<heap, current, subs, owed, held>>
  BY DEF Reload, Uses
<1>2. r.at = "retry"
  BY PlaceFields
<1> HIDE DEF r
<1> QED
  BY <1>1, <1>2, MoveLive DEF SameUse

\* While the template stays, the map's entry is the one to use.
LEMMA ReusesTheMaps ==
  ASSUME HubInv, MaxVersion = 1, NEW c \in Caller, current # 0 \/ call[c].fresh
  PROVE  Reusable(c) = current
<1>1. current # 0 => heap[current].version = 1
  BY OneVersion, InvFacts
<1> QED
  BY <1>1, OneVersion DEF Reusable

LEMMA AdoptLive ==
  ASSUME HubInv, LiveInv, MaxVersion = 1, NEW c \in Caller, Adopt(c)
  PROVE  LiveInv'
<1> DEFINE h == Cancelled(heap, current)
<1>1. /\ current # 0 /\ Enter(c, current, h, subs, current) /\ UNCHANGED <<current, owed>>
      /\ call[c].at = "loaded"
  BY ReusesTheMaps DEF Adopt
<1>2. current \in 1..Len(heap)
  BY <1>1, InvFacts
<1>3. Good(log, h) /\ Len(h) = Len(heap)
  BY InvFacts, CancelledGood
<1>4. h[current].room = heap[current].room /\ h[current].active = heap[current].active
        /\ ~h[current].idle
  BY <1>2, InvFacts, CancelledFields DEF SameUse
<1> HIDE DEF h
<1>5. /\ subs \in Seq(SUBSET Session) /\ Len(subs) = Len(h) /\ Heard
      /\ h[current].room = current /\ IsFiniteSet(Users)
      /\ h[current].active = Cardinality(Users)
  BY <1>1, <1>3, <1>4 DEF LiveInv, Follows, Kept
<1>6. /\ \A b \in Caller : Uses(b) => call[b].entry = current
      /\ \A b \in Caller : call[b].at = "joined" => b \in Session /\ b \in subs[current]
      /\ \A b \in Caller : call[b].at \in {"ready", "committed", "saving"} => b \in Apply
  BY DEF LiveInv, Follows
<1> QED
  BY <1>1, <1>2, <1>3, <1>4, <1>5, <1>6, EnterLive

LEMMA InstallLive ==
  ASSUME HubInv, LiveInv, MaxVersion = 1, NEW c \in Caller, Install(c)
  PROVE  LiveInv'
<1> DEFINE n == Len(heap) + 1
           h == Grown(c)
           sb == Append(subs, {})
<1>1. /\ current = 0 /\ current' = n /\ UNCHANGED owed /\ call[c].at = "loaded"
      /\ call[c].fresh
  BY ReusesTheMaps DEF Install
<1>2. Good(log, h) /\ Len(h) = n /\ Len(heap) \in Nat
  BY GrownGood, InvFacts
<1>3. h[n].room = n /\ h[n].active = 0 /\ ~h[n].idle
  <2>1. heap \in Seq(LooseEntry)
    BY InvFacts DEF Good
  <2>2. h = Append(heap, Made(c))
    BY <1>1 DEF Grown
  <2>3. h[n] = Made(c)
    BY <2>1, <2>2
  <2> QED
    BY <1>1, <2>3 DEF Made
<1>4. sb \in Seq(SUBSET Session) /\ Len(sb) = n
  BY DEF LiveInv, Follows
<1>5. \A b \in Caller : ~Uses(b)
  BY <1>1 DEF LiveInv, Follows
<1>6. /\ call \in [Caller -> Call] /\ Apply \subseteq Caller
      /\ Users = {} /\ IsFiniteSet(Users) /\ Cardinality(Users) = 0
  <2>1. Apply \subseteq Caller
    BY DEF Caller
  <2>2. Users = {}
    BY <1>5, <2>1 DEF Users, Uses
  <2> QED
    BY <2>1, <2>2, InvFacts, FS_EmptySet
<1>7. CASE call[c].image.since >= Threshold
  <2> DEFINE r == [call[c] EXCEPT !.at = "compacting", !.entry = n]
  <2>1. /\ heap' = h /\ subs' = sb /\ UNCHANGED held
        /\ call' = [call EXCEPT ![c] = r]
    BY <1>6, <1>7 DEF Install
  <2>2. r.at = "compacting" /\ r.entry = n
    BY <1>6 DEF Call
  <2> HIDE DEF r, h, sb
  <2>3. call'[c].at = "compacting" /\ call'[c].entry = n
        /\ \A b \in Caller : b # c => call'[b] = call[b]
    BY <1>6, <2>1, <2>2
  <2>4. n # 0
    BY <1>2
  <2> HIDE DEF n
  <2>5. Users' = Users
    BY <1>1, <1>6, <2>3 DEF Users
  <2>6. Follows'
    BY <1>1, <1>2, <1>3, <1>4, <1>5, <2>1, <2>3, <2>4 DEF Follows, Uses
  <2>7. Kept'
    BY <1>1, <1>3, <1>6, <2>1, <2>5 DEF Kept
  <2>8. Heard'
    <3>1. \A s \in Session : s \in Caller
      BY DEF Caller
    <3> QED
      BY <1>1, <2>1, <2>3, <3>1 DEF LiveInv, Heard
  <2> QED
    BY <2>6, <2>7, <2>8 DEF LiveInv
<1>8. CASE ~(call[c].image.since >= Threshold)
  <2>1. Enter(c, n, h, sb, n)
    BY <1>8 DEF Install
  <2> HIDE DEF h, sb
  <2>2. n \in 1..Len(h) /\ Len(sb) = Len(h)
    BY <1>2, <1>4
  <2> HIDE DEF n
  <2>3. \A b \in Caller : /\ call[b].at # "joined"
                          /\ call[b].at \notin {"ready", "committed", "saving"}
    BY <1>5 DEF Uses
  <2>4. Heard
    BY DEF LiveInv
  <2> QED
    BY <1>1, <1>2, <1>3, <1>4, <1>5, <1>6, <2>1, <2>2, <2>3, <2>4, EnterLive
<1> QED
  BY <1>7, <1>8

LEMMA CompactLive ==
  ASSUME HubInv, LiveInv, NEW c \in Caller, Compact(c)
  PROVE  LiveInv'
<1>1. PICK h \in {heap, Compacted(heap, call[c].entry)} :
        Enter(c, call[c].entry, h, subs, current)
  BY DEF Compact, Compacted
<1>2. /\ UNCHANGED <<current, owed>> /\ call[c].at = "compacting"
      /\ call[c].entry = current /\ current \in 1..Len(heap)
  BY InvFacts DEF Compact, LiveInv, Follows, Uses
<1>3. Good(log, h) /\ Len(h) = Len(heap) /\ SameUse(h, heap, current)
  BY <1>2, InvFacts, CompactedGood, CompactedFields DEF SameUse
<1>4. /\ subs \in Seq(SUBSET Session) /\ Len(subs) = Len(h) /\ Heard
      /\ h[current].room = current /\ IsFiniteSet(Users)
      /\ h[current].active = Cardinality(Users)
      /\ h[current].idle => \A b \in Caller : Waits(b) => b \in h[current].before
  BY <1>2, <1>3 DEF LiveInv, Follows, Kept, SameUse
<1>5. /\ \A b \in Caller : Uses(b) => call[b].entry = current
      /\ \A b \in Caller : call[b].at = "joined" => b \in Session /\ b \in subs[current]
      /\ \A b \in Caller : call[b].at \in {"ready", "committed", "saving"} => b \in Apply
  BY DEF LiveInv, Follows
<1>6. Enter(c, current, h, subs, current) /\ current \in 1..Len(h)
  BY <1>1, <1>2, <1>3
<1> QED
  BY <1>2, <1>3, <1>4, <1>5, <1>6, EnterLive

\* An apply ends, its entry having become g's.
LEMMA ReleaseLive ==
  ASSUME HubInv, LiveInv, NEW a \in Users, NEW g, Good(log, g), Len(g) = Len(heap),
         SameUse(g, heap, current), heap' = Released(g, current),
         call' = [call EXCEPT ![a] = At("done")], UNCHANGED <<current, subs>>, Heard'
  PROVE  LiveInv'
<1>1. /\ call \in [Caller -> Call] /\ Apply \subseteq Caller /\ a \in Apply
      /\ current \in 1..Len(heap)
  BY InvFacts DEF Caller, Users, LiveInv, Follows, Uses
<1>2. call'[a].at = "done" /\ \A b \in Caller : b # a => call'[b] = call[b]
  BY <1>1, PlaceFields
<1>3. /\ heap'[current].room = g[current].room
      /\ heap'[current].active = g[current].active - 1
      /\ heap'[current].idle => \/ g[current].idle /\ heap'[current].before = g[current].before
                                \/ \A c \in Caller : Waits(c) => c \in heap'[current].before
      /\ Len(heap') = Len(heap)
  BY <1>1, ReleasedFields, ReleasedGood
<1>4. Users' = Users \ {a}
  BY <1>1, <1>2 DEF Users
<1>5. IsFiniteSet(Users) /\ heap[current].active = Cardinality(Users)
  BY <1>1 DEF LiveInv, Kept
<1>6. IsFiniteSet(Users') /\ Cardinality(Users') = Cardinality(Users) - 1
  BY <1>4, <1>5, FS_RemoveElement
<1>7. Kept'
  <2>1. \A b \in Caller : Waits(b)' => Waits(b)
    BY <1>2 DEF Waits
  <2>2. heap'[current].idle => \A b \in Caller : Waits(b) => b \in heap'[current].before
    BY <1>1, <1>3 DEF LiveInv, Kept, SameUse
  <2> QED
    BY <1>3, <1>5, <1>6, <2>1, <2>2 DEF Kept, SameUse
<1>8. Follows'
  BY <1>1, <1>2, <1>3 DEF LiveInv, Follows, Uses, SameUse
<1> QED
  BY <1>7, <1>8 DEF LiveInv

\* Nobody is told anything, and the applies that end were not sessions.
LEMMA StillHeard ==
  ASSUME HubInv, LiveInv, NEW a \in Apply, NEW r, call' = [call EXCEPT ![a] = r],
         UNCHANGED <<held, owed>>
  PROVE  Heard'
<1>1. \A s \in Session : s \in Caller /\ s # a
  BY SetsAssumption DEF Caller
<1>2. \A s \in Session : call'[s] = call[s]
  BY <1>1, InvFacts
<1> QED
  BY <1>2 DEF LiveInv, Heard

LEMMA SaveLive ==
  ASSUME HubInv, LiveInv, NEW a \in Apply, Save(a) \/ Refuse(a)
  PROVE  LiveInv'
<1>1. PICK g \in {heap, Compacted(heap, call[a].entry)} : heap' = Released(g, call[a].entry)
  BY DEF Save, Refuse, Compacted
<1>2. /\ a \in Users /\ call' = [call EXCEPT ![a] = At("done")]
      /\ UNCHANGED <<current, subs, held, owed>>
  BY DEF Save, Refuse, Users
<1>3. call[a].entry = current /\ current \in 1..Len(heap)
  BY <1>2, InvFacts DEF LiveInv, Follows, Uses, Users, Caller
<1>4. Good(log, g) /\ Len(g) = Len(heap) /\ SameUse(g, heap, current)
  BY <1>3, InvFacts, CompactedGood, CompactedFields DEF SameUse
<1>5. Heard'
  BY <1>2, StillHeard
<1> QED
  BY <1>1, <1>2, <1>3, <1>4, <1>5, ReleaseLive

LEMMA CommitLive ==
  ASSUME HubInv, LiveInv, NEW a \in Apply, Commit(a)
  PROVE  LiveInv'
<1> DEFINE r == [call[a] EXCEPT !.at = "committed", !.image = Committing(a)]
<1>1. a \in Caller /\ call \in [Caller -> Call] /\ call[a] \in Call
  BY InvFacts DEF Caller
<1>2. /\ call' = [call EXCEPT ![a] = r] /\ a \in Users
      /\ UNCHANGED <<heap, current, subs, owed, held>>
  BY <1>1 DEF Commit, Users
<1>3. r.at = "committed" /\ r.entry = call[a].entry
  BY <1>1 DEF Call
<1> HIDE DEF r
<1> QED
  BY <1>1, <1>2, <1>3, MoveLive DEF SameUse

\* Everyone who has joined is sent what is announced.
LEMMA AnnouncedHeard ==
  ASSUME HubInv, LiveInv, NEW sent, NEW news, Announce(sent, news),
         \A s \in Session : call[s].at = "joined" => news \subseteq sent[s],
         \A s \in Session : call'[s] = call[s]
  PROVE  Heard'
  BY DEF LiveInv, Heard, Announce

LEMMA JoinedSubscribes ==
  ASSUME LiveInv, NEW s \in Session, call[s].at = "joined"
  PROVE  current # 0 /\ s \in Subscribers(current)
  BY DEF LiveInv, Follows, Subscribers, Uses, Caller

LEMMA HearWriteLive ==
  ASSUME HubInv, LiveInv, NEW w \in Write, HearWrite(w)
  PROVE  LiveInv'
<1> DEFINE sent == [s \in Session |->
                      IF current # 0 /\ s \in Subscribers(current) THEN {w} ELSE {}]
<1>1. /\ Announce(sent, {w}) /\ heap' = Folded(heap, {w}) /\ UNCHANGED <<current, subs, call>>
  BY DEF HearWrite
<1>2. \A s \in Session : call[s].at = "joined" => {w} \subseteq sent[s]
  BY JoinedSubscribes
<1> HIDE DEF sent
<1>3. Heard'
  BY <1>1, <1>2, AnnouncedHeard
<1>4. Len(heap') = Len(heap)
  BY <1>1, InvFacts, FoldedGood DEF Update
<1>5. current # 0 => SameUse(heap', heap, current)
  <2>1. current # 0 => heap' = Added(heap, current, {w}) /\ current \in 1..Len(heap)
    BY <1>1, InvFacts DEF Folded, Added
  <2>2. ASSUME current # 0 PROVE SameUse(Added(heap, current, {w}), heap, current)
    BY <2>1, <2>2, InvFacts, AddedFields
  <2> QED
    BY <2>1, <2>2
<1>6. Users' = Users /\ \A c \in Caller : Waits(c)' => Waits(c)
  BY <1>1 DEF Users, Waits
<1>7. Follows' /\ Kept'
  BY <1>1, <1>4, <1>5, <1>6 DEF LiveInv, Follows, Kept, Uses, SameUse
<1> QED
  BY <1>3, <1>7 DEF LiveInv

LEMMA HearApplyLive ==
  ASSUME HubInv, LiveInv, NEW a \in Apply, HearApply(a)
  PROVE  LiveInv'
<1> DEFINE e == call[a].entry
           g == Put(heap, e, call[a].image)
           h == Folded(g, Triggers[a])
           due == h[e].since >= Threshold
           sent == [s \in Session |->
                      (IF s \in Subscribers(e) THEN {a} ELSE {})
                        \cup (IF current # 0 /\ s \in Subscribers(current)
                              THEN Triggers[a] ELSE {})]
           r == IF due THEN [call[a] EXCEPT !.at = "saving", !.image.doc = h[e].doc]
                ELSE At("done")
<1>1. /\ call[a].at = "committed" /\ a \in Users /\ a \in Caller
      /\ UNCHANGED <<current, subs>> /\ Announce(sent, {a} \cup Triggers[a])
      /\ heap' = IF due THEN h ELSE Released(h, e)
      /\ call \in [Caller -> Call] /\ call[a] \in Call /\ GoodCall(log, Len(heap), call[a])
  BY InvFacts DEF HearApply, Installed, Put, Users, Caller
<1>2. e = current /\ current \in 1..Len(heap)
  BY <1>1, InvFacts DEF LiveInv, Follows, Uses
<1>3. call' = [call EXCEPT ![a] = r]
  BY <1>1 DEF HearApply, Installed, Put
<1>4. \A s \in Session : call[s].at = "joined" => {a} \cup Triggers[a] \subseteq sent[s]
  BY <1>2, JoinedSubscribes
<1>5. \A s \in Session : call'[s] = call[s]
  BY <1>1, <1>3, SetsAssumption DEF Caller
<1>6. Heard'
  BY <1>1, <1>4, <1>5, AnnouncedHeard
<1>7. Good(log, g) /\ Len(g) = Len(heap) /\ SameUse(g, heap, current)
  BY <1>1, <1>2, InvFacts, PutGood, PutFields DEF GoodCall, Call
<1> HIDE DEF g
<1>8. Good(log, h) /\ Len(h) = Len(heap) /\ SameUse(h, g, current)
  <2>1. Triggers[a] \in SUBSET Update
    BY TriggersAssumption DEF Update
  <2>2. h = Added(g, current, Triggers[a])
    BY <1>2 DEF Folded, Added
  <2> QED
    <3>1. current \in 1..Len(g)
      BY <1>2, <1>7
    <3>2. SameUse(Added(g, current, Triggers[a]), g, current)
      BY <1>7, <3>1, AddedFields
    <3>3. Good(log, Added(g, current, Triggers[a])) /\ Len(Added(g, current, Triggers[a])) = Len(g)
      BY <1>7, <2>1, AddedGood
    <3> QED
      BY <1>7, <2>2, <3>2, <3>3
<1>9. SameUse(h, heap, current)
  BY <1>7, <1>8 DEF SameUse
<1> HIDE DEF h, sent
<1>10. CASE due
  <2>1. r.at = "saving" /\ r.entry = call[a].entry /\ heap' = h
    BY <1>1, <1>10 DEF Call, Image
  <2> HIDE DEF r, due
  <2>2. call'[a] = r /\ \A b \in Caller : b # a => call'[b] = call[b]
    BY <1>1, <1>3
  <2>3. Users' = Users
    BY <1>1, <2>1, <2>2 DEF Users, Caller
  <2>4. \A b \in Caller : Waits(b)' => Waits(b)
    BY <2>1, <2>2 DEF Waits
  <2>5. Kept'
    BY <1>1, <1>9, <2>1, <2>3, <2>4 DEF LiveInv, Kept, SameUse
  <2>6. Follows'
    BY <1>1, <1>8, <1>9, <2>1, <2>2 DEF LiveInv, Follows, Uses, SameUse
  <2> QED
    BY <1>6, <2>5, <2>6 DEF LiveInv
<1>11. CASE ~due
  <2>1. heap' = Released(h, current) /\ r = At("done")
    BY <1>1, <1>2, <1>11
  <2> HIDE DEF r, due
  <2> QED
    BY <1>1, <1>3, <1>6, <1>8, <1>9, <2>1, ReleaseLive
<1> QED
  BY <1>10, <1>11

LEMMA LeaveLive ==
  ASSUME HubInv, LiveInv, NEW s \in Session, Leave(s)
  PROVE  LiveInv'
<1> DEFINE left == [subs EXCEPT ![heap[call[s].entry].room] = @ \ {s}]
<1>1. s \in Caller /\ call \in [Caller -> Call] /\ Session \cap Apply = {}
      /\ Apply \subseteq Caller /\ Session \subseteq Caller
  BY InvFacts, SetsAssumption DEF Caller
<1>2. /\ call[s].at = "joined" /\ subs' = left /\ heap' = Scheduled(heap, left, call[s].entry)
      /\ call' = [call EXCEPT ![s] = At("done")] /\ UNCHANGED current
      /\ held' = [held EXCEPT ![s] = {}] /\ owed' = [owed EXCEPT ![s] = {}]
  BY DEF Leave
<1>3. call[s].entry = current /\ current \in 1..Len(heap) /\ heap[current].room = current
  BY <1>1, <1>2, InvFacts DEF LiveInv, Follows, Uses
<1>4. left = [subs EXCEPT ![current] = @ \ {s}]
  BY <1>3
<1> HIDE DEF left
<1>5. /\ subs' \in Seq(SUBSET Session) /\ Len(subs') = Len(subs)
      /\ subs'[current] = subs[current] \ {s}
  BY <1>2, <1>3, <1>4 DEF LiveInv, Follows
<1>6. call'[s].at = "done" /\ \A b \in Caller : b # s => call'[b] = call[b]
  BY <1>1, <1>2, PlaceFields
<1>7. /\ heap'[current].room = current /\ heap'[current].active = heap[current].active
      /\ heap'[current].idle =>
           \/ heap[current].idle /\ heap'[current].before = heap[current].before
           \/ \A c \in Caller : Waits(c) => c \in heap'[current].before
      /\ Len(heap') = Len(heap)
  BY <1>2, <1>3, InvFacts, ScheduledFields, ScheduledGood
<1>8. Users' = Users /\ \A c \in Caller : Waits(c)' => Waits(c)
  BY <1>1, <1>6 DEF Users, Waits
<1>9. Kept'
  BY <1>2, <1>3, <1>7, <1>8 DEF LiveInv, Kept
<1>10. Follows'
  BY <1>1, <1>2, <1>5, <1>6, <1>7 DEF LiveInv, Follows, Uses
<1>11. Heard'
  <2>1. /\ DOMAIN owed = Session /\ DOMAIN held = Session
        /\ \A t \in Session : owed[t] \subseteq held[t] /\ (call[t].at # "joined" => owed[t] = {})
    BY DEF LiveInv, Heard
  <2>2. /\ DOMAIN owed' = Session /\ DOMAIN held' = Session
        /\ owed'[s] = {} /\ \A t \in Session : t # s => owed'[t] = owed[t] /\ held'[t] = held[t]
    BY <1>2, <2>1
  <2>3. ASSUME NEW t \in Session
        PROVE  owed'[t] \subseteq held'[t] /\ (call'[t].at # "joined" => owed'[t] = {})
    <3>1. CASE t # s
      BY <1>1, <1>6, <2>1, <2>2, <3>1
    <3>2. CASE t = s
      BY <2>2, <3>2
    <3> QED
      BY <3>1, <3>2
  <2> QED
    BY <2>2, <2>3 DEF Heard
<1> QED
  BY <1>9, <1>10, <1>11 DEF LiveInv

\* An entry that is dropped was nobody's, and nobody waited for it.
LEMMA DroppedUnused ==
  ASSUME HubInv, LiveInv, NEW e \in DOMAIN heap, Evict(e), current' # current
  PROVE  current' = 0 /\ \A c \in Caller : ~Uses(c) /\ ~Waits(c)
<1>1. /\ current' = 0 /\ Subscribers(current) = {} /\ heap[current].active = 0
      /\ heap[current].idle /\ current # 0
      /\ \A c \in heap[current].before : call[c].at \notin {"loaded", "compacting"}
  BY DEF Evict
<1>2. subs[current] = {} /\ Users = {}
  <2>1. IsFiniteSet(Users) /\ Cardinality(Users) = 0
    BY <1>1 DEF LiveInv, Kept
  <2> QED
    BY <1>1, <2>1, FS_EmptySet DEF Subscribers, LiveInv, Follows
<1>3. \A c \in Caller : ~Waits(c)
  BY <1>1 DEF LiveInv, Kept, Waits
<1>4. \A c \in Caller : ~Uses(c)
  BY <1>2, <1>3 DEF LiveInv, Follows, Uses, Users, Waits
<1> QED
  BY <1>1, <1>3, <1>4

LEMMA EvictLive ==
  ASSUME HubInv, LiveInv, NEW e \in DOMAIN heap, Evict(e)
  PROVE  LiveInv'
<1>1. /\ heap' = Cancelled(heap, e) /\ UNCHANGED <<subs, call, held, owed>>
      /\ current' \in {0, current} /\ Len(heap') = Len(heap)
  BY InvFacts, CancelledGood DEF Evict
<1>2. Heard' /\ Users' = Users /\ \A c \in Caller : Waits(c)' => Waits(c)
  BY <1>1 DEF LiveInv, Heard, Users, Waits
<1>3. CASE current' = current
  <2>1. current # 0 => SameUse(heap', heap, current)
    BY <1>1, InvFacts, CancelledFields
  <2>2. Follows' /\ Kept'
    BY <1>1, <1>2, <1>3, <2>1 DEF LiveInv, Follows, Kept, Uses, SameUse
  <2> QED
    BY <1>2, <2>2 DEF LiveInv
<1>4. CASE current' # current
  <2>1. current' = 0 /\ \A c \in Caller : ~Uses(c)
    BY <1>4, DroppedUnused
  <2>2. Follows' /\ Kept'
    BY <1>1, <2>1 DEF LiveInv, Follows, Kept, Uses
  <2> QED
    BY <1>2, <2>2 DEF LiveInv
<1> QED
  BY <1>3, <1>4

LEMMA RestartLive ==
  ASSUME HubInv, Restart
  PROVE  LiveInv'
<1>1. /\ heap' = <<>> /\ current' = 0 /\ subs' = <<>>
      /\ held' = [s \in Session |-> {}] /\ owed' = [s \in Session |-> {}]
      /\ call' = [c \in Caller |-> IF call[c].at = "new" THEN call[c] ELSE At("done")]
  BY DEF Restart
<1>2. \A c \in Caller : call'[c].at \in {"new", "done"}
  BY <1>1, PlaceFields
<1>3. Follows' /\ Kept' /\ Heard'
  BY <1>1, <1>2 DEF Follows, Kept, Heard, Uses
<1> QED
  BY <1>3 DEF LiveInv

LEMMA InitLive ==
  ASSUME Init
  PROVE  LiveInv
<1>1. \A c \in Caller : call[c].at = "new"
  BY PlaceFields DEF Init
<1>2. Follows /\ Kept /\ Heard
  BY <1>1 DEF Init, Follows, Kept, Heard, Uses
<1> QED
  BY <1>2 DEF LiveInv

LEMMA StepLive ==
  ASSUME HubInv, LiveInv, MaxVersion = 1, [Next]_vars
  PROVE  LiveInv'
<1>1. ASSUME UNCHANGED <<heap, current, subs, call, held, owed>>
      PROVE  LiveInv'
  BY <1>1 DEF LiveInv, Follows, Kept, Heard, Uses, Users, Waits
<1>2. ASSUME NEW w \in Write, WriteRecord(w)
      PROVE  LiveInv'
  BY <1>1, <1>2 DEF WriteRecord
<1>3. CASE UNCHANGED vars
  BY <1>1, <1>3 DEF vars
<1> QED
  BY <1>2, <1>3, OneVersion, LoadLive, ReloadLive, AdoptLive, InstallLive, CompactLive, CommitLive,
     SaveLive, HearApplyLive, HearWriteLive, LeaveLive, EvictLive, RestartLive DEF Next

\* Whatever is announced reaches every session that has joined, through
\* evictions, concurrent opens, commits heard in any order and restarts, while
\* the board keeps its template version (hub.ts:737-739).
THEOREM AllHear == ASSUME MaxVersion = 1 PROVE Spec => []SubscribersHearAll
<1>1. Init => LiveInv
  BY InitLive
<1>2. HubInv /\ LiveInv /\ [Next]_vars => LiveInv'
  BY StepLive
<1>3. LiveInv => SubscribersHearAll
  BY DEF LiveInv, Heard, SubscribersHearAll
<1> QED
  BY <1>1, <1>2, <1>3, Invariant, PTL DEF Spec

----------------------------------------------------------------------------
(* The document served, while the template stays and commits are heard in  *)
(* their order.                                                            *)

\* What a caller hydrates holds the whole log, unless it is a guest and there
\* are updates that wrote no row.
LEMMA HydratedWhole ==
  ASSUME HubInv, NEW c, c \notin Guest \/ Partial = {}
  PROVE  Elements(log) \subseteq Hydrated(c).doc
<1>1. CASE c \in Guest
  <2>1. Hydrated(c).doc = Elements(log)
    BY <1>1 DEF Hydrated, NoImage, Rows
  <2> QED
    BY <2>1
<1>2. CASE c \notin Guest
  <2>1. Hydrated(c).through = Len(log)
    BY <1>2 DEF Hydrated
  <2>2. Sound(log, Hydrated(c).doc, Hydrated(c).through)
    BY HydratedSound
  <2>3. \A i \in 1..Len(log) : log[i] \in Hydrated(c).doc
    BY <2>1, <2>2 DEF Sound
  <2>4. DOMAIN log = 1..Len(log)
    BY InvFacts
  <2> QED
    BY <2>3, <2>4 DEF Elements
<1> QED
  BY <1>1, <1>2

\* A step by which nothing is committed or heard.
LEMMA DocKept ==
  ASSUME DocInv, UNCHANGED <<log, unheard>>,
         current' # 0 => \A u \in Applied : u \in heap'[current'].doc \/ Coming(u, 1),
         \A c \in Caller : call[c].at = "committed" =>
           call'[c].at = "committed" /\ call'[c].image.doc = call[c].image.doc,
         current' = 0 => \A c \in Caller : call'[c].at = "loaded" /\ call'[c].fresh =>
                           Applied \subseteq call'[c].image.doc
  PROVE  DocInv'
<1>1. Applied' = Applied /\ \A u, n : Coming(u, n)' <=> Coming(u, n)
  BY DEF Applied, Elements, Coming
<1>2. Apply \subseteq Caller
  BY DEF Caller
<1> QED
  BY <1>1, <1>2 DEF DocInv

\* The caller that enters was not committing, and the document it enters stays.
LEMMA EnterDoc ==
  ASSUME HubInv, NEW c \in Caller, NEW h, Good(log, h), NEW sb, NEW cur \in 1..Len(h),
         Enter(c, cur, h, sb, cur)
  PROVE  /\ heap'[cur].doc = h[cur].doc
         /\ call'[c].at \in {"ready", "joined"}
         /\ \A b \in Caller : b # c => call'[b] = call[b]
<1>1. call \in [Caller -> Call] /\ cur # 0
  BY InvFacts, AsFunction
<1>2. CASE c \in Apply
  <2>1. heap' = Counted(h, cur, h[cur].active + 1)
        /\ call' = [call EXCEPT ![c] = [At("ready") EXCEPT !.entry = cur]]
    BY <1>2 DEF Enter, Counted
  <2>2. heap'[cur].doc = h[cur].doc
    BY <2>1, CountedFields
  <2> QED
    BY <1>1, <2>1, <2>2, PlaceFields
<1>3. CASE c \notin Apply
  <2>1. heap' = Cancelled(h, cur)
        /\ call' = [call EXCEPT ![c] = [At("joined") EXCEPT !.entry = cur]]
    BY <1>1, <1>3 DEF Enter, Joins
  <2>2. heap'[cur].doc = h[cur].doc
    BY <2>1, CancelledFields
  <2> QED
    BY <1>1, <2>1, <2>2, PlaceFields
<1> QED
  BY <1>2, <1>3

LEMMA LoadDoc ==
  ASSUME HubInv, DocInv, Guest = {} \/ Partial = {}, NEW c \in Caller, Load(c)
  PROVE  DocInv'
<1> DEFINE hit == current # 0 /\ heap[current].version = version
           r == [at |-> "loaded", entry |-> current, fresh |-> ~hit,
                 image |-> IF hit THEN [NoImage EXCEPT !.version = version] ELSE Hydrated(c)]
<1>1. /\ call' = [call EXCEPT ![c] = r] /\ call[c].at \in {"new", "retry"}
      /\ UNCHANGED <<heap, current, log, unheard>> /\ call \in [Caller -> Call]
  BY InvFacts DEF Load, database
<1>2. current = 0 => r.image = Hydrated(c)
  OBVIOUS
<1> HIDE DEF r
<1>3. call'[c] = r /\ \A b \in Caller : b # c => call'[b] = call[b]
  BY <1>1
<1>4. Applied \subseteq Hydrated(c).doc
  BY HydratedWhole DEF Applied
<1> QED
  BY <1>1, <1>2, <1>3, <1>4, DocKept DEF DocInv

LEMMA AdoptDoc ==
  ASSUME HubInv, DocInv, MaxVersion = 1, NEW c \in Caller, Adopt(c)
  PROVE  DocInv'
<1> DEFINE h == Cancelled(heap, current)
<1>1. /\ current # 0 /\ Enter(c, current, h, subs, current)
      /\ UNCHANGED <<log, unheard, current>> /\ call[c].at = "loaded"
  BY ReusesTheMaps DEF Adopt, database
<1>2. current \in 1..Len(heap)
  BY <1>1, InvFacts
<1>3. Good(log, h) /\ Len(h) = Len(heap) /\ h[current].doc = heap[current].doc
  BY <1>2, InvFacts, CancelledGood, CancelledFields
<1> HIDE DEF h
<1>4. /\ heap'[current].doc = heap[current].doc
      /\ \A b \in Caller : b # c => call'[b] = call[b]
  BY <1>1, <1>2, <1>3, EnterDoc
<1> QED
  BY <1>1, <1>4, DocKept DEF DocInv

LEMMA CompactDoc ==
  ASSUME HubInv, LiveInv, DocInv, NEW c \in Caller, Compact(c)
  PROVE  DocInv'
<1>1. PICK h \in {heap, Compacted(heap, call[c].entry)} :
        Enter(c, call[c].entry, h, subs, current)
  BY DEF Compact, Compacted
<1>2. /\ UNCHANGED <<current, log, unheard>> /\ call[c].at = "compacting"
      /\ call[c].entry = current /\ current \in 1..Len(heap) /\ current # 0
  BY InvFacts DEF Compact, LiveInv, Follows, Uses
<1>3. Good(log, h) /\ Len(h) = Len(heap) /\ h[current].doc = heap[current].doc
  BY <1>2, InvFacts, CompactedGood, CompactedFields
<1>4. /\ heap'[current].doc = heap[current].doc
      /\ \A b \in Caller : b # c => call'[b] = call[b]
  BY <1>1, <1>2, <1>3, EnterDoc
<1> QED
  BY <1>2, <1>4, DocKept DEF DocInv

LEMMA InstallDoc ==
  ASSUME HubInv, DocInv, MaxVersion = 1, NEW c \in Caller, Install(c)
  PROVE  DocInv'
<1> DEFINE n == Len(heap) + 1
           h == Grown(c)
<1>1. /\ current = 0 /\ current' = n /\ call[c].at = "loaded" /\ call[c].fresh
      /\ UNCHANGED <<log, unheard>> /\ call \in [Caller -> Call]
  BY ReusesTheMaps, InvFacts DEF Install, database
<1>2. Good(log, h) /\ Len(h) = n /\ Len(heap) \in Nat
  BY GrownGood, InvFacts
<1>3. h[n].doc = call[c].image.doc
  <2>1. heap \in Seq(LooseEntry) /\ h = Append(heap, Made(c))
    BY <1>1, InvFacts DEF Good, Grown
  <2>2. h[n] = Made(c)
    BY <2>1
  <2> QED
    BY <2>2 DEF Made
<1>4. Applied \subseteq call[c].image.doc
  BY <1>1 DEF DocInv
<1>5. heap'[n].doc = h[n].doc /\ \A b \in Caller : b # c => call'[b] = call[b]
  <2>1. CASE call[c].image.since >= Threshold
    <3>1. heap' = h
          /\ call' = [call EXCEPT ![c] = [call[c] EXCEPT !.at = "compacting", !.entry = n]]
      BY <1>1, <2>1 DEF Install
    <3> QED
      BY <1>1, <3>1
  <2>2. CASE ~(call[c].image.since >= Threshold)
    <3>1. Enter(c, n, h, Append(subs, {}), n) /\ n \in 1..Len(h)
      BY <1>2, <2>2 DEF Install
    <3> HIDE DEF n, h
    <3> QED
      BY <1>2, <3>1, EnterDoc
  <2> QED
    BY <2>1, <2>2
<1>6. n # 0
  BY <1>2
<1> HIDE DEF n, h
<1> QED
  BY <1>1, <1>3, <1>4, <1>5, <1>6, DocKept

LEMMA EndDoc ==
  ASSUME HubInv, LiveInv, DocInv, NEW a \in Apply, Save(a) \/ Refuse(a)
  PROVE  DocInv'
<1>1. PICK g \in {heap, Compacted(heap, call[a].entry)} : heap' = Released(g, call[a].entry)
  BY DEF Save, Refuse, Compacted
<1>2. /\ a \in Users /\ call' = [call EXCEPT ![a] = At("done")] /\ call[a].at # "committed"
      /\ UNCHANGED <<current, log, unheard>> /\ a \in Caller /\ call \in [Caller -> Call]
  BY InvFacts DEF Save, Refuse, Users, database, Caller
<1>3. call[a].entry = current /\ current \in 1..Len(heap) /\ current # 0
  BY <1>2, InvFacts DEF LiveInv, Follows, Uses, Users
<1>4. Good(log, g) /\ Len(g) = Len(heap) /\ g[current].doc = heap[current].doc
  BY <1>3, InvFacts, CompactedGood, CompactedFields
<1>5. heap'[current].doc = heap[current].doc
  BY <1>1, <1>3, <1>4, ReleasedFields
<1>6. \A b \in Caller : b # a => call'[b] = call[b]
  BY <1>2
<1> QED
  BY <1>2, <1>3, <1>5, <1>6, DocKept DEF DocInv

LEMMA LeaveDoc ==
  ASSUME HubInv, LiveInv, DocInv, NEW s \in Session, Leave(s)
  PROVE  DocInv'
<1> DEFINE left == [subs EXCEPT ![heap[call[s].entry].room] = @ \ {s}]
<1>1. /\ call[s].at = "joined" /\ heap' = Scheduled(heap, left, call[s].entry)
      /\ call' = [call EXCEPT ![s] = At("done")] /\ UNCHANGED <<current, log, unheard>>
      /\ s \in Caller /\ call \in [Caller -> Call]
  BY InvFacts DEF Leave, database, Caller
<1>2. call[s].entry = current /\ current \in 1..Len(heap) /\ current # 0
  BY <1>1, InvFacts DEF LiveInv, Follows, Uses
<1> HIDE DEF left
<1>3. heap'[current].doc = heap[current].doc
  BY <1>1, <1>2, InvFacts, ScheduledFields
<1>4. \A b \in Caller : b # s => call'[b] = call[b]
  BY <1>1
<1> QED
  BY <1>1, <1>2, <1>3, <1>4, DocKept DEF DocInv

LEMMA EvictDoc ==
  ASSUME HubInv, LiveInv, DocInv, NEW e \in DOMAIN heap, Evict(e)
  PROVE  DocInv'
<1>1. heap' = Cancelled(heap, e) /\ UNCHANGED <<call, log, unheard>>
  BY DEF Evict, database
<1>2. CASE current' = current
  <2>1. current # 0 => heap'[current].doc = heap[current].doc
    BY <1>1, InvFacts, CancelledFields
  <2> QED
    BY <1>1, <1>2, <2>1, DocKept DEF DocInv
<1>3. CASE current' # current
  <2>1. current' = 0 /\ \A c \in Caller : ~Waits(c)
    BY <1>3, DroppedUnused
  <2> QED
    BY <1>1, <2>1, DocKept DEF Waits
<1> QED
  BY <1>2, <1>3

LEMMA RestartDoc ==
  ASSUME Restart
  PROVE  DocInv'
<1>1. /\ current' = 0 /\ unheard' = <<>>
      /\ call' = [c \in Caller |-> IF call[c].at = "new" THEN call[c] ELSE At("done")]
  BY DEF Restart
<1>2. \A c \in Caller : call'[c].at # "loaded"
  BY <1>1, PlaceFields
<1>3. unheard' \in Seq(Update) /\ Len(unheard') = 0
  BY <1>1
<1> QED
  BY <1>1, <1>2, <1>3 DEF DocInv

LEMMA ReloadDoc ==
  ASSUME HubInv, DocInv, NEW c \in Caller, Reload(c)
  PROVE  DocInv'
<1>1. /\ call' = [call EXCEPT ![c] = At("retry")] /\ call[c].at = "loaded"
      /\ UNCHANGED <<heap, current, log, unheard>> /\ call \in [Caller -> Call]
  BY InvFacts DEF Reload, database
<1>2. call'[c].at = "retry" /\ \A b \in Caller : b # c => call'[b] = call[b]
  BY <1>1, PlaceFields
<1> QED
  BY <1>1, <1>2, DocKept DEF DocInv

\* A commit joins what is to be heard of.
LEMMA UnheardGrows ==
  ASSUME unheard \in Seq(Update), NEW x \in Update, unheard' = Append(unheard, x)
  PROVE  /\ unheard' \in Seq(Update) /\ Len(unheard') = Len(unheard) + 1
         /\ Len(unheard) \in Nat
         /\ \A i \in 1..Len(unheard) : unheard'[i] = unheard[i]
         /\ unheard'[Len(unheard) + 1] = x
         /\ \A n \in Nat \ {0} : \A u : Coming(u, n) => Coming(u, n)'
<1>1. /\ unheard' \in Seq(Update) /\ Len(unheard') = Len(unheard) + 1 /\ Len(unheard) \in Nat
      /\ \A i \in 1..Len(unheard) : unheard'[i] = unheard[i]
      /\ unheard'[Len(unheard) + 1] = x
  OBVIOUS
<1>2. ASSUME NEW n \in Nat \ {0}, NEW u, Coming(u, n)
      PROVE  Coming(u, n)'
  <2>1. PICK j \in n..Len(unheard) :
          unheard[j] \in Apply /\ (u = unheard[j] \/ u \in Triggers[unheard[j]])
    BY <1>2 DEF Coming
  <2>2. j \in 1..Len(unheard) /\ j \in n..Len(unheard')
    BY <1>1, <2>1
  <2> QED
    BY <1>1, <2>1, <2>2 DEF Coming
<1> QED
  BY <1>1, <1>2

LEMMA WriteRecordDoc ==
  ASSUME HubInv, DocInv, NEW w \in Write, WriteRecord(w)
  PROVE  DocInv'
<1>1. /\ log' = Append(log, w) /\ unheard' = Append(unheard, w) /\ UNCHANGED <<heap, current, call>>
      /\ unheard \in Seq(Update) /\ w \in Update /\ log \in Seq(Update)
  BY DEF WriteRecord, DocInv, HubInv, Update
<1>2. w \notin FromApplies /\ w \notin Apply
  BY SetsAssumption DEF WriteRecord, FromApplies
<1>3. Applied' = Applied
  <2>1. Elements(log)' = Elements(log) \cup {w}
    BY <1>1 DEF Elements
  <2> QED
    BY <1>2, <2>1 DEF Applied
<1> DEFINE n == Len(unheard)
<1>4. /\ unheard' \in Seq(Update) /\ Len(unheard') = n + 1 /\ n \in Nat
      /\ \A i \in 1..n : unheard'[i] = unheard[i]
      /\ unheard'[n + 1] = w
      /\ \A k \in Nat \ {0} : \A u : Coming(u, k) => Coming(u, k)'
  BY <1>1, UnheardGrows
<1>5. ASSUME NEW i \in 1..Len(unheard'), unheard'[i] \in Apply
      PROVE  /\ call'[unheard'[i]].at = "committed"
             /\ \A j \in 1..Len(unheard') : unheard'[j] = unheard'[i] => j = i
             /\ \A u \in Applied' : \/ u \in call'[unheard'[i]].image.doc
                                     \/ u \in Triggers[unheard'[i]] \/ Coming(u, i + 1)'
  <2>1. i \in 1..n /\ unheard'[i] = unheard[i] /\ i + 1 \in Nat \ {0}
    BY <1>2, <1>4, <1>5
  <2>2. /\ call[unheard[i]].at = "committed"
        /\ \A j \in 1..n : unheard[j] = unheard[i] => j = i
        /\ \A u \in Applied : \/ u \in call[unheard[i]].image.doc
                               \/ u \in Triggers[unheard[i]] \/ Coming(u, i + 1)
    BY <1>5, <2>1 DEF DocInv
  <2>3. \A j \in 1..Len(unheard') : unheard'[j] = unheard'[i] => j = i
    <3>1. \A j \in 1..Len(unheard') : j \in 1..n \/ j = n + 1
      BY <1>4
    <3> QED
      BY <1>2, <1>4, <1>5, <2>1, <2>2, <3>1
  <2> QED
    BY <1>1, <1>3, <1>4, <2>1, <2>2, <2>3
<1>6. current' # 0 => \A u \in Applied' : u \in heap'[current'].doc \/ Coming(u, 1)'
  BY <1>1, <1>3, <1>4 DEF DocInv
<1>7. current' = 0 => \A c \in Caller : call'[c].at = "loaded" /\ call'[c].fresh =>
                        Applied' \subseteq call'[c].image.doc
  BY <1>1, <1>3 DEF DocInv
<1> QED
  BY <1>4, <1>5, <1>6, <1>7 DEF DocInv

LEMMA CommitDoc ==
  ASSUME HubInv, LiveInv, DocInv, NEW a \in Apply, Commit(a)
  PROVE  DocInv'
<1> DEFINE m == IF Triggers[a] = {} THEN <<>> ELSE <<CHOOSE w \in Triggers[a] : TRUE>>
           r == [call[a] EXCEPT !.at = "committed", !.image = Committing(a)]
           n == Len(unheard)
<1>1. /\ log' = log \o <<a>> \o m /\ unheard' = Append(unheard, a) /\ call[a].at = "ready"
      /\ UNCHANGED <<heap, current>> /\ a \in Caller /\ call \in [Caller -> Call]
      /\ call[a] \in Call /\ unheard \in Seq(Update) /\ a \in Update /\ log \in Seq(Update)
  BY InvFacts DEF Commit, DocInv, Update, Caller
<1>2. call' = [call EXCEPT ![a] = r]
  BY <1>1 DEF Commit
<1>3. r.at = "committed" /\ r.image = Committing(a)
  BY <1>1 DEF Call
<1> HIDE DEF r
<1>4. call'[a] = r /\ \A b \in Caller : b # a => call'[b] = call[b]
  BY <1>1, <1>2
<1>5. current # 0
  BY <1>1 DEF LiveInv, Follows, Uses
<1>6. Elements(log)' \subseteq Elements(log) \cup {a} \cup Triggers[a]
  <2>1. m \in Seq(Triggers[a])
    <3>1. CASE Triggers[a] = {}
      BY <3>1
    <3>2. CASE Triggers[a] # {}
      <4>1. PICK x \in Triggers[a] : m = <<x>>
        <5>1. (CHOOSE w \in Triggers[a] : TRUE) \in Triggers[a]
          BY <3>2
        <5> QED
          BY <3>2, <5>1
      <4>2. \A S : \A y \in S : <<y>> \in Seq(S)
        OBVIOUS
      <4> HIDE DEF m
      <4> QED
        BY ONLY <4>1, <4>2
    <3> QED
      BY <3>1, <3>2
  <2> HIDE DEF m
  <2>2. \A i \in 1..Len(log \o <<a>> \o m) :
          (log \o <<a>> \o m)[i] \in Elements(log) \cup {a} \cup Triggers[a]
    <3> SUFFICES ASSUME NEW i \in 1..Len(log \o <<a>> \o m)
                 PROVE  (log \o <<a>> \o m)[i] \in Elements(log) \cup {a} \cup Triggers[a]
      OBVIOUS
    <3>1. Len(log) \in Nat /\ Len(m) \in Nat /\ log \o <<a>> \in Seq(Update)
          /\ Len(log \o <<a>>) = Len(log) + 1 /\ Len(log \o <<a>> \o m) = Len(log) + 1 + Len(m)
      BY <1>1, <2>1
    <3>2. CASE i <= Len(log)
      <4>1. (log \o <<a>> \o m)[i] = log[i] /\ i \in DOMAIN log
        BY <1>1, <2>1, <3>1, <3>2
      <4> QED
        BY <4>1 DEF Elements
    <3>3. CASE i = Len(log) + 1
      BY <1>1, <2>1, <3>1, <3>3
    <3>4. CASE i > Len(log) + 1
      <4>1. (log \o <<a>> \o m)[i] = m[i - (Len(log) + 1)]
            /\ i - (Len(log) + 1) \in 1..Len(m)
        BY <1>1, <2>1, <3>1, <3>4
      <4> QED
        BY <2>1, <4>1
    <3> QED
      BY <3>1, <3>2, <3>3, <3>4
  <2>3. DOMAIN log' = 1..Len(log')
    BY <1>1, <2>1
  <2> QED
    BY <1>1, <2>2, <2>3 DEF Elements
<1> HIDE DEF m
<1>7. Applied' \subseteq Applied \cup {a} \cup Triggers[a]
  BY <1>6 DEF Applied
<1>8. /\ unheard' \in Seq(Update) /\ Len(unheard') = n + 1 /\ n \in Nat
      /\ \A i \in 1..n : unheard'[i] = unheard[i]
      /\ unheard'[n + 1] = a
      /\ \A k \in Nat \ {0} : \A u : Coming(u, k) => Coming(u, k)'
  BY <1>1, UnheardGrows
<1>9. \A k \in 1..n + 1 : \A u \in {a} \cup Triggers[a] : Coming(u, k)'
  <2>1. \A k \in 1..n + 1 : n + 1 \in k..Len(unheard')
    BY <1>8
  <2> QED
    BY <1>8, <2>1 DEF Coming
<1>10. \A u \in Applied : u \in Committing(a).doc
  <2>1. Elements(log) \subseteq Hydrated(a).doc
    BY SetsAssumption, HydratedWhole
  <2>2. Hydrated(a) \in Image
    BY HydratedSound
  <2>3. Committing(a).doc = Hydrated(a).doc \cup {a}
    BY <2>2 DEF Committing, Image
  <2> QED
    BY <2>1, <2>3 DEF Applied
<1>11. ASSUME NEW i \in 1..Len(unheard'), unheard'[i] \in Apply
       PROVE  /\ call'[unheard'[i]].at = "committed"
              /\ \A j \in 1..Len(unheard') : unheard'[j] = unheard'[i] => j = i
              /\ \A u \in Applied' : \/ u \in call'[unheard'[i]].image.doc
                                      \/ u \in Triggers[unheard'[i]] \/ Coming(u, i + 1)'
  <2>1. \A j \in 1..n : unheard[j] # a
    BY <1>1 DEF DocInv
  <2>2. \A j \in 1..Len(unheard') : j \in 1..n \/ j = n + 1
    BY <1>8
  <2>3. CASE i \in 1..n
    <3>1. unheard'[i] = unheard[i] /\ unheard[i] # a /\ unheard[i] \in Caller
      BY <1>8, <1>11, <2>1, <2>3 DEF Caller
    <3>2. /\ call[unheard[i]].at = "committed"
          /\ \A j \in 1..n : unheard[j] = unheard[i] => j = i
          /\ \A u \in Applied : \/ u \in call[unheard[i]].image.doc
                                 \/ u \in Triggers[unheard[i]] \/ Coming(u, i + 1)
      BY <1>11, <2>3, <3>1 DEF DocInv
    <3>3. call'[unheard'[i]] = call[unheard[i]]
      BY <1>4, <3>1
    <3>4. \A j \in 1..Len(unheard') : unheard'[j] = unheard'[i] => j = i
      BY <1>8, <2>2, <3>1, <3>2
    <3>5. i + 1 \in Nat \ {0} /\ i + 1 \in 1..n + 1
      BY <1>8, <2>3
    <3> QED
      BY <1>7, <1>8, <1>9, <3>1, <3>2, <3>3, <3>4, <3>5
  <2>4. CASE i = n + 1
    <3>1. unheard'[i] = a
      BY <1>8, <2>4
    <3>2. \A j \in 1..Len(unheard') : unheard'[j] = a => j = i
      BY <1>8, <2>1, <2>2, <2>4
    <3>3. \A u \in Applied' : u \in r.image.doc \/ u \in Triggers[a]
      <4>1. Committing(a).doc = Hydrated(a).doc \cup {a}
        BY HydratedSound DEF Committing, Image
      <4> QED
        BY <1>3, <1>7, <1>10, <4>1
    <3> QED
      BY <1>3, <1>4, <3>1, <3>2, <3>3
  <2> QED
    BY <2>2, <2>3, <2>4
<1>12. \A u \in Applied' : u \in heap'[current'].doc \/ Coming(u, 1)'
  <2>1. \A u \in Applied : u \in heap[current].doc \/ Coming(u, 1)
    BY <1>5 DEF DocInv
  <2>2. 1 \in 1..n + 1 /\ 1 \in Nat \ {0}
    BY <1>8
  <2> QED
    BY <1>1, <1>7, <1>8, <1>9, <2>1, <2>2
<1> QED
  BY <1>1, <1>5, <1>8, <1>11, <1>12 DEF DocInv

\* What is heard of leaves its place to those after it.
LEMMA WithoutAt ==
  ASSUME unheard \in Seq(Update), NEW u \in Elements(unheard), unheard' = Without(u)
  PROVE  /\ unheard' \in Seq(Update) /\ Len(unheard') = Len(unheard) - 1
         /\ \E i \in 1..Len(unheard) :
              /\ unheard[i] = u
              /\ \A j \in 1..Len(unheard') : unheard'[j] = unheard[IF j < i THEN j ELSE j + 1]
<1> DEFINE i == CHOOSE j \in DOMAIN unheard : unheard[j] = u
           n == Len(unheard)
<1>1. i \in 1..n /\ unheard[i] = u
  BY DEF Elements
<1>2. unheard' = [j \in 1..n - 1 |-> unheard[IF j < i THEN j ELSE j + 1]]
  BY DEF Without
<1> HIDE DEF i
<1>3. \A j \in 1..n - 1 : (IF j < i THEN j ELSE j + 1) \in 1..n
  BY <1>1
<1>4. n \in Nat /\ n - 1 \in Nat /\ \A j \in 1..n : unheard[j] \in Update
  BY <1>1
<1> HIDE DEF n
<1>5. unheard' \in [1..n - 1 -> Update]
  BY <1>2, <1>3, <1>4
<1>6. unheard' \in Seq(Update)
  BY <1>4, <1>5
<1>7. Len(unheard') = n - 1
  BY <1>4, <1>5, <1>6
<1> QED
  BY <1>1, <1>2, <1>6, <1>7 DEF n

\* What a later commit brings it still brings, one place sooner.
LEMMA ComesSooner ==
  ASSUME unheard \in Seq(Update), NEW i \in 1..Len(unheard), Len(unheard') = Len(unheard) - 1,
         \A j \in 1..Len(unheard') : unheard'[j] = unheard[IF j < i THEN j ELSE j + 1],
         NEW u, NEW n \in Nat \ {0}, Coming(u, n), n > i \/ unheard[i] \notin Apply
  PROVE  Coming(u, IF n > i THEN n - 1 ELSE n)'
<1> DEFINE m == IF n > i THEN n - 1 ELSE n
<1>1. PICK j \in n..Len(unheard) :
        unheard[j] \in Apply /\ (u = unheard[j] \/ u \in Triggers[unheard[j]])
  BY DEF Coming
<1> DEFINE k == IF j < i THEN j ELSE j - 1
<1>2. j # i
  BY <1>1
<1>3. k \in m..Len(unheard') /\ k \in 1..Len(unheard') /\ (IF k < i THEN k ELSE k + 1) = j
  BY <1>2
<1> HIDE DEF k, m
<1>4. unheard'[k] = unheard[j]
  BY <1>3
<1>5. \E x \in m..Len(unheard') :
        unheard'[x] \in Apply /\ (u = unheard'[x] \/ u \in Triggers[unheard'[x]])
  BY <1>1, <1>3, <1>4
<1> QED
  BY <1>5 DEF Coming, m

LEMMA HearWriteDoc ==
  ASSUME HubInv, DocInv, NEW w \in Write, HearWrite(w)
  PROVE  DocInv'
<1>1. /\ unheard' = Without(w) /\ w \in Elements(unheard) /\ heap' = Folded(heap, {w})
      /\ UNCHANGED <<log, current, call>> /\ unheard \in Seq(Update) /\ w \notin Apply
  BY SetsAssumption DEF HearWrite, Audible, database, DocInv
<1>2. unheard' \in Seq(Update) /\ Len(unheard') = Len(unheard) - 1 /\ Len(unheard) \in Nat
  BY <1>1, WithoutAt
<1>3. PICK i \in 1..Len(unheard) :
        /\ unheard[i] = w
        /\ \A j \in 1..Len(unheard') : unheard'[j] = unheard[IF j < i THEN j ELSE j + 1]
  BY <1>1, WithoutAt
<1>4. Applied' = Applied
  BY <1>1 DEF Applied, Elements
<1>5. ASSUME NEW n \in Nat \ {0}, NEW u, Coming(u, n)
      PROVE  Coming(u, IF n > i THEN n - 1 ELSE n)'
  BY <1>1, <1>2, <1>3, <1>5, ComesSooner
<1>6. current' # 0 => \A u \in Applied' : u \in heap'[current'].doc \/ Coming(u, 1)'
  <2> SUFFICES ASSUME current # 0, NEW u \in Applied
               PROVE  u \in heap'[current].doc \/ Coming(u, 1)'
    BY <1>1, <1>4
  <2>1. u \in heap[current].doc \/ Coming(u, 1)
    BY DEF DocInv
  <2>2. heap[current].doc \subseteq heap'[current].doc
    <3>1. heap' = Added(heap, current, {w}) /\ current \in 1..Len(heap) /\ Good(log, heap)
      BY <1>1, InvFacts DEF Folded, Added
    <3>2. Added(heap, current, {w})[current].doc = heap[current].doc \cup {w}
      BY <3>1, AddedFields
    <3> QED
      BY <3>1, <3>2
  <2>3. ASSUME Coming(u, 1) PROVE Coming(u, 1)'
    <3>1. ~(1 > i) /\ 1 \in Nat \ {0}
      BY <1>3
    <3> QED
      BY <1>5, <2>3, <3>1
  <2> QED
    BY <2>1, <2>2, <2>3
<1>7. ASSUME NEW k \in 1..Len(unheard'), unheard'[k] \in Apply
      PROVE  /\ call'[unheard'[k]].at = "committed"
             /\ \A j \in 1..Len(unheard') : unheard'[j] = unheard'[k] => j = k
             /\ \A u \in Applied' : \/ u \in call'[unheard'[k]].image.doc
                                     \/ u \in Triggers[unheard'[k]] \/ Coming(u, k + 1)'
  <2> DEFINE p == IF k < i THEN k ELSE k + 1
  <2>1. p \in 1..Len(unheard) /\ unheard'[k] = unheard[p] /\ p + 1 \in Nat \ {0}
        /\ (IF p + 1 > i THEN p + 1 - 1 ELSE p + 1) = k + 1
    BY <1>2, <1>3
  <2>2. \A j \in 1..Len(unheard') : unheard'[j] = unheard'[k] => j = k
    <3> SUFFICES ASSUME NEW j \in 1..Len(unheard'), unheard'[j] = unheard'[k]
                 PROVE  j = k
      OBVIOUS
    <3> DEFINE q == IF j < i THEN j ELSE j + 1
    <3>1. q \in 1..Len(unheard) /\ unheard'[j] = unheard[q]
      BY <1>2, <1>3
    <3>2. unheard[q] = unheard[p] /\ unheard[p] \in Apply
      BY <1>7, <2>1, <3>1
    <3> HIDE DEF p, q
    <3>3. q = p
      BY <2>1, <3>1, <3>2 DEF DocInv
    <3> QED
      BY <1>2, <1>3, <3>3 DEF p, q
  <2> HIDE DEF p
  <2>3. /\ call[unheard[p]].at = "committed"
        /\ \A u \in Applied : \/ u \in call[unheard[p]].image.doc
                               \/ u \in Triggers[unheard[p]] \/ Coming(u, p + 1)
    BY <1>7, <2>1 DEF DocInv
  <2>4. ASSUME NEW u, Coming(u, p + 1) PROVE Coming(u, k + 1)'
    <3>1. Coming(u, IF p + 1 > i THEN p + 1 - 1 ELSE p + 1)'
      BY <1>5, <2>1, <2>4
    <3> QED
      BY <2>1, <3>1
  <2> QED
    BY <1>1, <1>4, <2>1, <2>2, <2>3, <2>4
<1>8. current' = 0 => \A c \in Caller : call'[c].at = "loaded" /\ call'[c].fresh =>
                        Applied' \subseteq call'[c].image.doc
  BY <1>1, <1>4 DEF DocInv
<1> QED
  BY <1>2, <1>6, <1>7, <1>8 DEF DocInv

\* In order, an apply is the first of what is to be heard of; the document it
\* makes lacks only what comes after it.
LEMMA HearApplyDoc ==
  ASSUME HubInv, LiveInv, DocInv, InOrder, NEW a \in Apply, HearApply(a)
  PROVE  DocInv'
<1> DEFINE e == call[a].entry
           g == Put(heap, e, call[a].image)
           h == Folded(g, Triggers[a])
           due == h[e].since >= Threshold
           r == IF due THEN [call[a] EXCEPT !.at = "saving", !.image.doc = h[e].doc]
                ELSE At("done")
<1>1. /\ call[a].at = "committed" /\ a \in Users /\ a \in Caller
      /\ UNCHANGED <<log, current>> /\ unheard' = Without(a) /\ unheard \in Seq(Update)
      /\ a \in Elements(unheard) /\ a = Head(unheard)
      /\ heap' = (IF due THEN h ELSE Released(h, e))
      /\ call \in [Caller -> Call] /\ call[a] \in Call /\ GoodCall(log, Len(heap), call[a])
  BY InvFacts DEF HearApply, Audible, Installed, Put, Users, Caller, database, DocInv
<1>2. e = current /\ current \in 1..Len(heap) /\ current # 0
  BY <1>1, InvFacts DEF LiveInv, Follows, Uses
<1>3. call' = [call EXCEPT ![a] = r]
  BY <1>1 DEF HearApply, Installed, Put
<1>4. Good(log, g) /\ Len(g) = Len(heap) /\ g[current].doc = call[a].image.doc
  <2>1. Good(log, heap)
    BY InvFacts
  <2>2. Put(heap, current, call[a].image)[current].doc = call[a].image.doc
    BY <1>2, <2>1, PutFields
  <2> QED
    BY <1>1, <1>2, <2>1, <2>2, PutGood DEF GoodCall, Call
<1> HIDE DEF g
<1>5. /\ Good(log, h) /\ Len(h) = Len(heap)
      /\ h[current].doc = call[a].image.doc \cup Triggers[a]
  <2>1. Triggers[a] \in SUBSET Update
    BY TriggersAssumption DEF Update
  <2>2. h = Added(g, current, Triggers[a])
    BY <1>2 DEF Folded, Added
  <2>3. current \in 1..Len(g)
    BY <1>2, <1>4
  <2>4. Added(g, current, Triggers[a])[current].doc = g[current].doc \cup Triggers[a]
    BY <1>4, <2>3, AddedFields
  <2>5. Good(log, Added(g, current, Triggers[a])) /\ Len(Added(g, current, Triggers[a])) = Len(g)
    BY <1>4, <2>1, AddedGood
  <2> QED
    BY <1>4, <2>2, <2>4, <2>5
<1> HIDE DEF h
<1>6. heap'[current].doc = call[a].image.doc \cup Triggers[a]
  BY <1>1, <1>2, <1>5, ReleasedFields
<1>7. \A b \in Caller : b # a => call'[b] = call[b]
  BY <1>1, <1>3
<1> HIDE DEF r, due, e
<1>8. /\ unheard' \in Seq(Update) /\ Len(unheard') = Len(unheard) - 1 /\ Len(unheard) \in Nat
      /\ 1 \in 1..Len(unheard) /\ unheard[1] = a
      /\ \A j \in 1..Len(unheard') : unheard'[j] = unheard[IF j < 1 THEN j ELSE j + 1]
  <2>1. PICK i \in 1..Len(unheard) :
          /\ unheard[i] = a
          /\ \A j \in 1..Len(unheard') : unheard'[j] = unheard[IF j < i THEN j ELSE j + 1]
    BY <1>1, WithoutAt
  <2>2. 1 \in 1..Len(unheard) /\ unheard[1] = a
    BY <1>1, <2>1
  <2>3. i = 1
    BY <2>1, <2>2 DEF DocInv
  <2> QED
    BY <1>1, <2>1, <2>2, <2>3, WithoutAt
<1>9. ASSUME NEW n \in Nat \ {0}, NEW u, Coming(u, n + 1)
      PROVE  Coming(u, n)'
  <2>1. n + 1 \in Nat \ {0} /\ n + 1 > 1 /\ n + 1 - 1 = n
    OBVIOUS
  <2>2. PICK i \in 1..Len(unheard) :
          /\ i = 1
          /\ \A j \in 1..Len(unheard') : unheard'[j] = unheard[IF j < i THEN j ELSE j + 1]
    BY <1>8
  <2>3. Coming(u, IF n + 1 > i THEN n + 1 - 1 ELSE n + 1)'
    BY <1>1, <1>8, <1>9, <2>1, <2>2, ComesSooner
  <2>4. (IF n + 1 > i THEN n + 1 - 1 ELSE n + 1) = n
    BY <2>1, <2>2
  <2> QED
    BY <2>3, <2>4
<1>10. Applied' = Applied
  BY <1>1 DEF Applied, Elements
<1>11. \A u \in Applied : u \in heap'[current].doc \/ Coming(u, 1)'
  <2>1. \A u \in Applied : u \in call[a].image.doc \/ u \in Triggers[a] \/ Coming(u, 1 + 1)
    BY <1>8 DEF DocInv
  <2> QED
    BY <1>6, <1>9, <2>1
<1>12. ASSUME NEW k \in 1..Len(unheard'), unheard'[k] \in Apply
       PROVE  /\ call'[unheard'[k]].at = "committed"
              /\ \A j \in 1..Len(unheard') : unheard'[j] = unheard'[k] => j = k
              /\ \A u \in Applied : \/ u \in call'[unheard'[k]].image.doc
                                     \/ u \in Triggers[unheard'[k]] \/ Coming(u, k + 1)'
  <2>1. \A j \in 1..Len(unheard') :
          j + 1 \in 1..Len(unheard) /\ j + 1 # 1 /\ unheard'[j] = unheard[j + 1]
    BY <1>8
  <2>2. /\ call[unheard[k + 1]].at = "committed"
        /\ \A j \in 1..Len(unheard) : unheard[j] = unheard[k + 1] => j = k + 1
        /\ \A u \in Applied : \/ u \in call[unheard[k + 1]].image.doc
                               \/ u \in Triggers[unheard[k + 1]] \/ Coming(u, k + 1 + 1)
    BY <1>12, <2>1 DEF DocInv
  <2>3. unheard'[k] = unheard[k + 1] /\ unheard'[k] # a /\ unheard'[k] \in Caller
    BY <1>8, <1>12, <2>1, <2>2 DEF Caller
  <2>4. \A j \in 1..Len(unheard') : unheard'[j] = unheard'[k] => j = k
    <3> SUFFICES ASSUME NEW j \in 1..Len(unheard'), unheard'[j] = unheard'[k]
                 PROVE  j = k
      OBVIOUS
    <3>1. j + 1 = k + 1
      BY <2>1, <2>2, <2>3
    <3> QED
      BY <3>1
  <2>5. k + 1 \in Nat \ {0}
    OBVIOUS
  <2> QED
    BY <1>7, <1>9, <2>2, <2>3, <2>4, <2>5
<1>13. current' # 0
  BY <1>1, <1>2
<1> QED
  BY <1>1, <1>8, <1>10, <1>11, <1>12, <1>13 DEF DocInv

LEMMA InitDoc == Init => DocInv
<1> SUFFICES ASSUME Init PROVE DocInv
  OBVIOUS
<1>1. /\ current = 0 /\ unheard = <<>> /\ call = [c \in Caller |-> At("new")]
  BY DEF Init
<1>2. \A c \in Caller : call[c].at # "loaded"
  BY <1>1, PlaceFields
<1>3. unheard \in Seq(Update) /\ Len(unheard) = 0
  BY <1>1
<1> QED
  BY <1>1, <1>2, <1>3 DEF DocInv

LEMMA StepDoc ==
  ASSUME HubInv, LiveInv, DocInv, MaxVersion = 1, InOrder, Guest = {} \/ Partial = {},
         [Next]_vars
  PROVE  DocInv'
<1>1. CASE UNCHANGED vars
  <2>1. UNCHANGED <<log, unheard, heap, current, call>>
    BY <1>1 DEF vars
  <2> QED
    BY <2>1, DocKept DEF DocInv
<1>2. ~Upgrade
  BY OneVersion
<1>3. ASSUME NEW c \in Caller, Load(c) \/ Reload(c) \/ Adopt(c) \/ Install(c) \/ Compact(c)
      PROVE  DocInv'
  BY <1>3, LoadDoc, ReloadDoc, AdoptDoc, InstallDoc, CompactDoc
<1>4. ASSUME NEW a \in Apply, Commit(a) \/ Refuse(a) \/ HearApply(a) \/ Save(a)
      PROVE  DocInv'
  BY <1>4, CommitDoc, EndDoc, HearApplyDoc
<1>5. ASSUME NEW w \in Write, WriteRecord(w) \/ HearWrite(w)
      PROVE  DocInv'
  BY <1>5, WriteRecordDoc, HearWriteDoc
<1> QED
  BY <1>1, <1>2, <1>3, <1>4, <1>5, LeaveDoc, EvictDoc, RestartDoc DEF Next

\* Once the process has heard of every commit, the document it serves holds
\* every sync update and every write its board actions made, while the board
\* keeps its template version, the process hears commits in their order, and
\* no guest opens a board with updates that wrote no row (hub.ts:435-439).
THEOREM HoldsApplies ==
  ASSUME MaxVersion = 1, InOrder, Guest = {} \/ Partial = {}
  PROVE  Spec => []DocumentHoldsApplies
<1>1. Init => LiveInv /\ DocInv
  BY InitLive, InitDoc
<1>2. HubInv /\ LiveInv /\ DocInv /\ [Next]_vars => LiveInv' /\ DocInv'
  BY StepLive, StepDoc
<1>3. DocInv => DocumentHoldsApplies
  <2> SUFFICES ASSUME DocInv, unheard = <<>>, current # 0, NEW u \in Applied
               PROVE  u \in heap[current].doc
    BY DEF DocumentHoldsApplies, Applied
  <2>1. Len(unheard) = 0
    OBVIOUS
  <2>2. ~Coming(u, 1)
    BY <2>1 DEF Coming
  <2> QED
    BY <2>2 DEF DocInv
<1> QED
  BY <1>1, <1>2, <1>3, Invariant, PTL DEF Spec

=============================================================================
