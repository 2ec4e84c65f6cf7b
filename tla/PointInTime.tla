---------------------------- MODULE PointInTime ----------------------------
(***************************************************************************)
(* What a prompt as of T may show: documents appear and are revised, polls *)
(* and backfills date and store what they fetched, snapshots and features  *)
(* are computed from stored rows, and each agent is given what store.as_of *)
(* finds for its partition.                                                *)
(*                                                                         *)
(* The content of a document is the revision it was fetched in; a feature, *)
(* a rank or a rendered table is the set of revisions it was computed      *)
(* from.  Windows of days or rows are wider than a behaviour is long.      *)
(***************************************************************************)
EXTENDS Naturals, FiniteSets

CONSTANTS
    Subjects,       \* the documents a behaviour may be about: sets of Docs
    Fetchers,       \* units of the ingest task and of a backfill that may overlap
    SessionClose,   \* 16:00 of the session of the bar
    TapeDelay,      \* SIP_DELAY
    DayLength,
    SnapshotTimes,  \* month ends
    FeatureTimes,   \* times features are built as of
    MaxRevisions,   \* bound on the revisions of a document
    MaxClock,       \* bound on the clock
    SilentEdits     \* may a news text change under its old stamp

Docs == {"bar", "fact", "form4", "news"}

ASSUME PointInTimeAssumption ==
    /\ Subjects \subseteq SUBSET Docs
    /\ SnapshotTimes \subseteq Nat /\ FeatureTimes \subseteq Nat
    /\ {SessionClose, TapeDelay, MaxRevisions, MaxClock} \subseteq Nat
    /\ DayLength \in Nat \ {0}
    /\ SilentEdits \in BOOLEAN

VARIABLES
    docs,       \* what this behaviour is about
    clock,
    revisions,  \* what the sources published: document, number, time, provider's stamp
    rowsKept,   \* stored facts: a revision and its available_at
    snapshots,  \* stored universe snapshots: their time and the revisions they rest on
    features,   \* stored feature rows, in the same form
    fetch       \* what each unit works with

pitVars == <<docs, clock, revisions, rowsKept, snapshots, features, fetch>>

NoFetch == [stage |-> "idle"]
Later2(a, b) == IF a >= b THEN a ELSE b
RevisionsOf(d) == {v \in revisions : v.doc = d}
Current(d) == {v \in RevisionsOf(d) : \A u \in RevisionsOf(d) : u.n <= v.n}

PitInit ==
    /\ docs \in Subjects
    /\ clock = 0
    /\ revisions = {} /\ rowsKept = {} /\ snapshots = {} /\ features = {}
    /\ fetch = [f \in Fetchers |-> NoFetch]

-----------------------------------------------------------------------------
(* The sources.                                                            *)

NextTime ==
    /\ clock < MaxClock
    /\ clock' = clock + 1
    /\ UNCHANGED <<docs, revisions, rowsKept, snapshots, features, fetch>>

\* A bar moves until the close; filings are amended under a new accession; a news
\* text is edited, with or without a new stamp.
SourceRevises(d) ==
    LET n == Cardinality(RevisionsOf(d)) + 1
    IN  /\ n <= MaxRevisions
        /\ d = "bar" => clock < SessionClose
        /\ \E stamp \in {clock} \cup
                 (IF d = "news" /\ SilentEdits THEN {v.stamp : v \in Current(d)} ELSE {}) :
              revisions' = revisions \cup {[doc |-> d, n |-> n, at |-> clock, stamp |-> stamp]}
        /\ UNCHANGED <<docs, clock, rowsKept, snapshots, features, fetch>>

-----------------------------------------------------------------------------
(* ingest/: a unit of scheduled.py, or of backfill.py, for one document.   *)

\* What the submissions index of EDGAR lists: the acceptance times known by then.
SubmissionsIndex(d) == RevisionsOf(d)

StartFetch(f, d, live) ==
    /\ fetch[f] = NoFetch
    /\ fetch' = [fetch EXCEPT ![f] =
          [stage |-> "fetch", doc |-> d, live |-> live, now |-> clock,
           index |-> SubmissionsIndex(d)]]
    /\ UNCHANGED <<docs, clock, revisions, rowsKept, snapshots, features>>

\* history() asks up to 15 minutes ago and keeps bars whose delay is over.
Bars(now) ==
    LET seen == {v \in RevisionsOf("bar") : v.at + TapeDelay <= now}
        last == {v \in seen : \A u \in seen : u.n <= v.n}
    IN  {r \in [revision : last, available : {SessionClose + TapeDelay}] : r.available <= now}

\* A mutant: a filing date means the start of its day.
StartOfDay(t) == (t \div DayLength) * DayLength

\* The acceptance of an accession the index does not have yet: the end of its day.
EndOfDay(t) == ((t \div DayLength) + 1) * DayLength
Fundamentals(index) ==
    {[revision |-> v, available |-> IF v \in index THEN v.stamp ELSE EndOfDay(v.stamp)] :
        v \in RevisionsOf("fact")}
InsiderTxns(index) == {[revision |-> v, available |-> v.stamp] : v \in index}
News(received) == {[revision |-> v, available |-> Later2(v.stamp, received)] : v \in Current("news")}

Parsed(f) ==
    CASE f.doc = "bar" -> Bars(f.now)
      [] f.doc = "fact" -> Fundamentals(f.index)
      [] f.doc = "form4" -> InsiderTxns(f.index)
      [] f.doc = "news" -> News(IF f.live THEN f.now ELSE 0)

\* The natural key with its source_version: the feed of a bar, the accession, the revision.
SameVersion(r, s) ==
    /\ r.revision.doc = s.revision.doc
    /\ r.revision.doc # "bar" => r.revision.n = s.revision.n

\* ON CONFLICT DO NOTHING: the first row of a version stays.
Stored(rows) == rowsKept \cup {r \in rows : ~\E s \in rowsKept : SameVersion(r, s)}

StoreFetched(f) ==
    /\ fetch[f].stage = "fetch"
    /\ rowsKept' = Stored(Parsed(fetch[f]))
    /\ fetch' = [fetch EXCEPT ![f] = NoFetch]
    /\ UNCHANGED <<docs, clock, revisions, snapshots, features>>

FetchFails(f) ==
    /\ fetch[f].stage = "fetch"
    /\ fetch' = [fetch EXCEPT ![f] = NoFetch]
    /\ UNCHANGED <<docs, clock, revisions, rowsKept, snapshots, features>>

-----------------------------------------------------------------------------
(* store/as_of.py: the latest version knowable at t.                       *)

Knowable(d, t) == {r \in rowsKept : r.revision.doc = d /\ r.available <= t}
Outranks(r, s) ==
    r.available > s.available \/ (r.available = s.available /\ r.revision.n > s.revision.n)
AsOf(d, t) ==
    {r.revision : r \in {x \in Knowable(d, t) : ~\E y \in Knowable(d, t) : Outranks(y, x)}}
NewestBuilt(built, t) ==
    UNION {b.from : b \in {x \in built : x.at <= t /\ \A y \in built : y.at <= t => y.at <= x.at}}

\* universe/snapshot.py: price, dollar volume and market cap of the candidates at t.
Evaluated(t) == AsOf("bar", t) \cup AsOf("fact", t)
BuildSnapshot(t) ==
    /\ t <= clock /\ ~\E s \in snapshots : s.at = t
    /\ snapshots' = snapshots \cup {[at |-> t, from |-> Evaluated(t)]}
    /\ UNCHANGED <<docs, clock, revisions, rowsKept, features, fetch>>

\* features/builder.py: one vector from all four feeds and the snapshot's market caps.
FeatureVector(t) ==
    AsOf("bar", t) \cup AsOf("fact", t) \cup AsOf("form4", t) \cup AsOf("news", t)
        \cup NewestBuilt(snapshots, t)
BuildFeatures(t) ==
    /\ t <= clock /\ ~\E b \in features : b.at = t
    /\ features' = features \cup {[at |-> t, from |-> FeatureVector(t)]}
    /\ UNCHANGED <<docs, clock, revisions, rowsKept, snapshots, fetch>>

PitNext ==
    \/ NextTime
    \/ \E d \in docs : SourceRevises(d)
    \/ \E f \in Fetchers :
          \/ \E d \in docs, live \in BOOLEAN : StartFetch(f, d, live)
          \/ StoreFetched(f) \/ FetchFails(f)
    \/ \E t \in SnapshotTimes : BuildSnapshot(t)
    \/ \E t \in FeatureTimes : BuildFeatures(t)
PitSpec == PitInit /\ [][PitNext]_pitVars

-----------------------------------------------------------------------------
(* orchestration/loader.py and agents/partitions.py: what each agent sees. *)

RenderedFeatures(t) == NewestBuilt(features, t)
History(t) == AsOf("fact", t)
InsiderTable(t) == AsOf("form4", t) \cup AsOf("bar", t)     \* adv_intensity is over ADV30
NewsTable(t) == AsOf("news", t) \cup AsOf("form4", t)       \* filers are masked
Header(t) == NewestBuilt(snapshots, t)                      \* the size tier

Partition(t) ==
    [value |-> Header(t) \cup RenderedFeatures(t) \cup History(t),
     quality_catalyst |-> Header(t) \cup RenderedFeatures(t) \cup History(t) \cup NewsTable(t),
     insider |-> Header(t) \cup RenderedFeatures(t) \cup InsiderTable(t),
     technical |-> Header(t) \cup RenderedFeatures(t),
     macro_narrative |-> Header(t) \cup RenderedFeatures(t) \cup NewsTable(t),
     red_team |-> Header(t) \cup RenderedFeatures(t) \cup History(t)
                    \cup InsiderTable(t) \cup NewsTable(t)]

(* Invariant 3 of the documentation, end to end: whatever was polled,       *)
(* backfilled, amended or computed in which order and however late, no      *)
(* agent's partition as of t rests on a text that was published after t,    *)
(* and a bar that is stored once and never replaced is the final one.       *)
NoLookAhead ==
    /\ \A t \in 0..clock : \A agent \in DOMAIN Partition(t) :
          \A v \in Partition(t)[agent] : v.at <= t
    /\ \A r \in rowsKept : r.revision.doc = "bar" => r.revision \in Current("bar")
=============================================================================
