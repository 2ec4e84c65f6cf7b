-------------------------- MODULE PointInTimeProofs -------------------------
(* What TLAPS proves of PointInTime when no text changes under its stamp,  *)
(* for any number of revisions, fetches, snapshots and feature builds.     *)
EXTENDS PointInTime, TLAPS

-----------------------------------------------------------------------------
(* The invariant.                                                          *)

RevisionsDated ==
    \A v \in revisions :
        /\ v.doc \in Docs /\ v.at \in Nat /\ v.stamp = v.at /\ v.at <= clock
        /\ v.doc = "bar" => v.at < SessionClose

\* A row is dated at or after the revision it holds; a bar only once its day is over.
Dated(r) ==
    /\ r.revision \in revisions /\ r.available \in Nat /\ r.revision.at <= r.available
    /\ r.revision.doc = "bar" => SessionClose + TapeDelay <= clock /\ r.revision \in Current("bar")

FetchHonest(f) ==
    f.stage = "fetch" => /\ f.doc \in Docs /\ f.live \in BOOLEAN
                         /\ f.now \in Nat /\ f.now <= clock
                         /\ f.index \subseteq RevisionsOf(f.doc)

BuiltFromThePast(built) == \A b \in built : b.at \in Nat /\ \A v \in b.from : v.at \in Nat /\ v.at <= b.at

PitInv ==
    /\ docs \subseteq Docs /\ clock \in Nat
    /\ fetch = [f \in Fetchers |-> fetch[f]]
    /\ RevisionsDated
    /\ \A r \in rowsKept : Dated(r)
    /\ \A f \in Fetchers : FetchHonest(fetch[f])
    /\ BuiltFromThePast(snapshots) /\ BuiltFromThePast(features)

LEMMA PitInitially == PitInit => PitInv
  BY PointInTimeAssumption
  DEF PitInit, PitInv, RevisionsDated, FetchHonest, BuiltFromThePast, NoFetch

-----------------------------------------------------------------------------
(* Dates.                                                                  *)

LEMMA DayEndsLater ==
  ASSUME NEW t \in Nat PROVE EndOfDay(t) \in Nat /\ t <= EndOfDay(t)
<1> DEFINE q == t \div DayLength
<1>1. DayLength \in Nat /\ DayLength > 0
  BY PointInTimeAssumption
<1>2. q \in Nat /\ t < (q + 1) * DayLength
  BY <1>1
<1>3. (q + 1) * DayLength \in Nat
  BY <1>1, <1>2
<1> QED BY <1>2, <1>3 DEF EndOfDay

\* Whatever is parsed is a revision that was published by the time it is dated.
LEMMA ParsedIsDated ==
  ASSUME PitInv, NEW f, f.stage = "fetch", FetchHonest(f), NEW r \in Parsed(f)
  PROVE  Dated(r)
<1> USE PointInTimeAssumption DEF PitInv, RevisionsDated
<1>f. f.doc \in Docs /\ f.live \in BOOLEAN /\ f.now \in Nat /\ f.now <= clock /\ f.index \subseteq RevisionsOf(f.doc)
  BY DEF FetchHonest
<1>1. CASE f.doc = "bar"
  <2>0. r \in Bars(f.now)
    BY <1>1 DEF Parsed
  <2> DEFINE seen == {v \in RevisionsOf("bar") : v.at + TapeDelay <= f.now}
  <2>1. /\ r.revision \in {v \in seen : \A u \in seen : u.n <= v.n}
        /\ r.available = SessionClose + TapeDelay /\ r.available <= f.now
    BY <2>0 DEF Bars
  <2>2. \A v \in RevisionsOf("bar") : v.at \in Nat /\ v.at < SessionClose
    BY DEF RevisionsOf
  <2>3. \A v \in RevisionsOf("bar") : v.at + TapeDelay <= f.now
    BY <1>f, <2>1, <2>2
  <2>4. seen = RevisionsOf("bar")
    BY <2>3
  <2>5. r.revision \in Current("bar") /\ r.revision \in RevisionsOf("bar")
    BY <2>1, <2>4 DEF Current
  <2>6. r.revision \in revisions /\ r.revision.at <= r.available /\ r.available \in Nat
    BY <2>1, <2>2, <2>5 DEF RevisionsOf
  <2> QED BY <1>f, <2>1, <2>5, <2>6 DEF Dated
<1>2. CASE f.doc = "fact"
  <2>1. PICK v \in RevisionsOf("fact") :
          r = [revision |-> v, available |-> IF v \in f.index THEN v.stamp ELSE EndOfDay(v.stamp)]
    BY <1>2 DEF Parsed, Fundamentals
  <2>2. v \in revisions /\ v.doc = "fact" /\ v.at \in Nat /\ v.stamp = v.at
    BY DEF RevisionsOf
  <2>3. EndOfDay(v.stamp) \in Nat /\ v.stamp <= EndOfDay(v.stamp)
    BY <2>2, DayEndsLater
  <2> QED BY <2>1, <2>2, <2>3 DEF Dated
<1>3. CASE f.doc = "form4"
  <2>1. PICK v \in f.index : r = [revision |-> v, available |-> v.stamp]
    BY <1>3 DEF Parsed, InsiderTxns
  <2>2. v \in revisions /\ v.doc = "form4" /\ v.at \in Nat /\ v.stamp = v.at
    BY <1>f, <1>3 DEF RevisionsOf
  <2> QED BY <2>1, <2>2 DEF Dated
<1>4. CASE f.doc = "news"
  <2>1. PICK v \in Current("news") :
          r = [revision |-> v, available |-> Later2(v.stamp, IF f.live THEN f.now ELSE 0)]
    BY <1>4 DEF Parsed, News
  <2>2. v \in revisions /\ v.doc = "news" /\ v.at \in Nat /\ v.stamp = v.at
    BY DEF Current, RevisionsOf
  <2> QED BY <1>f, <2>1, <2>2 DEF Dated, Later2
<1> QED BY <1>f, <1>1, <1>2, <1>3, <1>4 DEF Docs

\* What store.as_of finds at t was published by then, and so was what is built from it.
LEMMA AsOfIsPast ==
  ASSUME PitInv, NEW t \in Nat, NEW d, NEW v \in AsOf(d, t)
  PROVE  v.at \in Nat /\ v.at <= t
<1>1. PICK r \in Knowable(d, t) : v = r.revision
  BY DEF AsOf
<1>2. r \in rowsKept /\ r.available <= t /\ Dated(r)
  BY DEF Knowable, PitInv
<1> QED BY <1>1, <1>2 DEF Dated, PitInv, RevisionsDated

LEMMA BuiltIsPast ==
  ASSUME NEW built, BuiltFromThePast(built), NEW t \in Nat, NEW v \in NewestBuilt(built, t)
  PROVE  v.at \in Nat /\ v.at <= t
  BY DEF NewestBuilt, BuiltFromThePast

LEMMA EvaluatedIsPast ==
  ASSUME PitInv, NEW t \in Nat
  PROVE  /\ \A v \in Evaluated(t) : v.at \in Nat /\ v.at <= t
         /\ \A v \in FeatureVector(t) : v.at \in Nat /\ v.at <= t
<1>1. \A d : \A v \in AsOf(d, t) : v.at \in Nat /\ v.at <= t
  BY AsOfIsPast
<1>2. \A v \in NewestBuilt(snapshots, t) : v.at \in Nat /\ v.at <= t
  BY BuiltIsPast DEF PitInv
<1> QED BY <1>1, <1>2 DEF Evaluated, FeatureVector

-----------------------------------------------------------------------------
(* Steps.                                                                  *)

LEMMA RevisionStep ==
  ASSUME SilentEdits = FALSE, PitInv, NEW d \in docs, SourceRevises(d)
  PROVE  PitInv'
<1>1. PICK n, stamp :
        /\ revisions' = revisions \cup {[doc |-> d, n |-> n, at |-> clock, stamp |-> stamp]}
        /\ stamp = clock
  BY DEF SourceRevises
<1>2. /\ UNCHANGED <<docs, clock, rowsKept, snapshots, features, fetch>>
      /\ d = "bar" => clock < SessionClose
      /\ d \in Docs /\ clock \in Nat
  BY DEF SourceRevises, PitInv
<1>3. RevisionsDated'
  BY <1>1, <1>2, PointInTimeAssumption DEF PitInv, RevisionsDated
<1>4. ASSUME NEW r \in rowsKept PROVE Dated(r)'
  <2>1. Dated(r)
    BY DEF PitInv
  <2>2. CASE r.revision.doc = "bar"
    <3>1. SessionClose + TapeDelay <= clock
      BY <2>1, <2>2 DEF Dated
    <3>2. ~(clock < SessionClose)
      BY <1>2, <3>1, PointInTimeAssumption
    <3>3. d # "bar"
      BY <1>2, <3>2
    <3>4. Current("bar")' = Current("bar")
      BY <1>1, <3>3 DEF Current, RevisionsOf
    <3> QED BY <1>1, <1>2, <2>1, <3>4 DEF Dated
  <2>3. CASE r.revision.doc # "bar"
    BY <1>1, <1>2, <2>1, <2>3 DEF Dated
  <2> QED BY <2>2, <2>3
<1>5. \A f \in Fetchers : FetchHonest(fetch[f])'
  BY <1>1, <1>2 DEF PitInv, FetchHonest, RevisionsOf
<1>6. \A r \in rowsKept' : Dated(r)'
  BY <1>2, <1>4
<1> QED BY <1>2, <1>3, <1>5, <1>6 DEF PitInv, BuiltFromThePast

\* A fetch starts, or ends with rows that are dated, or with nothing.
LEMMA FetchStep ==
  ASSUME PitInv, NEW f \in Fetchers,
         (\E d \in docs, live \in BOOLEAN : StartFetch(f, d, live)) \/ StoreFetched(f) \/ FetchFails(f)
  PROVE  PitInv'
<1>1. /\ UNCHANGED <<docs, clock, revisions, snapshots, features>>
      /\ \E next : fetch' = [fetch EXCEPT ![f] = next] /\ FetchHonest(next)
  <2>1. ASSUME NEW d \in docs, NEW live \in BOOLEAN, StartFetch(f, d, live)
        PROVE  \E next : fetch' = [fetch EXCEPT ![f] = next] /\ FetchHonest(next)
    <3> DEFINE next == [stage |-> "fetch", doc |-> d, live |-> live, now |-> clock,
                        index |-> RevisionsOf(d)]
    <3>1. fetch' = [fetch EXCEPT ![f] = next]
      BY <2>1 DEF StartFetch, SubmissionsIndex
    <3>2. FetchHonest(next)
      BY DEF FetchHonest, PitInv
    <3> HIDE DEF next
    <3> QED BY <3>1, <3>2
  <2>2. ASSUME StoreFetched(f) \/ FetchFails(f)
        PROVE  \E next : fetch' = [fetch EXCEPT ![f] = next] /\ FetchHonest(next)
    <3>1. fetch' = [fetch EXCEPT ![f] = NoFetch]
      BY <2>2 DEF StoreFetched, FetchFails
    <3>2. FetchHonest(NoFetch)
      BY DEF FetchHonest, NoFetch
    <3> QED BY <3>1, <3>2
  <2> QED BY <2>1, <2>2 DEF StartFetch, StoreFetched, FetchFails
<1>2. \A r \in rowsKept' : Dated(r)
  <2>1. CASE StoreFetched(f)
    <3>1. rowsKept' \subseteq rowsKept \cup Parsed(fetch[f]) /\ fetch[f].stage = "fetch"
      BY <2>1 DEF StoreFetched, Stored
    <3> QED BY <3>1, ParsedIsDated DEF PitInv
  <2>2. CASE UNCHANGED rowsKept
    BY <2>2 DEF PitInv
  <2> QED BY <2>1, <2>2 DEF StartFetch, FetchFails
<1>3. PICK next : fetch' = [fetch EXCEPT ![f] = next] /\ FetchHonest(next)
  BY <1>1
<1>4. /\ fetch' = [g \in Fetchers |-> fetch'[g]]
      /\ \A g \in Fetchers : fetch'[g] = fetch[g] \/ fetch'[g] = next
  BY <1>3 DEF PitInv
<1>5. \A g \in Fetchers : FetchHonest(fetch'[g])
  BY <1>3, <1>4 DEF PitInv
<1>6. \A g \in Fetchers : FetchHonest(fetch[g])'
  BY <1>1, <1>5 DEF FetchHonest, RevisionsOf
<1>7. \A r \in rowsKept' : Dated(r)'
  BY <1>1, <1>2 DEF Dated, Current, RevisionsOf
<1> QED BY <1>1, <1>4, <1>6, <1>7 DEF PitInv, RevisionsDated, BuiltFromThePast

LEMMA BuildStep ==
  ASSUME PitInv, NEW t \in Nat, BuildSnapshot(t) \/ BuildFeatures(t)
  PROVE  PitInv'
<1>1. /\ UNCHANGED <<docs, clock, revisions, rowsKept, fetch>>
      /\ \/ snapshots' = snapshots \cup {[at |-> t, from |-> Evaluated(t)]} /\ features' = features
         \/ features' = features \cup {[at |-> t, from |-> FeatureVector(t)]} /\ snapshots' = snapshots
  BY DEF BuildSnapshot, BuildFeatures
<1>2. BuiltFromThePast(snapshots)' /\ BuiltFromThePast(features)'
  BY <1>1, EvaluatedIsPast DEF PitInv, BuiltFromThePast
<1> QED BY <1>1, <1>2 DEF PitInv, RevisionsDated, Dated, Current, RevisionsOf, FetchHonest

LEMMA PitStep == SilentEdits = FALSE /\ PitInv /\ [PitNext]_pitVars => PitInv'
<1> SUFFICES ASSUME SilentEdits = FALSE, PitInv, [PitNext]_pitVars PROVE PitInv'
  OBVIOUS
<1>1. CASE NextTime
  <2>1. clock \in Nat /\ clock' = clock + 1 /\ UNCHANGED <<docs, revisions, rowsKept, snapshots, features, fetch>>
    BY <1>1 DEF NextTime, PitInv
  <2>2. RevisionsDated'
    BY <2>1 DEF PitInv, RevisionsDated
  <2>3. \A r \in rowsKept' : Dated(r)'
    BY <2>1, PointInTimeAssumption DEF PitInv, Dated, Current, RevisionsOf
  <2>4. \A f \in Fetchers : FetchHonest(fetch[f])'
    BY <2>1 DEF PitInv, FetchHonest, RevisionsOf
  <2> QED BY <2>1, <2>2, <2>3, <2>4 DEF PitInv, BuiltFromThePast
<1>2. CASE UNCHANGED pitVars
  BY <1>2 DEF pitVars, PitInv, RevisionsDated, Dated, Current, RevisionsOf, FetchHonest, BuiltFromThePast
<1>3. SnapshotTimes \subseteq Nat /\ FeatureTimes \subseteq Nat
  BY PointInTimeAssumption
<1> QED BY <1>1, <1>2, <1>3, RevisionStep, FetchStep, BuildStep DEF PitNext

(* No prompt sees the future (the third invariant of the documentation):   *)
(* dates given at ingestion, selection by store.as_of and the vectors built *)
(* from it compose, for every agent's partition and every order of polls.  *)
THEOREM PromptsSeeThePast ==
  ASSUME SilentEdits = FALSE PROVE PitSpec => []NoLookAhead
<1>1. PitInit => PitInv
  BY PitInitially
<1>2. PitInv /\ [PitNext]_pitVars => PitInv'
  BY PitStep
<1>3. PitInv => NoLookAhead
  <2> SUFFICES ASSUME PitInv PROVE NoLookAhead
    OBVIOUS
  <2>1. ASSUME NEW t \in 0 .. clock, NEW agent \in DOMAIN Partition(t), NEW v \in Partition(t)[agent]
        PROVE  v.at <= t
    <3>1. t \in Nat
      BY DEF PitInv
    <3>2. \A d : \A u \in AsOf(d, t) : u.at <= t
      BY <3>1, AsOfIsPast
    <3>3. \A u \in NewestBuilt(snapshots, t) \cup NewestBuilt(features, t) : u.at <= t
      BY <3>1, BuiltIsPast DEF PitInv
    <3>4. v \in Header(t) \cup RenderedFeatures(t) \cup History(t) \cup InsiderTable(t) \cup NewsTable(t)
      BY <2>1 DEF Partition
    <3> QED BY <3>2, <3>3, <3>4 DEF Header, RenderedFeatures, History, InsiderTable, NewsTable
  <2>2. \A r \in rowsKept : r.revision.doc = "bar" => r.revision \in Current("bar")
    BY DEF PitInv, Dated
  <2> QED BY <2>1, <2>2 DEF NoLookAhead
<1> QED BY <1>1, <1>2, <1>3, PTL DEF PitSpec
=============================================================================
