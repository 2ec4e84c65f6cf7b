-------------------------- MODULE FeedIngestProofs --------------------------
(* What TLAPS proves of FeedIngest, for every value of its constants.      *)
EXTENDS FeedIngest, TLAPS

\* The types, and no clock that was read is ahead of the clock.
FeedTypes ==
    /\ today \in Nat
    /\ listed \subseteq Names
    /\ sourced \in [Names -> SUBSET Nat]
    /\ stored \in [Names -> SUBSET Nat]
    /\ health.success \in Nat /\ health.success <= today /\ health.names \subseteq Names
    /\ poll \in [Pollers -> [at : Nat, names : SUBSET Names]]
    /\ \A p \in Pollers : poll[p].at <= today

\* Whether or not the claim is still fresh: what appears later is outside its window,
\* and no stored fact is ever deleted.
ClaimHolds ==
    health.by = "poll" =>
        \A n \in health.names : \A t \in sourced[n] :
            InWindow(t, health.success) => t \in stored[n]

FeedInv == FeedTypes /\ ClaimHolds

LEMMA FeedInitially == FeedInit => FeedInv
  BY FeedAssumption DEF FeedInit, FeedInv, FeedTypes, ClaimHolds, NoHealth, NoPoll, NeverRan

\* A record that is refused leaves the claim, a good one replaces it.
LEMMA RecordIsOneOfTwo ==
  ASSUME NEW at, NEW failed \in BOOLEAN, NEW by, NEW names
  PROVE  Record(at, failed, by, names) \in
            {health, [success |-> at, by |-> by, names |-> names]}
  BY DEF Record

LEMMA EndPollStep ==
  ASSUME FeedInv, NEW p \in Pollers, EndPoll(p)
  PROVE  FeedInv'
<1> USE DEF FeedInv, FeedTypes
<1>1. PICK good \in SUBSET poll[p].names :
         /\ stored' = [n \in Names |-> stored[n] \cup
                         (IF n \in good THEN {t \in sourced[n] : InWindow(t, poll[p].at)} ELSE {})]
         /\ health' = Record(poll[p].at, good # poll[p].names \/ poll[p].names = {}, "poll", poll[p].names)
  BY DEF EndPoll
<1>2. UNCHANGED <<today, listed, sourced>> /\ poll' = [poll EXCEPT ![p] = NoPoll]
  BY DEF EndPoll
<1>3. stored' \in [Names -> SUBSET Nat] /\ \A n \in Names : stored[n] \subseteq stored'[n]
  BY <1>1
<1>4. poll[p].at \in Nat /\ poll[p].names \subseteq Names /\ poll[p].at <= today
  OBVIOUS
<1>5. poll' \in [Pollers -> [at : Nat, names : SUBSET Names]] /\ \A q \in Pollers : poll'[q].at <= today
  BY <1>2 DEF NoPoll, NeverRan
<1>6. CASE good # poll[p].names \/ poll[p].names = {}
  <2>1. health' = health
    BY <1>1, <1>6 DEF Record
  <2> QED BY <1>2, <1>3, <1>5, <2>1 DEF ClaimHolds
<1>7. CASE good = poll[p].names /\ poll[p].names # {}
  <2>1. health' = [success |-> poll[p].at, by |-> "poll", names |-> poll[p].names]
    BY <1>1, <1>7 DEF Record
  <2>2. ClaimHolds'
    BY <1>1, <1>2, <1>4, <1>7, <2>1 DEF ClaimHolds
  <2> QED BY <1>2, <1>3, <1>4, <1>5, <2>1, <2>2
<1> QED BY <1>6, <1>7

LEMMA BackfillStep ==
  ASSUME FeedInv, NEW n \in Names, Backfill(n)
  PROVE  FeedInv'
<1> USE DEF FeedInv, FeedTypes
<1>1. PICK failed \in BOOLEAN :
         /\ stored' = IF failed THEN stored ELSE [stored EXCEPT ![n] = @ \cup sourced[n]]
         /\ health' = Record(today, failed, "backfill", {n})
  BY DEF Backfill
<1>2. UNCHANGED <<today, listed, sourced, poll>>
  BY DEF Backfill
<1>3. stored' \in [Names -> SUBSET Nat] /\ \A m \in Names : stored[m] \subseteq stored'[m]
  BY <1>1
<1>4. CASE health' = health
  BY <1>2, <1>3, <1>4 DEF ClaimHolds
<1>5. CASE health' = [success |-> today, by |-> "backfill", names |-> {n}]
  BY <1>2, <1>3, <1>5 DEF ClaimHolds
<1> QED BY <1>1, <1>4, <1>5, RecordIsOneOfTwo

LEMMA FeedStep == FeedInv /\ [FeedNext]_feedVars => FeedInv'
<1> SUFFICES ASSUME FeedInv, [FeedNext]_feedVars PROVE FeedInv'
  OBVIOUS
<1> USE DEF FeedInv, FeedTypes
<1>1. CASE NextDay
  BY <1>1 DEF NextDay, ClaimHolds
<1>2. ASSUME NEW n \in Names, SourcePublishes(n) PROVE FeedInv'
  <2>1. /\ UNCHANGED <<today, listed, stored, health, poll>>
        /\ sourced' = [sourced EXCEPT ![n] = @ \cup {today}]
    BY <1>2 DEF SourcePublishes
  <2>2. ~InWindow(today, health.success)
    BY DEF InWindow
  <2> QED BY <2>1, <2>2 DEF ClaimHolds
<1>3. ASSUME NEW n \in Names, List(n) PROVE FeedInv'
  BY <1>3 DEF List, ClaimHolds
<1>4. ASSUME NEW p \in Pollers, StartPoll(p) PROVE FeedInv'
  BY <1>4 DEF StartPoll, ClaimHolds
<1>5. ASSUME NEW p \in Pollers, PollDies(p) PROVE FeedInv'
  BY <1>5 DEF PollDies, ClaimHolds, NoPoll, NeverRan
<1>6. CASE UNCHANGED feedVars
  BY <1>6 DEF feedVars, ClaimHolds
<1> QED BY <1>1, <1>2, <1>3, <1>4, <1>5, <1>6, EndPollStep, BackfillStep DEF FeedNext

(* feed_health is the truth (ingest/scheduled.py:72, store/write.py         *)
(* record_feed_run): a claim of freshness covers its window, however many   *)
(* polls overlap, fail or commit out of order.                              *)
THEOREM FreshnessIsStored == FeedSpec => []FreshMeansStored
<1>1. FeedInv => FreshMeansStored
  BY DEF FeedInv, ClaimHolds, FreshMeansStored
<1> QED BY <1>1, FeedInitially, FeedStep, PTL DEF FeedSpec
=============================================================================
