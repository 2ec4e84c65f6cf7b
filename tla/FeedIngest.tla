----------------------------- MODULE FeedIngest -----------------------------
(***************************************************************************)
(* Scheduled polls and the backfill of one feed, the facts they store and  *)
(* the freshness they claim in feed_health, which the stale-feed kill      *)
(* switch reads.  A poll is one transaction with a savepoint per name; the *)
(* backfill commits after every name.  A fact is its available_at.         *)
(***************************************************************************)
EXTENDS Naturals, FiniteSets

CONSTANTS
    Names,          \* securities of the store
    Pollers,        \* deliveries of the ingest task that may overlap
    Lookback,       \* how far back a poll asks
    Sla,            \* age at which the kill switch calls the feed stale
    LastDay         \* bound on the clock

ASSUME FeedAssumption == {Lookback, Sla, LastDay} \subseteq Nat

VARIABLES
    today,
    listed,     \* names listed now
    sourced,    \* facts the source has, per name
    stored,     \* facts the store has, per name
    health,     \* last_success_at of the feed_health row, and who recorded it for which names
    poll        \* the clock and the names each poll in progress works with

feedVars == <<today, listed, sourced, stored, health, poll>>

NeverRan == 0
NoPoll == [at |-> NeverRan, names |-> {}]
NoHealth == [success |-> NeverRan, by |-> "none", names |-> {}]

FeedInit ==
    /\ today = 1
    /\ listed \in SUBSET Names
    /\ sourced = [n \in Names |-> {}]
    /\ stored = [n \in Names |-> {}]
    /\ health = NoHealth
    /\ poll = [p \in Pollers |-> NoPoll]

NextDay ==
    /\ today < LastDay /\ today' = today + 1
    /\ UNCHANGED <<listed, sourced, stored, health, poll>>

SourcePublishes(n) ==
    /\ today < LastDay
    /\ sourced' = [sourced EXCEPT ![n] = @ \cup {today}]
    /\ UNCHANGED <<today, listed, stored, health, poll>>

\* ensure_security and set_listing.
List(n) ==
    /\ listed' = listed \cup {n}
    /\ UNCHANGED <<today, sourced, stored, health, poll>>

-----------------------------------------------------------------------------
\* A mutant: a run with failed names is a success like any other.
RecordAnyway(at, failed, by, names) == [success |-> at, by |-> by, names |-> names]

\* record_feed_run: a failure keeps the last success.
Record(at, failed, by, names) ==
    IF failed THEN health ELSE [success |-> at, by |-> by, names |-> names]

\* The clock and the listed names are read once.
StartPoll(p) ==
    /\ poll[p] = NoPoll
    /\ poll' = [poll EXCEPT ![p] = [at |-> today, names |-> listed]]
    /\ UNCHANGED <<today, listed, sourced, stored, health>>

InWindow(t, at) == t + Lookback > at /\ t < at

\* Every name in its savepoint: the facts of the good ones and the outcome, in one
\* commit.  No listed name at all is an error.
EndPoll(p) ==
    /\ poll[p] # NoPoll
    /\ \E good \in SUBSET poll[p].names :
          LET got(n) == IF n \in good THEN {t \in sourced[n] : InWindow(t, poll[p].at)} ELSE {}
              failed == good # poll[p].names \/ poll[p].names = {}
          IN  /\ stored' = [n \in Names |-> stored[n] \cup got(n)]
              /\ health' = Record(poll[p].at, failed, "poll", poll[p].names)
    /\ poll' = [poll EXCEPT ![p] = NoPoll]
    /\ UNCHANGED <<today, listed, sourced>>

\* The transaction is lost with its worker.
PollDies(p) ==
    /\ poll[p] # NoPoll
    /\ poll' = [poll EXCEPT ![p] = NoPoll]
    /\ UNCHANGED <<today, listed, sourced, stored, health>>

\* ingest/backfill.py: every name records an outcome of its own.
Backfill(n) ==
    /\ n \in listed
    /\ \E failed \in BOOLEAN :
          /\ stored' = IF failed THEN stored ELSE [stored EXCEPT ![n] = @ \cup sourced[n]]
          /\ health' = Record(today, failed, "backfill", {n})
    /\ UNCHANGED <<today, listed, sourced, poll>>

FeedNext ==
    \/ NextDay
    \/ \E n \in Names : SourcePublishes(n) \/ List(n) \/ Backfill(n)
    \/ \E p \in Pollers : StartPoll(p) \/ EndPoll(p) \/ PollDies(p)

FeedSpec == FeedInit /\ [][FeedNext]_feedVars

-----------------------------------------------------------------------------
\* store.as_of.feed_staleness: never ran is stale.
Stale == health.success = NeverRan \/ today > health.success + Sla

(* ingest/scheduled.py: feed_health is written only from what really        *)
(* happened.  While the kill switch sees a feed that a poll made fresh,     *)
(* every fact of the poll's window is stored for every name it polled,      *)
(* whatever failed, died, overlapped or was delivered late.                 *)
FreshMeansStored ==
    (~Stale /\ health.by = "poll") =>
        \A n \in health.names : \A t \in sourced[n] :
            InWindow(t, health.success) => t \in stored[n]
=============================================================================
