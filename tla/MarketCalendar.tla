--------------------------- MODULE MarketCalendar ---------------------------
(***************************************************************************)
(* The stored trading calendar: what a sync of a date range writes, what a *)
(* reader at one point in time may conclude from it, and the walks over    *)
(* sessions that find D0 and the horizons.  The exchange may change a      *)
(* session's hours, add a session or cancel one between two syncs.  Every  *)
(* sync has its own reading of the clock.                                  *)
(***************************************************************************)
EXTENDS Naturals, FiniteSets

CONSTANTS
    LastDate,       \* dates are 1..LastDate
    Hours,          \* opening hours a session may have
    Ranges,         \* <<first, last>> of the ranges that are synced
    HoursReturn,    \* may a date become again what it was before
    MaxSyncs,       \* bound on syncs
    MaxChanges      \* bound on changes of the exchange

ASSUME CalendarAssumption ==
    /\ LastDate \in Nat /\ Ranges \subseteq (1..LastDate) \X (1..LastDate)
    /\ HoursReturn \in BOOLEAN /\ {MaxSyncs, MaxChanges} \subseteq Nat

VARIABLES
    exchange,   \* the hours of each date, or Holiday
    had,        \* what each date ever was
    changes,
    sessions,   \* stored session versions
    coverage,   \* stored coverage rows
    fetches     \* what each sync read, in order of its clock

calendarVars == <<exchange, had, changes, sessions, coverage, fetches>>

Dates == 1..LastDate
Holiday == "holiday"
SyncClock == Cardinality(DOMAIN fetches)
In(date, range) == range[1] <= date /\ date <= range[2]

CalendarInit ==
    /\ \E closed \in Dates :
          exchange = [d \in Dates |-> IF d = closed THEN Holiday ELSE CHOOSE h \in Hours : TRUE]
    /\ had = [d \in Dates |-> {exchange[d]}]
    /\ changes = 0 /\ sessions = {} /\ coverage = {} /\ fetches = [t \in {} |-> 0]

ExchangeChanges(d, h) ==
    /\ SyncClock < MaxSyncs /\ changes < MaxChanges
    /\ h # exchange[d] /\ (HoursReturn \/ h \notin had[d])
    /\ exchange' = [exchange EXCEPT ![d] = h]
    /\ had' = [had EXCEPT ![d] = @ \cup {h}]
    /\ changes' = changes + 1
    /\ UNCHANGED <<sessions, coverage, fetches>>

-----------------------------------------------------------------------------
(* ingest/reference_data.py and store/write.py                             *)

\* The sessions of the range, and the coverage row whose hash stands for exactly these.
Fetched(range) == {<<d, exchange[d]>> : d \in {e \in Dates : In(e, range) /\ exchange[e] # Holiday}}

\* _insert_immutable: a row whose key is stored adds nothing; the first available_at stands.
NewSessions(range, now) ==
    {[date |-> s[1], hours |-> s[2], at |-> now] :
        s \in {f \in Fetched(range) :
                 \A v \in sessions : <<v.date, v.hours>> # f}}
NewCoverage(range, now) ==
    IF \E c \in coverage : c.range = range /\ c.digest = Fetched(range) THEN {}
    ELSE {[range |-> range, digest |-> Fetched(range), at |-> now]}

Sync(range) ==
    LET now == SyncClock + 1
    IN  /\ now <= MaxSyncs
        /\ sessions' = sessions \cup NewSessions(range, now)
        /\ coverage' = coverage \cup NewCoverage(range, now)
        /\ fetches' = [t \in 1..now |-> IF t = now THEN [range |-> range, read |-> Fetched(range)]
                                        ELSE fetches[t]]
        /\ UNCHANGED <<exchange, had, changes>>

CalendarNext ==
    \/ \E d \in Dates, h \in Hours \cup {Holiday} : ExchangeChanges(d, h)
    \/ \E range \in Ranges : Sync(range)

CalendarSpec == CalendarInit /\ [][CalendarNext]_calendarVars

-----------------------------------------------------------------------------
(* evaluation/calendar_rules.py over everything visible at one as_of.      *)

Latest(versions) == CHOOSE v \in versions : \A w \in versions : w.at <= v.at
VersionsOf(date, asOf) == {v \in sessions : v.date = date /\ v.at <= asOf}

\* The newest coverage row of every range.
ByRange(asOf) ==
    {c \in coverage : /\ c.at <= asOf
                      /\ \A e \in coverage : e.range = c.range /\ e.at <= asOf => e.at <= c.at}

\* A mutant: a coverage row is taken at its word.
DescribesAnything(c) == TRUE

\* A coverage row describes exactly the versions that were current when it was written.
Describes(c) ==
    c.digest = {<<d, Latest(VersionsOf(d, c.at)).hours>> :
                  d \in {e \in Dates : In(e, c.range) /\ VersionsOf(e, c.at) # {}}}

Covering(date, asOf) == {c \in ByRange(asOf) : In(date, c.range)}

\* No session was revised without a newer coverage row.
Vouched(date, asOf) ==
    VersionsOf(date, asOf) # {} /\ Covering(date, asOf) # {} =>
        \E c \in Covering(date, asOf) : Latest(VersionsOf(date, asOf)).at <= c.at

Consistent(asOf) ==
    /\ \A c \in ByRange(asOf) : Describes(c)
    /\ \A d \in Dates : Vouched(d, asOf)

\* "uncovered", Holiday (a closed day) or the hours of the session.
Status(date, asOf) ==
    IF Covering(date, asOf) = {} THEN "uncovered"
    ELSE IF VersionsOf(date, asOf) = {} THEN Holiday
    ELSE Latest(VersionsOf(date, asOf)).hours

Covered(dates, asOf) == \A d \in dates : Covering(d, asOf) # {}
IsSession(date, asOf) == Covering(date, asOf) # {} /\ VersionsOf(date, asOf) # {}

\* d is the nearest session after date over covered dates: D0 of a week-final date.
IsNextSession(d, date, asOf) ==
    /\ d > date /\ IsSession(d, asOf)
    /\ Covered((date + 1)..d, asOf)
    /\ \A e \in (date + 1)..(d - 1) : ~IsSession(e, asOf)

\* d is h sessions after d0.
IsHorizon(d, d0, h, asOf) ==
    /\ IsSession(d0, asOf) /\ IsSession(d, asOf) /\ Covered(d0..d, asOf)
    /\ Cardinality({e \in (d0 + 1)..d : IsSession(e, asOf)}) = h

-----------------------------------------------------------------------------
\* What the last complete read of a date said.
Reads(date, asOf) == {t \in DOMAIN fetches : t <= asOf /\ In(date, fetches[t].range)}
LastRead(date, asOf) ==
    LET t == CHOOSE t \in Reads(date, asOf) : \A u \in Reads(date, asOf) : u <= t
        hours == {s[2] : s \in {r \in fetches[t].read : r[1] = date}}
    IN  IF hours = {} THEN Holiday ELSE CHOOSE h \in hours : TRUE
Opened(date, asOf) == Reads(date, asOf) # {} /\ LastRead(date, asOf) # Holiday

(* evaluation/calendar_rules.py: the calendar fails closed.  Whenever it   *)
(* answers, for any as_of, it answers what the last complete fetch of the  *)
(* date said: a closed day was read as closed, a session has the hours     *)
(* read last, and D0 and the horizons count exactly the sessions that were *)
(* read, whatever was revised, added, cancelled or read twice.  Hours that *)
(* change and change back are left out (HoursReturn): their first version  *)
(* is not stored again, and the answer is the one in between.              *)
AnswersAreCurrent ==
    \A asOf \in 0..SyncClock : Consistent(asOf) =>
        /\ \A d \in Dates : Status(d, asOf) # "uncovered" => Status(d, asOf) = LastRead(d, asOf)
        /\ \A d, date \in Dates : IsNextSession(d, date, asOf) =>
              Opened(d, asOf) /\ \A e \in (date + 1)..(d - 1) : ~Opened(e, asOf)
        /\ \A d, d0 \in Dates, h \in 1..LastDate : IsHorizon(d, d0, h, asOf) =>
              Cardinality({e \in (d0 + 1)..d : Opened(e, asOf)}) = h
=============================================================================
