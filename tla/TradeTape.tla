------------------------------ MODULE TradeTape ------------------------------
(***************************************************************************)
(* The price a halt or a backtest is scored at: which trade of a session's *)
(* tape sets the consolidated last sale price, decided from sale           *)
(* conditions that may be unknown, from trades that share an instant, and, *)
(* for a halt, from the part of the session that may already be read.      *)
(*                                                                         *)
(* A code on a trade is what the tables and the provider map make of it:   *)
(* "yes", "no", "first_only", "note3", "tbd" (also a code in no table or   *)
(* no map) or "unvalidated".                                               *)
(***************************************************************************)
EXTENDS Naturals, FiniteSets, Sequences

CONSTANTS
    Conditions,     \* the code sets a trade may carry
    Prices,
    Instants,       \* how many instants the session has
    MaxTrades       \* bound on the trades of a tape

ASSUME TapeAssumption == {Instants, MaxTrades} \subseteq Nat

VARIABLES
    tape,       \* trades of each instant printed so far
    trigger,    \* the instant of the halt
    mark,       \* the stored halt reference
    entry       \* the resolved backtest reference at the end of the tape

tapeVars == <<tape, trigger, mark, entry>>

NoMark == [state |-> "none"]
Resolved(price) == [state |-> "resolved", price |-> price]
NoPrice(reason) == [state |-> "unresolved", reason |-> reason]

-----------------------------------------------------------------------------
(* execution/trade_conditions.py                                           *)

\* Any NO disqualifies, whatever the other codes are; then what cannot be read decides.
Evaluate(codes) ==
    IF "no" \in codes THEN "ineligible"
    ELSE IF "unvalidated" \in codes THEN "unvalidated"
    ELSE IF codes = {} \/ "tbd" \in codes THEN "unknown_condition"
    ELSE IF "note3" \in codes THEN "note3"
    ELSE IF "first_only" \in codes THEN "first_only"
    ELSE "eligible"

Unknown == {"unvalidated", "unknown_condition"}

-----------------------------------------------------------------------------
(* execution/reference_rules.py                                            *)

Tied(trade, group) == \E other \in group \ {trade} : Evaluate(other.codes) # "ineligible"

\* "qualifies", "not", or the reason why it is not known.
Verdict(trade, group, seen) ==
    LET base == Evaluate(trade.codes)
    IN  IF base = "eligible" THEN "qualifies"
        ELSE IF base = "ineligible" THEN "not"
        ELSE IF base \in Unknown THEN base
        ELSE IF seen.qualifying THEN IF base = "note3" THEN "unknown_condition" ELSE "not"
        ELSE IF Tied(trade, group) THEN "ambiguous_order"
        ELSE IF seen.unknown THEN "unknown_condition" ELSE "qualifies"

Verdicts(group, seen) == {Verdict(t, group, seen) : t \in group}
Decided == {"qualifies", "not"}

\* What the trades before each instant have settled.
Seen(trades) ==
    LET seen[i \in 1..(Len(trades) + 1)] ==
          IF i = 1 THEN [qualifying |-> FALSE, unknown |-> FALSE]
          ELSE LET before == seen[i - 1]
                   verdicts == Verdicts(trades[i - 1], before)
               IN  [qualifying |-> before.qualifying \/ "qualifies" \in verdicts,
                    unknown |-> before.unknown \/ verdicts \ Decided # {}]
    IN  seen

Qualifying(group, seen) == {t \in group : Verdict(t, group, seen) = "qualifies"}

\* A mutant: a trade that cannot be decided is skipped.
DecisiveIfPriced(group, seen) == Qualifying(group, seen) # {}

\* Does the group of an instant decide, and how.
Decisive(group, seen) == Verdicts(group, seen) \ {"not"} # {}
DecideGroup(group, seen) ==
    LET reasons == Verdicts(group, seen) \ Decided
        prices == {t.price : t \in Qualifying(group, seen)}
    IN  IF reasons # {} THEN NoPrice(CHOOSE r \in reasons : TRUE)
        ELSE IF Cardinality(prices) > 1 THEN NoPrice("ambiguous_order")
        ELSE Resolved(CHOOSE p \in prices : TRUE)

DecisiveInstants(trades) ==
    {i \in DOMAIN trades : Decisive(trades[i], Seen(trades)[i])}

\* The first decisive instant at or after the trigger; the last one of the tape.
ReconstructHalt(trades, from) ==
    LET after == {i \in DecisiveInstants(trades) : i >= from}
    IN  IF after = {} THEN NoPrice("no_eligible_trade")
        ELSE LET i == CHOOSE i \in after : \A j \in after : i <= j
             IN  DecideGroup(trades[i], Seen(trades)[i])

ResolveBacktest(trades) ==
    LET all == DecisiveInstants(trades)
    IN  IF all = {} THEN NoPrice("no_eligible_trade")
        ELSE LET i == CHOOSE i \in all : \A j \in all : j <= i
             IN  DecideGroup(trades[i], Seen(trades)[i])

-----------------------------------------------------------------------------
TapeInit ==
    /\ tape = <<{}>>
    /\ trigger \in 1..Instants
    /\ mark = NoMark /\ entry = NoMark

Closed == Len(tape) > Instants
Readable == SubSeq(tape, 1, Len(tape) - 1)
Printed == UNION {{<<i, t>> : t \in tape[i]} : i \in DOMAIN tape}

Trade(codes, price) ==
    /\ ~Closed /\ Cardinality(Printed) < MaxTrades
    /\ \E id \in 1..MaxTrades :
          /\ \A p \in Printed : p[2].id # id
          /\ \A k \in 1..(id - 1) : \E p \in Printed : p[2].id = k
          /\ tape' = [tape EXCEPT ![Len(tape)] =
                        @ \cup {[id |-> id, codes |-> codes, price |-> price]}]
    /\ UNCHANGED <<trigger, mark, entry>>

NextInstant ==
    /\ ~Closed
    /\ tape' = Append(tape, {})
    /\ UNCHANGED <<trigger, mark, entry>>

\* A sweep reads the finished instants; a reason is final only after the close.
ResolveHalt ==
    /\ mark = NoMark
    /\ LET row == ReconstructHalt(Readable, trigger)
       IN  /\ row.state = "resolved" \/ Closed
           /\ mark' = row
    /\ UNCHANGED <<tape, trigger, entry>>

ResolveEntry ==
    /\ Closed /\ entry = NoMark
    /\ entry' = ResolveBacktest(Readable)
    /\ UNCHANGED <<tape, trigger, mark>>

TapeNext ==
    \/ NextInstant \/ ResolveHalt \/ ResolveEntry
    \/ \E codes \in Conditions, price \in Prices : Trade(codes, price)

TapeSpec == TapeInit /\ [][TapeNext]_tapeVars

-----------------------------------------------------------------------------
(* What the tape really did, in one world: an order of the trades and a    *)
(* meaning for every code that is not known.                               *)

Orders == {s \in [1..Cardinality(Printed) -> Printed] :
             /\ \A i, j \in DOMAIN s : i # j => s[i] # s[j]
             /\ \A i, j \in DOMAIN s : i < j => s[i][1] <= s[j][1]}

Meanings(trade) ==
    LET base == Evaluate(trade.codes)
    IN  IF base \in Unknown THEN {"eligible", "ineligible", "first_only"}
        ELSE IF base = "note3" THEN {"first_only", "eligible"}
        ELSE {base}

\* The trades that set the consolidated last sale price.
Sets(order, meaning) ==
    LET sets[i \in DOMAIN order] ==
          \/ meaning[order[i]] = "eligible"
          \/ meaning[order[i]] = "first_only" /\ \A j \in 1..(i - 1) : ~sets[j]
    IN  {i \in DOMAIN order : sets[i]}

Worlds(order) == {m \in [Printed -> UNION {Meanings(p[2]) : p \in Printed}] :
                    \A p \in Printed : m[p] \in Meanings(p[2])}

FirstIs(price, order, meaning) ==
    LET after == {i \in Sets(order, meaning) : order[i][1] >= trigger}
    IN  after # {} /\ \A i \in after : (\A j \in after : i <= j) => order[i][2].price = price
LastIs(price, order, meaning) ==
    LET all == Sets(order, meaning)
    IN  all # {} /\ \A i \in all : (\A j \in all : j <= i) => order[i][2].price = price

(* execution/trade_conditions.py and reference_rules.py: anything the      *)
(* tables cannot decide is unknown and never skipped.  A price that was    *)
(* stored, from whatever part of the session, is the price of the trade    *)
(* the rules select on the whole tape, whatever the unknown codes mean and *)
(* in whatever order trades of one instant happened.                       *)
MarkIsTheTape ==
    \A order \in Orders : \A meaning \in Worlds(order) :
        /\ mark.state = "resolved" => FirstIs(mark.price, order, meaning)
        /\ entry.state = "resolved" => LastIs(entry.price, order, meaning)
=============================================================================
