---------------------------- MODULE DecisionWeek ----------------------------
(***************************************************************************)
(* How one week's candidates become a proposed book: the universe snapshot *)
(* and the gate select candidates, the voters' weights are floored,        *)
(* and sizing turns forecasts into weights under the limits of risk.yaml.  *)
(*                                                                         *)
(* Money and weights are whole parts of Whole, rounded down as they are    *)
(* scaled; an edge below the hurdle counts as 0.                           *)
(***************************************************************************)
EXTENDS Naturals, FiniteSets, FiniteSetsExt

CONSTANTS
    Securities,     \* security ids, by decreasing ADV: the order of the rank
    Agents,         \* the voting agents
    Sectors, Edges,
    Vols,           \* no more than Whole: an inverse volatility is at least one part
    Whole,          \* parts of the whole
    TopN,           \* universe size
    GateK,          \* candidates the gate passes
    RankTopM,       \* candidates a book without a calibrated stacker takes
    Gain,           \* committee_k and k
    MaxPosition, MaxSector, MinPosition, VolTarget,
    WeightFloor

ASSUME WeekAssumption ==
    /\ Securities \subseteq Nat /\ IsFiniteSet(Securities) /\ IsFiniteSet(Agents)
    /\ Vols \subseteq 1..Whole /\ Edges \subseteq Nat
    /\ {Whole, TopN, GateK, RankTopM, Gain} \subseteq Nat
    /\ {MaxPosition, MaxSector, MinPosition, VolTarget, WeightFloor} \subseteq 1..Whole
    /\ WeightFloor * Cardinality(Agents) <= Whole

VARIABLES
    weekStage,      \* the next step of the week
    candidates,     \* the candidates still in: included, then passed, then pooled
    poolWeights,    \* raw weight of each voter of the pool
    forecast,       \* sector, volatility, edge and bear severity of each pooled name
    book            \* target weight of each name of the proposed book

weekVars == <<weekStage, candidates, poolWeights, forecast, book>>

Min2(a, b) == IF a <= b THEN a ELSE b
SumOf(f, S) == MapThenSumSet(LAMBDA s : f[s], S)
FirstOf(n, S) == {s \in S : Cardinality({r \in S : r < s}) < n}

WeekInit ==
    /\ weekStage = "universe" /\ candidates = Securities
    /\ poolWeights = [a \in {} |-> 0] /\ forecast = [s \in {} |-> 0] /\ book = [s \in {} |-> 0]

-----------------------------------------------------------------------------
(* universe/snapshot.py and gate/model.py                                  *)

\* Some candidates fail a filter; the first TopN of the others by ADV are included.
SnapshotUniverse ==
    /\ weekStage = "universe"
    /\ \E ok \in SUBSET candidates : candidates' = FirstOf(TopN, ok)
    /\ weekStage' = "gate"
    /\ UNCHANGED <<poolWeights, forecast, book>>

\* The gate logs every name and passes the GateK best scores.
PassGate ==
    /\ weekStage = "gate"
    /\ \E passed \in SUBSET candidates :
          /\ Cardinality(passed) = Min2(GateK, Cardinality(candidates))
          /\ candidates' = passed
    /\ weekStage' = "pool"
    /\ UNCHANGED <<poolWeights, forecast, book>>

-----------------------------------------------------------------------------
(* committee/pooling.py                                                    *)

\* Weights are compared without rounding: a scaled weight is raw * LeftForFree / FreeWeight.
FreeWeight(raw, pinned) == SumOf(raw, DOMAIN raw \ pinned)
LeftForFree(pinned) == Whole - WeightFloor * Cardinality(pinned)
BelowFloor(raw, pinned) ==
    {a \in DOMAIN raw \ pinned : raw[a] * LeftForFree(pinned) < WeightFloor * FreeWeight(raw, pinned)}

\* Pins floored agents and rescales the others until none drops below the floor.
Pinned(raw) ==
    LET pin[P \in SUBSET DOMAIN raw] ==
          IF FreeWeight(raw, P) = 0 \/ BelowFloor(raw, P) = {} THEN P ELSE pin[P \cup BelowFloor(raw, P)]
    IN  pin[{a \in DOMAIN raw : raw[a] < WeightFloor}]

\* Numerator and denominator of each agent's weight as a part of Whole.
ApplyFloor(raw) ==
    LET pinned == Pinned(raw)
    IN  IF FreeWeight(raw, pinned) = 0
        THEN [a \in DOMAIN raw |-> <<Whole, Cardinality(DOMAIN raw)>>]
        ELSE [a \in DOMAIN raw |->
                IF a \in pinned THEN <<WeightFloor, 1>>
                ELSE <<raw[a] * LeftForFree(pinned), FreeWeight(raw, pinned)>>]

\* Invalid and insufficient verdicts do not vote; a name without a vote is not pooled.
\* What the history and the shrinkage make of the weights is any split of the whole.
PoolVerdicts ==
    /\ weekStage = "pool"
    /\ \E pooled \in SUBSET candidates, voters \in SUBSET Agents :
          /\ pooled # {} <=> voters # {}
          /\ candidates' = pooled
          /\ \E raw \in {r \in [voters -> 0..Whole] : voters # {} => SumOf(r, voters) = Whole} :
                poolWeights' = raw
    /\ weekStage' = "forecast"
    /\ UNCHANGED <<forecast, book>>

\* Red team, stacker and volatilities: what sizing is given, the pool folded into it.
Forecast ==
    /\ weekStage = "forecast"
    /\ \E f \in [candidates -> [sector : Sectors, vol : Vols, edge : Edges, bear : {50, 100}]] :
          forecast' = f
    /\ poolWeights' = [a \in {} |-> 0]
    /\ weekStage' = "size"
    /\ UNCHANGED <<candidates, book>>

-----------------------------------------------------------------------------
(* risk/sizing.py                                                          *)

VolOf(s) == forecast[s].vol
BearFactor(s) == forecast[s].bear
Times(a, b, c) == (a * b) \div c

\* Rank mode: the best forecasts by inverse volatility, times the bear multiplier.
InverseVol(s) == Whole \div VolOf(s)
Ranked ==
    {s \in candidates : Cardinality({r \in candidates :
        \/ forecast[r].edge > forecast[s].edge
        \/ forecast[r].edge = forecast[s].edge /\ r < s}) < RankTopM}
RankWeights ==
    LET total == SumOf([s \in Ranked |-> InverseVol(s)], Ranked)
    IN  [s \in Ranked |-> Times(Times(Whole, InverseVol(s), total), BearFactor(s), 100)]

\* Calibrated mode and the baseline: candidates over the hurdle by edge over volatility.
EdgeWeights ==
    [s \in {n \in candidates : forecast[n].edge > 0} |->
        Times(Gain * forecast[s].edge, BearFactor(s), VolOf(s) * 100)]

CapPositions(w) == [s \in DOMAIN w |-> Min2(w[s], MaxPosition)]
InSector(w, sector) == {s \in DOMAIN w : forecast[s].sector = sector}
CapSectors(w) ==
    [s \in DOMAIN w |->
        LET total == SumOf(w, InSector(w, forecast[s].sector))
        IN  IF total <= MaxSector THEN w[s] ELSE Times(w[s], MaxSector, total)]
DropDust(w) == [s \in DOMAIN w |-> IF w[s] >= MinPosition THEN w[s] ELSE 0]

\* Diagonal covariance, squared; a volatility of 100 keeps Whole at risk Whole.
BookRisk(w) ==
    SumOf([s \in DOMAIN w |-> w[s] * w[s] * VolOf(s) * VolOf(s)], DOMAIN w)
ScaleFactor(w) ==
    Max({k \in 0..Whole :
           /\ k * k * BookRisk(w) <= VolTarget * VolTarget * Whole * Whole
           /\ k * SumOf(w, DOMAIN w) <= Whole * Whole})
ScaleBook(w) == [s \in DOMAIN w |-> Times(w[s], ScaleFactor(w), Whole)]

\* A mutant: nothing is dropped after the book was scaled.
BookWithDust(raw) == ScaleBook(DropDust(CapSectors(CapPositions(raw))))

CommitteeBook(raw) == DropDust(ScaleBook(DropDust(CapSectors(CapPositions(raw)))))
BaselineBook(raw) == DropDust(ScaleBook(CapSectors(DropDust(CapPositions(raw)))))

\* The stacker is inactive, or active; the baseline sizes the same decisions its own way.
SizeBook ==
    /\ weekStage = "size"
    /\ book' \in {CommitteeBook(RankWeights), CommitteeBook(EdgeWeights), BaselineBook(EdgeWeights)}
    /\ weekStage' = "proposed"
    /\ UNCHANGED <<candidates, poolWeights, forecast>>

WeekNext == SnapshotUniverse \/ PassGate \/ PoolVerdicts \/ Forecast \/ SizeBook
WeekSpec == WeekInit /\ [][WeekNext]_weekVars

-----------------------------------------------------------------------------
\* No voter is below the floor, and over the largest denominator, which the others
\* divide, the weights are a whole.
WeightsKeepTheFloor ==
    LET w == ApplyFloor(poolWeights)
        voters == DOMAIN poolWeights
        common == Max({w[a][2] : a \in voters})
    IN  voters # {} =>
          /\ \A a \in voters : w[a][1] >= WeightFloor * w[a][2] /\ common % w[a][2] = 0
          /\ SumOf([a \in voters |-> w[a][1] * (common \div w[a][2])], voters) = Whole * common

BookKeepsTheLimits ==
    LET held == {s \in DOMAIN book : book[s] > 0}
    IN  /\ \A s \in held : book[s] \in MinPosition..MaxPosition
        /\ \A sector \in Sectors : SumOf(book, InSector(book, sector)) <= MaxSector
        /\ SumOf(book, held) <= Whole
        /\ BookRisk(book) <= VolTarget * VolTarget

(* risk/sizing.py and committee/pooling.py: each limit is applied by a step *)
(* that later steps scale, floor and rescale again.  In the book that is    *)
(* proposed all of them hold at once, for every selection and mode, and no  *)
(* voter of a pool ends below the floor however often weights are rescaled. *)
LimitsHold == WeightsKeepTheFloor /\ (weekStage = "proposed" => BookKeepsTheLimits)
=============================================================================
