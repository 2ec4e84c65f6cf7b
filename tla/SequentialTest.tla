--------------------------- MODULE SequentialTest ---------------------------
(***************************************************************************)
(* evaluation/sequential.py: three betting e-processes on the weekly net   *)
(* excess over the exposure-matched index and over the quant baseline.     *)
(*                                                                         *)
(* Wealth, bets and moments are whole parts of One, rounded down; an       *)
(* excess is clipped to the outcomes listed in Excess, in the same parts.  *)
(***************************************************************************)
EXTENDS Integers, FiniteSetsExt

CONSTANTS
    One,        \* parts of the unit
    Excess,     \* clipped weekly outcomes, in -One..One
    MinWeek, MaxWeek,
    Threshold,  \* E_THRESHOLD
    Cap         \* LAMBDA_CAP, in parts

ASSUME SequentialAssumption ==
    /\ One \in Nat \ {0} /\ Cap \in 0..One /\ Threshold \in Nat
    /\ Excess \subseteq -One..One
    /\ {MinWeek, MaxWeek} \subseteq Nat \ {0} /\ MinWeek <= MaxWeek
    /\ MaxWeek < One    \* so that a variance is at least one part

VARIABLES
    week, spy, quant, mirror,
    verdictStatus,
    terminal    \* why the test ended, and when

seqVars == <<week, spy, quant, mirror, verdictStatus, terminal>>

Fresh == [t |-> 0, wealth |-> One, sumY |-> 0, sumSq |-> 0, mu |-> 0, var |-> One]
Running == [reason |-> "running", week |-> 0]

SeqInit ==
    /\ week = 0 /\ spy = Fresh /\ quant = Fresh /\ mirror = Fresh
    /\ verdictStatus = "RUNNING" /\ terminal = Running

\* clip(mu / (var + mu^2), 0, cap)
Clip(x, low, high) == IF x < low THEN low ELSE IF x > high THEN high ELSE x
NextLambda(s) == Clip((s.mu * One) \div (s.var + (s.mu * s.mu) \div One), 0, Cap)

Moments(s, y) ==
    LET t == s.t + 1
        mu == (s.sumY + y) \div (t + 1)
        sq == s.sumSq + ((y - mu) * (y - mu)) \div One
    IN  [t |-> t, wealth |-> s.wealth, sumY |-> s.sumY + y, sumSq |-> sq,
         mu |-> mu, var |-> (One + sq) \div (t + 1)]
\* A mutant: the return of the bet is clipped instead of its fraction.
BetClipsTheReturn(s, y) ==
    LET fraction == (s.mu * One) \div (s.var + (s.mu * s.mu) \div One)
    IN  [Moments(s, y) EXCEPT !.wealth = (s.wealth * (One + Clip((fraction * y) \div One, 0, Cap))) \div One]

Bet(s, y) == [Moments(s, y) EXCEPT !.wealth = (s.wealth * (One + (NextLambda(s) * y) \div One)) \div One]

Won(s) == s.wealth >= Threshold

\* The status the code computes from the wealths of a week.
Outcome(w, s, q, m) ==
    IF w >= MinWeek /\ Won(s) /\ Won(q) /\ Won(m) THEN <<"INCONCLUSIVE", "conflicting_evidence">>
    ELSE IF w >= MinWeek /\ Won(s) /\ Won(q) THEN <<"PASS", "both_e_processes">>
    ELSE IF w >= MinWeek /\ Won(m) THEN <<"FAIL", "mirrored_e_process">>
    ELSE IF w < MaxWeek THEN <<"RUNNING", "running">>
    ELSE <<"INCONCLUSIVE", "no_crossing_by_max_week">>

\* After a terminal result observe returns the same test, or raises when the window is closed.
Observe ==
    /\ verdictStatus = "RUNNING"
    /\ \E x, y \in Excess :
          LET s == Bet(spy, x)
              q == Bet(quant, y)
              m == Bet(mirror, -y)
              outcome == Outcome(week + 1, s, q, m)
          IN  /\ spy' = s /\ quant' = q /\ mirror' = m
              /\ verdictStatus' = outcome[1]
              /\ terminal' = [reason |-> outcome[2],
                              week |-> IF outcome[1] = "RUNNING" THEN 0 ELSE week + 1]
    /\ week' = week + 1

SeqNext == Observe
SeqSpec == SeqInit /\ [][SeqNext]_seqVars

-----------------------------------------------------------------------------
\* What an e-process can be with this many weeks left.
EProcesses(weeks) ==
    [t : 0..(MaxWeek - weeks), wealth : Nat, sumY : Int, sumSq : Nat, mu : Int, var : Nat \ {0}]

\* Fair weeks win or lose an amount with the same probability, so all paths are equally likely.
Paths[weeks \in 0..MaxWeek] == IF weeks = 0 THEN 1 ELSE 2 * Paths[weeks - 1]
Amounts == {IF y < 0 THEN -y ELSE y : y \in Excess}

\* With one more week to come, whose amount may depend on all that was seen: the most paths
\* from s on which the wealth ever reaches the threshold.
WithOneMore(after, weeks) ==
    [s \in EProcesses(weeks) |->
        IF Won(s) THEN Paths[weeks]
        ELSE Max({after[Bet(s, a)] + after[Bet(s, -a)] : a \in Amounts})]
Crossings[weeks \in 0..MaxWeek] ==
    IF weeks = 0 THEN [s \in EProcesses(0) |-> IF Won(s) THEN 1 ELSE 0]
    ELSE WithOneMore(Crossings[weeks - 1], weeks)

(* evaluation/sequential.py:1-15: the test may be looked at every week.     *)
(* From every state it can be in, whatever the past did to the moments, an  *)
(* e-process that has no edge crosses the threshold at any of the weeks     *)
(* left with at most its wealth over the threshold as probability, even     *)
(* when the size of each week depends on what came before.                  *)
CrossingsAreRare ==
    [][week' # week =>
          \A s \in {spy, quant, mirror} :
             Crossings[MaxWeek - week][s] * Threshold <= s.wealth * Paths[MaxWeek - week]]_week
=============================================================================
