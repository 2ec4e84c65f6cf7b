------------------------------ MODULE Exposure ------------------------------
(***************************************************************************)
(* What executing a run promises of each name, seen from outside           *)
(* (src/execution/executor.py:1-20): a name trades share by share and      *)
(* never past the largest quantity some attempt asked for, however many    *)
(* attempts, workers, lost answers and restarts it takes; the run is       *)
(* executed at most once, and a halt is final.                             *)
(***************************************************************************)
EXTENDS Naturals

CONSTANTS Names

VARIABLES wanted,    \* wanted[n]: the quantities targets of n have asked for
          traded,    \* traded[n]: shares of n traded for the run
          status     \* the run's status

exposure == <<wanted, traded, status>>

Init ==
    /\ wanted = [n \in Names |-> {}]
    /\ traded = [n \in Names |-> 0]
    /\ status = "anchored"

(* An attempt plans.  What was asked for once is never forgotten.          *)
Plan ==
    /\ \A n \in Names : wanted[n] \subseteq wanted'[n]
    /\ UNCHANGED <<traded, status>>

Trade(n) ==
    /\ \E qty \in wanted[n] : traded[n] < qty
    /\ traded' = [traded EXCEPT ![n] = @ + 1]
    /\ UNCHANGED <<wanted, status>>

Execute ==
    /\ status = "anchored"
    /\ status' = "executed"
    /\ UNCHANGED <<wanted, traded>>

Halt ==
    /\ status' = "halted"
    /\ UNCHANGED <<wanted, traded>>

Next == Plan \/ (\E n \in Names : Trade(n)) \/ Execute \/ Halt

Spec == Init /\ [][Next]_exposure

=============================================================================
