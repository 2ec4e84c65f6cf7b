--------------------------- MODULE OrderExecution ---------------------------
(***************************************************************************)
(* Executing one live run's book: OrderExecutor.execute_book               *)
(* (src/execution/executor.py), the stage around it                        *)
(* (src/orchestration/execution_stage.py), the kill switch and its halts   *)
(* (src/execution/halt.py, src/risk/kill_switch.py) and the order and halt *)
(* rows they write (src/store/write.py).                                   *)
(*                                                                         *)
(* Executors are the workers that run the `execute` and `reconcile` tasks; *)
(* the run's execute lock admits one at a time unless the lock is lost     *)
(* (LockLoss).  Operators run the `halt` command of the CLI, which takes   *)
(* no lock.  An attempt remembers nothing when it ends or dies: the next   *)
(* one starts from the broker and the stored rows.                         *)
(*                                                                         *)
(* Quantities are whole shares, as plan_targets makes them.  Prices,       *)
(* collars and slippage are left out.                                      *)
(***************************************************************************)
EXTENDS BrokerOrders

CONSTANTS Executors,     \* workers that can run the execute task
          Operators,     \* processes that can run the halt command
          Holdings,      \* shares that may be held when the run starts
          Desired,       \* whole shares the book may ask for at today's equity
          LockLoss,      \* TRUE: a worker may outlive its execute lock
          LateLanding,   \* TRUE: a lost submission may land later
          Rounds,        \* _ROUNDS: cancel rounds of one halt
          MaxFaults,     \* bound: failed or lost calls, failed writes, crashes
          MaxHalts       \* bound: runs of the halt command

ASSUME ExecutionAssumption ==
    /\ Holdings \subseteq Nat
    /\ Desired \subseteq Nat
    /\ \A h \in Holdings : h <= MaxQty
    /\ \A d \in Desired : d <= MaxQty
    /\ LockLoss \in BOOLEAN /\ LateLanding \in BOOLEAN
    /\ Rounds \in Nat /\ MaxFaults \in Nat /\ MaxHalts \in Nat

VARIABLES
    pc,        \* pc[e]: the phase of e's attempt
    ks,        \* ks[e]: the attempt's KillSwitch is engaged
    todo,      \* todo[e]: names the phase has still to handle
    target,    \* target[e][n]: the attempt's ExecutionTarget, NoTarget without one
    seen,      \* seen[e][id]: what the last read of the order said (_Leg.lim, _Leg.mkt)
    failed,    \* failed[e]: names whose leg carries an error
    stop,      \* stop[e]: stop_exposure
    halt,      \* halt[p]: progress of the halt or settlement p is in
    row,       \* row[id]: the stored orders row
    events,    \* the stored kill_switch_events
    status,    \* the run's status
    asked,     \* asked[n]: every target an attempt set for n (history)
    faults,    \* failures so far
    halts      \* runs of the halt command so far

attempt == <<pc, ks, todo, target, seen, failed, stop>>
store == <<row, events, status>>
history == <<asked, faults, halts>>
vars == <<broker, attempt, halt, store, history>>

Procs == Executors \cup Operators

Gates == {"start", "gate1", "gate2"}
Phases == {"idle", "look", "plan", "legs", "submit", "cancel", "await", "close",
           "market", "await_market", "close_market", "reconcile"} \cup Gates

Targets == [side : Sides, qty : 0..MaxQty]
NoTarget == [side |-> "buy", qty |-> 0]
Asks(t) == t.qty > 0

Kinds == {"settle", "auto", "manual", "flatten"}
Halts == [at : {"quiet", "list", "cancel", "confirm", "positions", "record"},
          kind : Kinds, listed : SUBSET Ids, round : 0..Rounds, done : BOOLEAN]
Quiet == [at |-> "quiet", kind |-> "settle", listed |-> {}, round |-> 0, done |-> FALSE]
Begin(kind) == [Quiet EXCEPT !.at = "list", !.kind = kind]

Triggers == {"automatic", "manual"}
Trigger(kind) == IF kind = "auto" THEN "automatic" ELSE "manual"
Events == [trigger : Triggers, flattened : BOOLEAN]

TypeOK ==
    /\ BrokerTypeOK
    /\ pc \in [Executors -> Phases]
    /\ ks \in [Executors -> BOOLEAN]
    /\ todo \in [Executors -> SUBSET Names]
    /\ target \in [Executors -> [Names -> Targets]]
    /\ seen \in [Executors -> [Ids -> Orders]]
    /\ failed \in [Executors -> SUBSET Names]
    /\ stop \in [Executors -> BOOLEAN]
    /\ halt \in [Procs -> Halts]
    /\ row \in [Ids -> Orders]
    /\ events \subseteq Events
    /\ status \in {"anchored", "executed", "halted"}
    /\ asked \in [Names -> SUBSET Targets]
    /\ faults \in 0..MaxFaults
    /\ halts \in 0..MaxHalts

(* An operator may have halted the run before it was anchored: that event  *)
(* is stored and moves no status.                                          *)
Init ==
    /\ BrokerInit(Holdings)
    /\ pc = [e \in Executors |-> "idle"]
    /\ ks = [e \in Executors |-> FALSE]
    /\ todo = [e \in Executors |-> {}]
    /\ target = [e \in Executors |-> [n \in Names |-> NoTarget]]
    /\ seen = [e \in Executors |-> [i \in Ids |-> Absent]]
    /\ failed = [e \in Executors |-> {}]
    /\ stop = [e \in Executors |-> FALSE]
    /\ halt = [p \in Procs |-> Quiet]
    /\ row = [i \in Ids |-> Absent]
    /\ events \in {{}, {[trigger |-> "manual", flattened |-> FALSE]}}
    /\ status = "anchored"
    /\ asked = [n \in Names |-> {}]
    /\ faults = 0
    /\ halts = 0

-----------------------------------------------------------------------------
(* Shared parts of the steps.                                              *)

Idle(e) == pc[e] = "idle"

(* The execute lock of the run.                                            *)
Free(e) == LockLoss \/ \A f \in Executors \ {e} : Idle(f)

(* One more failed call, lost answer, failed write or crash.               *)
Fault ==
    /\ faults < MaxFaults
    /\ faults' = faults + 1

\* Seeded bug: the switch is consulted but never says no.
AllowsAll(e, side) == TRUE

(* The kill switch allows sells always and buys until it is engaged.       *)
Allows(e, side) == ~ks[e] \/ side = "sell"

(* Names of the book whose leg carries no error.                           *)
Live(e) == {n \in Names : Asks(target[e][n])} \ failed[e]

\* Seeded bug: the limit's fills are forgotten.
ResidualForgetsFills(e, n) == target[e][n].qty

(* What the limit left of the target.                                      *)
Residual(e, n) == target[e][n].qty - seen[e][Lim(n)].filled

Forget(e) ==
    /\ ks' = [ks EXCEPT ![e] = FALSE]
    /\ todo' = [todo EXCEPT ![e] = {}]
    /\ target' = [target EXCEPT ![e] = [n \in Names |-> NoTarget]]
    /\ seen' = [seen EXCEPT ![e] = [i \in Ids |-> Absent]]
    /\ failed' = [failed EXCEPT ![e] = {}]
    /\ stop' = [stop EXCEPT ![e] = FALSE]

(* The attempt returns, raises or dies.                                    *)
End(e) ==
    /\ pc' = [pc EXCEPT ![e] = "idle"]
    /\ Forget(e)

Enter(e, phase, names) ==
    /\ pc' = [pc EXCEPT ![e] = phase]
    /\ todo' = [todo EXCEPT ![e] = names]

(* The leg of n is done with this phase; the error, if any, is kept.       *)
Handled(e, n) == todo' = [todo EXCEPT ![e] = @ \ {n}]
Fails(e, n) ==
    /\ Handled(e, n)
    /\ failed' = [failed EXCEPT ![e] = @ \cup {n}]

EnterSubmit(e) ==
    Enter(e, "submit", {n \in Live(e) : /\ ~Exists(seen[e][Lim(n)])
                                        /\ Allows(e, target[e][n].side)})

EnterMarket(e) ==
    Enter(e, "market", IF stop[e] THEN {}
                       ELSE {n \in Live(e) : /\ Exists(seen[e][Lim(n)])
                                             /\ seen[e][Lim(n)].status # "rejected"
                                             /\ Residual(e, n) > 0})

-----------------------------------------------------------------------------
(* The gate: the durable events first, then the automatic triggers.  It    *)
(* runs when the attempt starts, before the first submission and before    *)
(* the market phase.                                                       *)

Pass(e) ==
    \/ pc[e] = "start" /\ Enter(e, "look", {})
    \/ pc[e] = "gate1" /\ EnterSubmit(e)
    \/ pc[e] = "gate2" /\ EnterMarket(e)

AtGate(e) == pc[e] \in Gates /\ halt[e].at = "quiet"

(* Nothing halts the run, or this attempt has already settled.             *)
GatePass(e) ==
    /\ AtGate(e)
    /\ ks[e] \/ events = {}
    /\ Pass(e)
    /\ UNCHANGED <<broker, ks, target, seen, failed, stop, halt, store, history>>

(* A halt is on record: engage and settle what is still working.           *)
GateSettle(e) ==
    /\ AtGate(e)
    /\ ~ks[e] /\ events # {}
    /\ ks' = [ks EXCEPT ![e] = TRUE]
    /\ halt' = [halt EXCEPT ![e] = Begin("settle")]
    /\ UNCHANGED <<broker, pc, todo, target, seen, failed, stop, store, history>>

(* The daily loss or a stale feed fires: engage first, then cancel.        *)
GateTrigger(e) ==
    /\ AtGate(e)
    /\ ~ks[e] /\ events = {}
    /\ ks' = [ks EXCEPT ![e] = TRUE]
    /\ halt' = [halt EXCEPT ![e] = Begin("auto")]
    /\ UNCHANGED <<broker, pc, todo, target, seen, failed, stop, store, history>>

-----------------------------------------------------------------------------
(* A halt or settlement: _cancel_all_confirmed, then, for a flatten, the   *)
(* positions, then the event.                                              *)

Reaches(p, at) == halt' = [halt EXCEPT ![p].at = at]

(* After a settlement or an automatic halt the attempt goes on from its    *)
(* gate, but a start that met a halt returns.                              *)
Resume(e) ==
    IF pc[e] = "start" THEN End(e)
    ELSE Pass(e) /\ UNCHANGED <<ks, target, seen, failed, stop>>

(* open_orders: nothing left to cancel.                                    *)
ListNone(p) ==
    /\ halt[p].at = "list"
    /\ OpenIds = {}
    /\ CASE halt[p].kind = "settle" ->
              halt' = [halt EXCEPT ![p] = Quiet] /\ Resume(p)
         [] halt[p].kind = "flatten" ->
              Reaches(p, "positions") /\ UNCHANGED attempt
         [] OTHER ->
              /\ halt' = [halt EXCEPT ![p].at = "record", ![p].done = TRUE]
              /\ UNCHANGED attempt
    /\ UNCHANGED <<broker, store, history>>

ListSome(p) ==
    /\ halt[p].at = "list"
    /\ OpenIds # {} /\ halt[p].round < Rounds
    /\ halt' = [halt EXCEPT ![p].at = "cancel", ![p].listed = OpenIds]
    /\ UNCHANGED <<broker, attempt, store, history>>

(* Every listed order is asked to cancel.                                  *)
CancelListed(p) ==
    /\ halt[p].at = "cancel"
    /\ order' = AskedToCancel(halt[p].listed)
    /\ Reaches(p, "confirm")
    /\ UNCHANGED <<flight, position, closing, attempt, store, history>>

ConfirmListed(p) ==
    /\ halt[p].at = "confirm"
    /\ \A i \in halt[p].listed : Terminal(order[i])
    /\ halt' = [halt EXCEPT ![p].at = "list", ![p].listed = {}, ![p].round = @ + 1]
    /\ UNCHANGED <<broker, attempt, store, history>>

(* positions, then close_position for each that is held.                   *)
Closed(S) == [n \in Names |-> IF n \in S THEN position[n] ELSE closing[n]]

ClosePositions(p) ==
    /\ halt[p].at = "positions"
    /\ closing' = Closed(Names)
    /\ halt' = [halt EXCEPT ![p].at = "record", ![p].done = TRUE]
    /\ UNCHANGED <<order, flight, position, attempt, store, history>>

(* A call fails part-way, the polls run out, or orders are still open      *)
(* after the last round.  A settlement raises and ends the attempt; a halt *)
(* still records its event.                                                *)
HaltFails(p) ==
    /\ halt[p].at \in {"list", "cancel", "confirm", "positions"}
    /\ \/ Fault
       \/ /\ halt[p].at = "list" /\ halt[p].round = Rounds /\ OpenIds # {}
          /\ UNCHANGED faults
    /\ IF halt[p].at = "cancel"
       THEN \E S \in SUBSET halt[p].listed : order' = AskedToCancel(S)
       ELSE UNCHANGED order
    /\ IF halt[p].at = "positions"
       THEN \E S \in SUBSET Names : closing' = Closed(S)
       ELSE UNCHANGED closing
    /\ IF halt[p].kind = "settle"
       THEN halt' = [halt EXCEPT ![p] = Quiet] /\ End(p)
       ELSE Reaches(p, "record") /\ UNCHANGED attempt
    /\ UNCHANGED <<flight, position, store, asked, halts>>

(* record_halt: one transaction inserts the event and the run's halt       *)
(* reference request, which exists once per trigger and never changes, and *)
(* moves the run to PARTIAL.  A second request for a trigger conflicts and *)
(* takes the event down with it.                                           *)
Recordable(kind) == \A v \in events : v.trigger # Trigger(kind)

RecordEvent(p) ==
    IF Recordable(halt[p].kind)
    THEN /\ events' = events \cup {[trigger |-> Trigger(halt[p].kind),
                                    flattened |-> halt[p].done /\ halt[p].kind = "flatten"]}
         /\ status' = "halted"
    ELSE UNCHANGED <<events, status>>

(* After an automatic halt that went through and is on record the attempt  *)
(* goes on from its gate; otherwise the gate raises.                       *)
RecordHalt(p) ==
    /\ halt[p].at = "record"
    /\ RecordEvent(p)
    /\ halt' = [halt EXCEPT ![p] = Quiet]
    /\ CASE p \notin Executors -> UNCHANGED attempt
         [] p \in Executors /\ halt[p].done /\ Recordable("auto") -> Resume(p)
         [] OTHER -> End(p)
    /\ UNCHANGED <<broker, row, history>>

(* The store refuses the transaction.                                      *)
RecordFails(p) ==
    /\ halt[p].at = "record"
    /\ Fault
    /\ halt' = [halt EXCEPT ![p] = Quiet]
    /\ IF p \in Executors THEN End(p) ELSE UNCHANGED attempt
    /\ UNCHANGED <<broker, store, asked, halts>>

(* The operator's command.  One that asks for a flatten already on record  *)
(* does nothing.                                                           *)
ManualHalt(p) ==
    /\ halt[p].at = "quiet"
    /\ halts < MaxHalts
    /\ \E kind \in {"manual", "flatten"} :
          /\ kind = "flatten" => \A v \in events : ~v.flattened
          /\ halt' = [halt EXCEPT ![p] = Begin(kind)]
    /\ halts' = halts + 1
    /\ UNCHANGED <<broker, attempt, store, asked, faults>>

(* The command's process dies.                                             *)
HaltDies(p) ==
    /\ halt[p].at # "quiet"
    /\ Fault
    /\ halt' = [halt EXCEPT ![p] = Quiet]
    /\ UNCHANGED <<broker, attempt, store, asked, halts>>

-----------------------------------------------------------------------------
(* An attempt: execute_run, then execute_book.                             *)

(* A halted run is only settled; an executed one needs nothing.            *)
Start(e) ==
    /\ Idle(e) /\ Free(e)
    /\ status # "executed"
    /\ Enter(e, "start", {})
    /\ UNCHANGED <<broker, ks, target, seen, failed, stop, halt, store, history>>

(* _targets: a name whose limit order exists keeps that order's side and   *)
(* quantity.                                                               *)
LookUp(e) ==
    /\ pc[e] = "look"
    /\ target' = [target EXCEPT ![e] =
           [n \in Names |-> IF Exists(order[Lim(n)])
                            THEN [side |-> order[Lim(n)].side, qty |-> order[Lim(n)].qty]
                            ELSE NoTarget]]
    /\ Enter(e, "plan", {})
    /\ UNCHANGED <<broker, ks, seen, failed, stop, halt, store, history>>

(* plan_targets: the whole-share delta from the position to the book, at   *)
(* today's equity.                                                         *)
Delta(desired, held) ==
    IF desired >= held THEN [side |-> "buy", qty |-> desired - held]
    ELSE [side |-> "sell", qty |-> held - desired]

PlanTargets(e) ==
    /\ pc[e] = "plan"
    /\ \E desired \in [Names -> Desired] :
         target' = [target EXCEPT ![e] =
             [n \in Names |-> IF Asks(@[n]) THEN @[n]
                              ELSE Delta(desired[n], position[n])]]
    /\ \A n \in Names : target'[e][n] \in Targets
    /\ asked' = [n \in Names |-> asked[n] \cup {target'[e][n]}]
    /\ Enter(e, "legs", {})
    /\ UNCHANGED <<broker, ks, seen, failed, stop, halt, store, faults, halts>>

(* Each leg starts from the broker's limit order.                          *)
OpenLegs(e) ==
    /\ pc[e] = "legs"
    /\ seen' = [seen EXCEPT ![e] =
           [i \in Ids |-> IF i[2] = "lim" /\ Asks(target[e][i[1]]) THEN order[i] ELSE @[i]]]
    /\ Enter(e, "gate1", {})
    /\ UNCHANGED <<broker, ks, target, failed, stop, halt, store, history>>

\* Seeded bug: the row claims the whole quantity.
NoteRequested(i, o) == row' = [row EXCEPT ![i] = [o EXCEPT !.filled = o.qty]]

(* _Leg.note: the order as last seen becomes its stored row.               *)
Note(i, o) == row' = [row EXCEPT ![i] = o]

(* _submit_once: the request is accepted, or the id is known, and the      *)
(* order is read back; its row is written, or the write fails.             *)
Submitted(e, n, i, side, qty) ==
    /\ Accept(i, side, qty)
    /\ seen' = [seen EXCEPT ![e][i] = order'[i]]
    /\ \/ /\ Note(i, order'[i]) /\ Handled(e, n)
          /\ UNCHANGED <<failed, faults>>
       \/ /\ Fault /\ Fails(e, n)
          /\ UNCHANGED row
    /\ UNCHANGED <<flight, position, closing, pc, ks, target, stop, halt, events, status,
                   asked, halts>>

(* The answer is lost and the order is not found: the name fails.  The     *)
(* request was accepted all the same, was refused, or is still under way.  *)
SubmitLost(e, n, i, side, qty) ==
    /\ Fault /\ Fails(e, n)
    /\ \/ Accept(i, side, qty) /\ UNCHANGED flight
       \/ UNCHANGED <<order, flight>>
       \/ /\ LateLanding
          /\ flight' = flight \cup {[id |-> i, side |-> side, qty |-> qty]}
          /\ UNCHANGED order
    /\ UNCHANGED <<position, closing, pc, ks, target, seen, stop, halt, store, asked, halts>>

(* The reference price cannot be had, a read fails: the name fails.        *)
LegFails(e, n) ==
    /\ pc[e] \in {"submit", "cancel", "close", "market", "close_market"}
    /\ n \in todo[e]
    /\ Fault /\ Fails(e, n)
    /\ UNCHANGED <<broker, pc, ks, target, seen, stop, halt, store, asked, halts>>

SubmitLimit(e, n) ==
    /\ pc[e] = "submit" /\ n \in todo[e]
    /\ LET t == target[e][n] IN
         Submitted(e, n, Lim(n), t.side, t.qty) \/ SubmitLost(e, n, Lim(n), t.side, t.qty)

(* One shared wait ends; what is still working is to be cancelled.         *)
EndSubmit(e) ==
    /\ pc[e] = "submit" /\ todo[e] = {}
    /\ Enter(e, "cancel", {n \in Live(e) : Working(seen[e][Lim(n)])})
    /\ UNCHANGED <<broker, ks, target, seen, failed, stop, halt, store, history>>

\* Seeded bug: the re-read decides that nothing is cancelled.
CancelLimitOnlyReads(e, n) ==
    /\ pc[e] = "cancel" /\ n \in todo[e]
    /\ seen' = [seen EXCEPT ![e][Lim(n)] = order[Lim(n)]]
    /\ Handled(e, n)
    /\ UNCHANGED <<broker, pc, ks, target, failed, stop, halt, store, history>>

(* The limit is read again; if it still works it is asked to cancel.       *)
CancelLimit(e, n) ==
    /\ pc[e] = "cancel" /\ n \in todo[e]
    /\ seen' = [seen EXCEPT ![e][Lim(n)] = order[Lim(n)]]
    /\ order' = AskedToCancel({Lim(n)})
    /\ Handled(e, n)
    /\ UNCHANGED <<flight, position, closing, pc, ks, target, failed, stop, halt, store, history>>

(* The cancel fails after the order was read again; the broker may have    *)
(* taken the request all the same.                                         *)
CancelFails(e, n) ==
    /\ pc[e] = "cancel" /\ n \in todo[e]
    /\ Fault /\ Fails(e, n)
    /\ seen' = [seen EXCEPT ![e][Lim(n)] = order[Lim(n)]]
    /\ order' \in {order, AskedToCancel({Lim(n)})}
    /\ UNCHANGED <<flight, position, closing, pc, ks, target, stop, halt, store, asked, halts>>

EndCancel(e) ==
    /\ pc[e] = "cancel" /\ todo[e] = {}
    /\ Enter(e, "await", {})
    /\ UNCHANGED <<broker, ks, target, seen, failed, stop, halt, store, history>>

(* _await_all: every order still waited for is read until all are          *)
(* terminal, or the polls run out.                                         *)
AwaitAll(e, leg) ==
    LET waited == {n \in Live(e) : Working(seen[e][<<n, leg>>])}
    IN  /\ seen' = [seen EXCEPT ![e] =
               [i \in Ids |-> IF i[1] \in waited /\ i[2] = leg THEN order[i] ELSE @[i]]]
        /\ IF \A n \in waited : Terminal(order[<<n, leg>>]) THEN UNCHANGED faults ELSE Fault

AwaitLimits(e) ==
    /\ pc[e] = "await"
    /\ AwaitAll(e, "lim")
    /\ Enter(e, "close", {n \in Live(e) : Exists(seen[e][Lim(n)])})
    /\ UNCHANGED <<broker, ks, target, failed, stop, halt, store, asked, halts>>

\* Seeded bug: a cancel that was requested counts as confirmed.
CloseLimitUnconfirmed(e, n) ==
    /\ pc[e] = "close" /\ n \in todo[e]
    /\ Note(Lim(n), seen[e][Lim(n)])
    /\ Handled(e, n)
    /\ UNCHANGED <<broker, pc, ks, target, seen, failed, stop, halt, events, status, history>>

(* The limit's row is written; a limit that is not terminal fails the      *)
(* name, one that filled beyond the target also stops all new exposure.    *)
CloseLimit(e, n) ==
    /\ pc[e] = "close" /\ n \in todo[e]
    /\ LET lim == seen[e][Lim(n)] IN
         /\ Note(Lim(n), lim)
         /\ IF Terminal(lim) /\ lim.filled <= target[e][n].qty
            THEN Handled(e, n) /\ UNCHANGED <<failed, stop>>
            ELSE Fails(e, n) /\ stop' = [stop EXCEPT ![e] = @ \/ Terminal(lim)]
    /\ UNCHANGED <<broker, pc, ks, target, seen, halt, events, status, history>>

EndClose(e) ==
    /\ pc[e] = "close" /\ todo[e] = {}
    /\ Enter(e, "gate2", {})
    /\ UNCHANGED <<broker, ks, target, seen, failed, stop, halt, store, history>>

(* The residual goes out as a market order, unless one exists already (it  *)
(* is taken over) or the kill switch forbids it.                           *)
SubmitMarket(e, n) ==
    /\ pc[e] = "market" /\ n \in todo[e]
    /\ LET side == target[e][n].side IN
         IF Exists(order[Mkt(n)])
         THEN /\ seen' = [seen EXCEPT ![e][Mkt(n)] = order[Mkt(n)]]
              /\ Handled(e, n)
              /\ UNCHANGED <<broker, pc, ks, target, failed, stop, halt, store, history>>
         ELSE IF Allows(e, side)
         THEN \/ Submitted(e, n, Mkt(n), side, Residual(e, n))
              \/ SubmitLost(e, n, Mkt(n), side, Residual(e, n))
         ELSE /\ Handled(e, n)
              /\ UNCHANGED <<broker, pc, ks, target, seen, failed, stop, halt, store, history>>

EndMarket(e) ==
    /\ pc[e] = "market" /\ todo[e] = {}
    /\ Enter(e, "await_market", {})
    /\ UNCHANGED <<broker, ks, target, seen, failed, stop, halt, store, history>>

AwaitMarkets(e) ==
    /\ pc[e] = "await_market"
    /\ AwaitAll(e, "mkt")
    /\ Enter(e, "close_market", {n \in Live(e) : Exists(seen[e][Mkt(n)])})
    /\ UNCHANGED <<broker, ks, target, failed, stop, halt, store, asked, halts>>

Filled(e, n) == seen[e][Lim(n)].filled + seen[e][Mkt(n)].filled

CloseMarket(e, n) ==
    /\ pc[e] = "close_market" /\ n \in todo[e]
    /\ Note(Mkt(n), seen[e][Mkt(n)])
    /\ IF Filled(e, n) <= target[e][n].qty
       THEN Handled(e, n) /\ UNCHANGED failed
       ELSE Fails(e, n)
    /\ UNCHANGED <<broker, pc, ks, target, seen, stop, halt, events, status, history>>

\* Seeded bug: an attempt without errors counts as complete.
CompleteWithoutFills(e) == failed[e] = {} /\ ~ks[e]

(* Errors are raised, a halted attempt returns.  Otherwise the run is      *)
(* EXECUTED when every target is filled and its limit has a stored row.    *)
Complete(e) ==
    /\ failed[e] = {} /\ ~ks[e]
    /\ \A n \in Names : Asks(target[e][n]) =>
          Filled(e, n) = target[e][n].qty /\ Exists(row[Lim(n)])

\* mark_executed moves the run only from ANCHORED.
EndBook(e) ==
    /\ pc[e] = "close_market" /\ todo[e] = {}
    /\ status' = IF Complete(e) /\ status = "anchored" THEN "executed" ELSE status
    /\ End(e)
    /\ UNCHANGED <<broker, halt, row, events, history>>

(* The worker dies, or a call that is not guarded raises.  A dead worker's *)
(* halt records nothing.                                                   *)
Abort(e) ==
    /\ ~Idle(e)
    /\ Fault
    /\ End(e)
    /\ halt' = [halt EXCEPT ![e] = Quiet]
    /\ UNCHANGED <<broker, store, asked, halts>>

(* reconcile_orders reads every stored order that looks working and keeps  *)
(* the ones that changed at the broker ...                                 *)
ReadOpenRows(e) ==
    LET changed == {i \in Ids : Working(row[i]) /\ order[i] # row[i]}
    IN  /\ Idle(e) /\ Free(e)
        /\ changed # {}
        /\ seen' = [seen EXCEPT ![e] = [i \in Ids |-> IF i \in changed THEN order[i] ELSE @[i]]]
        /\ Enter(e, "reconcile", {})
        /\ UNCHANGED <<broker, ks, target, failed, stop, halt, store, history>>

\* Seeded bug: reconciliation brings the fills but not the status.
WriteFillsOnly(e) ==
    /\ pc[e] = "reconcile"
    /\ row' = [i \in Ids |-> IF Exists(seen[e][i])
                             THEN [seen[e][i] EXCEPT !.status = row[i].status]
                             ELSE row[i]]
    /\ End(e)
    /\ UNCHANGED <<broker, halt, events, status, history>>

(* ... then writes what it read, whatever the rows say by then.            *)
WriteFresh(e) ==
    /\ pc[e] = "reconcile"
    /\ row' = [i \in Ids |-> IF Exists(seen[e][i]) THEN seen[e][i] ELSE row[i]]
    /\ End(e)
    /\ UNCHANGED <<broker, halt, events, status, history>>

ReconcileOrders(e) == ReadOpenRows(e) \/ WriteFresh(e)

-----------------------------------------------------------------------------
HaltStep(p) ==
    \/ ListNone(p) \/ ListSome(p) \/ CancelListed(p) \/ ConfirmListed(p)
    \/ ClosePositions(p) \/ HaltFails(p) \/ RecordHalt(p) \/ RecordFails(p)

OperatorStep(p) == ManualHalt(p) \/ HaltDies(p)

GateStep(e) == GatePass(e) \/ GateSettle(e) \/ GateTrigger(e)

BookStep(e) ==
    \/ LookUp(e) \/ PlanTargets(e) \/ OpenLegs(e)
    \/ EndSubmit(e) \/ EndCancel(e) \/ AwaitLimits(e) \/ EndClose(e)
    \/ EndMarket(e) \/ AwaitMarkets(e) \/ EndBook(e)
    \/ \E n \in Names :
          \/ SubmitLimit(e, n) \/ CancelLimit(e, n) \/ CancelFails(e, n) \/ CloseLimit(e, n)
          \/ SubmitMarket(e, n) \/ CloseMarket(e, n) \/ LegFails(e, n)

ExecutorStep(e) == Start(e) \/ GateStep(e) \/ BookStep(e) \/ Abort(e) \/ ReconcileOrders(e)

Next ==
    \/ BrokerStep /\ UNCHANGED <<attempt, halt, store, history>>
    \/ \E e \in Executors : ExecutorStep(e)
    \/ \E p \in Operators : OperatorStep(p)
    \/ \E p \in Procs : HaltStep(p)

Spec == Init /\ [][Next]_vars

(* What the schedule justifies.  A task that fails transiently is retried  *)
(* (MAX_RETRIES = 3, more than MaxFaults) and the task of a dead worker is *)
(* redelivered (acks_late), so an attempt starts and, once started, keeps  *)
(* going; sweep queues execute while the run is ANCHORED and its window is *)
(* open, and reconcile again and again while a stored order looks working  *)
(* (strong fairness: it needs the lock, which others hold in between).     *)
(* The broker answers cancels and trades market orders.                    *)
Fairness ==
    /\ \A e \in Executors : /\ WF_vars(Start(e))
                            /\ WF_vars(GateStep(e) \/ BookStep(e) \/ WriteFresh(e))
                            /\ SF_vars(ReadOpenRows(e))
    /\ \A p \in Procs : WF_vars(HaltStep(p))
    /\ \A n \in Names : WF_vars(Fill(Mkt(n)) /\ UNCHANGED <<attempt, halt, store, history>>)
    /\ \A i \in Ids : WF_vars(ConfirmCancel(i) /\ UNCHANGED <<attempt, halt, store, history>>)

FairSpec == Spec /\ Fairness

-----------------------------------------------------------------------------
(* Properties.                                                             *)

Traded(n) == order[Lim(n)].filled + order[Mkt(n)].filled

(* "The total can never exceed the target" (executor.py:14-18): the two    *)
(* legs of a name together never fill more than one target some attempt    *)
(* asked for, whatever races the cancel, and however many attempts, lost   *)
(* answers or workers there are.                                           *)
WithinTarget(n, qty) == \E t \in asked[n] : qty <= t.qty
NoOverfill == \A n \in Names : Exists(order[Lim(n)]) => WithinTarget(n, Traded(n))

(* A second order of a name exists only once its limit order is final at   *)
(* the broker, and even its whole quantity fits the target: a cancel that  *)
(* is only requested never lets the residual out (executor.py:388-421).    *)
SecondLegWaits ==
    \A n \in Names : Exists(order[Mkt(n)]) =>
        /\ Terminal(order[Lim(n)])
        /\ WithinTarget(n, order[Lim(n)].filled + order[Mkt(n)].qty)

(* What makes the two inductive: what an attempt still has to send is      *)
(* bounded too, and a read that said "terminal" stays true.                *)
SeenIsFinal ==
    \A e \in Executors : \A i \in Ids :
        Terminal(seen[e][i]) => order[i] = seen[e][i]

TargetsAreAsked ==
    \A e \in Executors : pc[e] \notin {"idle", "start", "look", "plan", "reconcile"} =>
        \A n \in Names : target[e][n] \in asked[n]

Backed(i, qty) ==
    IF i[2] = "lim" THEN WithinTarget(i[1], qty)
    ELSE /\ Terminal(order[Lim(i[1])])
         /\ WithinTarget(i[1], order[Lim(i[1])].filled + qty)

OrdersAreBacked ==
    /\ \A i \in Ids : Exists(order[i]) => Backed(i, order[i].qty)
    /\ \A r \in flight : Backed(r.id, r.qty)

LimitsAreClosed ==
    \A e \in Executors :
        pc[e] \in {"close", "gate2", "market", "await_market", "close_market"} =>
            \A n \in Live(e) : \/ pc[e] = "close" /\ n \in todo[e]
                               \/ Exists(seen[e][Lim(n)]) => Terminal(seen[e][Lim(n)])

ResidualsAreLeft ==
    \A e \in Executors : pc[e] = "market" =>
        \A n \in todo[e] : /\ n \in Live(e) /\ Exists(seen[e][Lim(n)])
                           /\ Residual(e, n) > 0

SubmitsAsk ==
    \A e \in Executors : pc[e] = "submit" => \A n \in todo[e] : Asks(target[e][n])

OrdersMakeSense ==
    /\ \A i \in Ids : Working(order[i]) => order[i].filled < order[i].qty
    /\ \A i \in Ids : ~Exists(order[i]) => order[i].filled = 0

RoundsAreLeft ==
    \A p \in Procs : halt[p].at \in {"cancel", "confirm"} => halt[p].round < Rounds

ExposureInv ==
    /\ OrdersMakeSense
    /\ RoundsAreLeft
    /\ SubmitsAsk
    /\ OrdersAreBacked
    /\ SeenIsFinal
    /\ TargetsAreAsked
    /\ LimitsAreClosed
    /\ ResidualsAreLeft

(* Long-only (kill_switch.py:114): the run's own orders never sell more    *)
(* than is held, replays and re-planned targets included.                  *)
LongOnly == \A n \in Names : position[n] >= 0

(* EXECUTED means executed (execution_stage.py:220-242): every order of    *)
(* the run is final at the broker and its stored row says exactly what the *)
(* broker says.                                                            *)
ExecutedIsBacked ==
    status = "executed" =>
        \A i \in Ids : Exists(order[i]) => Terminal(order[i]) /\ row[i] = order[i]

(* A stored row never claims a fill the broker has not reported, nor a     *)
(* final state the order does not have, though rows are written from reads *)
(* that may be old (executor.py:339-343, write.py:805-834).                *)
RowsNeverOverstate ==
    \A i \in Ids : Exists(row[i]) =>
        /\ Exists(order[i]) /\ row[i].qty = order[i].qty /\ row[i].side = order[i].side
        /\ row[i].filled <= order[i].filled
        /\ Terminal(row[i]) => row[i] = order[i]

(* "Automatic halt cancels open orders and stops new ones": once an event  *)
(* is on record no new buy reaches the broker, from this attempt or from a *)
(* later one; sells still may (executor.py:347-376, 405-413).              *)
HaltStopsBuying ==
    [][\A i \in Ids : (events # {} /\ ~Exists(order[i]) /\ Exists(order'[i]))
                         => order'[i].side = "sell"]_vars

(* A run's end is final: EXECUTED happens once, only a halt follows it,    *)
(* and no attempt ever takes a halted run back.                            *)
EndsAreFinal ==
    [][/\ status = "halted" => status' = "halted"
       /\ status = "executed" => status' \in {"executed", "halted"}
       /\ (status = "anchored" /\ status' = "executed") => events = {}]_vars

(* "BUY adds risk, SELL reduces it" (kill_switch.py:113-115), which is why *)
(* a halted attempt may still sell: what it sells is held.                 *)
HaltedSellsReduce ==
    [][\A e \in Executors : \A i \in Ids :
          (/\ ks[e] /\ todo'[e] # todo[e]
           /\ ~Exists(order[i]) /\ Exists(order'[i]) /\ order'[i].side = "sell")
             => order'[i].qty <= position[i[1]] - closing[i[1]]]_vars

(* "The halt event is recorded even when the action fails part-way, so a   *)
(* halt is never lost" (halt.py:6): with a store that accepts writes, what *)
(* a halt did is on record when it ends.                                   *)
HaltIsRecorded ==
    [][\A p \in Procs :
          (/\ halt[p].at = "record" /\ halt'[p].at = "quiet" /\ faults' = faults
           /\ halt[p].done /\ halt[p].kind = "flatten")
             => \E v \in events' : v.flattened]_vars

(* Stored evidence catches up: a row whose order is final ends up saying   *)
(* so, across crashes and failed writes (execution_stage.py:245-259).      *)
EvidenceSettles ==
    \A i \in Ids : (Exists(row[i]) /\ Terminal(order[i])) ~> (row[i] = order[i])

(* No order is left working: the attempt that sent it, or a later one,     *)
(* drives it to a final state without waiting for the session to end.      *)
OrdersSettle == \A i \in Ids : Working(order[i]) ~> Terminal(order[i])

(* The run implements Exposure.                                            *)
Wanted(n) == {t.qty : t \in asked[n]}
E == INSTANCE Exposure WITH wanted <- [n \in Names |-> Wanted(n)],
                            traded <- [n \in Names |-> Traded(n)]
ImplementsExposure == E!Spec

=============================================================================
