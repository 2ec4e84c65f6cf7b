------------------------ MODULE OrderExecutionProofs ------------------------
(* What TLAPS proves of OrderExecution, for every book, any number of      *)
(* workers and operators.  The first theorems hold with and without the    *)
(* execute lock, and with submissions that land late; what needs the lock, *)
(* or the absence of operators, says so in its ASSUME.                     *)
EXTENDS OrderExecution, TLAPS

-----------------------------------------------------------------------------
(* How one step may change the broker's orders.                            *)

\* An order keeps its side and quantity, never loses a fill, and never changes
\* once it is final.
Later(o, new) ==
    /\ Exists(o) => /\ Exists(new) /\ new.side = o.side /\ new.qty = o.qty
                    /\ o.filled <= new.filled
    /\ Terminal(o) => new = o

OrdersAdvance == \A i \in Ids : Later(order[i], order'[i])

OrderInv ==
    /\ order \in [Ids -> Orders]
    /\ \A i \in Ids : order[i].filled <= order[i].qty
    /\ OrdersMakeSense

LEMMA UnchangedAdvances ==
    ASSUME OrderInv, UNCHANGED order
    PROVE  OrderInv' /\ OrdersAdvance
BY DEF OrderInv, OrdersMakeSense, OrdersAdvance, Later, Orders, Terminal, Working, Exists

\* A submission creates an order or finds one.
LEMMA AcceptAdvances ==
    ASSUME OrderInv, NEW i \in Ids, NEW side \in Sides, NEW qty \in 1..MaxQty,
           Accept(i, side, qty)
    PROVE  /\ OrderInv' /\ OrdersAdvance
           /\ Exists(order'[i])
           /\ \A j \in Ids \ {i} : order'[j] = order[j]
           /\ ~Exists(order[i]) => order'[i].qty = qty
<1>1. PICK st \in {"open", "rejected"} :
          order' = [order EXCEPT ![i] = IF Exists(@) THEN @ ELSE Placed(side, qty, st)]
  BY DEF Accept
<1>2. Placed(side, qty, st) \in Orders
  BY BrokerAssumption DEF Placed, Orders, WorkingStatus, TerminalStatus
<1> QED
  BY <1>1, <1>2, BrokerAssumption
  DEF OrderInv, OrdersMakeSense, OrdersAdvance, Later, Orders, Placed, Exists, Working,
      Terminal, WorkingStatus, TerminalStatus

LEMMA CancelAdvances ==
    ASSUME OrderInv, NEW S, order' = AskedToCancel(S)
    PROVE  /\ OrderInv' /\ OrdersAdvance
           /\ \A i \in Ids : Exists(order'[i]) => Exists(order[i])
BY DEF AskedToCancel, OrderInv, OrdersMakeSense, OrdersAdvance, Later, Orders, Exists,
       Working, Terminal, WorkingStatus, TerminalStatus

LEMMA FillAdvances ==
    ASSUME OrderInv, NEW i \in Ids, Fill(i)
    PROVE  /\ OrderInv' /\ OrdersAdvance
           /\ \A j \in Ids : Exists(order'[j]) => Exists(order[j])
<1>1. order[i].filled \in Nat /\ order[i].qty \in 0..MaxQty /\ order[i].filled < order[i].qty
  BY DEF OrderInv, OrdersMakeSense, Fill, Orders
<1>2. order[i].filled + 1 \in 0..MaxQty /\ order[i].filled + 1 <= order[i].qty
  BY <1>1, BrokerAssumption
<1>3. order' = [order EXCEPT ![i] = [order[i] EXCEPT
           !.filled = order[i].filled + 1,
           !.status = IF order[i].filled + 1 = order[i].qty THEN "filled" ELSE order[i].status]]
  BY DEF Fill
<1> QED
  BY <1>1, <1>2, <1>3, BrokerAssumption
  DEF Fill, OrderInv, OrdersMakeSense, OrdersAdvance, Later, Orders, Exists,
      Working, Terminal, WorkingStatus, TerminalStatus

LEMMA EndingAdvances ==
    ASSUME OrderInv, NEW i \in Ids, ConfirmCancel(i) \/ Expire(i)
    PROVE  /\ OrderInv' /\ OrdersAdvance
           /\ \A j \in Ids : Exists(order'[j]) => Exists(order[j])
BY BrokerAssumption
DEF ConfirmCancel, Expire, OrderInv, OrdersMakeSense, OrdersAdvance, Later, Orders, Exists,
    Working, Terminal, WorkingStatus, TerminalStatus

-----------------------------------------------------------------------------
(* What is asked for: orders and requests never outgrow the targets.       *)

AskedGrows == \A n \in Names : asked[n] \subseteq asked'[n]

\* A backed quantity stays backed: targets are only added, and a final limit
\* order does not change.
LEMMA BackedStays ==
    ASSUME OrderInv, OrdersAdvance, AskedGrows, NEW i \in Ids, NEW qty, Backed(i, qty)
    PROVE  Backed(i, qty)'
<1>1. i[1] \in Names /\ Lim(i[1]) \in Ids
  BY DEF Ids, Lim, Legs
<1> QED
  BY <1>1 DEF OrdersAdvance, AskedGrows, Backed, WithinTarget, Later

\* It is enough to look at the orders and requests a step adds.
LEMMA BackedStep ==
    ASSUME OrderInv, flight \subseteq Requests, OrdersAreBacked, OrdersAdvance, AskedGrows,
           \A i \in Ids : ~Exists(order[i]) /\ Exists(order'[i]) => Backed(i, order[i].qty)',
           \A r \in flight' : r \in flight \/ (r.id \in Ids /\ Backed(r.id, r.qty)')
    PROVE  OrdersAreBacked'
<1>1. ASSUME NEW i \in Ids, Exists(order'[i]) PROVE Backed(i, order[i].qty)'
  <2>1. CASE Exists(order[i])
    <3>1. PICK q : q = order[i].qty
      OBVIOUS
    <3>2. order'[i].qty = q /\ Backed(i, q)
      BY <2>1, <3>1 DEF OrdersAdvance, Later, OrdersAreBacked
    <3>3. Backed(i, q)'
      BY <3>2, BackedStays
    <3> QED BY <3>2, <3>3
  <2> QED BY <1>1, <2>1
<1>2. ASSUME NEW r \in flight' PROVE Backed(r.id, r.qty)'
  <2>1. CASE r \in flight
    <3>1. r.id \in Ids /\ Backed(r.id, r.qty)
      BY <2>1 DEF Requests, OrdersAreBacked
    <3> QED BY <3>1, BackedStays
  <2> QED BY <1>2, <2>1
<1> QED BY <1>1, <1>2 DEF OrdersAreBacked

BrokerInv == OrderInv /\ flight \subseteq Requests /\ OrdersAreBacked

LEMMA BrokerUnchanged ==
    ASSUME BrokerInv, AskedGrows, UNCHANGED <<order, flight>>
    PROVE  BrokerInv' /\ OrdersAdvance
<1>1. OrderInv' /\ OrdersAdvance
  BY UnchangedAdvances DEF BrokerInv
<1> QED BY <1>1, BackedStep DEF BrokerInv

\* Steps that change orders without adding any.
LEMMA NothingNewIsBacked ==
    ASSUME BrokerInv, AskedGrows, UNCHANGED flight, OrderInv', OrdersAdvance,
           \A i \in Ids : Exists(order'[i]) => Exists(order[i])
    PROVE  BrokerInv'
BY BackedStep DEF BrokerInv

\* The broker by itself trades, ends and lands only what was asked for.
LEMMA BrokerStepKeeps ==
    ASSUME BrokerInv, BrokerStep, UNCHANGED asked
    PROVE  BrokerInv' /\ OrdersAdvance
<1> AskedGrows
  BY DEF AskedGrows
<1>1. ASSUME NEW r \in flight, Land(r) PROVE BrokerInv' /\ OrdersAdvance
  <2>1. r.id \in Ids /\ r.side \in Sides /\ r.qty \in 1..MaxQty /\ r \in flight
    BY DEF BrokerInv, Requests
  <2>2. Accept(r.id, r.side, r.qty) /\ flight' \subseteq flight
    BY <1>1 DEF Land
  <2>3. /\ OrderInv' /\ OrdersAdvance
        /\ \A j \in Ids \ {r.id} : order'[j] = order[j]
        /\ ~Exists(order[r.id]) => order'[r.id].qty = r.qty
    BY <2>1, <2>2, AcceptAdvances DEF BrokerInv
  <2>4. Backed(r.id, r.qty)'
    BY <2>1, <2>3, BackedStays DEF BrokerInv, OrdersAreBacked
  <2>5. ASSUME NEW i \in Ids, ~Exists(order[i]), Exists(order'[i])
        PROVE  Backed(i, order[i].qty)'
    <3>1. i = r.id
      BY <2>3, <2>5
    <3> QED BY <3>1, <2>3, <2>4, <2>5
  <2> QED BY <2>2, <2>3, <2>5, BackedStep DEF BrokerInv
<1>2. ASSUME NEW r \in flight, Drop(r) PROVE BrokerInv' /\ OrdersAdvance
  <2>1. UNCHANGED order /\ flight' \subseteq flight
    BY <1>2 DEF Drop
  <2>2. OrderInv' /\ OrdersAdvance
    BY <2>1, UnchangedAdvances DEF BrokerInv
  <2> QED BY <2>1, <2>2, BackedStep DEF BrokerInv
<1>3. ASSUME NEW i \in Ids, Fill(i) PROVE BrokerInv' /\ OrdersAdvance
  <2>1. UNCHANGED flight
    BY <1>3 DEF Fill
  <2> QED BY <1>3, <2>1, FillAdvances, NothingNewIsBacked DEF BrokerInv
<1>4. ASSUME NEW i \in Ids, ConfirmCancel(i) \/ Expire(i) PROVE BrokerInv' /\ OrdersAdvance
  <2>1. UNCHANGED flight
    BY <1>4 DEF ConfirmCancel, Expire
  <2> QED BY <1>4, <2>1, EndingAdvances, NothingNewIsBacked DEF BrokerInv
<1>5. ASSUME NEW n \in Names, CloseFill(n) PROVE BrokerInv' /\ OrdersAdvance
  BY <1>5, BrokerUnchanged DEF CloseFill
<1> QED BY <1>1, <1>2, <1>3, <1>4, <1>5 DEF BrokerStep

\* A submission of a backed quantity, answered or lost.
LEMMA SubmissionKeeps ==
    ASSUME BrokerInv, UNCHANGED asked, NEW i \in Ids, NEW side \in Sides, NEW qty \in 1..MaxQty,
           Backed(i, qty),
           \/ Accept(i, side, qty) /\ UNCHANGED flight
           \/ UNCHANGED <<order, flight>>
           \/ UNCHANGED order /\ flight' = flight \cup {[id |-> i, side |-> side, qty |-> qty]}
    PROVE  BrokerInv' /\ OrdersAdvance
<1> AskedGrows
  BY DEF AskedGrows
<1>1. CASE Accept(i, side, qty) /\ UNCHANGED flight
  <2>1. /\ OrderInv' /\ OrdersAdvance
        /\ \A j \in Ids \ {i} : order'[j] = order[j]
        /\ ~Exists(order[i]) => order'[i].qty = qty
    BY <1>1, AcceptAdvances DEF BrokerInv
  <2>2. Backed(i, qty)'
    BY <2>1, BackedStays DEF BrokerInv
  <2>3. ASSUME NEW j \in Ids, ~Exists(order[j]), Exists(order'[j])
        PROVE  Backed(j, order[j].qty)'
    <3>1. j = i
      BY <2>1, <2>3
    <3> QED BY <3>1, <2>1, <2>2, <2>3
  <2> QED BY <1>1, <2>1, <2>3, BackedStep DEF BrokerInv
<1>2. CASE UNCHANGED <<order, flight>>
  BY <1>2, BrokerUnchanged
<1>3. CASE UNCHANGED order /\ flight' = flight \cup {[id |-> i, side |-> side, qty |-> qty]}
  <2>1. OrderInv' /\ OrdersAdvance
    BY <1>3, UnchangedAdvances DEF BrokerInv
  <2>2. Backed(i, qty)'
    BY <2>1, BackedStays DEF BrokerInv
  <2>3. flight' \subseteq Requests
    BY <1>3 DEF BrokerInv, Requests
  <2>4. \A r \in flight' : r \in flight \/ (r.id \in Ids /\ Backed(r.id, r.qty)')
    BY <1>3, <2>2
  <2>5. OrdersAreBacked'
    BY <1>3, <2>1, <2>4, BackedStep DEF BrokerInv
  <2> QED BY <2>1, <2>3, <2>5 DEF BrokerInv
<1> QED BY <1>1, <1>2, <1>3

-----------------------------------------------------------------------------
(* The attempts: what each remembers of its targets, its reads and the     *)
(* names it has still to handle.                                           *)

AttemptTypes ==
    /\ pc \in [Executors -> Phases]
    /\ ks \in [Executors -> BOOLEAN]
    /\ todo \in [Executors -> SUBSET Names]
    /\ target \in [Executors -> [Names -> Targets]]
    /\ seen \in [Executors -> [Ids -> Orders]]
    /\ failed \in [Executors -> SUBSET Names]
    /\ stop \in [Executors -> BOOLEAN]

AttemptInv ==
    /\ AttemptTypes
    /\ SubmitsAsk
    /\ TargetsAreAsked
    /\ LimitsAreClosed
    /\ ResidualsAreLeft

\* Reads are never ahead of the broker.
LEMMA SeenStays ==
    ASSUME OrderInv, SeenIsFinal, OrdersAdvance,
           \A e \in Executors : \A i \in Ids : seen'[e][i] \in {seen[e][i], order'[i], Absent}
    PROVE  SeenIsFinal'
BY DEF SeenIsFinal, OrdersAdvance, Later, Terminal, Absent, TerminalStatus

LEMMA AttemptsStay ==
    ASSUME AttemptInv, AskedGrows, UNCHANGED attempt
    PROVE  AttemptInv'
BY DEF AttemptInv, AttemptTypes, SubmitsAsk, TargetsAreAsked, LimitsAreClosed, ResidualsAreLeft,
       AskedGrows, attempt, Live, Residual

LEMMA NothingTypes ==
    /\ NoTarget \in Targets
    /\ Absent \in Orders
BY BrokerAssumption DEF NoTarget, Targets, Sides, Absent, Orders

LEMMA EndKeeps ==
    ASSUME AttemptInv, UNCHANGED asked, NEW e \in Executors, End(e)
    PROVE  /\ AttemptInv'
           /\ \A f \in Executors : \A i \in Ids : seen'[f][i] \in {seen[f][i], Absent}
<1>1. AttemptTypes'
  BY NothingTypes DEF AttemptInv, AttemptTypes, End, Forget, Phases
<1>2. /\ pc'[e] = "idle"
      /\ \A f \in Executors \ {e} :
            /\ pc'[f] = pc[f] /\ todo'[f] = todo[f] /\ target'[f] = target[f]
            /\ seen'[f] = seen[f] /\ failed'[f] = failed[f]
  BY DEF AttemptInv, AttemptTypes, End, Forget
<1>3. \A i \in Ids : seen'[e][i] = Absent
  BY DEF AttemptInv, AttemptTypes, End, Forget
<1>4. SubmitsAsk' /\ TargetsAreAsked'
  BY <1>2 DEF AttemptInv, SubmitsAsk, TargetsAreAsked
<1>5. LimitsAreClosed' /\ ResidualsAreLeft'
  BY <1>2 DEF AttemptInv, LimitsAreClosed, ResidualsAreLeft, Live, Residual
<1> QED BY <1>1, <1>2, <1>3, <1>4, <1>5 DEF AttemptInv

\* Entering a phase whose names are chosen from what the attempt knows.
LEMMA EnterKeeps ==
    ASSUME AttemptInv, AskedGrows, NEW e \in Executors, NEW phase \in Phases,
           NEW names \in SUBSET Names, Enter(e, phase, names),
           UNCHANGED <<target, seen, failed, stop>>, ks' \in [Executors -> BOOLEAN],
           phase = "submit" => \A n \in names : Asks(target[e][n]),
           phase \notin {"idle", "start", "look", "plan", "reconcile"} =>
               \A n \in Names : target[e][n] \in asked'[n],
           phase \in {"close", "gate2", "market", "await_market", "close_market"} =>
               \A n \in Live(e) : \/ phase = "close" /\ n \in names
                                  \/ Exists(seen[e][Lim(n)]) => Terminal(seen[e][Lim(n)]),
           phase = "market" =>
               \A n \in names : n \in Live(e) /\ Exists(seen[e][Lim(n)]) /\ Residual(e, n) > 0
    PROVE  AttemptInv'
<1>1. AttemptTypes'
  BY DEF AttemptInv, AttemptTypes, Enter
<1>2. /\ pc'[e] = phase /\ todo'[e] = names
      /\ \A f \in Executors \ {e} : pc'[f] = pc[f] /\ todo'[f] = todo[f]
  BY DEF AttemptInv, AttemptTypes, Enter
<1>3. SubmitsAsk'
  BY <1>2 DEF AttemptInv, SubmitsAsk
<1>4. TargetsAreAsked'
  BY <1>2 DEF AttemptInv, TargetsAreAsked, AskedGrows
<1>5. LimitsAreClosed'
  BY <1>2 DEF AttemptInv, LimitsAreClosed, Live
<1>6. ResidualsAreLeft'
  BY <1>2 DEF AttemptInv, ResidualsAreLeft, Live, Residual
<1> QED BY <1>1, <1>3, <1>4, <1>5, <1>6 DEF AttemptInv

LEMMA PassKeeps ==
    ASSUME AttemptInv, AskedGrows, NEW e \in Executors, Pass(e),
           UNCHANGED <<target, seen, failed, stop>>, ks' \in [Executors -> BOOLEAN]
    PROVE  AttemptInv'
<1>1. CASE pc[e] = "start" /\ Enter(e, "look", {})
  BY <1>1, EnterKeeps DEF Phases
<1>2. CASE pc[e] = "gate1" /\ EnterSubmit(e)
  <2>1. \A n \in Names : target[e][n] \in asked'[n]
    BY <1>2 DEF AttemptInv, TargetsAreAsked, AskedGrows
  <2>2. PICK names \in SUBSET Names :
           names = {n \in Live(e) : ~Exists(seen[e][Lim(n)]) /\ Allows(e, target[e][n].side)}
    BY DEF Live
  <2>3. Enter(e, "submit", names) /\ \A n \in names : Asks(target[e][n])
    BY <1>2, <2>2 DEF EnterSubmit, Live
  <2> QED BY <2>1, <2>3, EnterKeeps DEF Phases
<1>3. CASE pc[e] = "gate2" /\ EnterMarket(e)
  <2>1. \A n \in Names : target[e][n] \in asked'[n]
    BY <1>3 DEF AttemptInv, TargetsAreAsked, AskedGrows
  <2>2. PICK names \in SUBSET Names :
           names = IF stop[e] THEN {}
                   ELSE {n \in Live(e) : /\ Exists(seen[e][Lim(n)])
                                         /\ seen[e][Lim(n)].status # "rejected"
                                         /\ Residual(e, n) > 0}
    BY DEF Live
  <2>3. /\ Enter(e, "market", names)
        /\ \A n \in names : n \in Live(e) /\ Exists(seen[e][Lim(n)]) /\ Residual(e, n) > 0
    BY <1>3, <2>2 DEF EnterMarket
  <2>4. \A n \in Live(e) : Exists(seen[e][Lim(n)]) => Terminal(seen[e][Lim(n)])
    BY <1>3 DEF AttemptInv, LimitsAreClosed
  <2> QED BY <2>1, <2>3, <2>4, EnterKeeps DEF Phases
<1> QED BY <1>1, <1>2, <1>3 DEF Pass

\* A leg is handled, with or without an error; the other legs are as before.
LEMMA HandledKeeps ==
    ASSUME AttemptInv, UNCHANGED asked, NEW e \in Executors, NEW n \in Names,
           Handled(e, n), UNCHANGED <<pc, ks, target>>,
           stop' \in [Executors -> BOOLEAN],
           seen' \in [Executors -> [Ids -> Orders]],
           \A f \in Executors : \A i \in Ids :
               f # e \/ (pc[e] \notin {"submit", "cancel"} /\ i # Mkt(n)) => seen'[f][i] = seen[f][i],
           \/ failed' = [failed EXCEPT ![e] = @ \cup {n}]
           \/ failed' = failed /\ (pc[e] = "close" => Terminal(seen[e][Lim(n)]))
    PROVE  AttemptInv'
<1>0. /\ failed' \in [Executors -> SUBSET Names]
      /\ \A f \in Executors : failed[f] \subseteq failed'[f]
      /\ failed' = failed \/ n \in failed'[e]
      /\ \A f \in Executors : \A k \in Names :
            k \in failed'[f] => k \in failed[f] \/ (f = e /\ k = n)
  <2>1. CASE failed' = [failed EXCEPT ![e] = @ \cup {n}]
    BY <2>1 DEF AttemptInv, AttemptTypes
  <2>2. CASE failed' = failed
    BY <2>2 DEF AttemptInv, AttemptTypes
  <2> QED BY <2>1, <2>2
<1>2. /\ todo' \in [Executors -> SUBSET Names]
      /\ todo'[e] = todo[e] \ {n}
      /\ \A f \in Executors \ {e} : todo'[f] = todo[f]
  BY DEF AttemptInv, AttemptTypes, Handled
<1>1. AttemptTypes'
  BY <1>0, <1>2 DEF AttemptInv, AttemptTypes
<1>3. \A f \in Executors : \A k \in Names :
         f # e \/ pc[e] \notin {"submit", "cancel"} => seen'[f][Lim(k)] = seen[f][Lim(k)]
  BY DEF Lim, Mkt, Ids, Legs
<1>4. SubmitsAsk' /\ TargetsAreAsked'
  BY <1>2 DEF AttemptInv, AttemptTypes, SubmitsAsk, TargetsAreAsked
<1>5. LimitsAreClosed'
  <2> SUFFICES ASSUME NEW f \in Executors,
                      pc[f] \in {"close", "gate2", "market", "await_market", "close_market"},
                      NEW k \in Live(f)'
               PROVE  \/ pc[f] = "close" /\ k \in todo'[f]
                      \/ Exists(seen[f][Lim(k)]) => Terminal(seen[f][Lim(k)])
    BY <1>3 DEF LimitsAreClosed, Live
  <2>1. k \in Live(f) /\ k \in Names
    BY <1>0 DEF Live
  <2>2. CASE f = e /\ k = n /\ pc[f] = "close"
    <3>1. n \notin failed'[e]
      BY <2>2 DEF Live
    <3> QED BY <1>0, <2>2, <3>1
  <2>3. CASE ~(f = e /\ k = n /\ pc[f] = "close")
    BY <1>2, <2>1, <2>3 DEF AttemptInv, LimitsAreClosed
  <2> QED BY <2>2, <2>3
<1>6. ResidualsAreLeft'
  <2> SUFFICES ASSUME NEW f \in Executors, pc[f] = "market", NEW k \in todo'[f]
               PROVE  /\ k \in Live(f)' /\ Exists(seen[f][Lim(k)])
                      /\ target[f][k].qty - seen[f][Lim(k)].filled > 0
                      /\ seen'[f][Lim(k)] = seen[f][Lim(k)]
    BY <1>3 DEF ResidualsAreLeft, Residual
  <2>1. k \in todo[f] /\ k \in Names /\ ~(f = e /\ k = n)
    BY <1>2 DEF AttemptInv, AttemptTypes
  <2>2. k \in Live(f) /\ Exists(seen[f][Lim(k)]) /\ Residual(f, k) > 0
    BY <2>1 DEF AttemptInv, ResidualsAreLeft
  <2>3. k \in Live(f)'
    BY <1>0, <2>1, <2>2 DEF Live
  <2> QED BY <1>3, <2>1, <2>2, <2>3 DEF Residual
<1> QED BY <1>1, <1>4, <1>5, <1>6 DEF AttemptInv

-----------------------------------------------------------------------------
(* Every step keeps the three together.                                    *)

Core == BrokerInv /\ AttemptInv /\ SeenIsFinal

\* Steps that leave the broker, the attempts and the targets alone.
LEMMA CoreUnchanged ==
    ASSUME Core, UNCHANGED <<broker, attempt, asked>>
    PROVE  Core' /\ OrdersAdvance
<1>1. AskedGrows
  BY DEF AskedGrows
<1>2. BrokerInv' /\ OrdersAdvance
  BY <1>1, BrokerUnchanged DEF Core, broker
<1>3. AttemptInv'
  BY <1>1, AttemptsStay DEF Core
<1>4. SeenIsFinal'
  BY DEF Core, SeenIsFinal, broker, attempt
<1> QED BY <1>2, <1>3, <1>4 DEF Core

\* Steps of an attempt that leave the broker and the targets alone.
LEMMA CoreQuiet ==
    ASSUME Core, UNCHANGED <<broker, asked>>, AttemptInv',
           \A e \in Executors : \A i \in Ids : seen'[e][i] \in {seen[e][i], order[i], Absent}
    PROVE  Core' /\ OrdersAdvance
<1>1. AskedGrows
  BY DEF AskedGrows
<1>2. BrokerInv' /\ OrdersAdvance
  BY <1>1, BrokerUnchanged DEF Core, broker
<1>3. SeenIsFinal'
  BY <1>2, SeenStays DEF Core, BrokerInv, broker
<1> QED BY <1>2, <1>3 DEF Core

LEMMA BrokerCore ==
    ASSUME Core, BrokerStep, UNCHANGED <<attempt, asked>>
    PROVE  Core' /\ OrdersAdvance
<1>1. BrokerInv' /\ OrdersAdvance
  BY BrokerStepKeeps DEF Core
<1>2. AttemptInv'
  BY AttemptsStay DEF Core, AskedGrows
<1>3. SeenIsFinal'
  BY <1>1, SeenStays DEF Core, BrokerInv, attempt
<1> QED BY <1>1, <1>2, <1>3 DEF Core

LEMMA GateCore ==
    ASSUME Core, NEW e \in Executors, GateStep(e)
    PROVE  Core' /\ OrdersAdvance
<1>1. CASE GatePass(e)
  <2>1. UNCHANGED <<broker, asked, target, seen, failed, stop, ks>> /\ Pass(e)
    BY <1>1 DEF GatePass, history
  <2>2. AttemptInv'
    BY <2>1, PassKeeps DEF Core, AskedGrows, AttemptInv, AttemptTypes
  <2> QED BY <2>1, <2>2, CoreQuiet
<1>2. CASE GateSettle(e) \/ GateTrigger(e)
  <2>1. /\ UNCHANGED <<broker, asked, pc, todo, target, seen, failed, stop>>
        /\ ks' \in [Executors -> BOOLEAN]
    BY <1>2 DEF GateSettle, GateTrigger, history, Core, AttemptInv, AttemptTypes
  <2>2. AttemptInv'
    BY <2>1 DEF Core, AttemptInv, AttemptTypes, SubmitsAsk, TargetsAreAsked, LimitsAreClosed,
                ResidualsAreLeft, Live, Residual
  <2> QED BY <2>1, <2>2, CoreQuiet
<1> QED BY <1>1, <1>2 DEF GateStep

LEMMA EndCore ==
    ASSUME Core, UNCHANGED <<broker, asked>>, NEW e \in Executors, End(e)
    PROVE  Core' /\ OrdersAdvance
BY EndKeeps, CoreQuiet DEF Core

LEMMA ResumeCore ==
    ASSUME Core, UNCHANGED <<broker, asked>>, NEW e \in Executors, Resume(e)
    PROVE  Core' /\ OrdersAdvance
<1>1. CASE End(e)
  BY <1>1, EndCore
<1>2. CASE Pass(e) /\ UNCHANGED <<ks, target, seen, failed, stop>>
  <2>1. AttemptInv'
    BY <1>2, PassKeeps DEF Core, AskedGrows, AttemptInv, AttemptTypes
  <2> QED BY <1>2, <2>1, CoreQuiet
<1> QED BY <1>1, <1>2 DEF Resume

\* Cancels of a halt; End when the halt ends the attempt.
LEMMA CancelCore ==
    ASSUME Core, NEW S, order' = AskedToCancel(S), UNCHANGED <<flight, asked>>,
           UNCHANGED attempt \/ (\E e \in Executors : End(e))
    PROVE  Core' /\ OrdersAdvance
<1> AskedGrows
  BY DEF AskedGrows
<1>1. BrokerInv' /\ OrdersAdvance
  BY CancelAdvances, NothingNewIsBacked DEF Core, BrokerInv
<1>2. CASE UNCHANGED attempt
  <2>1. AttemptInv'
    BY <1>2, AttemptsStay DEF Core
  <2>2. SeenIsFinal'
    BY <1>1, <1>2, SeenStays DEF Core, BrokerInv, attempt
  <2> QED BY <1>1, <2>1, <2>2 DEF Core
<1>3. CASE \E e \in Executors : End(e)
  <2>1. PICK e \in Executors : End(e)
    BY <1>3
  <2>2. AttemptInv' /\ \A f \in Executors : \A i \in Ids : seen'[f][i] \in {seen[f][i], Absent}
    BY <2>1, EndKeeps DEF Core
  <2>3. SeenIsFinal'
    BY <1>1, <2>2, SeenStays DEF Core, BrokerInv
  <2> QED BY <1>1, <2>2, <2>3 DEF Core
<1> QED BY <1>2, <1>3

\* A process that is no executor touches no attempt by ending or resuming one.
LEMMA EndOfNobody ==
    ASSUME AttemptTypes, NEW p, p \notin Executors, End(p)
    PROVE  UNCHANGED attempt
BY DEF AttemptTypes, End, Forget, attempt

LEMMA NobodyIsAtAGate ==
    ASSUME AttemptTypes, NEW p, p \notin Executors, Resume(p)
    PROVE  UNCHANGED attempt
<1>1. CASE End(p)
  BY <1>1, EndOfNobody
<1>2. CASE Pass(p) /\ UNCHANGED <<ks, target, seen, failed, stop>>
  BY <1>2 DEF Pass, EnterSubmit, EnterMarket, Enter, AttemptTypes, attempt
<1> QED BY <1>1, <1>2 DEF Resume

LEMMA HaltCore ==
    ASSUME Core, NEW p \in Procs, HaltStep(p)
    PROVE  Core' /\ OrdersAdvance
<1> AttemptTypes
  BY DEF Core, AttemptInv
<1>1. CASE ListNone(p)
  <2>1. UNCHANGED <<broker, asked>> /\ (Resume(p) \/ UNCHANGED attempt)
    BY <1>1 DEF ListNone, history
  <2> QED BY <2>1, ResumeCore, CoreUnchanged, NobodyIsAtAGate
<1>2. CASE ListSome(p) \/ ConfirmListed(p)
  BY <1>2, CoreUnchanged DEF ListSome, ConfirmListed, history
<1>3. CASE CancelListed(p)
  BY <1>3, CancelCore DEF CancelListed, history
<1>4. CASE ClosePositions(p)
  <2>1. UNCHANGED <<order, flight, attempt, asked>>
    BY <1>4 DEF ClosePositions, history
  <2>2. AskedGrows /\ BrokerInv' /\ OrdersAdvance
    BY <2>1, BrokerUnchanged DEF Core, AskedGrows
  <2>3. AttemptInv' /\ SeenIsFinal'
    BY <2>1, <2>2, AttemptsStay, SeenStays DEF Core, BrokerInv, attempt
  <2> QED BY <2>2, <2>3 DEF Core
<1>5. CASE HaltFails(p)
  <2>1. UNCHANGED <<flight, asked>> /\ (End(p) \/ UNCHANGED attempt)
    BY <1>5 DEF HaltFails
  <2>2. UNCHANGED attempt \/ (\E e \in Executors : End(e))
    BY <2>1, EndOfNobody
  <2>3. CASE \E S \in SUBSET halt[p].listed : order' = AskedToCancel(S)
    BY <2>1, <2>2, <2>3, CancelCore
  <2>4. CASE UNCHANGED order
    <3>1. order' = AskedToCancel({})
      BY <2>4 DEF AskedToCancel, Core, BrokerInv, OrderInv
    <3> QED BY <2>1, <2>2, <3>1, CancelCore
  <2> QED BY <1>5, <2>3, <2>4 DEF HaltFails
<1>6. CASE RecordHalt(p)
  <2>1. UNCHANGED <<broker, asked>> /\ (End(p) \/ Resume(p) \/ UNCHANGED attempt)
    BY <1>6 DEF RecordHalt, history
  <2> QED BY <2>1, EndCore, ResumeCore, CoreUnchanged, EndOfNobody, NobodyIsAtAGate
<1>7. CASE RecordFails(p)
  <2>1. UNCHANGED <<broker, asked>> /\ (End(p) \/ UNCHANGED attempt)
    BY <1>7 DEF RecordFails
  <2> QED BY <2>1, EndCore, CoreUnchanged, EndOfNobody
<1> QED BY <1>1, <1>2, <1>3, <1>4, <1>5, <1>6, <1>7 DEF HaltStep

-----------------------------------------------------------------------------
(* The steps of the book.                                                  *)

\* A submission made for a handled leg, from a backed quantity.
LEMMA SendCore ==
    ASSUME Core, NEW e \in Executors, NEW n \in Names, NEW i \in {Lim(n), Mkt(n)},
           NEW side \in Sides, NEW qty \in 1..MaxQty, Backed(i, qty),
           pc[e] = "submit" \/ (pc[e] = "market" /\ i = Mkt(n)),
           Submitted(e, n, i, side, qty) \/ SubmitLost(e, n, i, side, qty)
    PROVE  Core' /\ OrdersAdvance
<1>1. i \in Ids
  BY DEF Ids, Lim, Mkt, Legs
<1>2. BrokerInv' /\ OrdersAdvance
  BY <1>1, SubmissionKeeps DEF Core, Submitted, SubmitLost
<1>3. CASE Submitted(e, n, i, side, qty)
  <2>1. order'[i] \in Orders /\ seen' = [seen EXCEPT ![e][i] = order'[i]]
    BY <1>1, <1>2, <1>3 DEF Submitted, BrokerInv, OrderInv
  <2>2. /\ seen' \in [Executors -> [Ids -> Orders]]
        /\ \A f \in Executors : \A j \in Ids : (f # e \/ j # i) => seen'[f][j] = seen[f][j]
        /\ \A f \in Executors : \A j \in Ids : seen'[f][j] \in {seen[f][j], order'[j]}
    BY <1>1, <2>1 DEF Core, AttemptInv, AttemptTypes
  <2>3. \A f \in Executors : \A j \in Ids :
           f # e \/ (pc[e] \notin {"submit", "cancel"} /\ j # Mkt(n)) => seen'[f][j] = seen[f][j]
    BY <2>2
  <2>5. /\ Handled(e, n) /\ UNCHANGED <<pc, ks, target, stop, asked>>
        /\ failed' = failed \/ failed' = [failed EXCEPT ![e] = @ \cup {n}]
        /\ stop' \in [Executors -> BOOLEAN] /\ pc[e] # "close"
    BY <1>3 DEF Submitted, Fails, Core, AttemptInv, AttemptTypes
  <2>6. AttemptInv'
    BY <2>2, <2>3, <2>5, HandledKeeps DEF Core
  <2>4. SeenIsFinal'
    BY <1>2, <2>2, SeenStays DEF Core, BrokerInv
  <2> QED BY <1>2, <2>6, <2>4 DEF Core
<1>4. CASE SubmitLost(e, n, i, side, qty)
  <2>1. AttemptInv'
    BY <1>4, HandledKeeps DEF SubmitLost, Handled, Fails, Core, AttemptInv, AttemptTypes
  <2>2. SeenIsFinal'
    BY <1>2, <1>4, SeenStays DEF Core, BrokerInv, SubmitLost
  <2> QED BY <1>2, <2>1, <2>2 DEF Core
<1> QED BY <1>3, <1>4

LEMMA SubmitLimitCore ==
    ASSUME Core, NEW e \in Executors, NEW n \in Names, SubmitLimit(e, n)
    PROVE  Core' /\ OrdersAdvance
<1>1. pc[e] = "submit" /\ n \in todo[e]
  BY DEF SubmitLimit
<1>2. target[e][n] \in Targets /\ Asks(target[e][n]) /\ target[e][n] \in asked[n]
  BY <1>1 DEF Core, AttemptInv, AttemptTypes, SubmitsAsk, TargetsAreAsked
<1>3. PICK side \in Sides, qty \in 1..MaxQty : side = target[e][n].side /\ qty = target[e][n].qty
  BY <1>2, BrokerAssumption DEF Targets, Asks
<1>4. Backed(Lim(n), qty)
  BY <1>2, <1>3 DEF Backed, Lim, WithinTarget
<1>5. Submitted(e, n, Lim(n), side, qty) \/ SubmitLost(e, n, Lim(n), side, qty)
  BY <1>3 DEF SubmitLimit
<1> QED BY <1>1, <1>4, <1>5, SendCore

LEMMA SubmitMarketCore ==
    ASSUME Core, NEW e \in Executors, NEW n \in Names, SubmitMarket(e, n)
    PROVE  Core' /\ OrdersAdvance
<1>1. pc[e] = "market" /\ n \in todo[e]
  BY DEF SubmitMarket
<1>2. n \in Live(e) /\ Exists(seen[e][Lim(n)]) /\ Residual(e, n) > 0
  BY <1>1 DEF Core, AttemptInv, ResidualsAreLeft
<1>3. Terminal(seen[e][Lim(n)])
  BY <1>1, <1>2 DEF Core, AttemptInv, LimitsAreClosed
<1>4. Lim(n) \in Ids /\ Mkt(n) \in Ids
  BY DEF Lim, Mkt, Ids, Legs
<1>5. order[Lim(n)] = seen[e][Lim(n)]
  BY <1>3, <1>4 DEF Core, SeenIsFinal
<1>6. /\ target[e][n] \in Targets /\ target[e][n] \in asked[n]
      /\ order[Lim(n)].filled \in 0..MaxQty
  BY <1>1, <1>4 DEF Core, AttemptInv, AttemptTypes, TargetsAreAsked, BrokerInv, OrderInv, Orders
<1>7. CASE Exists(order[Mkt(n)])
  <2>1. /\ seen' = [seen EXCEPT ![e][Mkt(n)] = order[Mkt(n)]]
        /\ UNCHANGED <<broker, pc, ks, target, failed, stop, asked>> /\ Handled(e, n)
    BY <1>7 DEF SubmitMarket, history
  <2>2. /\ seen' \in [Executors -> [Ids -> Orders]]
        /\ \A f \in Executors : \A j \in Ids : (f # e \/ j # Mkt(n)) => seen'[f][j] = seen[f][j]
        /\ \A f \in Executors : \A j \in Ids : seen'[f][j] \in {seen[f][j], order[j]}
    BY <1>4, <2>1 DEF Core, AttemptInv, AttemptTypes, BrokerInv, OrderInv
  <2>3. \A f \in Executors : \A j \in Ids :
           f # e \/ (pc[e] \notin {"submit", "cancel"} /\ j # Mkt(n)) => seen'[f][j] = seen[f][j]
    BY <2>2
  <2>4. stop' \in [Executors -> BOOLEAN] /\ pc[e] # "close" /\ failed' = failed
    BY <1>1, <2>1 DEF Core, AttemptInv, AttemptTypes
  <2>5. AttemptInv'
    BY <2>1, <2>2, <2>3, <2>4, HandledKeeps DEF Core
  <2> QED BY <2>1, <2>2, <2>5, CoreQuiet
<1>8. CASE ~Exists(order[Mkt(n)]) /\ Allows(e, target[e][n].side)
  <2>1. Residual(e, n) = target[e][n].qty - order[Lim(n)].filled
    BY <1>5 DEF Residual
  <2>2. PICK side \in Sides, qty \in 1..MaxQty : side = target[e][n].side /\ qty = Residual(e, n)
    BY <1>2, <1>6, <2>1, BrokerAssumption DEF Targets
  <2>3. order[Lim(n)].filled + qty <= target[e][n].qty
    BY <1>6, <2>1, <2>2, BrokerAssumption DEF Targets
  <2>4. Backed(Mkt(n), qty)
    BY <1>3, <1>5, <1>6, <2>3 DEF Backed, Mkt, WithinTarget
  <2>5. Submitted(e, n, Mkt(n), side, qty) \/ SubmitLost(e, n, Mkt(n), side, qty)
    BY <1>8, <2>2 DEF SubmitMarket
  <2> QED BY <1>1, <2>4, <2>5, SendCore
<1>9. CASE ~Exists(order[Mkt(n)]) /\ ~Allows(e, target[e][n].side)
  <2>1. UNCHANGED <<broker, pc, ks, target, seen, failed, stop, asked>> /\ Handled(e, n)
    BY <1>9 DEF SubmitMarket, history
  <2>2. AttemptInv'
    BY <1>1, <2>1, HandledKeeps DEF Core, AttemptInv, AttemptTypes
  <2> QED BY <2>1, <2>2, CoreQuiet
<1> QED BY <1>7, <1>8, <1>9

LEMMA CancelLimitCore ==
    ASSUME Core, NEW e \in Executors, NEW n \in Names, CancelLimit(e, n)
    PROVE  Core' /\ OrdersAdvance
<1>1. BrokerInv' /\ OrdersAdvance
  BY CancelAdvances, NothingNewIsBacked
  DEF Core, BrokerInv, CancelLimit, history, AskedGrows
<1>2. Lim(n) \in Ids
  BY DEF Lim, Ids, Legs
<1>3. /\ seen' \in [Executors -> [Ids -> Orders]]
      /\ \A f \in Executors : \A j \in Ids : (f # e \/ j # Lim(n)) => seen'[f][j] = seen[f][j]
      /\ seen'[e][Lim(n)] = order[Lim(n)]
  BY <1>2 DEF CancelLimit, Core, AttemptInv, AttemptTypes, BrokerInv, OrderInv
<1>4. AttemptInv'
  BY <1>3, HandledKeeps DEF CancelLimit, history, Core, AttemptInv, AttemptTypes
<1>5. SeenIsFinal'
  BY <1>1, <1>3 DEF Core, SeenIsFinal, OrdersAdvance, Later
<1> QED BY <1>1, <1>4, <1>5 DEF Core

LEMMA CancelFailsCore ==
    ASSUME Core, NEW e \in Executors, NEW n \in Names, CancelFails(e, n)
    PROVE  Core' /\ OrdersAdvance
<1>0. AskedGrows /\ UNCHANGED <<flight, asked>>
  BY DEF CancelFails, AskedGrows
<1>1. BrokerInv' /\ OrdersAdvance
  <2>1. CASE order' = order
    BY <1>0, <2>1, BrokerUnchanged DEF Core
  <2>2. CASE order' = AskedToCancel({Lim(n)})
    BY <1>0, <2>2, CancelAdvances, NothingNewIsBacked DEF Core, BrokerInv
  <2> QED BY <2>1, <2>2 DEF CancelFails
<1>2. Lim(n) \in Ids
  BY DEF Lim, Ids, Legs
<1>3. /\ seen' \in [Executors -> [Ids -> Orders]]
      /\ \A f \in Executors : \A j \in Ids : (f # e \/ j # Lim(n)) => seen'[f][j] = seen[f][j]
      /\ seen'[e][Lim(n)] = order[Lim(n)]
  BY <1>2 DEF CancelFails, Core, AttemptInv, AttemptTypes, BrokerInv, OrderInv
<1>4. AttemptInv'
  <2>1. /\ UNCHANGED <<pc, ks, target, stop, asked>> /\ pc[e] = "cancel"
        /\ failed' = [failed EXCEPT ![e] = @ \cup {n}] /\ todo' = [todo EXCEPT ![e] = @ \ {n}]
    BY DEF CancelFails, Fails, Handled
  <2>2. AttemptTypes'
    BY <1>3, <2>1 DEF Core, AttemptInv, AttemptTypes
  <2>3. \A f \in Executors : \A k \in Names :
            pc[f] # "cancel" => /\ seen'[f][Lim(k)] = seen[f][Lim(k)]
                                /\ failed'[f] = failed[f] /\ todo'[f] = todo[f]
    <3> SUFFICES ASSUME NEW f \in Executors, NEW k \in Names, pc[f] # "cancel"
                 PROVE  /\ seen'[f][Lim(k)] = seen[f][Lim(k)]
                        /\ failed'[f] = failed[f] /\ todo'[f] = todo[f]
      OBVIOUS
    <3>1. Lim(k) \in Ids
      BY DEF Lim, Ids, Legs
    <3> QED BY <1>3, <2>1, <3>1 DEF Core, AttemptInv, AttemptTypes
  <2>4. SubmitsAsk' /\ TargetsAreAsked'
    BY <2>1, <2>3 DEF Core, AttemptInv, SubmitsAsk, TargetsAreAsked
  <2>5. LimitsAreClosed' /\ ResidualsAreLeft'
    BY <2>1, <2>3 DEF Core, AttemptInv, LimitsAreClosed, ResidualsAreLeft, Live, Residual
  <2> QED BY <2>2, <2>4, <2>5 DEF AttemptInv
<1>5. SeenIsFinal'
  BY <1>1, <1>3 DEF Core, SeenIsFinal, OrdersAdvance, Later
<1> QED BY <1>1, <1>4, <1>5 DEF Core

LEMMA LegCore ==
    ASSUME Core, NEW e \in Executors, NEW n \in Names,
           LegFails(e, n) \/ CloseLimit(e, n) \/ CloseMarket(e, n)
    PROVE  Core' /\ OrdersAdvance
<1>1. UNCHANGED <<broker, pc, ks, target, seen, asked>> /\ Handled(e, n)
  BY DEF LegFails, CloseLimit, CloseMarket, Fails, history
<1>2. \/ failed' = [failed EXCEPT ![e] = @ \cup {n}]
      \/ failed' = failed /\ (pc[e] = "close" => Terminal(seen[e][Lim(n)]))
  BY DEF LegFails, CloseLimit, CloseMarket, Fails
<1>3. stop' \in [Executors -> BOOLEAN]
  BY DEF LegFails, CloseLimit, CloseMarket, Core, AttemptInv, AttemptTypes
<1>4. AttemptInv'
  BY <1>1, <1>2, <1>3, HandledKeeps DEF Core, AttemptInv, AttemptTypes
<1> QED BY <1>1, <1>4, CoreQuiet

\* The steps that move an attempt from one phase to the next.
LEMMA PhaseCore ==
    ASSUME Core, NEW e \in Executors,
           \/ Start(e) \/ EndSubmit(e) \/ EndCancel(e) \/ EndClose(e) \/ EndMarket(e)
    PROVE  Core' /\ OrdersAdvance
<1> DEFINE early == {"idle", "start", "look", "plan", "reconcile"}
<1>1. UNCHANGED <<broker, ks, target, seen, failed, stop, asked>>
  BY DEF Start, EndSubmit, EndCancel, EndClose, EndMarket, history
<1>2. ks' \in [Executors -> BOOLEAN] /\ AskedGrows
  BY <1>1 DEF Core, AttemptInv, AttemptTypes, AskedGrows
<1>3. pc[e] \notin early => \A n \in Names : target[e][n] \in asked'[n]
  BY <1>1 DEF Core, AttemptInv, TargetsAreAsked
<1>4. ASSUME Start(e) PROVE AttemptInv'
  BY <1>1, <1>2, <1>4, EnterKeeps DEF Start, Core, Phases, Gates
<1>5. ASSUME EndSubmit(e) PROVE AttemptInv'
  <2>1. PICK names \in SUBSET Names : names = {n \in Live(e) : Working(seen[e][Lim(n)])}
    BY DEF Live
  <2> QED BY <1>1, <1>2, <1>3, <1>5, <2>1, EnterKeeps DEF EndSubmit, Core, Phases
<1>6. ASSUME EndCancel(e) PROVE AttemptInv'
  BY <1>1, <1>2, <1>3, <1>6, EnterKeeps DEF EndCancel, Core, Phases
<1>7. ASSUME EndClose(e) PROVE AttemptInv'
  <2>1. \A n \in Live(e) : Exists(seen[e][Lim(n)]) => Terminal(seen[e][Lim(n)])
    BY <1>7 DEF EndClose, Core, AttemptInv, LimitsAreClosed
  <2> QED BY <1>1, <1>2, <1>3, <1>7, <2>1, EnterKeeps DEF EndClose, Core, Phases, Gates
<1>8. ASSUME EndMarket(e) PROVE AttemptInv'
  <2>1. \A n \in Live(e) : Exists(seen[e][Lim(n)]) => Terminal(seen[e][Lim(n)])
    BY <1>8 DEF EndMarket, Core, AttemptInv, LimitsAreClosed
  <2> QED BY <1>1, <1>2, <1>3, <1>8, <2>1, EnterKeeps DEF EndMarket, Core, Phases
<1> QED BY <1>1, <1>4, <1>5, <1>6, <1>7, <1>8, CoreQuiet

\* The steps that read the orders or set the targets, in their phases.
LEMMA ReadCore ==
    ASSUME Core, NEW e \in Executors,
           \/ LookUp(e) \/ PlanTargets(e) \/ OpenLegs(e) \/ AwaitLimits(e) \/ AwaitMarkets(e)
    PROVE  Core' /\ OrdersAdvance
<1>1. AskedGrows
  BY DEF LookUp, PlanTargets, OpenLegs, AwaitLimits, AwaitMarkets, history, AskedGrows
<1>2. BrokerInv' /\ OrdersAdvance
  <2>1. UNCHANGED <<order, flight>>
    BY DEF LookUp, PlanTargets, OpenLegs, AwaitLimits, AwaitMarkets, broker
  <2> QED BY <1>1, <2>1, BrokerUnchanged DEF Core
<1>3. CASE LookUp(e)
  <2>1. /\ UNCHANGED <<ks, seen, failed, stop, asked, order>>
        /\ pc' = [pc EXCEPT ![e] = "plan"] /\ todo' = [todo EXCEPT ![e] = {}]
        /\ target' \in [Executors -> [Names -> Targets]]
        /\ \A f \in Executors \ {e} : target'[f] = target[f]
    <3>1. \A n \in Names : [side |-> order[Lim(n)].side, qty |-> order[Lim(n)].qty] \in Targets
      BY DEF Core, BrokerInv, OrderInv, Orders, Targets, Lim, Ids, Legs
    <3> QED BY <1>3, <3>1, NothingTypes
            DEF LookUp, Enter, history, broker, Core, AttemptInv, AttemptTypes
  <2>2. AttemptTypes'
    BY <2>1 DEF Core, AttemptInv, AttemptTypes, Phases
  <2>3. /\ pc'[e] = "plan" /\ \A f \in Executors \ {e} : pc'[f] = pc[f] /\ todo'[f] = todo[f]
    BY <2>1 DEF Core, AttemptInv, AttemptTypes
  <2>4. AttemptInv'
    BY <2>1, <2>2, <2>3 DEF Core, AttemptInv, SubmitsAsk, TargetsAreAsked, LimitsAreClosed,
                            ResidualsAreLeft, Live, Residual
  <2>5. SeenIsFinal'
    BY <2>1 DEF Core, SeenIsFinal
  <2> QED BY <1>2, <2>4, <2>5 DEF Core
<1>4. CASE PlanTargets(e)
  <2>1. /\ UNCHANGED <<ks, seen, failed, stop, order>>
        /\ pc' = [pc EXCEPT ![e] = "legs"] /\ todo' = [todo EXCEPT ![e] = {}]
        /\ \A n \in Names : target'[e][n] \in Targets
        /\ asked' = [n \in Names |-> asked[n] \cup {target'[e][n]}]
    BY <1>4 DEF PlanTargets, Enter, broker
  <2>2. PICK new : target' = [target EXCEPT ![e] = [n \in Names |-> new[n]]]
    <3>1. PICK desired \in [Names -> Desired] :
            target' = [target EXCEPT ![e] =
               [n \in Names |-> IF Asks(@[n]) THEN @[n] ELSE Delta(desired[n], position[n])]]
      BY <1>4 DEF PlanTargets
    <3>2. PICK new : new = [n \in Names |-> IF Asks(target[e][n]) THEN target[e][n]
                                            ELSE Delta(desired[n], position[n])]
      OBVIOUS
    <3>3. [n \in Names |-> IF Asks(target[e][n]) THEN target[e][n]
                           ELSE Delta(desired[n], position[n])] = [n \in Names |-> new[n]]
      BY <3>2
    <3> QED BY <3>1, <3>3
  <2>3. /\ target'[e] = [n \in Names |-> new[n]]
        /\ \A f \in Executors \ {e} : target'[f] = target[f]
    BY <2>2 DEF Core, AttemptInv, AttemptTypes
  <2>4. target' \in [Executors -> [Names -> Targets]]
    BY <2>1, <2>2, <2>3 DEF Core, AttemptInv, AttemptTypes
  <2>5. AttemptTypes'
    BY <2>1, <2>4 DEF Core, AttemptInv, AttemptTypes, Phases
  <2>6. /\ pc'[e] = "legs" /\ \A f \in Executors \ {e} : pc'[f] = pc[f] /\ todo'[f] = todo[f]
    BY <2>1 DEF Core, AttemptInv, AttemptTypes
  <2>7. TargetsAreAsked'
    BY <2>1, <2>3, <2>6 DEF Core, AttemptInv, TargetsAreAsked
  <2>8. SubmitsAsk' /\ LimitsAreClosed' /\ ResidualsAreLeft'
    BY <2>1, <2>3, <2>6 DEF Core, AttemptInv, SubmitsAsk, LimitsAreClosed, ResidualsAreLeft,
                            Live, Residual
  <2>9. SeenIsFinal'
    BY <2>1 DEF Core, SeenIsFinal
  <2> QED BY <1>2, <2>5, <2>7, <2>8, <2>9 DEF Core, AttemptInv
<1>5. CASE OpenLegs(e)
  <2>1. /\ UNCHANGED <<ks, target, failed, stop, asked, order>>
        /\ pc' = [pc EXCEPT ![e] = "gate1"] /\ todo' = [todo EXCEPT ![e] = {}] /\ pc[e] = "legs"
        /\ seen' = [seen EXCEPT ![e] =
              [i \in Ids |-> IF i[2] = "lim" /\ Asks(target[e][i[1]]) THEN order[i] ELSE @[i]]]
    BY <1>5 DEF OpenLegs, Enter, history, broker
  <2>2. /\ seen' \in [Executors -> [Ids -> Orders]]
        /\ \A f \in Executors \ {e} : seen'[f] = seen[f]
        /\ \A f \in Executors : \A i \in Ids : seen'[f][i] \in {seen[f][i], order'[i]}
    BY <2>1 DEF Core, AttemptInv, AttemptTypes, BrokerInv, OrderInv
  <2>3. AttemptTypes'
    BY <2>1, <2>2 DEF Core, AttemptInv, AttemptTypes, Phases, Gates
  <2>4. /\ pc'[e] = "gate1" /\ \A f \in Executors \ {e} : pc'[f] = pc[f] /\ todo'[f] = todo[f]
    BY <2>1 DEF Core, AttemptInv, AttemptTypes
  <2>5. AttemptInv'
    BY <2>1, <2>2, <2>3, <2>4 DEF Core, AttemptInv, SubmitsAsk, TargetsAreAsked, LimitsAreClosed,
                                  ResidualsAreLeft, Live, Residual
  <2>6. SeenIsFinal'
    BY <1>2, <2>2, SeenStays DEF Core, BrokerInv
  <2> QED BY <1>2, <2>5, <2>6 DEF Core
<1>6. CASE AwaitLimits(e)
  <2>1. /\ UNCHANGED <<ks, target, failed, stop, asked, order>> /\ pc[e] = "await"
        /\ Enter(e, "close", {n \in Live(e) : Exists(seen[e][Lim(n)])})
    BY <1>6 DEF AwaitLimits, broker
  <2>2. PICK read : seen' = [seen EXCEPT ![e] = [i \in Ids |-> IF i \in read THEN order[i] ELSE @[i]]]
                    /\ \A i \in read : i \in Ids => Working(seen[e][i])
    <3>1. PICK waited :
             /\ waited = {n \in Live(e) : Working(seen[e][<<n, "lim">>])}
             /\ seen' = [seen EXCEPT ![e] =
                   [i \in Ids |-> IF i[1] \in waited /\ i[2] = "lim" THEN order[i] ELSE @[i]]]
      BY <1>6 DEF AwaitLimits, AwaitAll
    <3>2. PICK read : read = {i \in Ids : i[1] \in waited /\ i[2] = "lim"}
      OBVIOUS
    <3>3. \A i \in read : i \in Ids => Working(seen[e][i])
      BY <3>1, <3>2 DEF Ids
    <3> QED BY <3>1, <3>2, <3>3
  <2>3. /\ seen' \in [Executors -> [Ids -> Orders]]
        /\ \A f \in Executors \ {e} : seen'[f] = seen[f]
        /\ \A f \in Executors : \A i \in Ids : seen'[f][i] \in {seen[f][i], order'[i]}
        /\ \A i \in Ids : seen'[e][i] = IF i \in read THEN order[i] ELSE seen[e][i]
    BY <2>1, <2>2 DEF Core, AttemptInv, AttemptTypes, BrokerInv, OrderInv
  <2>4. \A i \in Ids : ~Exists(seen[e][i]) => ~Exists(seen'[e][i])
    BY <2>2, <2>3 DEF Working, WorkingStatus, Exists
  <2>5. /\ pc' \in [Executors -> Phases] /\ todo' \in [Executors -> SUBSET Names]
        /\ pc'[e] = "close" /\ todo'[e] = {n \in Live(e) : Exists(seen[e][Lim(n)])}
        /\ \A f \in Executors \ {e} : pc'[f] = pc[f] /\ todo'[f] = todo[f]
    BY <2>1 DEF Enter, Core, AttemptInv, AttemptTypes, Phases, Live
  <2>6. AttemptTypes'
    BY <2>1, <2>3, <2>5 DEF Core, AttemptInv, AttemptTypes
  <2>7. SubmitsAsk' /\ TargetsAreAsked' /\ ResidualsAreLeft'
    BY <2>1, <2>3, <2>5 DEF Core, AttemptInv, SubmitsAsk, TargetsAreAsked, ResidualsAreLeft,
                            Live, Residual
  <2>8. LimitsAreClosed'
    <3> SUFFICES ASSUME NEW f \in Executors, NEW k \in Live(f),
                        pc'[f] \in {"close", "gate2", "market", "await_market", "close_market"}
                 PROVE  \/ pc'[f] = "close" /\ k \in todo'[f]
                        \/ Exists(seen'[f][Lim(k)]) => Terminal(seen'[f][Lim(k)])
      BY <2>1 DEF LimitsAreClosed, Live
    <3>1. CASE f # e
      BY <2>1, <2>3, <2>5, <3>1 DEF Core, AttemptInv, LimitsAreClosed
    <3>2. CASE f = e
      <4>1. Lim(k) \in Ids
        BY DEF Live, Lim, Ids, Legs
      <4> QED BY <2>4, <2>5, <3>2, <4>1
    <3> QED BY <3>1, <3>2
  <2>9. SeenIsFinal'
    BY <1>2, <2>3, SeenStays DEF Core, BrokerInv
  <2> QED BY <1>2, <2>6, <2>7, <2>8, <2>9 DEF Core, AttemptInv
<1>7. CASE AwaitMarkets(e)
  <2>1. /\ UNCHANGED <<ks, target, failed, stop, asked, order>> /\ pc[e] = "await_market"
        /\ Enter(e, "close_market", {n \in Live(e) : Exists(seen[e][Mkt(n)])})
    BY <1>7 DEF AwaitMarkets, broker
  <2>2. PICK read : /\ seen' = [seen EXCEPT ![e] = [i \in Ids |-> IF i \in read THEN order[i] ELSE @[i]]]
                    /\ \A i \in read : i[2] = "mkt"
    <3>1. PICK waited : seen' = [seen EXCEPT ![e] =
             [i \in Ids |-> IF i[1] \in waited /\ i[2] = "mkt" THEN order[i] ELSE @[i]]]
      BY <1>7 DEF AwaitMarkets, AwaitAll
    <3>2. PICK read : read = {i \in Ids : i[1] \in waited /\ i[2] = "mkt"}
      OBVIOUS
    <3>3. \A i \in read : i[2] = "mkt"
      BY <3>2
    <3>4. [i \in Ids |-> IF i[1] \in waited /\ i[2] = "mkt" THEN order[i] ELSE seen[e][i]]
             = [i \in Ids |-> IF i \in read THEN order[i] ELSE seen[e][i]]
      BY <3>2
    <3> QED BY <3>1, <3>3, <3>4
  <2>3. /\ seen' \in [Executors -> [Ids -> Orders]]
        /\ \A f \in Executors : \A i \in Ids : seen'[f][i] \in {seen[f][i], order'[i]}
        /\ \A f \in Executors : \A k \in Names : seen'[f][Lim(k)] = seen[f][Lim(k)]
    BY <2>1, <2>2 DEF Core, AttemptInv, AttemptTypes, BrokerInv, OrderInv, Lim, Ids, Legs
  <2>5. /\ pc' \in [Executors -> Phases] /\ todo' \in [Executors -> SUBSET Names]
        /\ pc'[e] = "close_market"
        /\ \A f \in Executors \ {e} : pc'[f] = pc[f] /\ todo'[f] = todo[f]
    BY <2>1 DEF Enter, Core, AttemptInv, AttemptTypes, Phases, Live
  <2>6. AttemptTypes'
    BY <2>1, <2>3, <2>5 DEF Core, AttemptInv, AttemptTypes
  <2>7. SubmitsAsk' /\ TargetsAreAsked'
    BY <2>1, <2>5 DEF Core, AttemptInv, SubmitsAsk, TargetsAreAsked
  <2>8. ResidualsAreLeft'
    <3> SUFFICES ASSUME NEW f \in Executors, pc'[f] = "market", NEW k \in todo'[f]
                 PROVE  k \in Live(f) /\ Exists(seen[f][Lim(k)]) /\ Residual(f, k) > 0
                        /\ seen'[f][Lim(k)] = seen[f][Lim(k)]
      BY <2>1 DEF ResidualsAreLeft, Live, Residual
    <3> QED BY <2>3, <2>5 DEF Core, AttemptInv, AttemptTypes, ResidualsAreLeft
  <2>10. LimitsAreClosed'
    <3> SUFFICES ASSUME NEW f \in Executors, NEW k \in Live(f),
                        pc'[f] \in {"close", "gate2", "market", "await_market", "close_market"}
                 PROVE  \/ pc'[f] = "close" /\ k \in todo'[f]
                        \/ Exists(seen'[f][Lim(k)]) => Terminal(seen'[f][Lim(k)])
      BY <2>1 DEF LimitsAreClosed, Live
    <3>1. seen'[f][Lim(k)] = seen[f][Lim(k)]
      BY <2>3 DEF Live
    <3> QED BY <2>1, <2>5, <3>1 DEF Core, AttemptInv, LimitsAreClosed
  <2>9. SeenIsFinal'
    BY <1>2, <2>3, SeenStays DEF Core, BrokerInv
  <2> QED BY <1>2, <2>6, <2>7, <2>8, <2>10, <2>9 DEF Core, AttemptInv
<1> QED BY <1>3, <1>4, <1>5, <1>6, <1>7

LEMMA ReconcileCore ==
    ASSUME Core, NEW e \in Executors, ReconcileOrders(e)
    PROVE  Core' /\ OrdersAdvance
<1>1. CASE WriteFresh(e)
  BY <1>1, EndCore DEF WriteFresh, history
<1>2. CASE ReadOpenRows(e)
  <2>1. UNCHANGED <<broker, ks, target, failed, stop, asked>> /\ pc[e] = "idle"
    BY <1>2 DEF ReadOpenRows, history, Idle
  <2>2. PICK changed : seen' = [seen EXCEPT ![e] =
            [i \in Ids |-> IF i \in changed THEN order[i] ELSE @[i]]]
    BY <1>2 DEF ReadOpenRows
  <2>3. /\ seen' \in [Executors -> [Ids -> Orders]]
        /\ \A f \in Executors \ {e} : seen'[f] = seen[f]
        /\ \A f \in Executors : \A i \in Ids : seen'[f][i] \in {seen[f][i], order[i]}
    BY <2>2 DEF Core, AttemptInv, AttemptTypes, BrokerInv, OrderInv
  <2>4. /\ pc' \in [Executors -> Phases] /\ todo' \in [Executors -> SUBSET Names]
        /\ pc'[e] = "reconcile"
        /\ \A f \in Executors \ {e} : pc'[f] = pc[f] /\ todo'[f] = todo[f]
    BY <1>2 DEF ReadOpenRows, Enter, Core, AttemptInv, AttemptTypes, Phases
  <2>5. AttemptTypes'
    BY <2>1, <2>3, <2>4 DEF Core, AttemptInv, AttemptTypes
  <2>6. SubmitsAsk' /\ TargetsAreAsked'
    BY <2>1, <2>4 DEF Core, AttemptInv, SubmitsAsk, TargetsAreAsked
  <2>7. ASSUME NEW f \in Executors, pc'[f] # "reconcile"
        PROVE  pc'[f] = pc[f] /\ todo'[f] = todo[f] /\ seen'[f] = seen[f]
    BY <2>3, <2>4, <2>7
  <2>8. LimitsAreClosed' /\ ResidualsAreLeft'
    BY <2>1, <2>7 DEF Core, AttemptInv, LimitsAreClosed, ResidualsAreLeft, Live, Residual
  <2>9. AttemptInv'
    BY <2>5, <2>6, <2>8 DEF AttemptInv
  <2> QED BY <2>1, <2>3, <2>9, CoreQuiet
<1> QED BY <1>1, <1>2 DEF ReconcileOrders

LEMMA BookCore ==
    ASSUME Core, NEW e \in Executors,
           BookStep(e) \/ Start(e) \/ Abort(e) \/ ReconcileOrders(e)
    PROVE  Core' /\ OrdersAdvance
<1>1. CASE EndBook(e) \/ Abort(e)
  BY <1>1, EndCore DEF EndBook, Abort, history
<1>2. CASE ReconcileOrders(e)
  BY <1>2, ReconcileCore
<1>3. CASE Start(e) \/ EndSubmit(e) \/ EndCancel(e) \/ EndClose(e) \/ EndMarket(e)
  BY <1>3, PhaseCore
<1>4. CASE LookUp(e) \/ PlanTargets(e) \/ OpenLegs(e) \/ AwaitLimits(e) \/ AwaitMarkets(e)
  BY <1>4, ReadCore
<1>5. ASSUME NEW n \in Names, \/ SubmitLimit(e, n) \/ SubmitMarket(e, n)
                           \/ CancelLimit(e, n) \/ CancelFails(e, n)
      PROVE  Core' /\ OrdersAdvance
  BY <1>5, SubmitLimitCore, SubmitMarketCore, CancelLimitCore, CancelFailsCore
<1>6. ASSUME NEW n \in Names, LegFails(e, n) \/ CloseLimit(e, n) \/ CloseMarket(e, n)
      PROVE  Core' /\ OrdersAdvance
  BY <1>6, LegCore
<1> QED BY <1>1, <1>2, <1>3, <1>4, <1>5, <1>6 DEF BookStep

-----------------------------------------------------------------------------
(* The rest of the state: holdings, halts, stored rows and counters.       *)

HoldingTypes == position \in [Names -> Int] /\ closing \in [Names -> Int]

HaltTypes == halt \in [Procs -> Halts] /\ RoundsAreLeft

StoreTypes ==
    /\ row \in [Ids -> Orders]
    /\ events \subseteq Events
    /\ status \in {"anchored", "executed", "halted"}
    /\ asked \in [Names -> SUBSET Targets]
    /\ faults \in 0..MaxFaults
    /\ halts \in 0..MaxHalts

Rest == HoldingTypes /\ HaltTypes /\ StoreTypes

IInv == Core /\ Rest

\* The records a halt moves through.
LEMMA HaltShapes ==
    /\ Quiet \in Halts
    /\ \A kind \in Kinds : Begin(kind) \in Halts
    /\ \A h \in Halts : \A S \in SUBSET Ids :
          /\ [h EXCEPT !.at = "record", !.done = TRUE] \in Halts
          /\ [h EXCEPT !.at = "cancel", !.listed = S] \in Halts
          /\ \A at \in {"confirm", "positions", "record"} : [h EXCEPT !.at = at] \in Halts
          /\ h.round < Rounds =>
                [h EXCEPT !.at = "list", !.listed = {}, !.round = @ + 1] \in Halts
<1>1. Quiet \in Halts /\ \A kind \in Kinds : Begin(kind) \in Halts
  <2>1. 0 \in 0..Rounds
    BY ExecutionAssumption
  <2>2. Quiet \in Halts
    BY <2>1 DEF Halts, Quiet, Kinds
  <2>3. ASSUME NEW kind \in Kinds PROVE Begin(kind) \in Halts
    BY <2>2 DEF Halts, Begin
  <2> QED BY <2>2, <2>3
<1>2. ASSUME NEW h \in Halts, NEW S \in SUBSET Ids
      PROVE  /\ [h EXCEPT !.at = "record", !.done = TRUE] \in Halts
             /\ [h EXCEPT !.at = "cancel", !.listed = S] \in Halts
  BY DEF Halts
<1>3. ASSUME NEW h \in Halts, NEW at \in {"confirm", "positions", "record"}
      PROVE  [h EXCEPT !.at = at] \in Halts
  BY DEF Halts
<1>4. ASSUME NEW h \in Halts, h.round < Rounds
      PROVE  [h EXCEPT !.at = "list", !.listed = {}, !.round = @ + 1] \in Halts
  <2>1. h.round + 1 \in 0..Rounds
    BY <1>4, ExecutionAssumption DEF Halts
  <2> QED BY <2>1 DEF Halts
<1> QED BY <1>1, <1>2, <1>3, <1>4

LEMMA BrokerRest ==
    ASSUME Core, Rest, BrokerStep, UNCHANGED <<attempt, halt, store, history>>
    PROVE  Rest'
<1>1. ASSUME NEW i \in Ids, Fill(i) PROVE HoldingTypes'
  BY <1>1 DEF Fill, Rest, HoldingTypes, Ids
<1>2. ASSUME NEW n \in Names, CloseFill(n) PROVE HoldingTypes'
  <2>1. position[n] - closing[n] \in Int
    BY DEF Rest, HoldingTypes
  <2> QED BY <1>2, <2>1 DEF CloseFill, Rest, HoldingTypes
<1>3. HoldingTypes'
  BY <1>1, <1>2 DEF BrokerStep, Land, Drop, ConfirmCancel, Expire, Rest, HoldingTypes
<1> QED BY <1>3 DEF Rest, HaltTypes, RoundsAreLeft, StoreTypes, store, history

LEMMA HaltRest ==
    ASSUME Core, Rest, NEW p \in Procs, HaltStep(p)
    PROVE  Rest'
<1>1. halt \in [Procs -> Halts] /\ halt[p] \in Halts
  BY DEF Rest, HaltTypes
<1>2. HoldingTypes'
  <2>1. ASSUME NEW S, closing' = Closed(S), UNCHANGED position PROVE HoldingTypes'
    BY <2>1 DEF Rest, HoldingTypes, Closed
  <2> QED
    BY <2>1 DEF HaltStep, ListNone, ListSome, CancelListed, ConfirmListed, ClosePositions,
                HaltFails, RecordHalt, RecordFails, broker, Rest, HoldingTypes
<1>3. PICK new \in Halts : /\ halt' = [halt EXCEPT ![p] = new]
                           /\ new.at \in {"cancel", "confirm"} => new.round < Rounds
  <2>1. CASE halt' = [halt EXCEPT ![p] = Quiet]
    BY <2>1, HaltShapes DEF Quiet
  <2>2. CASE halt' = [halt EXCEPT ![p].at = "record", ![p].done = TRUE]
    <3>1. [halt[p] EXCEPT !.at = "record", !.done = TRUE] \in Halts
      BY <1>1, HaltShapes
    <3>2. [halt[p] EXCEPT !.at = "record", !.done = TRUE].at = "record"
      BY <1>1 DEF Halts
    <3> QED BY <2>2, <3>1, <3>2
  <2>3. CASE Reaches(p, "positions") \/ Reaches(p, "record")
    <3>1. ASSUME NEW at \in {"positions", "record"}, Reaches(p, at)
          PROVE  halt' = [halt EXCEPT ![p] = [halt[p] EXCEPT !.at = at]]
      BY <3>1 DEF Reaches
    <3>2. \A at \in {"positions", "record"} : /\ [halt[p] EXCEPT !.at = at] \in Halts
                                              /\ [halt[p] EXCEPT !.at = at].at = at
      <4>1. \A at \in {"positions", "record"} : [halt[p] EXCEPT !.at = at] \in Halts
        BY <1>1, HaltShapes
      <4> QED BY <1>1, <4>1 DEF Halts
    <3> QED BY <2>3, <3>1, <3>2
  <2>4. CASE ListSome(p)
    <3>1. PICK h : h = [halt[p] EXCEPT !.at = "cancel", !.listed = OpenIds]
      OBVIOUS
    <3>2. h \in Halts
      BY <1>1, <3>1, HaltShapes DEF OpenIds
    <3>3. h.round = halt[p].round
      BY <1>1, <3>1 DEF Halts
    <3> QED BY <2>4, <3>1, <3>2, <3>3 DEF ListSome
  <2>5. CASE CancelListed(p)
    <3>1. PICK h : h = [halt[p] EXCEPT !.at = "confirm"]
      OBVIOUS
    <3>2. h \in Halts
      BY <1>1, <3>1, HaltShapes
    <3>3. h.round = halt[p].round /\ halt[p].round < Rounds
      BY <1>1, <2>5, <3>1 DEF Halts, CancelListed, Rest, HaltTypes, RoundsAreLeft
    <3> QED BY <2>5, <3>1, <3>2, <3>3 DEF CancelListed, Reaches
  <2>6. CASE ConfirmListed(p)
    <3>1. PICK h : h = [halt[p] EXCEPT !.at = "list", !.listed = {}, !.round = @ + 1]
      OBVIOUS
    <3>2. halt[p].round < Rounds
      BY <2>6 DEF ConfirmListed, Rest, HaltTypes, RoundsAreLeft
    <3>3. h \in Halts
      BY <1>1, <3>1, <3>2, HaltShapes
    <3>4. h.at = "list"
      BY <1>1, <3>1 DEF Halts
    <3> QED BY <2>6, <3>1, <3>3, <3>4 DEF ConfirmListed
  <2> QED
    BY <2>1, <2>2, <2>3, <2>4, <2>5, <2>6
    DEF HaltStep, ListNone, ClosePositions, HaltFails, RecordHalt, RecordFails
<1>4. HaltTypes'
  <2>1. /\ halt' \in [Procs -> Halts] /\ halt'[p] = new
        /\ \A q \in Procs \ {p} : halt'[q] = halt[q]
    BY <1>1, <1>3
  <2> QED BY <1>3, <2>1 DEF Rest, HaltTypes, RoundsAreLeft
<1>5. StoreTypes'
  <2>1. UNCHANGED <<row, asked, halts>> /\ faults' \in 0..MaxFaults
    BY ExecutionAssumption
    DEF HaltStep, ListNone, ListSome, CancelListed, ConfirmListed, ClosePositions, HaltFails,
        RecordHalt, RecordFails, Fault, store, history, Rest, StoreTypes
  <2>2. events' \subseteq Events /\ status' \in {"anchored", "executed", "halted"}
    <3>1. CASE RecordHalt(p)
      <4>1. [trigger |-> Trigger(halt[p].kind),
             flattened |-> halt[p].done /\ halt[p].kind = "flatten"] \in Events
        BY DEF Events, Trigger, Triggers
      <4> QED BY <3>1, <4>1 DEF RecordHalt, RecordEvent, Rest, StoreTypes
    <3>2. CASE ~RecordHalt(p)
      BY <3>2 DEF HaltStep, ListNone, ListSome, CancelListed, ConfirmListed, ClosePositions,
                  HaltFails, RecordFails, store, Rest, StoreTypes
    <3> QED BY <3>1, <3>2
  <2> QED BY <2>1, <2>2 DEF Rest, StoreTypes
<1> QED BY <1>2, <1>4, <1>5 DEF Rest

LEMMA OperatorRest ==
    ASSUME Core, Rest, NEW p \in Operators, OperatorStep(p)
    PROVE  Rest' /\ Core' /\ OrdersAdvance
<1>1. UNCHANGED <<broker, attempt, store, asked>> /\ p \in Procs
  BY DEF OperatorStep, ManualHalt, HaltDies, Procs
<1>2. PICK new \in Halts : halt' = [halt EXCEPT ![p] = new] /\ new.at \in {"quiet", "list"}
  <2>1. CASE ManualHalt(p)
    <3>1. PICK kind \in {"manual", "flatten"} : halt' = [halt EXCEPT ![p] = Begin(kind)]
      BY <2>1 DEF ManualHalt
    <3>2. Begin(kind) \in Halts /\ Begin(kind).at = "list"
      BY HaltShapes DEF Kinds, Begin, Quiet
    <3> QED BY <3>1, <3>2
  <2>2. CASE HaltDies(p)
    BY <2>2, HaltShapes DEF HaltDies, Quiet
  <2> QED BY <2>1, <2>2 DEF OperatorStep
<1>3. HaltTypes'
  BY <1>1, <1>2 DEF Rest, HaltTypes, RoundsAreLeft
<1>4. faults' \in 0..MaxFaults /\ halts' \in 0..MaxHalts
  BY ExecutionAssumption DEF OperatorStep, ManualHalt, HaltDies, Fault, Rest, StoreTypes
<1>5. HoldingTypes' /\ StoreTypes'
  BY <1>1, <1>4 DEF Rest, HoldingTypes, StoreTypes, broker, store
<1> QED BY <1>1, <1>3, <1>5, CoreUnchanged DEF Rest

LEMMA ExecutorRest ==
    ASSUME Core, Core', Rest, NEW e \in Executors, ExecutorStep(e)
    PROVE  Rest'
<1>1. HoldingTypes'
  BY DEF ExecutorStep, GateStep, GatePass, GateSettle, GateTrigger, BookStep, Start, Abort,
         ReconcileOrders, ReadOpenRows, WriteFresh, LookUp, PlanTargets, OpenLegs, EndSubmit,
         EndCancel, AwaitLimits, EndClose, EndMarket, AwaitMarkets, EndBook, SubmitLimit,
         CancelLimit, CancelFails, CloseLimit, SubmitMarket, CloseMarket, LegFails, Submitted,
         SubmitLost, broker, Rest, HoldingTypes
<1>2. HaltTypes'
  <2>1. e \in Procs
    BY DEF Procs
  <2>2. UNCHANGED halt \/ \E new \in Halts : halt' = [halt EXCEPT ![e] = new]
                                         /\ new.at \in {"quiet", "list"}
    <3>1. CASE GateSettle(e)
      BY <3>1, HaltShapes DEF GateSettle, Kinds, Begin, Quiet
    <3>2. CASE GateTrigger(e)
      BY <3>2, HaltShapes DEF GateTrigger, Kinds, Begin, Quiet
    <3>3. CASE Abort(e)
      BY <3>3, HaltShapes DEF Abort, Quiet
    <3> QED
      BY <3>1, <3>2, <3>3
      DEF ExecutorStep, GateStep, GatePass, BookStep, Start, ReconcileOrders, ReadOpenRows,
          WriteFresh, LookUp, PlanTargets, OpenLegs, EndSubmit, EndCancel, AwaitLimits,
          EndClose, EndMarket, AwaitMarkets, EndBook, SubmitLimit, CancelLimit, CancelFails,
          CloseLimit, SubmitMarket, CloseMarket, LegFails, Submitted, SubmitLost
  <2>3. CASE UNCHANGED halt
    BY <2>3 DEF Rest, HaltTypes, RoundsAreLeft
  <2>4. ASSUME NEW new \in Halts, halt' = [halt EXCEPT ![e] = new], new.at \in {"quiet", "list"}
        PROVE  HaltTypes'
    BY <2>1, <2>4 DEF Rest, HaltTypes, RoundsAreLeft
  <2> QED BY <2>2, <2>3, <2>4
<1>3. UNCHANGED <<events, halts>>
  BY DEF ExecutorStep, GateStep, GatePass, GateSettle, GateTrigger, BookStep, Start, Abort,
         ReconcileOrders, ReadOpenRows, WriteFresh, LookUp, PlanTargets, OpenLegs, EndSubmit,
         EndCancel, AwaitLimits, EndClose, EndMarket, AwaitMarkets, EndBook, SubmitLimit,
         CancelLimit, CancelFails, CloseLimit, SubmitMarket, CloseMarket, LegFails, Submitted,
         SubmitLost, store, history
<1>4. faults' \in 0..MaxFaults
  <2>1. Fault \/ UNCHANGED faults
    BY DEF ExecutorStep, GateStep, GatePass, GateSettle, GateTrigger, BookStep, Start, Abort,
           ReconcileOrders, ReadOpenRows, WriteFresh, LookUp, PlanTargets, OpenLegs, EndSubmit,
           EndCancel, AwaitLimits, EndClose, EndMarket, AwaitMarkets, AwaitAll, EndBook,
           SubmitLimit, CancelLimit, CancelFails, CloseLimit, SubmitMarket, CloseMarket,
           LegFails, Submitted, SubmitLost, history
  <2> QED BY <2>1, ExecutionAssumption DEF Fault, Rest, StoreTypes
<1>5. status' \in {"anchored", "executed", "halted"}
  BY DEF ExecutorStep, GateStep, GatePass, GateSettle, GateTrigger, BookStep, Start, Abort,
         ReconcileOrders, ReadOpenRows, WriteFresh, LookUp, PlanTargets, OpenLegs, EndSubmit,
         EndCancel, AwaitLimits, EndClose, EndMarket, AwaitMarkets, EndBook, SubmitLimit,
         CancelLimit, CancelFails, CloseLimit, SubmitMarket, CloseMarket, LegFails, Submitted,
         SubmitLost, store, Rest, StoreTypes
<1>6. asked' \in [Names -> SUBSET Targets]
  <2>1. CASE PlanTargets(e)
    <3>1. /\ asked' = [n \in Names |-> asked[n] \cup {target'[e][n]}]
          /\ \A n \in Names : target'[e][n] \in Targets
      BY <2>1 DEF PlanTargets
    <3> QED BY <3>1 DEF Rest, StoreTypes
  <2>2. CASE ~PlanTargets(e)
    BY <2>2
    DEF ExecutorStep, GateStep, GatePass, GateSettle, GateTrigger, BookStep, Start, Abort,
        ReconcileOrders, ReadOpenRows, WriteFresh, LookUp, OpenLegs, EndSubmit, EndCancel,
        AwaitLimits, EndClose, EndMarket, AwaitMarkets, EndBook, SubmitLimit, CancelLimit,
        CancelFails, CloseLimit, SubmitMarket, CloseMarket, LegFails, Submitted, SubmitLost,
        history, Rest, StoreTypes
  <2> QED BY <2>1, <2>2
<1>7. row' \in [Ids -> Orders]
  <2>1. \A n \in Names : Lim(n) \in Ids /\ Mkt(n) \in Ids
    BY DEF Ids, Lim, Mkt, Legs
  <2>2. CASE ReconcileOrders(e)
    <3>1. row \in [Ids -> Orders] /\ \A i \in Ids : seen[e][i] \in Orders
      BY DEF Rest, StoreTypes, Core, AttemptInv, AttemptTypes
    <3>2. CASE ReadOpenRows(e)
      BY <3>1, <3>2 DEF ReadOpenRows, store
    <3>3. CASE WriteFresh(e)
      BY <3>1, <3>3 DEF WriteFresh
    <3> QED BY <2>2, <3>2, <3>3 DEF ReconcileOrders
  <2>3. ASSUME NEW i \in Ids, NEW o \in Orders, Note(i, o) PROVE row' \in [Ids -> Orders]
    BY <2>3 DEF Note, Rest, StoreTypes
  <2>4. ASSUME NEW n \in Names, SubmitLimit(e, n) \/ SubmitMarket(e, n)
        PROVE  row' \in [Ids -> Orders]
    BY <2>1, <2>3, <2>4 DEF SubmitLimit, SubmitMarket, Submitted, SubmitLost, store, Core,
                            BrokerInv, OrderInv, Rest, StoreTypes
  <2>5. ASSUME NEW n \in Names, CloseLimit(e, n) \/ CloseMarket(e, n)
        PROVE  row' \in [Ids -> Orders]
    <3>1. seen[e][Lim(n)] \in Orders /\ seen[e][Mkt(n)] \in Orders
      BY <2>1 DEF Core, AttemptInv, AttemptTypes
    <3> QED BY <2>1, <2>3, <2>5, <3>1 DEF CloseLimit, CloseMarket
  <2> QED
    BY <2>2, <2>4, <2>5
    DEF ExecutorStep, GateStep, GatePass, GateSettle, GateTrigger, BookStep, Start, Abort,
        LookUp, PlanTargets, OpenLegs, EndSubmit, EndCancel, AwaitLimits, EndClose, EndMarket,
        AwaitMarkets, EndBook, CancelLimit, CancelFails, LegFails, store, Rest, StoreTypes
<1> QED BY <1>1, <1>2, <1>3, <1>4, <1>5, <1>6, <1>7 DEF Rest, StoreTypes

-----------------------------------------------------------------------------
(* The invariant, and what follows from it.                                *)

LEMMA InitHolds ==
    ASSUME Init
    PROVE  IInv
<1> Absent \in Orders /\ NoTarget \in Targets
  BY NothingTypes
<1>1. OrderInv /\ flight \subseteq Requests /\ OrdersAreBacked
  BY DEF Init, BrokerInit, OrderInv, OrdersMakeSense, OrdersAreBacked, Absent, Working,
         WorkingStatus, Exists
<1>2. AttemptTypes
  BY DEF Init, AttemptTypes, Phases
<1>3. SubmitsAsk /\ TargetsAreAsked /\ LimitsAreClosed /\ ResidualsAreLeft
  BY DEF Init, SubmitsAsk, TargetsAreAsked, LimitsAreClosed, ResidualsAreLeft
<1>4. SeenIsFinal
  BY DEF Init, SeenIsFinal, Absent, Terminal, TerminalStatus
<1>5. HoldingTypes
  <2>1. position \in [Names -> Holdings] /\ closing = [n \in Names |-> 0]
    BY DEF Init, BrokerInit
  <2>2. Holdings \subseteq Int
    BY ExecutionAssumption
  <2>3. position \in [Names -> Int]
    BY <2>1, <2>2
  <2> QED BY <2>1, <2>3 DEF HoldingTypes
<1>6. HaltTypes
  BY HaltShapes DEF Init, HaltTypes, RoundsAreLeft, Quiet
<1>7. StoreTypes
  <2>1. faults \in 0..MaxFaults /\ halts \in 0..MaxHalts
    BY ExecutionAssumption DEF Init
  <2>2. events \subseteq Events
    <3>1. [trigger |-> "manual", flattened |-> FALSE] \in Events
      BY DEF Events, Triggers
    <3> QED BY <3>1 DEF Init
  <2>3. row \in [Ids -> Orders] /\ asked \in [Names -> SUBSET Targets]
    BY DEF Init
  <2> QED BY <2>1, <2>2, <2>3 DEF Init, StoreTypes
<1> QED BY <1>1, <1>2, <1>3, <1>4, <1>5, <1>6, <1>7
        DEF IInv, Core, BrokerInv, AttemptInv, Rest

LEMMA StepKeeps ==
    ASSUME IInv, [Next]_vars
    PROVE  IInv' /\ OrdersAdvance
<1> Core /\ Rest
  BY DEF IInv
<1>1. CASE BrokerStep /\ UNCHANGED <<attempt, halt, store, history>>
  <2>1. UNCHANGED asked
    BY <1>1 DEF history
  <2> QED BY <1>1, <2>1, BrokerCore, BrokerRest DEF IInv
<1>2. ASSUME NEW e \in Executors, ExecutorStep(e) PROVE IInv' /\ OrdersAdvance
  <2>1. Core' /\ OrdersAdvance
    BY <1>2, GateCore, BookCore DEF ExecutorStep
  <2> QED BY <1>2, <2>1, ExecutorRest DEF IInv
<1>3. ASSUME NEW p \in Operators, OperatorStep(p) PROVE IInv' /\ OrdersAdvance
  BY <1>3, OperatorRest DEF IInv
<1>4. ASSUME NEW p \in Procs, HaltStep(p) PROVE IInv' /\ OrdersAdvance
  BY <1>4, HaltCore, HaltRest DEF IInv
<1>5. CASE UNCHANGED vars
  <2>1. UNCHANGED <<broker, attempt, halt, store, history, asked>>
    BY <1>5 DEF vars, history
  <2>2. Rest'
    BY <2>1 DEF Rest, HoldingTypes, HaltTypes, RoundsAreLeft, StoreTypes, broker, store, history
  <2> QED BY <2>1, <2>2, CoreUnchanged DEF IInv
<1> QED BY <1>1, <1>2, <1>3, <1>4, <1>5 DEF Next

LEMMA InvariantHolds == Spec => []IInv
<1>1. Init => IInv
  BY InitHolds
<1>2. IInv /\ [Next]_vars => IInv'
  BY StepKeeps
<1> QED BY <1>1, <1>2, PTL DEF Spec

\* The state of the broker, the attempts, the halts and the stored rows keeps
\* its shape, and an order never fills past its own quantity.
THEOREM OrdersWellTyped == Spec => []TypeOK
<1>1. IInv => TypeOK
  BY DEF IInv, Core, BrokerInv, OrderInv, AttemptInv, AttemptTypes, Rest, HoldingTypes, HaltTypes,
         StoreTypes, TypeOK, BrokerTypeOK
<1> QED BY <1>1, InvariantHolds, PTL

\* What an attempt remembers of its reads and targets is enough to bound what
\* it still has to send (executor.py:243-460).
THEOREM ExposureIsBounded == Spec => []ExposureInv
<1>1. IInv => ExposureInv
  BY DEF IInv, Core, BrokerInv, OrderInv, AttemptInv, Rest, HaltTypes, ExposureInv
<1> QED BY <1>1, InvariantHolds, PTL

LEMMA LegsFit ==
    ASSUME IInv
    PROVE  SecondLegWaits /\ NoOverfill
<1> USE DEF IInv, Core, BrokerInv
<1>1. \A n \in Names : Lim(n) \in Ids /\ Mkt(n) \in Ids
  BY DEF Ids, Lim, Mkt, Legs
<1>2. \A n \in Names : Exists(order[Mkt(n)]) =>
         /\ Terminal(order[Lim(n)])
         /\ WithinTarget(n, order[Lim(n)].filled + order[Mkt(n)].qty)
  BY <1>1 DEF OrdersAreBacked, Backed, Mkt
<1>3. \A n \in Names : Exists(order[Lim(n)]) => WithinTarget(n, order[Lim(n)].qty)
  BY <1>1 DEF OrdersAreBacked, Backed, Lim
<1>4. \A i \in Ids : /\ order[i].filled \in Nat /\ order[i].qty \in Nat
                     /\ order[i].filled <= order[i].qty
                     /\ ~Exists(order[i]) => order[i].filled = 0
  BY BrokerAssumption DEF OrderInv, OrdersMakeSense, Orders
<1>5. \A n \in Names : \A t \in asked[n] : t.qty \in Nat
  BY BrokerAssumption DEF Rest, StoreTypes, Targets
<1>6. ASSUME NEW n \in Names, Exists(order[Lim(n)]) PROVE WithinTarget(n, Traded(n))
  <2>1. CASE Exists(order[Mkt(n)])
    <3>1. PICK t \in asked[n] : order[Lim(n)].filled + order[Mkt(n)].qty <= t.qty
      BY <1>2, <2>1 DEF WithinTarget
    <3>2. Traded(n) <= t.qty
      BY <1>1, <1>4, <1>5, <3>1 DEF Traded
    <3> QED BY <3>2 DEF WithinTarget
  <2>2. CASE ~Exists(order[Mkt(n)])
    <3>1. PICK t \in asked[n] : order[Lim(n)].qty <= t.qty
      BY <1>3, <1>6 DEF WithinTarget
    <3>2. Traded(n) <= t.qty
      BY <1>1, <1>4, <1>5, <2>2, <3>1 DEF Traded
    <3> QED BY <3>2 DEF WithinTarget
  <2> QED BY <2>1, <2>2
<1> QED BY <1>2, <1>6 DEF SecondLegWaits, NoOverfill

\* The two legs of a name together never fill past a target that was asked
\* for, with any number of workers, lost answers and restarts, and with or
\* without the execute lock (executor.py:14-18).
THEOREM NeverOverfilled == Spec => []NoOverfill
<1>1. IInv => NoOverfill
  BY LegsFit
<1> QED BY <1>1, InvariantHolds, PTL

\* The residual goes out only once the limit order is final, and fits the
\* target with all of its quantity (executor.py:388-421).
THEOREM ResidualWaits == Spec => []SecondLegWaits
<1>1. IInv => SecondLegWaits
  BY LegsFit
<1> QED BY <1>1, InvariantHolds, PTL

-----------------------------------------------------------------------------
(* Reads and rows are never ahead of the broker.                           *)

Behind(o, now) ==
    Exists(o) => /\ Exists(now) /\ o.qty = now.qty /\ o.side = now.side
                 /\ o.filled <= now.filled
                 /\ Terminal(o) => o = now

ReadsBehind == \A e \in Executors : \A i \in Ids : Behind(seen[e][i], order[i])
RowsBehind == \A i \in Ids : Behind(row[i], order[i])

LEMMA BehindStays ==
    ASSUME OrderInv, OrderInv', OrdersAdvance, NEW i \in Ids, NEW o \in Orders, Behind(o, order[i])
    PROVE  Behind(o, order'[i])
<1>1. order[i].filled \in Nat /\ order'[i].filled \in Nat /\ o.filled \in Nat
  BY BrokerAssumption DEF OrderInv, Orders
<1> QED BY <1>1 DEF OrdersAdvance, Later, Behind, Terminal, TerminalStatus, Exists

LEMMA ReadIsNotAhead ==
    ASSUME NEW o \in Orders
    PROVE  Behind(o, o) /\ Behind(Absent, o)
BY BrokerAssumption DEF Behind, Orders, Absent, Exists

Answered(e, i) == seen'[e][i] \in {seen[e][i], order[i], order'[i], Absent}

\* Every read is an answer of the broker, and every attempt ends without one.
LEMMA ReadsAreAnswers ==
    ASSUME IInv, [Next]_vars
    PROVE  \A e \in Executors : \A i \in Ids : Answered(e, i)
<1> SUFFICES ASSUME NEW f \in Executors, NEW i \in Ids
             PROVE  Answered(f, i)
  OBVIOUS
<1> AttemptTypes
  BY DEF IInv, Core, AttemptInv
<1>0. \A n \in Names : Lim(n) \in Ids /\ Mkt(n) \in Ids
  BY DEF Ids, Lim, Mkt, Legs
<1>1. ASSUME NEW p, End(p) PROVE Answered(f, i)
  BY <1>1 DEF Answered, End, Forget, AttemptTypes
<1>2. ASSUME NEW p, Resume(p) PROVE Answered(f, i)
  BY <1>1, <1>2 DEF Resume, Answered
<1>3. ASSUME NEW p \in Procs, HaltStep(p) PROVE Answered(f, i)
  BY <1>1, <1>2, <1>3
  DEF HaltStep, ListNone, ListSome, CancelListed, ConfirmListed, ClosePositions, HaltFails,
      RecordHalt, RecordFails, attempt, Answered
<1>4. ASSUME NEW p \in Operators, OperatorStep(p) PROVE UNCHANGED seen
  BY <1>4 DEF OperatorStep, ManualHalt, HaltDies, attempt
<1>5. ASSUME NEW e \in Executors, ExecutorStep(e)
      PROVE  Answered(f, i)
  <2>1. CASE EndBook(e) \/ Abort(e) \/ WriteFresh(e)
    BY <1>1, <2>1 DEF EndBook, Abort, WriteFresh
  <2>2. CASE OpenLegs(e)
    BY <2>2 DEF OpenLegs, AttemptTypes, Answered
  <2>7. CASE ReadOpenRows(e)
    <3>1. PICK changed : seen' = [seen EXCEPT ![e] =
              [j \in Ids |-> IF j \in changed THEN order[j] ELSE @[j]]]
      BY <2>7 DEF ReadOpenRows
    <3> QED BY <3>1 DEF AttemptTypes, Answered
  <2>3. CASE AwaitLimits(e) \/ AwaitMarkets(e)
    <3>1. ASSUME NEW leg, AwaitAll(e, leg) PROVE seen'[f][i] \in {seen[f][i], order[i]}
      BY <3>1 DEF AwaitAll, AttemptTypes
    <3> QED BY <2>3, <3>1 DEF AwaitLimits, AwaitMarkets, Answered
  <2>4. ASSUME NEW j \in Ids, NEW o, seen' = [seen EXCEPT ![e][j] = o],
               o = order[j] \/ o = order'[j]
        PROVE  Answered(f, i)
    BY <2>4 DEF AttemptTypes, Answered
  <2>5. ASSUME NEW n \in Names, SubmitLimit(e, n) \/ SubmitMarket(e, n) PROVE Answered(f, i)
    <3>1. CASE UNCHANGED seen
      BY <3>1 DEF Answered
    <3>2. CASE \E j \in {Lim(n), Mkt(n)} : \/ seen' = [seen EXCEPT ![e][j] = order[j]]
                                         \/ seen' = [seen EXCEPT ![e][j] = order'[j]]
      BY <1>0, <2>4, <3>2
    <3> QED BY <2>5, <3>1, <3>2 DEF SubmitLimit, SubmitMarket, Submitted, SubmitLost
  <2>6. ASSUME NEW n \in Names, CancelLimit(e, n) \/ CancelFails(e, n) PROVE Answered(f, i)
    BY <1>0, <2>4, <2>6 DEF CancelLimit, CancelFails
  <2> QED
    BY <1>5, <2>1, <2>2, <2>3, <2>4, <2>5, <2>6, <2>7
    DEF ExecutorStep, GateStep, GatePass, GateSettle, GateTrigger, BookStep, Start,
        ReconcileOrders, LookUp, PlanTargets, EndSubmit, EndCancel, EndClose, EndMarket,
        CloseLimit, CloseMarket, LegFails, attempt, Answered
<1> QED BY <1>3, <1>4, <1>5 DEF Next, vars, attempt, Answered

\* A stored row is written from an answer or from a read an attempt remembers.
LEMMA RowsAreAnswers ==
    ASSUME IInv, RowsBehind, [Next]_vars, NEW i \in Ids
    PROVE  \/ row'[i] \in {row[i], order'[i]}
           \/ \E e \in Executors : row'[i] = seen[e][i]
<1> row \in [Ids -> Orders] /\ order \in [Ids -> Orders]
  BY DEF IInv, Rest, StoreTypes, Core, BrokerInv, OrderInv
<1>0. \A n \in Names : Lim(n) \in Ids /\ Mkt(n) \in Ids
  BY DEF Ids, Lim, Mkt, Legs
<1>1. ASSUME NEW p \in Procs, HaltStep(p) PROVE UNCHANGED row
  BY <1>1 DEF HaltStep, ListNone, ListSome, CancelListed, ConfirmListed, ClosePositions, HaltFails,
              RecordHalt, RecordFails, store
<1>2. ASSUME NEW p \in Operators, OperatorStep(p) PROVE UNCHANGED row
  BY <1>2 DEF OperatorStep, ManualHalt, HaltDies, store
<1>3. ASSUME NEW e \in Executors, ExecutorStep(e)
      PROVE  row'[i] \in {row[i], order'[i], seen[e][i]}
  <2>1. CASE ReconcileOrders(e)
    BY <2>1 DEF ReconcileOrders, ReadOpenRows, WriteFresh, store
  <2>2. ASSUME NEW j \in Ids, NEW o, Note(j, o) PROVE row'[i] = row[i] \/ (i = j /\ row'[i] = o)
    BY <2>2 DEF Note
  <2>3. ASSUME NEW n \in Names, SubmitLimit(e, n) \/ SubmitMarket(e, n)
        PROVE  row'[i] \in {row[i], order'[i]}
    <3>1. UNCHANGED row \/ \E j \in {Lim(n), Mkt(n)} : Note(j, order'[j])
      BY <2>3 DEF SubmitLimit, SubmitMarket, Submitted, SubmitLost, store
    <3> QED BY <1>0, <2>2, <3>1
  <2>4. ASSUME NEW n \in Names, CloseLimit(e, n) \/ CloseMarket(e, n)
        PROVE  row'[i] \in {row[i], seen[e][i]}
    BY <1>0, <2>2, <2>4 DEF CloseLimit, CloseMarket
  <2> QED
    BY <1>3, <2>1, <2>3, <2>4
    DEF ExecutorStep, GateStep, GatePass, GateSettle, GateTrigger, BookStep, Start, Abort,
        LookUp, PlanTargets, OpenLegs, EndSubmit, EndCancel, AwaitLimits, EndClose, EndMarket,
        AwaitMarkets, EndBook, CancelLimit, CancelFails, LegFails, store
<1> QED BY <1>1, <1>2, <1>3 DEF Next, vars, store

LEMMA RowsKeep ==
    ASSUME IInv, ReadsBehind, RowsBehind, [Next]_vars
    PROVE  ReadsBehind' /\ RowsBehind'
<1>1. IInv' /\ OrdersAdvance
  BY StepKeeps
<1>2. /\ OrderInv /\ OrderInv' /\ OrdersAdvance
      /\ row \in [Ids -> Orders] /\ \A e \in Executors : \A i \in Ids : seen[e][i] \in Orders
      /\ \A i \in Ids : order[i] \in Orders /\ order'[i] \in Orders
  BY <1>1 DEF IInv, Core, BrokerInv, OrderInv, AttemptInv, AttemptTypes, Rest, StoreTypes
<1>3. ASSUME NEW i \in Ids
      PROVE  /\ Behind(row[i], order'[i]) /\ Behind(order[i], order'[i])
             /\ Behind(order'[i], order'[i]) /\ Behind(Absent, order'[i])
             /\ \A e \in Executors : Behind(seen[e][i], order'[i])
  BY <1>2, BehindStays, ReadIsNotAhead DEF ReadsBehind, RowsBehind
<1>4. ReadsBehind'
  <2> SUFFICES ASSUME NEW e \in Executors, NEW i \in Ids PROVE Behind(seen'[e][i], order'[i])
    BY DEF ReadsBehind, Behind
  <2> QED BY <1>3, ReadsAreAnswers DEF Answered
<1>5. RowsBehind'
  <2> SUFFICES ASSUME NEW i \in Ids PROVE Behind(row'[i], order'[i])
    BY DEF RowsBehind, Behind
  <2> QED BY <1>3, RowsAreAnswers
<1> QED BY <1>4, <1>5

\* A stored row never claims a fill, a quantity or a final state the broker does
\* not have, though it is written from reads that may be old
\* (executor.py:339-343, write.py:805-834).
THEOREM RowsNeverClaimMore == Spec => []RowsNeverOverstate
<1> DEFINE RowInv == IInv /\ ReadsBehind /\ RowsBehind
<1>1. Init => RowInv
  BY InitHolds DEF Init, ReadsBehind, RowsBehind, Behind, Absent, Exists
<1>2. RowInv /\ [Next]_vars => RowInv'
  BY StepKeeps, RowsKeep
<1>3. RowInv => RowsNeverOverstate
  BY DEF RowsBehind, Behind, RowsNeverOverstate
<1> QED BY <1>1, <1>2, <1>3, PTL DEF Spec

-----------------------------------------------------------------------------
(* The end of a run, and the abstract specification.                       *)

\* A run halted before it was anchored keeps its status: its attempts engage
\* the kill switch before they get past the first gate.
EarlyHaltHolds ==
    (status = "anchored" /\ events # {}) =>
        \A e \in Executors : pc[e] \in {"idle", "reconcile", "start"} \/ ks[e]

\* What a step does to the status.
LEMMA StatusSteps ==
    ASSUME IInv, [Next]_vars
    PROVE  \/ UNCHANGED <<status, events>>
           \/ status' = "halted"
           \/ \E e \in Executors : EndBook(e) /\ UNCHANGED events
                                  /\ status = "anchored" /\ status' = "executed" /\ ~ks[e]
                                  /\ pc[e] = "close_market"
<1>1. ASSUME NEW p \in Procs, HaltStep(p)
      PROVE  UNCHANGED <<status, events>> \/ status' = "halted"
  BY <1>1 DEF HaltStep, ListNone, ListSome, CancelListed, ConfirmListed, ClosePositions, HaltFails,
              RecordHalt, RecordEvent, RecordFails, store
<1>2. ASSUME NEW p \in Operators, OperatorStep(p) PROVE UNCHANGED <<status, events>>
  BY <1>2 DEF OperatorStep, ManualHalt, HaltDies, store
<1>3. ASSUME NEW e \in Executors, ExecutorStep(e), ~EndBook(e) PROVE UNCHANGED <<status, events>>
  BY <1>3
  DEF ExecutorStep, GateStep, GatePass, GateSettle, GateTrigger, BookStep, Start, Abort,
      ReconcileOrders, ReadOpenRows, WriteFresh, LookUp, PlanTargets, OpenLegs, EndSubmit,
      EndCancel, AwaitLimits, EndClose, EndMarket, AwaitMarkets, SubmitLimit, CancelLimit,
      CancelFails, CloseLimit, SubmitMarket, CloseMarket, LegFails, Submitted, SubmitLost, store
<1>4. ASSUME NEW e \in Executors, EndBook(e)
      PROVE  /\ UNCHANGED events
             /\ \/ UNCHANGED status
                \/ /\ status = "anchored" /\ status' = "executed"
                   /\ ~ks[e] /\ pc[e] = "close_market"
  BY <1>4 DEF EndBook, Complete
<1> QED BY <1>1, <1>2, <1>3, <1>4 DEF Next, vars, store

\* The kill switch stays engaged until its attempt ends, and an attempt passes
\* its first gate only with the switch engaged or with no event on record.
LEMMA SwitchSteps ==
    ASSUME IInv, [Next]_vars, NEW f \in Executors
    PROVE  \/ pc'[f] \in {"idle", "reconcile", "start"}
           \/ ks'[f] \/ events = {}
           \/ pc[f] \notin {"idle", "reconcile", "start"} /\ ks'[f] = ks[f]
<1> AttemptTypes
  BY DEF IInv, Core, AttemptInv
<1> DEFINE Goal == \/ pc'[f] \in {"idle", "reconcile", "start"}
                   \/ ks'[f] \/ events = {}
                   \/ pc[f] \notin {"idle", "reconcile", "start"} /\ ks'[f] = ks[f]
<1>0. CASE UNCHANGED <<pc, ks>>
  BY <1>0
<1>1. ASSUME NEW p, End(p) PROVE pc'[f] = "idle" \/ (pc'[f] = pc[f] /\ ks'[f] = ks[f])
  BY <1>1 DEF End, Forget, AttemptTypes
<1>2. ASSUME NEW p, Pass(p), UNCHANGED ks, pc[p] # "start"
      PROVE  (pc'[f] = pc[f] \/ pc[f] \in {"gate1", "gate2"}) /\ ks'[f] = ks[f]
  BY <1>2 DEF Pass, EnterSubmit, EnterMarket, Enter, AttemptTypes
<1>3. ASSUME NEW p, Resume(p) PROVE Goal
  BY <1>1, <1>2, <1>3 DEF Resume
<1>4. ASSUME NEW p \in Procs, HaltStep(p) PROVE Goal
  <2>1. (\E q : End(q) \/ Resume(q)) \/ UNCHANGED <<pc, ks>>
    BY <1>4 DEF HaltStep, ListNone, ListSome, CancelListed, ConfirmListed, ClosePositions,
                HaltFails, RecordHalt, RecordFails, attempt
  <2> QED BY <1>0, <1>1, <1>3, <2>1
<1>5. ASSUME NEW p \in Operators, OperatorStep(p) PROVE Goal
  BY <1>0, <1>5 DEF OperatorStep, ManualHalt, HaltDies, attempt
<1>6. ASSUME NEW e \in Executors, GateStep(e) PROVE Goal
  <2>1. CASE GatePass(e)
    <3>1. UNCHANGED ks /\ Pass(e) /\ (ks[e] \/ events = {}) /\ pc[e] # "idle"
      BY <2>1 DEF GatePass, AtGate, Gates
    <3>2. f # e => pc'[f] = pc[f]
      BY <3>1 DEF Pass, EnterSubmit, EnterMarket, Enter, AttemptTypes
    <3> QED BY <3>1, <3>2
  <2>2. CASE GateSettle(e) \/ GateTrigger(e)
    BY <2>2 DEF GateSettle, GateTrigger, AttemptTypes
  <2> QED BY <1>6, <2>1, <2>2 DEF GateStep
<1>7. ASSUME NEW e \in Executors, BookStep(e) \/ Start(e) \/ Abort(e) \/ ReconcileOrders(e)
      PROVE  Goal
  <2>1. CASE EndBook(e) \/ Abort(e) \/ WriteFresh(e)
    BY <1>1, <2>1 DEF EndBook, Abort, WriteFresh
  <2>2. CASE UNCHANGED <<pc, ks>>
    BY <1>0, <2>2
  <2>3. ASSUME NEW phase, NEW names, Enter(e, phase, names), UNCHANGED ks,
               phase \in {"reconcile", "start"} \/ pc[e] \notin {"idle", "reconcile", "start"}
        PROVE  Goal
    BY <2>3 DEF Enter, AttemptTypes
  <2> QED
    BY <1>7, <2>1, <2>2, <2>3
    DEF BookStep, Start, ReconcileOrders, ReadOpenRows, LookUp, PlanTargets, OpenLegs,
        EndSubmit, EndCancel, AwaitLimits, EndClose, EndMarket, AwaitMarkets, SubmitLimit,
        CancelLimit, CancelFails, CloseLimit, SubmitMarket, CloseMarket, LegFails, Submitted,
        SubmitLost, attempt
<1> QED BY <1>0, <1>4, <1>5, <1>6, <1>7 DEF Next, ExecutorStep, vars, attempt

\* A halt is final, EXECUTED is followed by a halt only, and a run with an event
\* on record is never executed (write.py:500-511, 608-640).
THEOREM EndsStayFinal == Spec => EndsAreFinal
<1> DEFINE EndInv == IInv /\ EarlyHaltHolds
<1>1. Init => EndInv
  BY InitHolds DEF Init, EarlyHaltHolds
<1>2. EndInv /\ [Next]_vars => EndInv'
  <2> SUFFICES ASSUME EndInv, [Next]_vars PROVE EndInv'
    OBVIOUS
  <2>1. IInv'
    BY StepKeeps
  <2>2. ASSUME status' = "anchored", events' # {}, NEW f \in Executors
        PROVE  pc'[f] \in {"idle", "reconcile", "start"} \/ ks'[f]
    <3>1. status = "anchored" /\ events # {}
      BY <2>2, StatusSteps
    <3>2. pc[f] \in {"idle", "reconcile", "start"} \/ ks[f]
      BY <3>1 DEF EarlyHaltHolds
    <3> QED BY <3>1, <3>2, SwitchSteps
  <2> QED BY <2>1, <2>2 DEF EarlyHaltHolds
<1>3. EndInv /\ [Next]_vars =>
        [/\ status = "halted" => status' = "halted"
         /\ status = "executed" => status' \in {"executed", "halted"}
         /\ (status = "anchored" /\ status' = "executed") => events = {}]_vars
  <2> SUFFICES ASSUME EndInv, [Next]_vars
               PROVE  /\ status = "halted" => status' = "halted"
                      /\ status = "executed" => status' \in {"executed", "halted"}
                      /\ (status = "anchored" /\ status' = "executed") => events = {}
    OBVIOUS
  <2> QED BY StatusSteps DEF EarlyHaltHolds
<1> QED BY <1>1, <1>2, <1>3, PTL DEF Spec, EndsAreFinal

FillsStay == \A i \in Ids : order'[i].filled = order[i].filled

\* Only the broker's trades move a fill.
LEMMA OnlyTradesFill ==
    ASSUME IInv, [Next]_vars, \A i \in Ids : ~(Fill(i) /\ UNCHANGED <<attempt, halt, store, history>>)
    PROVE  FillsStay
<1> OrderInv
  BY DEF IInv, Core, BrokerInv
<1>0. order \in [Ids -> Orders] /\ \A i \in Ids : ~Exists(order[i]) => order[i].filled = 0
  BY DEF OrderInv, OrdersMakeSense
<1>1. CASE UNCHANGED order
  BY <1>1 DEF FillsStay
<1>2. ASSUME NEW S, order' = AskedToCancel(S) PROVE FillsStay
  BY <1>0, <1>2 DEF AskedToCancel, FillsStay, Orders
<1>3. ASSUME NEW i, NEW side, NEW qty, Accept(i, side, qty) PROVE FillsStay
  BY <1>0, <1>3 DEF Accept, Placed, FillsStay, Orders
<1>4. CASE BrokerStep /\ UNCHANGED <<attempt, halt, store, history>>
  <2>1. ASSUME NEW i \in Ids, ConfirmCancel(i) \/ Expire(i) PROVE FillsStay
    BY <1>0, <2>1 DEF ConfirmCancel, Expire, FillsStay, Orders
  <2> QED BY <1>1, <1>3, <1>4, <2>1 DEF BrokerStep, Land, Drop, CloseFill
<1>5. ASSUME NEW e \in Executors, ExecutorStep(e) PROVE FillsStay
  BY <1>1, <1>2, <1>3, <1>5
  DEF ExecutorStep, GateStep, GatePass, GateSettle, GateTrigger, BookStep, Start, Abort,
      ReconcileOrders, ReadOpenRows, WriteFresh, LookUp, PlanTargets, OpenLegs, EndSubmit,
      EndCancel, AwaitLimits, EndClose, EndMarket, AwaitMarkets, EndBook, SubmitLimit,
      CancelLimit, CancelFails, CloseLimit, SubmitMarket, CloseMarket, LegFails, Submitted,
      SubmitLost, broker
<1>6. ASSUME NEW p \in Procs, HaltStep(p) PROVE FillsStay
  BY <1>1, <1>2, <1>6
  DEF HaltStep, ListNone, ListSome, CancelListed, ConfirmListed, ClosePositions, HaltFails,
      RecordHalt, RecordFails, broker
<1>7. ASSUME NEW p \in Operators, OperatorStep(p) PROVE FillsStay
  BY <1>1, <1>7 DEF OperatorStep, ManualHalt, HaltDies, broker
<1> QED BY <1>1, <1>4, <1>5, <1>6, <1>7 DEF Next, vars, broker

LEMMA AskedByPlansOnly ==
    ASSUME [Next]_vars, ~\E e \in Executors : PlanTargets(e)
    PROVE  UNCHANGED asked
<1>1. ASSUME NEW e \in Executors, ExecutorStep(e) PROVE UNCHANGED asked
  BY <1>1
  DEF ExecutorStep, GateStep, GatePass, GateSettle, GateTrigger, BookStep, Start, Abort,
      ReconcileOrders, ReadOpenRows, WriteFresh, LookUp, OpenLegs, EndSubmit, EndCancel,
      AwaitLimits, EndClose, EndMarket, AwaitMarkets, EndBook, SubmitLimit, CancelLimit,
      CancelFails, CloseLimit, SubmitMarket, CloseMarket, LegFails, Submitted, SubmitLost,
      history
<1>2. ASSUME NEW p \in Procs, HaltStep(p) PROVE UNCHANGED asked
  BY <1>2 DEF HaltStep, ListNone, ListSome, CancelListed, ConfirmListed, ClosePositions, HaltFails,
              RecordHalt, RecordFails, history
<1>3. ASSUME NEW p \in Operators, OperatorStep(p) PROVE UNCHANGED asked
  BY <1>3 DEF OperatorStep, ManualHalt, HaltDies
<1> QED BY <1>1, <1>2, <1>3 DEF Next, vars, history

wantedBar == [n \in Names |-> Wanted(n)]
tradedBar == [n \in Names |-> Traded(n)]

LEMMA TradeIsWanted ==
    ASSUME IInv, SecondLegWaits', NoOverfill', NEW i \in Ids, Fill(i),
           UNCHANGED <<attempt, halt, store, history>>
    PROVE  E!Trade(i[1])
<1> DEFINE n == i[1]
<1>1. n \in Names /\ Lim(n) \in Ids /\ Mkt(n) \in Ids /\ i \in {Lim(n), Mkt(n)}
  BY DEF Ids, Lim, Mkt, Legs
<1>2. /\ order[i].filled \in Nat /\ order'[i] = [order[i] EXCEPT
           !.filled = order[i].filled + 1,
           !.status = IF order[i].filled + 1 = order[i].qty THEN "filled" ELSE order[i].status]
      /\ \A j \in Ids \ {i} : order'[j] = order[j]
  BY DEF IInv, Core, BrokerInv, OrderInv, Orders, Fill
<1>3. order'[i].filled = order[i].filled + 1 /\ Exists(order'[i])
  BY <1>2 DEF IInv, Core, BrokerInv, OrderInv, Orders, Fill, Working, WorkingStatus, Exists
<1>4. \A j \in Ids : order[j].filled \in Nat
  BY BrokerAssumption DEF IInv, Core, BrokerInv, OrderInv, Orders
<1>5. Traded(n)' = Traded(n) + 1
  <2>1. Lim(n) # Mkt(n)
    BY DEF Lim, Mkt
  <2>2. CASE i = Lim(n)
    <3>1. order'[Lim(n)].filled = order[Lim(n)].filled + 1
      BY <1>3, <2>2
    <3>2. order'[Mkt(n)] = order[Mkt(n)]
      BY <1>1, <1>2, <2>1, <2>2
    <3>3. order[Lim(n)].filled \in Nat /\ order[Mkt(n)].filled \in Nat
      BY <1>1, <1>4
    <3> QED BY <3>1, <3>2, <3>3 DEF Traded
  <2>3. CASE i = Mkt(n)
    <3>1. order'[Mkt(n)].filled = order[Mkt(n)].filled + 1
      BY <1>3, <2>3
    <3>2. order'[Lim(n)] = order[Lim(n)]
      BY <1>1, <1>2, <2>1, <2>3
    <3>3. order[Lim(n)].filled \in Nat /\ order[Mkt(n)].filled \in Nat
      BY <1>1, <1>4
    <3> QED BY <3>1, <3>2, <3>3 DEF Traded
  <2> QED BY <1>1, <2>2, <2>3
<1>6. \A k \in Names \ {n} : Traded(k)' = Traded(k)
  BY <1>2 DEF Traded, Lim, Mkt, Ids, Legs
<1>7. tradedBar' = [tradedBar EXCEPT ![n] = @ + 1]
  BY <1>1, <1>5, <1>6 DEF tradedBar
<1>8. WithinTarget(n, Traded(n))'
  <2>2. Exists(order'[Lim(n)])
    <3>1. CASE i = Lim(n)
      BY <1>3, <3>1
    <3>2. CASE i = Mkt(n)
      <4>1. Terminal(order'[Lim(n)])
        BY <1>1, <1>3, <3>2 DEF SecondLegWaits
      <4> QED BY <4>1 DEF Terminal, TerminalStatus, Exists
    <3> QED BY <1>1, <3>1, <3>2
  <2> QED BY <1>1, <2>2 DEF NoOverfill
<1>9. asked' = asked /\ status' = status
  BY DEF history, store
<1>10. \E qty \in wantedBar[n] : tradedBar[n] < qty
  <2>1. PICK t \in asked[n] : Traded(n) + 1 <= t.qty
    BY <1>5, <1>8, <1>9 DEF WithinTarget
  <2>2. t.qty \in Nat /\ Traded(n) \in Nat
    BY <1>1, <1>4, BrokerAssumption DEF IInv, Rest, StoreTypes, Targets, Traded
  <2>3. Traded(n) < t.qty /\ t.qty \in Wanted(n)
    BY <2>1, <2>2 DEF Wanted
  <2> QED BY <1>1, <2>3 DEF wantedBar, tradedBar
<1>11. wantedBar' = wantedBar
  BY <1>9 DEF wantedBar, Wanted
<1> QED BY <1>7, <1>9, <1>10, <1>11 DEF E!Trade, wantedBar, tradedBar

LEMMA ExposureStep ==
    ASSUME IInv, SecondLegWaits', NoOverfill', [Next]_vars
    PROVE  [E!Next]_(E!exposure)
<1>1. CASE \E i \in Ids : Fill(i) /\ UNCHANGED <<attempt, halt, store, history>>
  <2>1. PICK i \in Ids : Fill(i) /\ UNCHANGED <<attempt, halt, store, history>>
    BY <1>1
  <2>2. i[1] \in Names
    BY DEF Ids
  <2> QED BY <2>1, <2>2, TradeIsWanted DEF E!Next
<1>2. CASE \A i \in Ids : ~(Fill(i) /\ UNCHANGED <<attempt, halt, store, history>>)
  <2>1. tradedBar' = tradedBar
    <3>1. \A n \in Names : Traded(n)' = Traded(n)
      BY <1>2, OnlyTradesFill DEF FillsStay, Traded, Lim, Mkt, Ids, Legs
    <3> QED BY <3>1 DEF tradedBar
  <2>2. CASE \E e \in Executors : PlanTargets(e)
    <3>1. PICK e \in Executors : PlanTargets(e)
      BY <2>2
    <3>2. UNCHANGED status /\ \A n \in Names : asked[n] \subseteq asked'[n]
      BY <3>1 DEF PlanTargets, store
    <3>3. \A n \in Names : wantedBar[n] \subseteq wantedBar'[n]
      BY <3>2 DEF wantedBar, Wanted
    <3> QED BY <2>1, <3>2, <3>3 DEF E!Next, E!Plan, wantedBar, tradedBar
  <2>3. CASE ~\E e \in Executors : PlanTargets(e)
    <3>1. UNCHANGED asked
      BY <2>3, AskedByPlansOnly
    <3>2. wantedBar' = wantedBar
      BY <3>1 DEF wantedBar, Wanted
    <3>3. UNCHANGED status \/ status' = "halted" \/ (status = "anchored" /\ status' = "executed")
      BY StatusSteps
    <3> QED BY <2>1, <3>2, <3>3 DEF E!Next, E!Execute, E!Halt, E!exposure, wantedBar, tradedBar
  <2> QED BY <2>2, <2>3
<1> QED BY <1>1, <1>2

\* Executing a run, with all its attempts, workers, halts and lost answers,
\* implements Exposure (executor.py:1-20).
THEOREM ExecutionImplementsExposure == Spec => ImplementsExposure
<1>1. Init => E!Init
  BY DEF Init, BrokerInit, E!Init, Wanted, Traded, Lim, Mkt, Ids, Legs, Absent
<1>2. IInv => SecondLegWaits /\ NoOverfill
  BY LegsFit
<1>3. IInv /\ (SecondLegWaits /\ NoOverfill)' /\ [Next]_vars => [E!Next]_(E!exposure)
  BY ExposureStep
<1> QED BY <1>1, <1>2, <1>3, InvariantHolds, PTL DEF Spec, ImplementsExposure, E!Spec

-----------------------------------------------------------------------------
(* One attempt at a time: what the execute lock buys when it is kept.      *)

Same(f) ==
    /\ pc'[f] = pc[f] /\ ks'[f] = ks[f] /\ todo'[f] = todo[f]
    /\ target'[f] = target[f] /\ seen'[f] = seen[f] /\ failed'[f] = failed[f]

\* The kill switch of an attempt is engaged at a gate.
Engages(f) ==
    /\ pc[f] \in Gates /\ pc'[f] = pc[f] /\ ks'[f] /\ todo'[f] = todo[f]
    /\ target'[f] = target[f] /\ seen'[f] = seen[f] /\ failed'[f] = failed[f]

Passes(f) ==
    /\ \/ pc[f] = "start" /\ pc'[f] = "look"
       \/ /\ pc[f] = "gate1" /\ pc'[f] = "submit"
          /\ todo'[f] \subseteq {n \in Live(f) : /\ ~Exists(seen[f][Lim(n)])
                                                 /\ Allows(f, target[f][n].side)}
       \/ pc[f] = "gate2" /\ pc'[f] = "market"
    /\ ks'[f] = ks[f]
    /\ target'[f] = target[f] /\ seen'[f] = seen[f] /\ failed'[f] = failed[f]

Starts(f) ==
    /\ pc[f] = "idle" /\ pc'[f] = "start" /\ Free(f) /\ status # "executed"
    /\ \A g \in Executors \ {f} : Same(g)

\* A reconciliation takes the lock, reads, and sends nothing.
Reconciles(f) ==
    /\ pc[f] = "idle" /\ pc'[f] = "reconcile" /\ Free(f) /\ ReconcileOrders(f)
    /\ \A g \in Executors \ {f} : Same(g)

\* How a step that is not a step of the book may move an attempt.
Moves(f) ==
    Same(f) \/ Engages(f) \/ Passes(f) \/ Starts(f) \/ Reconciles(f) \/ pc'[f] = "idle"

LEMMA SameStays ==
    ASSUME UNCHANGED attempt, NEW f \in Executors
    PROVE  Same(f)
BY DEF attempt, Same

LEMMA EndMoves ==
    ASSUME AttemptTypes, NEW p, End(p), NEW f \in Executors
    PROVE  Same(f) \/ (f = p /\ pc'[f] = "idle")
BY DEF AttemptTypes, End, Forget, Same

LEMMA PassMoves ==
    ASSUME AttemptTypes, NEW p, Pass(p), UNCHANGED <<ks, target, seen, failed>>,
           NEW f \in Executors
    PROVE  Same(f) \/ (f = p /\ Passes(f))
<1>1. CASE f # p
  BY <1>1 DEF AttemptTypes, Pass, EnterSubmit, EnterMarket, Enter, Same
<1>2. CASE f = p
  BY <1>2 DEF AttemptTypes, Pass, EnterSubmit, EnterMarket, Enter, Passes
<1> QED BY <1>1, <1>2

LEMMA ResumeMoves ==
    ASSUME AttemptTypes, NEW p, Resume(p), NEW f \in Executors
    PROVE  Same(f) \/ (f = p /\ (Passes(f) \/ pc'[f] = "idle"))
BY EndMoves, PassMoves DEF Resume

\* What a step of the book leaves alone.
LEMMA BookLeaves ==
    ASSUME AttemptTypes, ~LateLanding, NEW e \in Executors, BookStep(e)
    PROVE  /\ pc[e] \notin Gates \cup {"idle", "reconcile"}
           /\ \A f \in Executors \ {e} : Same(f)
           /\ UNCHANGED <<flight, position, closing, halt, events>>
           /\ \/ pc'[e] = "idle"
              \/ pc'[e] \notin {"idle", "reconcile", "start", "look"} /\ ks'[e] = ks[e]
           /\ pc'[e] = "submit" => pc[e] = "submit"
<1> DEFINE Goal == /\ pc[e] \notin Gates \cup {"idle", "reconcile"}
                   /\ \A f \in Executors \ {e} : Same(f)
                   /\ UNCHANGED <<flight, position, closing, halt, events>>
                   /\ \/ pc'[e] = "idle"
                      \/ pc'[e] \notin {"idle", "reconcile", "start", "look"} /\ ks'[e] = ks[e]
                   /\ pc'[e] = "submit" => pc[e] = "submit"
<1>1. CASE LookUp(e) \/ PlanTargets(e) \/ OpenLegs(e)
  BY <1>1 DEF LookUp, PlanTargets, OpenLegs, Enter, broker, store, AttemptTypes, Same, Gates
<1>2. CASE EndSubmit(e) \/ EndCancel(e) \/ EndClose(e) \/ EndMarket(e)
  BY <1>2 DEF EndSubmit, EndCancel, EndClose, EndMarket, Enter, broker, store, AttemptTypes, Same,
              Gates
<1>3. CASE AwaitLimits(e) \/ AwaitMarkets(e)
  <2>1. ASSUME NEW leg, AwaitAll(e, leg) PROVE \A f \in Executors \ {e} : seen'[f] = seen[f]
    BY <2>1 DEF AwaitAll, AttemptTypes
  <2> QED
    BY <1>3, <2>1 DEF AwaitLimits, AwaitMarkets, Enter, broker, store, AttemptTypes, Same, Gates
<1>4. CASE EndBook(e)
  BY <1>4, EndMoves DEF EndBook, End, broker, AttemptTypes, Gates
<1>5. ASSUME NEW n \in Names,
             \/ CancelLimit(e, n) \/ CancelFails(e, n) \/ CloseLimit(e, n)
             \/ CloseMarket(e, n) \/ LegFails(e, n)
      PROVE  Goal
  BY <1>5 DEF CancelLimit, CancelFails, CloseLimit, CloseMarket, LegFails, Handled, Fails,
              broker, store, AttemptTypes, Same, Gates
<1>6. ASSUME NEW n \in Names, NEW i, NEW side, NEW qty,
             Submitted(e, n, i, side, qty) \/ SubmitLost(e, n, i, side, qty),
             pc[e] \in {"submit", "market"}
      PROVE  Goal
  BY <1>6 DEF Submitted, SubmitLost, Handled, Fails, store, AttemptTypes, Same, Gates
<1>7. ASSUME NEW n \in Names, SubmitLimit(e, n) PROVE Goal
  BY <1>6, <1>7 DEF SubmitLimit
<1>8. ASSUME NEW n \in Names, SubmitMarket(e, n) PROVE Goal
  <2>1. CASE UNCHANGED broker
    BY <1>8, <2>1, <1>6 DEF SubmitMarket, Handled, broker, store, AttemptTypes, Same, Gates
  <2>2. CASE \E side, qty : Submitted(e, n, Mkt(n), side, qty) \/ SubmitLost(e, n, Mkt(n), side, qty)
    BY <1>6, <1>8, <2>2 DEF SubmitMarket
  <2> QED BY <1>8, <2>1, <2>2 DEF SubmitMarket
<1> QED BY <1>1, <1>2, <1>3, <1>4, <1>5, <1>7, <1>8 DEF BookStep

NoNewOrders == \A i \in Ids : Exists(order'[i]) => Exists(order[i])

LEMMA CancelAddsNothing ==
    ASSUME OrderInv, NEW S, order' = AskedToCancel(S)
    PROVE  NoNewOrders
BY CancelAdvances DEF NoNewOrders

\* Everything else the program and the broker do: no order is added, no stored
\* row is written but by reconciliation, and only a trade moves a holding.
LEMMA OtherSteps ==
    ASSUME IInv, flight = {}, [Next]_vars, ~\E e \in Executors : BookStep(e)
    PROVE  /\ NoNewOrders
           /\ flight' = {}
           /\ UNCHANGED row \/ \E e \in Executors : ReconcileOrders(e)
           /\ \/ UNCHANGED position
              \/ \E i \in Ids : Fill(i) /\ UNCHANGED <<attempt, halt, store, history>>
              \/ \E n \in Names : CloseFill(n)
           /\ \A f \in Executors : Moves(f)
<1> AttemptTypes /\ OrderInv
  BY DEF IInv, Core, AttemptInv, BrokerInv
<1> DEFINE Goal == /\ NoNewOrders
                   /\ flight' = {}
                   /\ UNCHANGED row \/ \E e \in Executors : ReconcileOrders(e)
                   /\ \/ UNCHANGED position
                      \/ \E i \in Ids : Fill(i) /\ UNCHANGED <<attempt, halt, store, history>>
                      \/ \E n \in Names : CloseFill(n)
                   /\ \A f \in Executors : Moves(f)
<1>1. CASE BrokerStep /\ UNCHANGED <<attempt, halt, store, history>>
  <2>1. UNCHANGED row /\ \A f \in Executors : Moves(f)
    BY <1>1, SameStays DEF Moves, store
  <2>2. flight' = {}
    BY <1>1 DEF BrokerStep, Land, Drop, Fill, ConfirmCancel, Expire, CloseFill
  <2>3. NoNewOrders
    BY <1>1, FillAdvances, EndingAdvances DEF BrokerStep, Land, Drop, CloseFill, NoNewOrders
  <2> QED
    BY <1>1, <2>1, <2>2, <2>3 DEF BrokerStep, ConfirmCancel, Expire
<1>2. ASSUME NEW e \in Executors, Start(e) \/ GateStep(e) \/ Abort(e) \/ ReconcileOrders(e)
      PROVE  Goal
  <2>1. UNCHANGED broker /\ (UNCHANGED row \/ ReconcileOrders(e))
    BY <1>2 DEF Start, GateStep, GatePass, GateSettle, GateTrigger, Abort, ReconcileOrders,
                ReadOpenRows, WriteFresh, store
  <2>2. ASSUME NEW f \in Executors PROVE Moves(f)
    <3>1. CASE Start(e)
      <4>1. \A g \in Executors \ {e} : Same(g)
        BY <3>1 DEF Start, Enter, AttemptTypes, Same
      <4> QED BY <3>1, <4>1 DEF Start, Idle, Enter, AttemptTypes, Starts, Moves
    <3>2. CASE GatePass(e)
      BY <3>2, PassMoves DEF GatePass, Moves
    <3>3. CASE GateSettle(e) \/ GateTrigger(e)
      BY <3>3 DEF GateSettle, GateTrigger, AtGate, AttemptTypes, Same, Engages, Moves
    <3>4. CASE Abort(e)
      BY <3>4, EndMoves DEF Abort, Moves
    <3>5. CASE ReadOpenRows(e)
      <4>1. \A g \in Executors \ {e} : Same(g)
        BY <3>5 DEF ReadOpenRows, Enter, AttemptTypes, Same
      <4>2. ReconcileOrders(e)
        BY <3>5 DEF ReconcileOrders
      <4>3. pc[e] = "idle" /\ pc'[e] = "reconcile" /\ Free(e)
        BY <3>5 DEF ReadOpenRows, Idle, Enter, AttemptTypes
      <4> QED BY <4>1, <4>2, <4>3 DEF Reconciles, Moves
    <3>6. CASE WriteFresh(e)
      BY <3>6, EndMoves DEF WriteFresh, Moves
    <3> QED BY <1>2, <3>1, <3>2, <3>3, <3>4, <3>5, <3>6 DEF GateStep, ReconcileOrders
  <2> QED BY <2>1, <2>2 DEF broker, NoNewOrders
<1>3. ASSUME NEW p \in Operators, OperatorStep(p) PROVE Goal
  <2>1. UNCHANGED <<broker, attempt, store>>
    BY <1>3 DEF OperatorStep, ManualHalt, HaltDies
  <2> QED BY <2>1, SameStays DEF broker, store, NoNewOrders, Moves
<1>4. ASSUME NEW p \in Procs, HaltStep(p) PROVE Goal
  <2>1. UNCHANGED <<flight, position, row>>
    BY <1>4 DEF HaltStep, ListNone, ListSome, CancelListed, ConfirmListed, ClosePositions,
                HaltFails, RecordHalt, RecordFails, broker, store
  <2>2. UNCHANGED order \/ \E S : order' = AskedToCancel(S)
    BY <1>4 DEF HaltStep, ListNone, ListSome, CancelListed, ConfirmListed, ClosePositions,
                HaltFails, RecordHalt, RecordFails, broker
  <2>3. UNCHANGED attempt \/ End(p) \/ Resume(p)
    BY <1>4 DEF HaltStep, ListNone, ListSome, CancelListed, ConfirmListed, ClosePositions,
                HaltFails, RecordHalt, RecordFails
  <2>4. \A f \in Executors : Moves(f)
    BY <2>3, SameStays, EndMoves, ResumeMoves DEF Moves
  <2> QED BY <2>1, <2>2, <2>4, CancelAddsNothing DEF NoNewOrders
<1>5. CASE UNCHANGED vars
  BY <1>5, SameStays DEF vars, broker, store, NoNewOrders, Moves
<1> QED BY <1>1, <1>2, <1>3, <1>4, <1>5 DEF Next, ExecutorStep

-----------------------------------------------------------------------------
(* With the lock kept and no submission landing late, one attempt at a     *)
(* time is all there is.                                                   *)

OneAtATime == \A e, f \in Executors : Idle(e) \/ Idle(f) \/ e = f

ExecutedIsDone == status = "executed" => \A e \in Executors : pc[e] \in {"idle", "reconcile"}

Alone == OneAtATime /\ flight = {} /\ ExecutedIsDone

\* While an attempt runs, every other executor stays idle.
LEMMA AloneKeeps ==
    ASSUME IInv, Alone, [Next]_vars, ~LockLoss, ~LateLanding
    PROVE  Alone'
<1> AttemptTypes
  BY DEF IInv, Core, AttemptInv
<1>1. ASSUME NEW e \in Executors, BookStep(e) PROVE Alone'
  <2>1. /\ ~Idle(e) /\ pc[e] # "reconcile" /\ flight' = {}
        /\ \A f \in Executors \ {e} : Same(f)
    BY <1>1, BookLeaves DEF Alone, Idle
  <2>2. \A f \in Executors \ {e} : pc'[f] = "idle"
    BY <2>1 DEF Alone, OneAtATime, Idle, Same
  <2>3. status' = "executed" => pc'[e] = "idle"
    <3>1. CASE EndBook(e)
      BY <3>1 DEF EndBook, End, AttemptTypes
    <3>2. CASE ~EndBook(e)
      <4>1. UNCHANGED status
        BY <1>1, <3>2 DEF BookStep, LookUp, PlanTargets, OpenLegs, EndSubmit, EndCancel,
                          AwaitLimits, EndClose, EndMarket, AwaitMarkets, SubmitLimit,
                          CancelLimit, CancelFails, CloseLimit, SubmitMarket, CloseMarket,
                          LegFails, Submitted, SubmitLost, store
      <4> QED BY <2>1, <4>1 DEF Alone, ExecutedIsDone, Idle
    <3> QED BY <3>1, <3>2
  <2> QED BY <2>1, <2>2, <2>3 DEF Alone, OneAtATime, ExecutedIsDone, Idle
<1>2. CASE ~\E e \in Executors : BookStep(e)
  <2>1. flight' = {} /\ \A f \in Executors : Moves(f)
    BY <1>2, OtherSteps DEF Alone
  <2>2. \A f \in Executors : pc[f] = "idle" => pc'[f] = "idle" \/ Starts(f) \/ Reconciles(f)
    BY <2>1 DEF Moves, Same, Engages, Passes, Gates
  <2>3. OneAtATime'
    <3>1. ASSUME NEW f \in Executors, Starts(f) \/ Reconciles(f) PROVE OneAtATime'
      BY <3>1 DEF Starts, Reconciles, Free, Same, Idle, OneAtATime
    <3>2. CASE ~\E f \in Executors : Starts(f) \/ Reconciles(f)
      BY <2>2, <3>2 DEF Alone, OneAtATime, Idle
    <3> QED BY <3>1, <3>2
  <2>4. ExecutedIsDone'
    <3>1. status' = "executed" => status = "executed"
      <4>1. ASSUME NEW e \in Executors, EndBook(e) PROVE FALSE
        BY <1>2, <4>1 DEF BookStep
      <4> QED BY <4>1, StatusSteps
    <3>2. \A f \in Executors : pc[f] = "reconcile" => pc'[f] \in {"idle", "reconcile"}
      BY <2>1 DEF Moves, Same, Engages, Passes, Starts, Reconciles, Gates
    <3> QED BY <2>2, <3>1, <3>2 DEF Alone, ExecutedIsDone, Idle, Starts, Reconciles
  <2> QED BY <2>1, <2>3, <2>4 DEF Alone
<1> QED BY <1>1, <1>2

-----------------------------------------------------------------------------
(* Without an operator's halt: an event is on record only while the kill   *)
(* switch of the attempt that runs is engaged, or before it starts.        *)

HaltsAtGates ==
    \A e \in Executors : halt[e].at # "quiet" =>
        pc[e] \in Gates /\ ks[e] /\ halt[e].kind \in {"settle", "auto"} /\ halt[e].at # "positions"

EngagedInTime ==
    \A e \in Executors : (pc[e] \notin {"idle", "reconcile", "start"} /\ events # {}) => ks[e]

HaltedSubmitsSell ==
    \A e \in Executors : (pc[e] = "submit" /\ ks[e]) =>
        \A n \in todo[e] : target[e][n].side = "sell"

LEMMA HaltsStayAtGates ==
    ASSUME IInv, HaltsAtGates, [Next]_vars, Operators = {}, ~LateLanding
    PROVE  HaltsAtGates'
<1> AttemptTypes /\ halt \in [Procs -> Halts] /\ Procs = Executors
  BY DEF IInv, Core, AttemptInv, Rest, HaltTypes, Procs
<1>1. CASE UNCHANGED <<attempt, halt>>
  BY <1>1 DEF HaltsAtGates, attempt
<1>2. ASSUME NEW e \in Executors, BookStep(e) PROVE HaltsAtGates'
  <2>1. UNCHANGED halt /\ pc[e] \notin Gates /\ \A f \in Executors \ {e} : Same(f)
    BY <1>2, BookLeaves
  <2> QED BY <2>1 DEF HaltsAtGates, Same
<1>3. ASSUME NEW e \in Executors, Start(e) \/ GateStep(e) \/ Abort(e)
      PROVE  HaltsAtGates'
  <2>1. CASE Start(e)
    BY <2>1 DEF Start, Idle, Enter, AttemptTypes, HaltsAtGates, Gates
  <2>2. CASE GatePass(e)
    BY <2>2, PassMoves DEF GatePass, AtGate, Same, HaltsAtGates
  <2>3. CASE GateSettle(e) \/ GateTrigger(e)
    <3>1. PICK kind \in {"settle", "auto"} : halt' = [halt EXCEPT ![e] = Begin(kind)]
      BY <2>3 DEF GateSettle, GateTrigger
    <3>2. Begin(kind).at = "list" /\ Begin(kind).kind = kind
      BY DEF Begin, Quiet
    <3>3. /\ halt'[e] = Begin(kind)
          /\ \A f \in Executors \ {e} : halt'[f] = halt[f]
      BY <3>1
    <3>4. /\ pc[e] \in Gates /\ pc' = pc
          /\ ks'[e] /\ \A f \in Executors \ {e} : ks'[f] = ks[f]
      BY <2>3 DEF GateSettle, GateTrigger, AtGate, AttemptTypes
    <3> QED BY <3>2, <3>3, <3>4 DEF HaltsAtGates
  <2>4. CASE Abort(e)
    <3>1. \A f \in Executors \ {e} : Same(f)
      BY <2>4, EndMoves DEF Abort
    <3> QED BY <2>4, <3>1 DEF Abort, Quiet, Same, HaltsAtGates
  <2> QED BY <1>3, <2>1, <2>2, <2>3, <2>4 DEF GateStep
<1>6. ASSUME NEW e \in Executors, ReconcileOrders(e) PROVE HaltsAtGates'
  <2>1. UNCHANGED halt /\ pc[e] \notin Gates
    BY <1>6 DEF ReconcileOrders, ReadOpenRows, WriteFresh, Idle, Gates
  <2>2. \A f \in Executors \ {e} : Same(f)
    BY <1>6, EndMoves DEF ReconcileOrders, ReadOpenRows, WriteFresh, Enter, AttemptTypes, Same
  <2> QED BY <2>1, <2>2 DEF HaltsAtGates, Same
<1>4. ASSUME NEW p \in Executors, HaltStep(p) PROVE HaltsAtGates'
  <2>1. halt[p].at # "quiet"
    BY <1>4 DEF HaltStep, ListNone, ListSome, CancelListed, ConfirmListed, ClosePositions,
                HaltFails, RecordHalt, RecordFails
  <2>2. halt[p].at # "positions" /\ halt[p].kind # "flatten"
    BY <2>1 DEF HaltsAtGates
  <2>3. PICK new : /\ halt' = [halt EXCEPT ![p] = new]
                   /\ UNCHANGED attempt \/ new = Quiet
                   /\ new.at # "positions" /\ new.kind \in {halt[p].kind, "settle"}
    <3>1. halt[p] \in Halts
      OBVIOUS
    <3>2. CASE halt' = [halt EXCEPT ![p] = Quiet]
      <4>1. Quiet.at # "positions" /\ Quiet.kind = "settle"
        BY DEF Quiet
      <4> QED BY <3>2, <4>1
    <3>3. CASE UNCHANGED attempt /\ \E at \in {"record", "confirm"} : Reaches(p, at)
      <4>1. PICK at \in {"record", "confirm"} : Reaches(p, at)
        BY <3>3
      <4>2. PICK new : new = [halt[p] EXCEPT !.at = at]
        OBVIOUS
      <4>3. new.at = at /\ new.kind = halt[p].kind /\ halt' = [halt EXCEPT ![p] = new]
        BY <3>1, <4>1, <4>2 DEF Halts, Reaches
      <4> QED BY <3>3, <4>3
    <3>4. CASE UNCHANGED attempt /\ halt' = [halt EXCEPT ![p].at = "record", ![p].done = TRUE]
      <4>1. PICK new : new = [halt[p] EXCEPT !.at = "record", !.done = TRUE]
        OBVIOUS
      <4>2. new.at = "record" /\ new.kind = halt[p].kind /\ halt' = [halt EXCEPT ![p] = new]
        BY <3>1, <3>4, <4>1 DEF Halts
      <4> QED BY <3>4, <4>2
    <3>5. CASE ListSome(p)
      <4>1. PICK new : new = [halt[p] EXCEPT !.at = "cancel", !.listed = OpenIds]
        OBVIOUS
      <4>2. new.at = "cancel" /\ new.kind = halt[p].kind /\ halt' = [halt EXCEPT ![p] = new]
        BY <3>1, <3>5, <4>1 DEF Halts, ListSome
      <4> QED BY <3>5, <4>2 DEF ListSome
    <3>6. CASE ConfirmListed(p)
      <4>1. PICK new : new = [halt[p] EXCEPT !.at = "list", !.listed = {}, !.round = @ + 1]
        OBVIOUS
      <4>2. new.at = "list" /\ new.kind = halt[p].kind /\ halt' = [halt EXCEPT ![p] = new]
        BY <3>1, <3>6, <4>1 DEF Halts, ConfirmListed
      <4> QED BY <3>6, <4>2 DEF ConfirmListed
    <3> QED
      BY <1>4, <2>2, <3>2, <3>3, <3>4, <3>5, <3>6
      DEF HaltStep, ListNone, CancelListed, ClosePositions, HaltFails, RecordHalt, RecordFails
  <2>4. \A f \in Executors \ {p} : Same(f)
    BY <1>4, SameStays, EndMoves, ResumeMoves
    DEF HaltStep, ListNone, ListSome, CancelListed, ConfirmListed, ClosePositions,
        HaltFails, RecordHalt, RecordFails
  <2>5. halt'[p] = new /\ \A f \in Executors \ {p} : halt'[f] = halt[f]
    BY <2>3
  <2>6. CASE UNCHANGED attempt
    BY <2>1, <2>3, <2>4, <2>5, <2>6 DEF HaltsAtGates, Same, attempt
  <2>7. CASE new = Quiet
    BY <2>4, <2>5, <2>7 DEF HaltsAtGates, Same, Quiet
  <2> QED BY <2>3, <2>6, <2>7
<1> QED
  BY <1>1, <1>2, <1>3, <1>4, <1>6 DEF Next, ExecutorStep, OperatorStep, vars

LEMMA SwitchKeeps ==
    ASSUME IInv, Alone, HaltsAtGates, EngagedInTime, HaltedSubmitsSell, [Next]_vars,
           Operators = {}, ~LockLoss, ~LateLanding
    PROVE  EngagedInTime' /\ HaltedSubmitsSell'
<1> AttemptTypes /\ Procs = Executors
  BY DEF IInv, Core, AttemptInv, Procs
<1>1. EngagedInTime'
  <2> SUFFICES ASSUME NEW f \in Executors, pc'[f] \notin {"idle", "reconcile", "start"},
                      events' # {}
               PROVE  ks'[f]
    BY DEF EngagedInTime
  <2>1. CASE UNCHANGED events
    BY <2>1, SwitchSteps DEF EngagedInTime
  <2>2. CASE \E p \in Executors : RecordHalt(p)
    <3>1. PICK p \in Executors : RecordHalt(p)
      BY <2>2
    <3>2. ks[p] /\ pc[p] \in Gates
      BY <3>1 DEF RecordHalt, HaltsAtGates
    <3>3. Same(f) \/ (f = p /\ (Passes(f) \/ pc'[f] = "idle"))
      BY <3>1, SameStays, EndMoves, ResumeMoves DEF RecordHalt
    <3>4. f # p => pc[f] = "idle"
      BY <3>2 DEF Alone, OneAtATime, Idle, Gates
    <3> QED BY <3>2, <3>3, <3>4 DEF Same, Passes
  <2>3. UNCHANGED events \/ \E p \in Executors : RecordHalt(p)
    <3>1. ASSUME NEW e \in Executors, BookStep(e) PROVE UNCHANGED events
      BY <3>1, BookLeaves
    <3> QED
      BY <3>1 DEF Next, ExecutorStep, Start, GateStep, GatePass, GateSettle, GateTrigger, Abort,
                  ReconcileOrders, ReadOpenRows, WriteFresh, OperatorStep, HaltStep, ListNone,
                  ListSome, CancelListed, ConfirmListed, ClosePositions, HaltFails, RecordFails,
                  store, vars
  <2> QED BY <2>1, <2>2, <2>3
<1>2. HaltedSubmitsSell'
  <2> SUFFICES ASSUME NEW f \in Executors, pc'[f] = "submit", ks'[f], NEW n \in todo'[f]
               PROVE  target'[f][n].side = "sell"
    BY DEF HaltedSubmitsSell
  <2>1. CASE Moves(f)
    BY <2>1 DEF Moves, Same, Engages, Gates, Passes, Starts, Reconciles, Allows, HaltedSubmitsSell
  <2>2. CASE BookStep(f)
    <3>1. pc[f] = "submit" /\ ks[f]
      BY <2>2, BookLeaves
    <3>2. todo'[f] \subseteq todo[f] /\ target' = target
      BY <2>2, <3>1
      DEF BookStep, LookUp, PlanTargets, OpenLegs, EndSubmit, EndCancel, AwaitLimits, EndClose,
          EndMarket, AwaitMarkets, EndBook, SubmitLimit, CancelLimit, CancelFails, CloseLimit,
          SubmitMarket, CloseMarket, LegFails, Submitted, SubmitLost, Enter, Handled, Fails,
          AttemptTypes
    <3> QED BY <3>1, <3>2 DEF HaltedSubmitsSell
  <2>3. ASSUME NEW e \in Executors, BookStep(e), e # f PROVE Same(f)
    BY <2>3, BookLeaves
  <2> QED BY <2>1, <2>2, <2>3, OtherSteps DEF Moves, Alone
<1> QED BY <1>1, <1>2

\* A step of the book that adds an order is one submission: a limit of the
\* submit phase, or a market order for what its limit left, if the kill switch
\* allows it.
Sent(e, n, i, qty) ==
    /\ n \in todo[e]
    /\ order'[i].side = target[e][n].side /\ order'[i].qty = qty /\ order'[i].filled = 0
    /\ \A j \in Ids \ {i} : order'[j] = order[j]
    /\ UNCHANGED <<pc, ks, target>>
    /\ seen'[e][i] = order'[i] \/ n \in failed'[e]

SentLimit(e, n) == pc[e] = "submit" /\ Sent(e, n, Lim(n), target[e][n].qty)
SentMarket(e, n) ==
    /\ pc[e] = "market" /\ Allows(e, target[e][n].side)
    /\ Sent(e, n, Mkt(n), Residual(e, n))

LEMMA NewOrdersAreSent ==
    ASSUME IInv, NEW e \in Executors, BookStep(e),
           NEW i \in Ids, ~Exists(order[i]), Exists(order'[i])
    PROVE  \E n \in Names : (i = Lim(n) /\ SentLimit(e, n)) \/ (i = Mkt(n) /\ SentMarket(e, n))
<1> AttemptTypes /\ OrderInv /\ order \in [Ids -> Orders]
  BY DEF IInv, Core, AttemptInv, BrokerInv, OrderInv
<1>0. \A n \in Names : Lim(n) \in Ids /\ Mkt(n) \in Ids
  BY DEF Ids, Lim, Mkt, Legs
<1>1. ASSUME NEW n \in Names, NEW j \in Ids, NEW side, NEW qty, n \in todo[e],
             side = target[e][n].side,
             Submitted(e, n, j, side, qty) \/ SubmitLost(e, n, j, side, qty)
      PROVE  i = j /\ Sent(e, n, j, qty)
  <2>1. Accept(j, side, qty)
    BY <1>1 DEF Submitted, SubmitLost
  <2>2. PICK st \in {"open", "rejected"} :
            order' = [order EXCEPT ![j] = IF Exists(@) THEN @ ELSE Placed(side, qty, st)]
    BY <2>1 DEF Accept
  <2>3. i = j /\ order'[i] = Placed(side, qty, st) /\ \A k \in Ids \ {i} : order'[k] = order[k]
    BY <2>2
  <2>4. UNCHANGED <<pc, ks, target>>
    BY <1>1 DEF Submitted, SubmitLost
  <2>5. seen'[e][i] = order'[i] \/ n \in failed'[e]
    BY <1>1, <2>3 DEF Submitted, SubmitLost, Fails, AttemptTypes
  <2> QED BY <1>1, <2>3, <2>4, <2>5 DEF Sent, Placed
<1>2. ASSUME NEW n \in Names, SubmitLimit(e, n) PROVE i = Lim(n) /\ SentLimit(e, n)
  <2>1. i = Lim(n) /\ Sent(e, n, Lim(n), target[e][n].qty)
    BY <1>0, <1>1, <1>2 DEF SubmitLimit
  <2> QED BY <1>2, <2>1 DEF SubmitLimit, SentLimit
<1>3. ASSUME NEW n \in Names, SubmitMarket(e, n) PROVE i = Mkt(n) /\ SentMarket(e, n)
  <2>1. /\ Allows(e, target[e][n].side)
        /\ \/ Submitted(e, n, Mkt(n), target[e][n].side, Residual(e, n))
           \/ SubmitLost(e, n, Mkt(n), target[e][n].side, Residual(e, n))
    BY <1>3 DEF SubmitMarket, broker
  <2>2. i = Mkt(n) /\ Sent(e, n, Mkt(n), Residual(e, n))
    BY <1>0, <1>1, <1>3, <2>1 DEF SubmitMarket
  <2> QED BY <1>3, <2>1, <2>2 DEF SubmitMarket, SentMarket
<1>4. ASSUME NEW n \in Names, CancelLimit(e, n) \/ CancelFails(e, n) PROVE FALSE
  BY <1>4, CancelAddsNothing DEF CancelLimit, CancelFails, NoNewOrders
<1> QED
  BY <1>2, <1>3, <1>4
  DEF BookStep, LookUp, PlanTargets, OpenLegs, EndSubmit, EndCancel, AwaitLimits, EndClose,
      EndMarket, AwaitMarkets, EndBook, CloseLimit, CloseMarket, LegFails, broker

\* Without operators, with the lock kept and no submission landing late, no buy
\* reaches the broker once an event is on record, from the attempt that recorded
\* it or from a later one (executor.py:347-376, 405-413).
THEOREM BuyingStops ==
    ASSUME Operators = {}, ~LockLoss, ~LateLanding
    PROVE  Spec => HaltStopsBuying
<1> DEFINE SwitchInv == IInv /\ Alone /\ HaltsAtGates /\ EngagedInTime /\ HaltedSubmitsSell
<1>1. Init => SwitchInv
  BY InitHolds DEF Init, BrokerInit, Alone, OneAtATime, ExecutedIsDone, Idle, HaltsAtGates, Quiet,
                   EngagedInTime, HaltedSubmitsSell, Procs
<1>2. SwitchInv /\ [Next]_vars => SwitchInv'
  BY StepKeeps, AloneKeeps, HaltsStayAtGates, SwitchKeeps
<1>3. SwitchInv /\ [Next]_vars =>
        [\A i \in Ids : (events # {} /\ ~Exists(order[i]) /\ Exists(order'[i]))
                           => order'[i].side = "sell"]_vars
  <2> SUFFICES ASSUME SwitchInv, [Next]_vars, NEW i \in Ids,
                      events # {}, ~Exists(order[i]), Exists(order'[i])
               PROVE  order'[i].side = "sell"
    OBVIOUS
  <2>1. PICK e \in Executors : BookStep(e)
    BY OtherSteps DEF Alone, NoNewOrders
  <2>2. PICK n \in Names : (i = Lim(n) /\ SentLimit(e, n)) \/ (i = Mkt(n) /\ SentMarket(e, n))
    BY <2>1, NewOrdersAreSent
  <2>3. ks[e]
    BY <2>2 DEF EngagedInTime, SentLimit, SentMarket
  <2>4. target[e][n].side = "sell"
    BY <2>2, <2>3 DEF SentLimit, SentMarket, Sent, Allows, HaltedSubmitsSell
  <2> QED BY <2>2, <2>4 DEF SentLimit, SentMarket, Sent
<1> QED BY <1>1, <1>2, <1>3, PTL DEF Spec, HaltStopsBuying

-----------------------------------------------------------------------------
(* What the one attempt that runs knows of the orders, and what the rows   *)
(* say of them.                                                            *)

Acting == {"gate1", "submit", "cancel", "await", "close", "gate2", "market", "await_market",
           "close_market"}
Settled == {"close", "gate2", "market", "await_market", "close_market"}

OrdersAsk == \A i \in Ids : Exists(order[i]) => order[i].qty > 0

\* The market order is for exactly what the limit left.
LegsAddUp ==
    \A n \in Names : Exists(order[Mkt(n)]) =>
        /\ order[Mkt(n)].side = order[Lim(n)].side
        /\ order[Lim(n)].filled + order[Mkt(n)].qty = order[Lim(n)].qty

\* An attempt adopts the order that exists as its target.
TargetsAreOrders ==
    \A e \in Executors : pc[e] \notin {"idle", "reconcile", "start", "look"} =>
        \A n \in Names : Exists(order[Lim(n)]) =>
            /\ target[e][n].side = order[Lim(n)].side
            /\ target[e][n].qty = order[Lim(n)].qty

OrdersAreKnown ==
    \A e \in Executors : pc[e] \in Acting =>
        \A n \in Live(e) : Exists(order[Lim(n)]) => Exists(seen[e][Lim(n)])

ReadsMakeSense ==
    \A e \in Executors : \A i \in Ids :
        /\ Working(seen[e][i]) => seen[e][i].filled < seen[e][i].qty
        /\ ~Exists(seen[e][i]) => seen[e][i].filled = 0

\* A leg that is closed without an error has its row.
RowsAreWritten ==
    \A e \in Executors : \A n \in Live(e) :
        /\ (pc[e] \in Settled /\ Exists(seen[e][Lim(n)])) =>
               (pc[e] = "close" /\ n \in todo[e]) \/ row[Lim(n)] = seen[e][Lim(n)]
        /\ (pc[e] = "close_market" /\ Exists(seen[e][Mkt(n)])) =>
               n \in todo[e] \/ row[Mkt(n)] = seen[e][Mkt(n)]

LEMMA OrderIds == \A n \in Names : Lim(n) \in Ids /\ Mkt(n) \in Ids /\ Lim(n) # Mkt(n)
BY DEF Ids, Lim, Mkt, Legs

\* Two legs of a name: the second is sent for what the first, final, left.
LEMMA LegsStay ==
    ASSUME IInv, Alone, OrdersAsk, LegsAddUp, TargetsAreOrders, [Next]_vars
    PROVE  OrdersAsk' /\ LegsAddUp'
<1> AttemptTypes /\ OrderInv /\ OrdersAdvance /\ OrderInv'
  BY StepKeeps DEF IInv, Core, AttemptInv, BrokerInv
<1>1. ASSUME NEW i \in Ids, ~Exists(order[i]), Exists(order'[i])
      PROVE  \E e \in Executors : \E n \in Names :
                \/ i = Lim(n) /\ SentLimit(e, n)
                \/ i = Mkt(n) /\ SentMarket(e, n)
  BY <1>1, OtherSteps, NewOrdersAreSent DEF Alone, NoNewOrders
<1>2. ASSUME NEW e \in Executors, NEW n \in Names, SentMarket(e, n)
      PROVE  /\ Residual(e, n) > 0
             /\ Exists(order[Lim(n)]) /\ order'[Lim(n)] = order[Lim(n)]
             /\ target[e][n].side = order[Lim(n)].side
             /\ order[Lim(n)].filled + Residual(e, n) = order[Lim(n)].qty
  <2>1. n \in Live(e) /\ Exists(seen[e][Lim(n)]) /\ Residual(e, n) > 0
    BY <1>2 DEF SentMarket, Sent, IInv, Core, AttemptInv, ResidualsAreLeft
  <2>2. Terminal(seen[e][Lim(n)])
    BY <1>2, <2>1 DEF SentMarket, IInv, Core, AttemptInv, LimitsAreClosed
  <2>3. order[Lim(n)] = seen[e][Lim(n)]
    BY <2>2, OrderIds DEF IInv, Core, SeenIsFinal
  <2>4. target[e][n].side = order[Lim(n)].side /\ target[e][n].qty = order[Lim(n)].qty
    BY <1>2, <2>1, <2>3 DEF SentMarket, TargetsAreOrders
  <2>5. order'[Lim(n)] = order[Lim(n)]
    BY <1>2, OrderIds DEF SentMarket, Sent
  <2>6. order[Lim(n)].filled \in Int /\ order[Lim(n)].qty \in Int
    BY OrderIds, BrokerAssumption DEF OrderInv, Orders
  <2> QED BY <2>1, <2>3, <2>4, <2>5, <2>6 DEF Residual
<1>3. OrdersAsk'
  <2> SUFFICES ASSUME NEW i \in Ids, Exists(order'[i]) PROVE order'[i].qty > 0
    BY DEF OrdersAsk
  <2>1. CASE Exists(order[i])
    BY <2>1 DEF OrdersAsk, OrdersAdvance, Later
  <2>2. CASE ~Exists(order[i])
    <3>1. PICK e \in Executors : \E n \in Names :
              (i = Lim(n) /\ SentLimit(e, n)) \/ (i = Mkt(n) /\ SentMarket(e, n))
      BY <1>1, <2>2
    <3>2. ASSUME NEW n \in Names, i = Lim(n), SentLimit(e, n) PROVE order'[i].qty > 0
      BY <3>2 DEF SentLimit, Sent, IInv, Core, AttemptInv, SubmitsAsk, Asks
    <3>3. ASSUME NEW n \in Names, i = Mkt(n), SentMarket(e, n) PROVE order'[i].qty > 0
      BY <1>2, <3>3 DEF SentMarket, Sent
    <3> QED BY <3>1, <3>2, <3>3
  <2> QED BY <2>1, <2>2
<1>4. LegsAddUp'
  <2> SUFFICES ASSUME NEW n \in Names, Exists(order'[Mkt(n)])
               PROVE  /\ order'[Mkt(n)].side = order'[Lim(n)].side
                      /\ order'[Lim(n)].filled + order'[Mkt(n)].qty = order'[Lim(n)].qty
    BY DEF LegsAddUp
  <2>1. CASE Exists(order[Mkt(n)])
    <3>1. Terminal(order[Lim(n)])
      BY <2>1, OrderIds DEF IInv, Core, BrokerInv, OrdersAreBacked, Backed, Lim, Mkt
    <3>2. order'[Lim(n)] = order[Lim(n)]
      BY <3>1, OrderIds DEF OrdersAdvance, Later
    <3> QED BY <2>1, <3>2, OrderIds DEF LegsAddUp, OrdersAdvance, Later
  <2>2. CASE ~Exists(order[Mkt(n)])
    <3>1. PICK e \in Executors : SentMarket(e, n)
      BY <1>1, <2>2, OrderIds DEF Lim, Mkt
    <3> QED BY <1>2, <3>1 DEF SentMarket, Sent
  <2> QED BY <2>1, <2>2
<1> QED BY <1>3, <1>4

LEMMA ReadsStaySensible ==
    ASSUME IInv, ReadsMakeSense, [Next]_vars
    PROVE  ReadsMakeSense'
<1>1. OrdersMakeSense /\ OrdersMakeSense'
  BY StepKeeps DEF IInv, Core, BrokerInv, OrderInv
<1> SUFFICES ASSUME NEW e \in Executors, NEW i \in Ids
             PROVE  /\ Working(seen'[e][i]) => seen'[e][i].filled < seen'[e][i].qty
                    /\ ~Exists(seen'[e][i]) => seen'[e][i].filled = 0
  BY DEF ReadsMakeSense
<1>2. seen'[e][i] \in {seen[e][i], order[i], order'[i], Absent}
  BY ReadsAreAnswers DEF Answered
<1>3. ~Working(Absent) /\ Absent.filled = 0
  BY DEF Absent, Working, WorkingStatus
<1> QED BY <1>1, <1>2, <1>3 DEF ReadsMakeSense, OrdersMakeSense

Knows == TargetsAreOrders /\ OrdersAreKnown /\ RowsAreWritten

\* While another process or the broker moves, an attempt's knowledge stays true:
\* reconciliation waits for the lock.
LEMMA OthersKeepKnowledge ==
    ASSUME IInv, Alone, Knows, [Next]_vars, ~LockLoss, ~\E e \in Executors : BookStep(e)
    PROVE  Knows'
<1> AttemptTypes /\ OrdersAdvance
  BY StepKeeps DEF IInv, Core, AttemptInv
<1>0. NoNewOrders /\ \A f \in Executors : Moves(f)
  BY OtherSteps DEF Alone
<1>1. ASSUME NEW f \in Executors, pc'[f] \notin {"idle", "reconcile", "start"}
      PROVE  /\ target'[f] = target[f] /\ seen'[f] = seen[f] /\ failed'[f] = failed[f]
             /\ pc[f] # "idle" /\ UNCHANGED row
             /\ pc'[f] # "look" => pc[f] \notin {"idle", "reconcile", "start", "look"}
             /\ pc'[f] \in Acting => pc[f] \in Acting
             /\ pc'[f] \in Settled => pc[f] \in Settled
             /\ pc'[f] \in {"close", "close_market"} => pc[f] = pc'[f] /\ todo'[f] = todo[f]
  <2>1. /\ target'[f] = target[f] /\ seen'[f] = seen[f] /\ failed'[f] = failed[f]
        /\ pc[f] # "idle"
        /\ pc'[f] # "look" => pc[f] \notin {"idle", "reconcile", "start", "look"}
        /\ pc'[f] \in Acting => pc[f] \in Acting
        /\ pc'[f] \in Settled => pc[f] \in Settled
        /\ pc'[f] \in {"close", "close_market"} => pc[f] = pc'[f] /\ todo'[f] = todo[f]
    BY <1>0, <1>1 DEF Moves, Same, Engages, Passes, Starts, Reconciles, Acting, Settled, Gates
  <2>2. ASSUME NEW e \in Executors, ReconcileOrders(e) PROVE FALSE
    <3>1. CASE ReadOpenRows(e)
      <4>1. e # f
        BY <1>1, <3>1 DEF ReadOpenRows, Enter, AttemptTypes
      <4> QED BY <2>1, <3>1, <4>1 DEF ReadOpenRows, Free, Idle
    <3>2. CASE WriteFresh(e)
      <4>1. pc[e] = "reconcile" /\ pc'[e] = "idle"
        BY <3>2 DEF WriteFresh, End, AttemptTypes
      <4> QED BY <1>1, <2>1, <4>1 DEF Alone, OneAtATime, Idle
    <3> QED BY <2>2, <3>1, <3>2 DEF ReconcileOrders
  <2> QED BY <2>1, <2>2, OtherSteps DEF Alone
<1>2. TargetsAreOrders'
  BY <1>0, <1>1, OrderIds DEF Knows, TargetsAreOrders, NoNewOrders, OrdersAdvance, Later
<1>3. OrdersAreKnown'
  <2> SUFFICES ASSUME NEW f \in Executors, pc'[f] \in Acting, NEW n \in Live(f)',
                      Exists(order'[Lim(n)])
               PROVE  Exists(seen'[f][Lim(n)])
    BY DEF OrdersAreKnown
  <2>1. n \in Live(f) /\ pc[f] \in Acting /\ seen'[f] = seen[f] /\ n \in Names
    BY <1>1 DEF Live, Acting
  <2> QED BY <1>0, <2>1, OrderIds DEF Knows, OrdersAreKnown, NoNewOrders
<1>4. RowsAreWritten'
  <2> SUFFICES ASSUME NEW f \in Executors, pc'[f] \in Settled, NEW n \in Live(f)'
               PROVE  /\ Exists(seen'[f][Lim(n)]) =>
                             (pc'[f] = "close" /\ n \in todo'[f]) \/ row'[Lim(n)] = seen'[f][Lim(n)]
                      /\ (pc'[f] = "close_market" /\ Exists(seen'[f][Mkt(n)])) =>
                             n \in todo'[f] \/ row'[Mkt(n)] = seen'[f][Mkt(n)]
    BY DEF RowsAreWritten, Settled
  <2>1. n \in Live(f) /\ pc[f] \in Settled /\ seen'[f] = seen[f] /\ row' = row
    BY <1>1 DEF Live, Settled
  <2>2. /\ Exists(seen[f][Lim(n)]) => (pc[f] = "close" /\ n \in todo[f]) \/ row[Lim(n)] = seen[f][Lim(n)]
        /\ (pc[f] = "close_market" /\ Exists(seen[f][Mkt(n)])) =>
               n \in todo[f] \/ row[Mkt(n)] = seen[f][Mkt(n)]
    BY <2>1 DEF Knows, RowsAreWritten
  <2>3. CASE pc[f] = "close" /\ pc'[f] # "close"
    BY <1>0, <2>3 DEF Moves, Same, Engages, Passes, Starts, Reconciles, Gates, Settled
  <2>4. CASE ~(pc[f] = "close" /\ pc'[f] # "close")
    BY <1>1, <2>1, <2>2, <2>4 DEF Settled
  <2> QED BY <2>3, <2>4
<1> QED BY <1>2, <1>3, <1>4 DEF Knows

\* It is enough to look at the attempt that takes the step.
LEMMA KnowledgeOfOne ==
    ASSUME IInv, Alone, NEW e \in Executors, pc[e] # "idle",
           \A f \in Executors \ {e} : Same(f),
           pc'[e] \notin {"idle", "reconcile", "start", "look"} =>
               \A n \in Names : Exists(order'[Lim(n)]) =>
                   target'[e][n].side = order'[Lim(n)].side /\ target'[e][n].qty = order'[Lim(n)].qty,
           pc'[e] \in Acting =>
               \A n \in Live(e)' : Exists(order'[Lim(n)]) => Exists(seen'[e][Lim(n)]),
           \A n \in Live(e)' :
               /\ (pc'[e] \in Settled /\ Exists(seen'[e][Lim(n)])) =>
                     (pc'[e] = "close" /\ n \in todo'[e]) \/ row'[Lim(n)] = seen'[e][Lim(n)]
               /\ (pc'[e] = "close_market" /\ Exists(seen'[e][Mkt(n)])) =>
                     n \in todo'[e] \/ row'[Mkt(n)] = seen'[e][Mkt(n)]
    PROVE  Knows'
<1>1. \A f \in Executors \ {e} : pc'[f] = "idle"
  BY DEF Alone, OneAtATime, Idle, Same
<1>2. TargetsAreOrders'
  BY <1>1 DEF TargetsAreOrders
<1>3. OrdersAreKnown'
  BY <1>1 DEF OrdersAreKnown, Acting
<1>4. RowsAreWritten'
  BY <1>1 DEF RowsAreWritten, Settled
<1> QED BY <1>2, <1>3, <1>4 DEF Knows

\* Looking up, planning and opening the legs.
LEMMA PreparingKnows ==
    ASSUME IInv, Alone, OrdersAsk, Knows, ~LateLanding, NEW e \in Executors,
           LookUp(e) \/ PlanTargets(e) \/ OpenLegs(e)
    PROVE  Knows'
<1> AttemptTypes
  BY DEF IInv, Core, AttemptInv
<1>0. pc[e] # "idle" /\ \A f \in Executors \ {e} : Same(f)
  BY BookLeaves DEF BookStep
<1>1. CASE LookUp(e)
  <2>1. /\ pc'[e] = "plan" /\ UNCHANGED order
        /\ \A n \in Names : Exists(order[Lim(n)]) =>
              target'[e][n].side = order[Lim(n)].side /\ target'[e][n].qty = order[Lim(n)].qty
    BY <1>1 DEF LookUp, Enter, AttemptTypes, broker
  <2> QED BY <1>0, <2>1, KnowledgeOfOne DEF Acting, Settled
<1>2. CASE PlanTargets(e)
  <2>1. pc'[e] = "legs" /\ UNCHANGED order /\ pc[e] = "plan"
    BY <1>2 DEF PlanTargets, Enter, AttemptTypes, broker
  <2>2. ASSUME NEW n \in Names, Exists(order[Lim(n)]) PROVE target'[e][n] = target[e][n]
    <3>1. Asks(target[e][n])
      BY <2>1, <2>2, OrderIds DEF Knows, TargetsAreOrders, OrdersAsk, Asks
    <3> QED BY <1>2, <3>1 DEF PlanTargets, AttemptTypes
  <2>3. \A n \in Names : Exists(order[Lim(n)]) =>
           target'[e][n].side = order[Lim(n)].side /\ target'[e][n].qty = order[Lim(n)].qty
    BY <2>1, <2>2 DEF Knows, TargetsAreOrders
  <2> QED BY <1>0, <2>1, <2>3, KnowledgeOfOne DEF Acting, Settled
<1>3. CASE OpenLegs(e)
  <2>1. /\ pc'[e] = "gate1" /\ pc[e] = "legs" /\ UNCHANGED <<order, target, failed>>
        /\ \A i \in Ids : i[2] = "lim" /\ Asks(target[e][i[1]]) => seen'[e][i] = order[i]
    BY <1>3 DEF OpenLegs, Enter, AttemptTypes, broker
  <2>2. \A n \in Live(e)' : Exists(order[Lim(n)]) => Exists(seen'[e][Lim(n)])
    BY <2>1, OrderIds DEF Live, Lim
  <2> QED BY <1>0, <2>1, <2>2, KnowledgeOfOne DEF Knows, TargetsAreOrders, Settled
<1> QED BY <1>1, <1>2, <1>3

\* Going from one phase to the next, with the shared waits.
LEMMA PhasesKnow ==
    ASSUME IInv, Alone, Knows, ReadsBehind, ~LateLanding, NEW e \in Executors,
           \/ EndSubmit(e) \/ EndCancel(e) \/ EndClose(e) \/ EndMarket(e)
           \/ AwaitLimits(e) \/ AwaitMarkets(e) \/ EndBook(e)
    PROVE  Knows'
<1> AttemptTypes
  BY DEF IInv, Core, AttemptInv
<1>0. pc[e] # "idle" /\ \A f \in Executors \ {e} : Same(f)
  BY BookLeaves DEF BookStep
<1>1. CASE EndSubmit(e) \/ EndCancel(e) \/ EndClose(e) \/ EndMarket(e)
  <2>1. /\ UNCHANGED <<order, target, seen, failed, row>>
        /\ pc[e] \in Acting /\ pc[e] # "close_market"
        /\ pc'[e] \in Acting /\ pc'[e] \notin {"close", "close_market"}
        /\ pc'[e] \in Settled => pc[e] \in Settled
        /\ pc[e] = "close" => todo[e] = {}
    BY <1>1 DEF EndSubmit, EndCancel, EndClose, EndMarket, Enter, AttemptTypes, broker, store,
                Acting, Settled
  <2>2. Live(e)' = Live(e)
    BY <2>1 DEF Live
  <2>3. pc[e] \notin {"idle", "reconcile", "start", "look"}
    BY <2>1 DEF Acting
  <2>4. \A n \in Live(e) : (pc'[e] \in Settled /\ Exists(seen[e][Lim(n)])) =>
                              row[Lim(n)] = seen[e][Lim(n)]
    BY <2>1 DEF Knows, RowsAreWritten
  <2> QED
    BY <1>0, <2>1, <2>2, <2>3, <2>4, KnowledgeOfOne DEF Knows, TargetsAreOrders, OrdersAreKnown
<1>2. CASE AwaitLimits(e)
  <2>1. /\ UNCHANGED <<order, target, failed, row>>
        /\ pc[e] = "await" /\ pc'[e] = "close"
        /\ todo'[e] = {n \in Live(e) : Exists(seen[e][Lim(n)])}
        /\ \A i \in Ids : \/ seen'[e][i] = seen[e][i]
                          \/ seen'[e][i] = order[i] /\ i[1] \in Live(e)
                             /\ Working(seen[e][<<i[1], "lim">>]) /\ i[2] = "lim"
    BY <1>2 DEF AwaitLimits, AwaitAll, Enter, AttemptTypes, broker, store
  <2>2. Live(e)' = Live(e)
    BY <2>1 DEF Live
  <2>3. \A n \in Live(e) : Exists(seen'[e][Lim(n)]) <=> Exists(seen[e][Lim(n)])
    <3> SUFFICES ASSUME NEW n \in Live(e), seen'[e][Lim(n)] # seen[e][Lim(n)]
                 PROVE  Exists(seen'[e][Lim(n)]) /\ Exists(seen[e][Lim(n)])
      OBVIOUS
    <3>1. n \in Names /\ Lim(n) \in Ids /\ Lim(n)[1] = n /\ Lim(n)[2] = "lim"
      BY OrderIds DEF Live, Lim
    <3>2. seen'[e][Lim(n)] = order[Lim(n)] /\ Working(seen[e][Lim(n)])
      BY <2>1, <3>1 DEF Lim
    <3>3. Exists(seen[e][Lim(n)])
      BY <3>2 DEF Working, WorkingStatus, Exists
    <3>4. Exists(order[Lim(n)])
      BY <3>1, <3>3 DEF ReadsBehind, Behind
    <3> QED BY <3>2, <3>3, <3>4
  <2> QED
    BY <1>0, <2>1, <2>2, <2>3, KnowledgeOfOne
    DEF Knows, TargetsAreOrders, OrdersAreKnown, Acting
<1>3. CASE AwaitMarkets(e)
  <2>1. /\ UNCHANGED <<order, target, failed, row>>
        /\ pc[e] = "await_market" /\ pc'[e] = "close_market"
        /\ todo'[e] = {n \in Live(e) : Exists(seen[e][Mkt(n)])}
        /\ \A i \in Ids : \/ seen'[e][i] = seen[e][i]
                          \/ seen'[e][i] = order[i] /\ i[1] \in Live(e)
                             /\ Working(seen[e][<<i[1], "mkt">>]) /\ i[2] = "mkt"
    BY <1>3 DEF AwaitMarkets, AwaitAll, Enter, AttemptTypes, broker, store
  <2>2. Live(e)' = Live(e)
    BY <2>1 DEF Live
  <2>3. \A n \in Live(e) : seen'[e][Lim(n)] = seen[e][Lim(n)]
    BY <2>1, OrderIds DEF Live, Lim
  <2>4. \A n \in Live(e) : Exists(seen'[e][Mkt(n)]) => Exists(seen[e][Mkt(n)])
    BY <2>1, OrderIds DEF Live, Mkt, Working, WorkingStatus, Exists
  <2>5. \A n \in Live(e) : Exists(seen[e][Lim(n)]) => row[Lim(n)] = seen[e][Lim(n)]
    BY <2>1 DEF Knows, RowsAreWritten, Settled
  <2> QED
    BY <1>0, <2>1, <2>2, <2>3, <2>4, <2>5, KnowledgeOfOne
    DEF Knows, TargetsAreOrders, OrdersAreKnown, Acting
<1>4. CASE EndBook(e)
  <2>1. pc'[e] = "idle"
    BY <1>4 DEF EndBook, End, AttemptTypes
  <2> QED BY <1>0, <2>1, KnowledgeOfOne DEF Acting, Settled
<1> QED BY <1>1, <1>2, <1>3, <1>4

\* Handling one leg.
LEMMA LegsKnow ==
    ASSUME IInv, Alone, Knows, ~LateLanding, [Next]_vars, NEW e \in Executors, NEW n \in Names,
           \/ SubmitLimit(e, n) \/ CancelLimit(e, n) \/ CancelFails(e, n) \/ CloseLimit(e, n)
           \/ SubmitMarket(e, n) \/ CloseMarket(e, n) \/ LegFails(e, n)
    PROVE  Knows'
<1> AttemptTypes /\ OrderInv /\ OrdersAdvance /\ order \in [Ids -> Orders] /\ row \in [Ids -> Orders]
  BY StepKeeps DEF IInv, Core, AttemptInv, BrokerInv, OrderInv, Rest, StoreTypes
<1> \A k \in Names : Lim(k) # Mkt(n)
  BY DEF Lim, Mkt
<1>0. BookStep(e) /\ pc[e] # "idle" /\ \A f \in Executors \ {e} : Same(f)
  BY BookLeaves DEF BookStep
<1>1. /\ UNCHANGED <<pc, target>> /\ failed[e] \subseteq failed'[e] /\ n \in todo[e]
      /\ pc[e] \in {"submit", "cancel", "close", "market", "close_market"}
      /\ todo'[e] = todo[e] \ {n}
  BY DEF SubmitLimit, CancelLimit, CancelFails, CloseLimit, SubmitMarket, CloseMarket, LegFails,
         Submitted, SubmitLost, Handled, Fails, AttemptTypes
<1>2. Live(e)' \subseteq Live(e) /\ Live(e)' \subseteq Names \ failed'[e]
  BY <1>1 DEF Live
<1>3. ASSUME NEW k \in Names, Exists(order'[Lim(k)]), ~Exists(order[Lim(k)])
      PROVE  SentLimit(e, k)
  BY <1>0, <1>3, NewOrdersAreSent, OrderIds DEF Lim, Mkt
<1>4. \A k \in Names : Exists(order'[Lim(k)]) =>
         target'[e][k].side = order'[Lim(k)].side /\ target'[e][k].qty = order'[Lim(k)].qty
  <2> SUFFICES ASSUME NEW k \in Names, Exists(order'[Lim(k)])
               PROVE  target[e][k].side = order'[Lim(k)].side /\ target[e][k].qty = order'[Lim(k)].qty
    BY <1>1
  <2>1. CASE Exists(order[Lim(k)])
    BY <1>1, <2>1, OrderIds DEF Knows, TargetsAreOrders, OrdersAdvance, Later
  <2>2. CASE ~Exists(order[Lim(k)])
    BY <1>3, <2>2 DEF SentLimit, Sent
  <2> QED BY <2>1, <2>2
<1>5. \A i \in Ids : seen'[e][i] = seen[e][i] \/ (seen'[e][i] = order'[i] /\ i \in {Lim(n), Mkt(n)})
                     \/ (seen'[e][i] = order[i] /\ i \in {Lim(n), Mkt(n)})
  BY OrderIds DEF SubmitLimit, CancelLimit, CancelFails, CloseLimit, SubmitMarket, CloseMarket,
                  LegFails, Submitted, SubmitLost, AttemptTypes
<1>6. \A k \in Live(e)' : Exists(order'[Lim(k)]) => Exists(seen'[e][Lim(k)])
  <2> SUFFICES ASSUME NEW k \in Live(e)', Exists(order'[Lim(k)]) PROVE Exists(seen'[e][Lim(k)])
    OBVIOUS
  <2>1. k \in Live(e) /\ k \in Names /\ k \notin failed'[e] /\ Lim(k) \in Ids
    BY <1>2, OrderIds
  <2>2. CASE Exists(order[Lim(k)])
    <3>1. Exists(seen[e][Lim(k)])
      BY <1>1, <2>1, <2>2 DEF Knows, OrdersAreKnown, Acting
    <3> QED BY <1>5, <2>1, <2>2, <3>1
  <2>3. CASE ~Exists(order[Lim(k)])
    BY <1>3, <2>1, <2>3 DEF SentLimit, Sent
  <2> QED BY <2>2, <2>3
<1>7. ASSUME pc[e] \in Settled
      PROVE  \A k \in Names : seen'[e][Lim(k)] = seen[e][Lim(k)]
  <2>1. ~SubmitLimit(e, n) /\ ~CancelLimit(e, n) /\ ~CancelFails(e, n)
    BY <1>7 DEF SubmitLimit, CancelLimit, CancelFails, Settled
  <2> QED
    BY <2>1, OrderIds DEF CloseLimit, SubmitMarket, CloseMarket, LegFails,
           Submitted, SubmitLost, AttemptTypes
<1>8. \A k \in Live(e)' :
         /\ (pc'[e] \in Settled /\ Exists(seen'[e][Lim(k)])) =>
               (pc'[e] = "close" /\ k \in todo'[e]) \/ row'[Lim(k)] = seen'[e][Lim(k)]
         /\ (pc'[e] = "close_market" /\ Exists(seen'[e][Mkt(k)])) =>
               k \in todo'[e] \/ row'[Mkt(k)] = seen'[e][Mkt(k)]
  <2> SUFFICES ASSUME NEW k \in Live(e)', pc[e] \in Settled
               PROVE  /\ Exists(seen[e][Lim(k)]) =>
                             (pc[e] = "close" /\ k \in todo'[e]) \/ row'[Lim(k)] = seen[e][Lim(k)]
                      /\ (pc[e] = "close_market" /\ Exists(seen'[e][Mkt(k)])) =>
                             k \in todo'[e] \/ row'[Mkt(k)] = seen'[e][Mkt(k)]
    BY <1>1, <1>2, <1>7 DEF Settled
  <2>1. k \in Live(e) /\ k \in Names /\ Lim(k) \in Ids /\ Mkt(k) \in Ids /\ Lim(k) # Mkt(k)
    BY <1>2, OrderIds
  <2>2. /\ Exists(seen[e][Lim(k)]) => (pc[e] = "close" /\ k \in todo[e]) \/ row[Lim(k)] = seen[e][Lim(k)]
        /\ (pc[e] = "close_market" /\ Exists(seen[e][Mkt(k)])) =>
               k \in todo[e] \/ row[Mkt(k)] = seen[e][Mkt(k)]
    BY <2>1 DEF Knows, RowsAreWritten
  <2>3. CASE CloseLimit(e, n)
    <3>1. row' = [row EXCEPT ![Lim(n)] = seen[e][Lim(n)]] /\ pc[e] = "close" /\ UNCHANGED seen
      BY <2>3 DEF CloseLimit, Note
    <3>2. k # n => row'[Lim(k)] = row[Lim(k)]
      BY <3>1 DEF Lim
    <3>3. k = n => row'[Lim(k)] = seen[e][Lim(k)]
      BY <2>1, <3>1
    <3> QED BY <1>1, <2>2, <3>1, <3>2, <3>3
  <2>4. CASE CloseMarket(e, n)
    <3>1. row' = [row EXCEPT ![Mkt(n)] = seen[e][Mkt(n)]] /\ pc[e] = "close_market" /\ UNCHANGED seen
      BY <2>4 DEF CloseMarket, Note
    <3>2. row'[Lim(k)] = row[Lim(k)] /\ (k # n => row'[Mkt(k)] = row[Mkt(k)])
      BY <3>1 DEF Lim, Mkt
    <3>3. k = n => row'[Mkt(k)] = seen[e][Mkt(k)]
      BY <2>1, <3>1
    <3> QED BY <1>1, <2>2, <3>1, <3>2, <3>3
  <2>5. CASE SubmitMarket(e, n)
    <3>1. pc[e] = "market" /\ (UNCHANGED row \/ Note(Mkt(n), order'[Mkt(n)]))
      BY <2>5 DEF SubmitMarket, Submitted, SubmitLost, store
    <3>2. row'[Lim(k)] = row[Lim(k)]
      BY <2>1, <3>1 DEF Note
    <3> QED BY <2>2, <3>1, <3>2
  <2>6. CASE LegFails(e, n)
    <3>1. UNCHANGED <<row, seen>> /\ n \in failed'[e]
      BY <2>6 DEF LegFails, Fails, AttemptTypes, store
    <3>2. k # n
      BY <1>2, <3>1
    <3> QED BY <1>1, <2>2, <3>1, <3>2
  <2>7. ~SubmitLimit(e, n) /\ ~CancelLimit(e, n) /\ ~CancelFails(e, n)
    BY DEF SubmitLimit, CancelLimit, CancelFails, Settled
  <2> QED BY <2>3, <2>4, <2>5, <2>6, <2>7
<1> QED BY <1>0, <1>4, <1>6, <1>8, KnowledgeOfOne

LEMMA KnowledgeKeeps ==
    ASSUME IInv, Alone, OrdersAsk, ReadsBehind, Knows, [Next]_vars, ~LockLoss, ~LateLanding
    PROVE  Knows'
<1>1. ASSUME NEW e \in Executors, BookStep(e) PROVE Knows'
  BY <1>1, PreparingKnows, PhasesKnow, LegsKnow DEF BookStep
<1> QED BY <1>1, OthersKeepKnowledge

BookInv == IInv /\ Alone /\ ReadsBehind /\ RowsBehind /\ OrdersAsk /\ LegsAddUp
               /\ ReadsMakeSense /\ Knows

LEMMA BookInvHolds ==
    ASSUME ~LockLoss, ~LateLanding
    PROVE  Spec => []BookInv
<1>1. Init => BookInv
  <2> SUFFICES ASSUME Init PROVE BookInv
    OBVIOUS
  <2>1. /\ \A i \in Ids : order[i] = Absent /\ row[i] = Absent
        /\ \A e \in Executors : \A i \in Ids : seen[e][i] = Absent
        /\ \A e \in Executors : pc[e] = "idle"
        /\ flight = {} /\ status = "anchored"
    BY DEF Init, BrokerInit
  <2>2. ~Exists(Absent) /\ ~Working(Absent) /\ Absent.filled = 0
    BY DEF Absent, Exists, Working, WorkingStatus
  <2>3. Alone /\ ReadsBehind /\ RowsBehind
    BY <2>1, <2>2 DEF Alone, OneAtATime, ExecutedIsDone, Idle, ReadsBehind, RowsBehind, Behind
  <2>4. OrdersAsk /\ LegsAddUp /\ ReadsMakeSense
    BY <2>1, <2>2, OrderIds DEF OrdersAsk, LegsAddUp, ReadsMakeSense
  <2>5. Knows
    BY <2>1 DEF Knows, TargetsAreOrders, OrdersAreKnown, RowsAreWritten, Acting, Settled
  <2> QED BY <2>3, <2>4, <2>5, InitHolds DEF BookInv
<1>2. BookInv /\ [Next]_vars => BookInv'
  BY StepKeeps, AloneKeeps, RowsKeep, LegsStay, ReadsStaySensible, KnowledgeKeeps
  DEF BookInv, Knows
<1> QED BY <1>1, <1>2, PTL DEF Spec

LEMMA StepsAreOfTheLive ==
    ASSUME NEW e \in Executors, BookStep(e)
    PROVE  pc[e] \notin {"idle", "reconcile"}
BY DEF BookStep, LookUp, PlanTargets, OpenLegs, EndSubmit, EndCancel, AwaitLimits, EndClose,
       EndMarket, AwaitMarkets, EndBook, SubmitLimit, CancelLimit, CancelFails, CloseLimit,
       SubmitMarket, CloseMarket, LegFails, Idle

\* A complete attempt has every order final and every row written: what the two
\* legs filled is what the limit order, and so the target, asked for.
LEMMA CompleteIsBacked ==
    ASSUME BookInv, NEW e \in Executors, pc[e] = "close_market", todo[e] = {}, Complete(e),
           NEW i \in Ids, Exists(order[i])
    PROVE  Terminal(order[i]) /\ row[i] = order[i]
<1> DEFINE n == i[1]
<1>1. n \in Names /\ Lim(n) \in Ids /\ Mkt(n) \in Ids /\ (i = Lim(n) \/ i = Mkt(n))
  BY DEF Ids, Lim, Mkt, Legs
<1>2. \A j \in Ids : /\ order[j].filled \in Nat /\ order[j].qty \in Nat
                     /\ order[j].filled <= order[j].qty
                     /\ seen[e][j].filled \in Nat /\ seen[e][j].qty \in Nat
                     /\ seen[e][j] \in Orders /\ order[j] \in Orders
  BY BrokerAssumption DEF BookInv, IInv, Core, BrokerInv, OrderInv, AttemptInv, AttemptTypes,
                          Orders
<1>3. Exists(order[Lim(n)])
  <2>1. CASE i = Mkt(n)
    <3>1. Terminal(order[Lim(n)])
      BY <1>1, <2>1 DEF BookInv, IInv, Core, BrokerInv, OrdersAreBacked, Backed, Mkt
    <3> QED BY <3>1 DEF Terminal, TerminalStatus, Exists
  <2> QED BY <1>1, <2>1
<1>4. target[e][n].qty = order[Lim(n)].qty /\ order[Lim(n)].qty > 0
  BY <1>1, <1>3 DEF BookInv, Knows, TargetsAreOrders, OrdersAsk
<1>5. n \in Live(e) /\ Filled(e, n) = order[Lim(n)].qty
  BY <1>1, <1>4 DEF Complete, Live, Asks
<1>6. Exists(seen[e][Lim(n)])
  BY <1>3, <1>5 DEF BookInv, Knows, OrdersAreKnown, Acting
<1>7. Terminal(seen[e][Lim(n)]) /\ row[Lim(n)] = seen[e][Lim(n)]
  BY <1>5, <1>6 DEF BookInv, IInv, Core, AttemptInv, LimitsAreClosed, Knows, RowsAreWritten,
                    Settled
<1>8. order[Lim(n)] = seen[e][Lim(n)]
  BY <1>1, <1>7 DEF BookInv, IInv, Core, SeenIsFinal
<1>9. CASE i = Mkt(n)
  <2>1. /\ seen[e][Lim(n)].filled + seen[e][Mkt(n)].filled = order[Lim(n)].qty
        /\ order[Lim(n)].filled + order[Mkt(n)].qty = order[Lim(n)].qty
        /\ order[Mkt(n)].qty > 0
    BY <1>1, <1>5, <1>9 DEF Filled, BookInv, LegsAddUp, OrdersAsk
  <2>2. seen[e][Mkt(n)].filled = order[Mkt(n)].qty /\ seen[e][Mkt(n)].filled > 0
    BY <1>1, <1>2, <1>8, <2>1
  <2>3. Exists(seen[e][Mkt(n)])
    BY <1>1, <2>2 DEF BookInv, ReadsMakeSense
  <2>4. seen[e][Mkt(n)].qty = order[Mkt(n)].qty
    BY <1>1, <2>3 DEF BookInv, ReadsBehind, Behind
  <2>5. ~Working(seen[e][Mkt(n)])
    BY <1>1, <1>2, <2>2, <2>4 DEF BookInv, ReadsMakeSense
  <2>6. Terminal(seen[e][Mkt(n)])
    <3>1. seen[e][Mkt(n)].status \in {"absent"} \cup WorkingStatus \cup TerminalStatus
      BY <1>1, <1>2 DEF Orders
    <3> QED BY <2>3, <2>5, <3>1 DEF Terminal, Exists, Working
  <2>7. order[Mkt(n)] = seen[e][Mkt(n)]
    BY <1>1, <2>6 DEF BookInv, IInv, Core, SeenIsFinal
  <2>8. row[Mkt(n)] = seen[e][Mkt(n)]
    BY <1>5, <2>3 DEF BookInv, Knows, RowsAreWritten
  <2> QED BY <1>9, <2>6, <2>7, <2>8
<1> QED BY <1>1, <1>7, <1>8, <1>9

\* With the lock kept and no submission landing late, EXECUTED means executed:
\* every order of the run is final at the broker and its stored row says what
\* the broker says, whatever operators do meanwhile (execution_stage.py:220-242).
THEOREM ExecutedRunsAreBacked ==
    ASSUME ~LockLoss, ~LateLanding
    PROVE  Spec => []ExecutedIsBacked
<1> DEFINE Over == status = "executed" => \A e \in Executors : Idle(e)
<1>1. Init => ExecutedIsBacked /\ Over
  BY DEF Init, ExecutedIsBacked
<1>2. BookInv /\ ExecutedIsBacked /\ Over /\ [Next]_vars => ExecutedIsBacked' /\ Over'
  <2> SUFFICES ASSUME BookInv, ExecutedIsBacked, Over, [Next]_vars, status' = "executed"
               PROVE  /\ \A i \in Ids : Exists(order'[i]) => Terminal(order'[i]) /\ row'[i] = order'[i]
                      /\ \A e \in Executors : Idle(e)'
    BY DEF ExecutedIsBacked
  <2>0. /\ IInv /\ Alone /\ RowsBehind /\ OrdersAdvance /\ row \in [Ids -> Orders]
        /\ AttemptTypes
    BY StepKeeps DEF BookInv, IInv, Rest, StoreTypes, Core, AttemptInv
  <2>1. CASE status = "executed"
    <3>0. \A e \in Executors : Idle(e)
      BY <2>1
    <3>1. ASSUME NEW e \in Executors, BookStep(e) PROVE FALSE
      BY <3>0, <3>1, StepsAreOfTheLive DEF Idle
    <3>2. ASSUME NEW i \in Ids, Working(row[i]) PROVE order[i] = row[i]
      BY <2>0, <2>1, <3>2 DEF RowsBehind, Behind, ExecutedIsBacked, Working, WorkingStatus, Exists
    <3>3. ASSUME NEW e \in Executors, ReconcileOrders(e) PROVE FALSE
      BY <3>0, <3>2, <3>3 DEF ReconcileOrders, ReadOpenRows, WriteFresh, Idle
    <3>4. UNCHANGED row /\ NoNewOrders /\ \A f \in Executors : Moves(f)
      BY <2>0, <3>1, <3>3, OtherSteps DEF Alone
    <3>5. ASSUME NEW i \in Ids, Exists(order'[i])
          PROVE  Terminal(order'[i]) /\ row'[i] = order'[i]
      <4>1. Terminal(order[i]) /\ row[i] = order[i]
        BY <2>1, <3>4, <3>5 DEF ExecutedIsBacked, NoNewOrders
      <4>2. order'[i] = order[i]
        BY <2>0, <4>1 DEF OrdersAdvance, Later
      <4> QED BY <3>4, <4>1, <4>2
    <3>6. ASSUME NEW e \in Executors PROVE pc'[e] = "idle"
      <4>1. Same(e) \/ Reconciles(e) \/ pc'[e] = "idle"
        BY <2>1, <3>0, <3>4 DEF Moves, Engages, Passes, Starts, Idle, Gates
      <4>2. ~Reconciles(e)
        BY <3>3 DEF Reconciles
      <4> QED BY <3>0, <4>1, <4>2 DEF Same, Idle
    <3> QED BY <3>5, <3>6 DEF Idle
  <2>2. CASE status # "executed"
    <3>1. PICK e \in Executors : EndBook(e) /\ status' # status
      BY <2>0, <2>2, StatusSteps
    <3>2. /\ UNCHANGED <<order, row>> /\ pc[e] = "close_market" /\ todo[e] = {}
          /\ Complete(e) /\ End(e)
      BY <3>1 DEF EndBook, broker
    <3>3. \A f \in Executors : pc'[f] = "idle"
      BY <2>0, <3>2 DEF End, AttemptTypes, Alone, OneAtATime, Idle
    <3> QED BY <3>2, <3>3, CompleteIsBacked DEF Idle
  <2> QED BY <2>1, <2>2
<1> QED BY <1>1, <1>2, BookInvHolds, PTL DEF Spec

-----------------------------------------------------------------------------
(* Holdings: what an order may still sell is held.                         *)

NothingCloses == \A n \in Names : closing[n] = 0

\* A sell that is planned and not sent is held.
TargetsAreHeld ==
    \A e \in Executors : pc[e] \notin {"idle", "reconcile", "start", "look"} =>
        \A n \in Names : (~Exists(order[Lim(n)]) /\ target[e][n].side = "sell") =>
            target[e][n].qty <= position[n]

\* What a limit order to sell, with its market order, has still to sell is held.
OrdersAreHeld ==
    \A n \in Names :
        IF Exists(order[Lim(n)]) /\ order[Lim(n)].side = "sell"
        THEN order[Lim(n)].qty - Traded(n) <= position[n]
        ELSE 0 <= position[n]

HoldInv == NothingCloses /\ TargetsAreHeld /\ OrdersAreHeld

\* The two legs never trade more than the limit order asked for.
LEMMA TradedFits ==
    ASSUME BookInv, NEW n \in Names
    PROVE  /\ Traded(n) \in Nat /\ Traded(n) <= order[Lim(n)].qty
           /\ ~Exists(order[Lim(n)]) => ~Exists(order[Mkt(n)])
<1>1. \A j \in Ids : /\ order[j].filled \in Nat /\ order[j].qty \in Nat
                     /\ order[j].filled <= order[j].qty
                     /\ ~Exists(order[j]) => order[j].filled = 0
  BY BrokerAssumption DEF BookInv, IInv, Core, BrokerInv, OrderInv, Orders, OrdersMakeSense
<1>2. CASE Exists(order[Mkt(n)])
  <2>1. Terminal(order[Lim(n)])
    BY <1>2, OrderIds DEF BookInv, IInv, Core, BrokerInv, OrdersAreBacked, Backed, Lim, Mkt
  <2>2. Exists(order[Lim(n)])
    BY <2>1 DEF Terminal, TerminalStatus, Exists
  <2>3. order[Lim(n)].filled + order[Mkt(n)].qty = order[Lim(n)].qty
    BY <1>2 DEF BookInv, LegsAddUp
  <2> QED BY <1>1, <2>2, <2>3, OrderIds DEF Traded
<1>3. CASE ~Exists(order[Mkt(n)])
  BY <1>1, <1>3, OrderIds DEF Traded
<1> QED BY <1>2, <1>3

\* A trade of one share.
LEMMA TradeIsHeld ==
    ASSUME BookInv, BookInv', HoldInv, NEW i \in Ids, Fill(i), NEW n \in Names
    PROVE  /\ n # i[1] => position'[n] = position[n] /\ order'[Lim(n)] = order[Lim(n)]
                          /\ Traded(n)' = Traded(n)
           /\ n = i[1] => /\ Exists(order[Lim(n)]) /\ Exists(order'[Lim(n)])
                          /\ order'[Lim(n)].side = order[Lim(n)].side
                          /\ order'[Lim(n)].qty = order[Lim(n)].qty
                          /\ Traded(n)' = Traded(n) + 1
                          /\ position'[n] = IF order[Lim(n)].side = "buy" THEN position[n] + 1
                                            ELSE position[n] - 1
<1>1. /\ order \in [Ids -> Orders] /\ position \in [Names -> Int] /\ i[1] \in Names
      /\ i = Lim(i[1]) \/ i = Mkt(i[1])
  BY DEF BookInv, IInv, Core, BrokerInv, OrderInv, Rest, HoldingTypes, Ids, Lim, Mkt, Legs
<1>2. /\ order'[i] = [order[i] EXCEPT
           !.filled = order[i].filled + 1,
           !.status = IF order[i].filled + 1 = order[i].qty THEN "filled" ELSE order[i].status]
      /\ \A j \in Ids \ {i} : order'[j] = order[j]
      /\ Exists(order[i])
  BY <1>1 DEF Fill, Orders, Working, WorkingStatus, Exists
<1>3. /\ order'[i].filled = order[i].filled + 1 /\ order'[i].side = order[i].side
      /\ order'[i].qty = order[i].qty /\ Exists(order'[i])
  BY <1>1, <1>2 DEF Orders, Exists
<1>4. CASE n # i[1]
  <2>1. Lim(n) # i /\ Mkt(n) # i
    BY <1>1, <1>4 DEF Lim, Mkt
  <2>2. order'[Lim(n)] = order[Lim(n)] /\ order'[Mkt(n)] = order[Mkt(n)]
    BY <1>2, <2>1, OrderIds
  <2>3. position'[n] = position[n]
    BY <1>1, <1>4 DEF Fill
  <2> QED BY <1>4, <2>2, <2>3 DEF Traded
<1>5. CASE n = i[1]
  <2>1. \A j \in Ids : order[j].filled \in Nat
    BY <1>1, BrokerAssumption DEF Orders
  <2>2. position'[n] = IF order[i].side = "buy" THEN position[n] + 1 ELSE position[n] - 1
    BY <1>1, <1>5 DEF Fill
  <2>3. CASE i = Lim(n)
    <3>1. order'[Mkt(n)] = order[Mkt(n)]
      BY <1>2, <2>3, OrderIds
    <3>2. Traded(n)' = Traded(n) + 1
      BY <1>3, <2>1, <2>3, <3>1, OrderIds DEF Traded
    <3> QED BY <1>2, <1>3, <1>5, <2>2, <2>3, <3>2
  <2>4. CASE i = Mkt(n)
    <3>1. order'[Lim(n)] = order[Lim(n)]
      BY <1>2, <2>4, OrderIds
    <3>2. Exists(order[Lim(n)])
      BY <1>2, <2>4, TradedFits
    <3>3. order[Mkt(n)].side = order[Lim(n)].side
      BY <1>2, <2>4 DEF BookInv, LegsAddUp
    <3>4. Traded(n)' = Traded(n) + 1
      BY <1>3, <2>1, <2>4, <3>1, OrderIds DEF Traded
    <3> QED BY <1>5, <2>2, <2>4, <3>1, <3>2, <3>3, <3>4
  <2> QED BY <1>1, <1>5, <2>3, <2>4
<1> QED BY <1>4, <1>5

\* Nothing trades outside the run's orders: only a flatten closes positions.
LEMMA NothingIsClosed ==
    ASSUME IInv, HaltsAtGates, NothingCloses, [Next]_vars, Operators = {}, ~LateLanding
    PROVE  NothingCloses' /\ \A n \in Names : ~CloseFill(n)
<1> AttemptTypes /\ Procs = Executors
  BY DEF IInv, Core, AttemptInv, Procs
<1>1. \A n \in Names : ~CloseFill(n)
  BY DEF NothingCloses, CloseFill
<1>2. UNCHANGED closing
  <2>1. ASSUME NEW e \in Executors, BookStep(e) PROVE UNCHANGED closing
    BY <2>1, BookLeaves
  <2>2. ASSUME NEW p \in Executors, HaltStep(p) PROVE UNCHANGED closing
    <3>1. halt[p].at # "quiet" => halt[p].at # "positions"
      BY DEF HaltsAtGates
    <3> QED
      BY <2>2, <3>1 DEF HaltStep, ListNone, ListSome, CancelListed, ConfirmListed, ClosePositions,
             HaltFails, RecordHalt, RecordFails, broker
  <2> QED
    BY <1>1, <2>1, <2>2 DEF Next, BrokerStep, Land, Drop, Fill, ConfirmCancel, Expire,
                            ExecutorStep, Start, GateStep, GatePass, GateSettle, GateTrigger,
                            Abort, ReconcileOrders, ReadOpenRows, WriteFresh, OperatorStep,
                            broker, vars
<1> QED BY <1>1, <1>2 DEF NothingCloses

LEMMA OthersHold ==
    ASSUME BookInv, BookInv', HoldInv, [Next]_vars, ~\E e \in Executors : BookStep(e),
           \A n \in Names : ~CloseFill(n)
    PROVE  TargetsAreHeld' /\ OrdersAreHeld'
<1> IInv /\ OrdersAdvance /\ NoNewOrders /\ \A f \in Executors : Moves(f)
  BY StepKeeps, OtherSteps DEF BookInv, Alone
<1>1. position \in [Names -> Int] /\ \A n \in Names : Traded(n) \in Nat /\ order[Lim(n)].qty \in Nat
  BY TradedFits, OrderIds, BrokerAssumption
  DEF IInv, Rest, HoldingTypes, Core, BrokerInv, OrderInv, Orders
<1>2. ASSUME NEW n \in Names
      PROVE  \/ position'[n] = position[n] /\ Traded(n)' = Traded(n)
             \/ /\ Exists(order[Lim(n)]) /\ Traded(n)' = Traded(n) + 1
                /\ position'[n] = IF order[Lim(n)].side = "buy" THEN position[n] + 1
                                  ELSE position[n] - 1
  <2>1. ASSUME NEW i \in Ids, Fill(i)
        PROVE  \/ position'[n] = position[n] /\ Traded(n)' = Traded(n)
               \/ /\ Exists(order[Lim(n)]) /\ Traded(n)' = Traded(n) + 1
                  /\ position'[n] = IF order[Lim(n)].side = "buy" THEN position[n] + 1
                                    ELSE position[n] - 1
    BY <2>1, TradeIsHeld
  <2>2. CASE \A i \in Ids : ~(Fill(i) /\ UNCHANGED <<attempt, halt, store, history>>)
    <3>1. Traded(n)' = Traded(n)
      BY <2>2, OnlyTradesFill, OrderIds DEF FillsStay, Traded
    <3>2. UNCHANGED position
      BY <2>2, OtherSteps DEF BookInv, Alone
    <3> QED BY <3>1, <3>2
  <2> QED BY <2>1, <2>2
<1>3. ASSUME NEW n \in Names
      PROVE  /\ Exists(order'[Lim(n)]) <=> Exists(order[Lim(n)])
             /\ Exists(order[Lim(n)]) => /\ order'[Lim(n)].side = order[Lim(n)].side
                                         /\ order'[Lim(n)].qty = order[Lim(n)].qty
  BY OrderIds DEF OrdersAdvance, Later, NoNewOrders
<1>4. TargetsAreHeld'
  <2> SUFFICES ASSUME NEW f \in Executors, pc'[f] \notin {"idle", "reconcile", "start", "look"},
                      NEW n \in Names,
                      ~Exists(order'[Lim(n)]), target'[f][n].side = "sell"
               PROVE  target'[f][n].qty <= position'[n]
    BY DEF TargetsAreHeld
  <2>1. pc[f] \notin {"idle", "reconcile", "start", "look"} /\ target'[f] = target[f]
    BY DEF Moves, Same, Engages, Passes, Starts, Reconciles, Gates
  <2>2. position'[n] = position[n] /\ ~Exists(order[Lim(n)])
    BY <1>2, <1>3
  <2> QED BY <2>1, <2>2 DEF HoldInv, TargetsAreHeld
<1>5. OrdersAreHeld'
  <2> SUFFICES ASSUME NEW n \in Names
               PROVE  IF Exists(order'[Lim(n)]) /\ order'[Lim(n)].side = "sell"
                      THEN order'[Lim(n)].qty - Traded(n)' <= position'[n]
                      ELSE 0 <= position'[n]
    BY DEF OrdersAreHeld
  <2>0. /\ position[n] \in Int /\ Traded(n) \in Nat /\ order[Lim(n)].qty \in Nat
        /\ order[Lim(n)].side \in {"buy", "sell"}
    BY <1>1, OrderIds DEF IInv, Core, BrokerInv, OrderInv, Orders, Sides
  <2>1. IF Exists(order[Lim(n)]) /\ order[Lim(n)].side = "sell"
        THEN order[Lim(n)].qty - Traded(n) <= position[n]
        ELSE 0 <= position[n]
    BY DEF HoldInv, OrdersAreHeld
  <2>2. CASE Exists(order[Lim(n)])
    BY <1>2, <1>3, <2>0, <2>1, <2>2
  <2>3. CASE ~Exists(order[Lim(n)])
    BY <1>2, <1>3, <2>0, <2>1, <2>3
  <2> QED BY <2>2, <2>3
<1> QED BY <1>4, <1>5

LEMMA BookHolds ==
    ASSUME BookInv, BookInv', HoldInv, [Next]_vars, ~LateLanding, NEW e \in Executors, BookStep(e)
    PROVE  TargetsAreHeld' /\ OrdersAreHeld'
<1> IInv /\ OrdersAdvance /\ AttemptTypes
  BY StepKeeps DEF BookInv, IInv, Core, AttemptInv
<1>0. UNCHANGED position /\ ~Idle(e) /\ \A f \in Executors \ {e} : Same(f)
  BY BookLeaves, StepsAreOfTheLive DEF Idle
<1>1. position \in [Names -> Int] /\ \A n \in Names : order[Lim(n)] \in Orders
  BY OrderIds DEF IInv, Rest, HoldingTypes, Core, BrokerInv, OrderInv
<1>2. ASSUME NEW n \in Names, pc'[e] \notin {"idle", "reconcile", "start", "look"},
             ~Exists(order'[Lim(n)]), target'[e][n].side = "sell"
      PROVE  target'[e][n].qty <= position'[n]
  <2>1. ~Exists(order[Lim(n)])
    BY <1>2, OrderIds DEF OrdersAdvance, Later
  <2>2. CASE LookUp(e)
    <3>1. target'[e][n] = NoTarget
      BY <2>1, <2>2 DEF LookUp, AttemptTypes
    <3> QED BY <1>2, <3>1 DEF NoTarget
  <2>3. CASE PlanTargets(e)
    <3>1. PICK desired \in [Names -> Desired] :
             target' = [target EXCEPT ![e] =
                 [k \in Names |-> IF Asks(@[k]) THEN @[k] ELSE Delta(desired[k], position[k])]]
      BY <2>3 DEF PlanTargets
    <3>2. target'[e][n] = IF Asks(target[e][n]) THEN target[e][n]
                          ELSE Delta(desired[n], position[n])
      BY <3>1 DEF AttemptTypes
    <3>3. CASE target'[e][n] = target[e][n]
      <4>1. pc[e] = "plan"
        BY <2>3 DEF PlanTargets
      <4> QED BY <1>0, <1>2, <2>1, <3>3, <4>1 DEF HoldInv, TargetsAreHeld
    <3>4. CASE target'[e][n] = Delta(desired[n], position[n])
      <4>1. desired[n] \in Nat /\ position[n] \in Int
        BY <1>1, ExecutionAssumption
      <4> QED BY <1>0, <1>2, <3>4, <4>1 DEF Delta
    <3> QED BY <3>2, <3>3, <3>4
  <2>4. CASE ~LookUp(e) /\ ~PlanTargets(e)
    <3>1. /\ pc[e] \notin {"idle", "start", "look", "plan", "reconcile"}
          /\ pc'[e] = "idle" \/ target' = target
      BY <2>4 DEF BookStep, OpenLegs, EndSubmit, EndCancel, AwaitLimits, EndClose, EndMarket,
                  AwaitMarkets, EndBook, End, SubmitLimit, CancelLimit, CancelFails, CloseLimit,
                  SubmitMarket, CloseMarket, LegFails, Submitted, SubmitLost, AttemptTypes
    <3> QED BY <1>0, <1>2, <2>1, <3>1 DEF HoldInv, TargetsAreHeld
  <2> QED BY <2>2, <2>3, <2>4
<1>3. TargetsAreHeld'
  <2>1. \A f \in Executors \ {e} : pc'[f] = "idle"
    BY <1>0 DEF BookInv, Alone, OneAtATime, Idle, Same
  <2> QED BY <1>2, <2>1 DEF TargetsAreHeld
<1>4. OrdersAreHeld'
  <2> SUFFICES ASSUME NEW n \in Names
               PROVE  IF Exists(order'[Lim(n)]) /\ order'[Lim(n)].side = "sell"
                      THEN order'[Lim(n)].qty - Traded(n)' <= position[n]
                      ELSE 0 <= position[n]
    BY <1>0 DEF OrdersAreHeld
  <2>0. Traded(n) \in Nat /\ position[n] \in Int /\ order[Lim(n)].qty \in Nat
    BY <1>1, TradedFits, BrokerAssumption DEF Orders
  <2>1. Traded(n)' = Traded(n)
    <3>1. ~\E i \in Ids : Fill(i) /\ UNCHANGED <<attempt, halt, store, history>>
      <4>1. ASSUME NEW i \in Ids, Fill(i) PROVE FALSE
        <5>1. position'[i[1]] # position[i[1]] /\ i[1] \in Names
          <6>1. i[1] \in Names /\ position[i[1]] \in Int
            BY <1>1 DEF Ids
          <6> QED BY <1>1, <4>1, <6>1 DEF Fill
        <5> QED BY <1>0, <5>1
      <4> QED BY <4>1
    <3> QED BY <3>1, OnlyTradesFill, OrderIds DEF FillsStay, Traded
  <2>2. CASE Exists(order[Lim(n)])
    BY <2>1, <2>2, OrderIds DEF OrdersAdvance, Later, HoldInv, OrdersAreHeld
  <2>3. CASE ~Exists(order[Lim(n)]) /\ Exists(order'[Lim(n)])
    <3>1. SentLimit(e, n)
      BY <2>3, NewOrdersAreSent, OrderIds DEF Lim, Mkt
    <3>2. /\ order'[Lim(n)].side = target[e][n].side /\ order'[Lim(n)].qty = target[e][n].qty
          /\ pc[e] = "submit"
      BY <3>1 DEF SentLimit, Sent
    <3>3. target[e][n].side = "sell" => target[e][n].qty <= position[n]
      BY <2>3, <3>2 DEF HoldInv, TargetsAreHeld
    <3>4. 0 <= position[n]
      BY <2>3 DEF HoldInv, OrdersAreHeld
    <3>5. order'[Lim(n)].qty \in Nat
      BY OrderIds, BrokerAssumption DEF BookInv, IInv, Core, BrokerInv, OrderInv, Orders
    <3> QED BY <2>0, <2>1, <3>2, <3>3, <3>4, <3>5
  <2>4. CASE ~Exists(order'[Lim(n)])
    BY <2>4, OrderIds DEF OrdersAdvance, Later, HoldInv, OrdersAreHeld
  <2> QED BY <2>2, <2>3, <2>4
<1> QED BY <1>3, <1>4

\* Long-only (kill_switch.py:114): with the lock kept, no submission landing late
\* and no operator's flatten, the run's own orders never sell more than is held,
\* through retries, re-planned targets and lost answers.
THEOREM NeverShort ==
    ASSUME Operators = {}, ~LockLoss, ~LateLanding
    PROVE  Spec => []LongOnly
<1> DEFINE LongInv == BookInv /\ HaltsAtGates /\ HoldInv
<1>1. Init => HaltsAtGates /\ HoldInv
  <2> SUFFICES ASSUME Init PROVE HaltsAtGates /\ HoldInv
    OBVIOUS
  <2>1. HaltsAtGates
    BY DEF Init, HaltsAtGates, Quiet, Procs
  <2>2. NothingCloses /\ TargetsAreHeld
    BY DEF Init, BrokerInit, NothingCloses, TargetsAreHeld
  <2>3. OrdersAreHeld
    <3>1. \A n \in Names : ~Exists(order[Lim(n)]) /\ position[n] \in Nat
      BY ExecutionAssumption, OrderIds DEF Init, BrokerInit, Absent, Exists
    <3> QED BY <3>1 DEF OrdersAreHeld
  <2> QED BY <2>1, <2>2, <2>3 DEF HoldInv
<1>2. BookInv /\ BookInv' /\ HaltsAtGates /\ HoldInv /\ [Next]_vars => (HaltsAtGates /\ HoldInv)'
  <2> SUFFICES ASSUME BookInv, BookInv', HaltsAtGates, HoldInv, [Next]_vars
               PROVE  HaltsAtGates' /\ HoldInv'
    OBVIOUS
  <2>1. HaltsAtGates'
    BY HaltsStayAtGates DEF BookInv
  <2>2. NothingCloses' /\ \A n \in Names : ~CloseFill(n)
    BY NothingIsClosed DEF BookInv, HoldInv
  <2>3. TargetsAreHeld' /\ OrdersAreHeld'
    BY <2>2, BookHolds, OthersHold
  <2> QED BY <2>1, <2>2, <2>3 DEF HoldInv
<1>3. BookInv /\ HoldInv => LongOnly
  <2> SUFFICES ASSUME BookInv, HoldInv, NEW n \in Names PROVE position[n] >= 0
    BY DEF LongOnly
  <2>1. Traded(n) \in Nat /\ Traded(n) <= order[Lim(n)].qty
    BY TradedFits
  <2>2. order[Lim(n)].qty \in Nat /\ position[n] \in Int
    BY OrderIds, BrokerAssumption
    DEF BookInv, IInv, Core, BrokerInv, OrderInv, Orders, Rest, HoldingTypes
  <2> QED BY <2>1, <2>2 DEF HoldInv, OrdersAreHeld
<1> QED BY <1>1, <1>2, <1>3, BookInvHolds, PTL DEF Spec

=============================================================================
