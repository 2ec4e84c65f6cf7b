---------------------------- MODULE BrokerOrders ----------------------------
(***************************************************************************)
(* The paper broker, as src/execution/gateway.py and                       *)
(* src/execution/alpaca.py use it.  The broker is external: what is        *)
(* modelled is every behaviour the code's calls, error classes and         *)
(* comments allow for.                                                     *)
(*                                                                         *)
(* An order is named by its client order id, a pair of a security and a    *)
(* leg, so the broker holds at most one order per id and answers a second  *)
(* submission with DuplicateClientOrderError.  Orders fill one share at a  *)
(* time, also while a cancel is pending; they can be rejected, cancelled   *)
(* or expire.  A submission whose answer was lost may still be under way   *)
(* (flight) and land later.                                                *)
(***************************************************************************)
EXTENDS Integers, FiniteSets

CONSTANTS Names,       \* the securities of the book
          MaxQty       \* bound: the largest quantity one order may ask for

ASSUME BrokerAssumption == MaxQty \in Nat \ {0}

VARIABLES order,       \* order[id]: the broker's order, Absent when there is none
          flight,      \* submissions sent, not answered and not yet processed
          position,    \* position[n]: shares held (negative: short)
          closing      \* closing[n]: shares a pending close_position will trade

broker == <<order, flight, position, closing>>

Legs == {"lim", "mkt"}
Sides == {"buy", "sell"}
Ids == Names \X Legs
Lim(n) == <<n, "lim">>
Mkt(n) == <<n, "mkt">>

WorkingStatus == {"open", "pending_cancel"}
TerminalStatus == {"filled", "canceled", "expired", "rejected"}

Orders == [side : Sides, qty : 0..MaxQty, filled : 0..MaxQty,
           status : {"absent"} \cup WorkingStatus \cup TerminalStatus]
Requests == [id : Ids, side : Sides, qty : 1..MaxQty]

Absent == [side |-> "buy", qty |-> 0, filled |-> 0, status |-> "absent"]
Placed(side, qty, status) ==
    [side |-> side, qty |-> qty, filled |-> 0, status |-> status]

Exists(o) == o.status # "absent"
Working(o) == o.status \in WorkingStatus
Terminal(o) == o.status \in TerminalStatus

OpenIds == {i \in Ids : Working(order[i])}

BrokerTypeOK ==
    /\ order \in [Ids -> Orders]
    /\ \A i \in Ids : order[i].filled <= order[i].qty
    /\ flight \subseteq Requests
    /\ position \in [Names -> Int]
    /\ closing \in [Names -> Int]

BrokerInit(Holdings) ==
    /\ order = [i \in Ids |-> Absent]
    /\ flight = {}
    /\ position \in [Names -> Holdings]
    /\ closing = [n \in Names |-> 0]

-----------------------------------------------------------------------------
(* What a call does to the broker.                                         *)

(* A request for a new id is accepted (and may be rejected at once).  A    *)
(* request for a known id changes nothing: the 422 answer.                 *)
Accept(i, side, qty) ==
    \E status \in {"open", "rejected"} :
        order' = [order EXCEPT ![i] =
                     IF Exists(@) THEN @ ELSE Placed(side, qty, status)]

(* cancel_order is only a request; a terminal order is not cancelable.     *)
AskedToCancel(S) ==
    [i \in Ids |-> IF i \in S /\ Working(order[i])
                   THEN [order[i] EXCEPT !.status = "pending_cancel"]
                   ELSE order[i]]

-----------------------------------------------------------------------------
(* What the broker does by itself.                                         *)

(* A late submission is processed, or never reaches the broker.            *)
Land(r) ==
    /\ flight' = flight \ {r}
    /\ Accept(r.id, r.side, r.qty)
    /\ UNCHANGED <<position, closing>>

Drop(r) ==
    /\ flight' = flight \ {r}
    /\ UNCHANGED <<order, position, closing>>

(* One share trades, also after a cancel was requested.                    *)
Fill(i) ==
    /\ Working(order[i])
    /\ order' = [order EXCEPT
           ![i].filled = @ + 1,
           ![i].status = IF order[i].filled + 1 = order[i].qty THEN "filled" ELSE @]
    /\ position' = [position EXCEPT
           ![i[1]] = IF order[i].side = "buy" THEN @ + 1 ELSE @ - 1]
    /\ UNCHANGED <<flight, closing>>

ConfirmCancel(i) ==
    /\ order[i].status = "pending_cancel"
    /\ order' = [order EXCEPT ![i].status = "canceled"]
    /\ UNCHANGED <<flight, position, closing>>

(* The session ends for a day order (expired, done_for_day).               *)
Expire(i) ==
    /\ Working(order[i])
    /\ order' = [order EXCEPT ![i].status = "expired"]
    /\ UNCHANGED <<flight, position, closing>>

(* The order close_position sent trades.                                   *)
CloseFill(n) ==
    /\ closing[n] # 0
    /\ position' = [position EXCEPT ![n] = @ - closing[n]]
    /\ closing' = [closing EXCEPT ![n] = 0]
    /\ UNCHANGED <<order, flight>>

BrokerStep ==
    \/ \E r \in flight : Land(r) \/ Drop(r)
    \/ \E i \in Ids : Fill(i) \/ ConfirmCancel(i) \/ Expire(i)
    \/ \E n \in Names : CloseFill(n)

=============================================================================
