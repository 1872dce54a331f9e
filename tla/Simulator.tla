------------------------------ MODULE Simulator ------------------------------
(***************************************************************************)
(* The internal broker of the paper lab (backend/paperlab/simulator.py) as *)
(* operators on the value of its SQLite ledger.  Prices, ticks and fees    *)
(* are abstracted: whether a bar reaches a protective stop is an input.    *)
(* Time is counted in minutes.                                             *)
(***************************************************************************)
EXTENDS Integers, Sequences, FiniteSets

CONSTANT MaxQty        \* spec["max_quantity"]: no order is larger than this

ASSUME MaxQtyAssumption == MaxQty \in Nat \ {0}

Kind   == {"entry", "exit"}
Side   == {-1, 1}
Active == {"accepted", "partially_filled"}
Final  == {"filled", "cancelled", "rejected", "expired"}
Reason == {"entry", "exit", "stop"}

\* A bar of the tape; volume says whether anything traded in that minute.
Bar == [ts : Nat, volume : BOOLEAN]

\* The idempotency key "day/kind" or "day/kind/retry-n" (retry 0: no suffix).
Id == [day : Nat, kind : Kind, retry : Nat]

\* decided is decision_received_at_ns in minutes, 0 for a request without it.
Request == [id : Id, side : Side, qty : Nat \ {0}, decided : Nat,
            submitted : Nat, eligible : Nat, expires : Nat]
Order   == [req : Request, state : Active \cup Final, filled : Nat]

\* lot is the number of the entry fill a protective stop closes, 0 otherwise.
Fill == [order : Id, side : Side, qty : Nat \ {0}, ts : Nat,
         reason : Reason, lot : Nat]

\* One contract unit of inventory; the lots row of fill number lot holds the
\* units with that number, and a row whose quantity reaches 0 has none left.
Unit == [lot : Nat \ {0}, unit : Nat \ {0}, side : Side, parent : Id]

\* What each lifecycle state says about the filled quantity (audit.py).
ValidLifecycle(o) ==
    \/ o.state \in {"accepted", "rejected"} /\ o.filled = 0
    \/ o.state = "partially_filled" /\ 0 < o.filled /\ o.filled < o.req.qty
    \/ o.state = "filled" /\ o.filled = o.req.qty
    \/ o.state \in {"cancelled", "expired"} /\ o.filled < o.req.qty

EmptySim == [orders |-> <<>>, bars |-> {}, fills |-> <<>>, lots |-> {}]

SimLedger == [orders : Seq(Order), bars : SUBSET Bar,
              fills : Seq(Fill), lots : SUBSET Unit]

(***************************************************************************)
(* submit                                                                  *)
(***************************************************************************)
Known(db, id) == \E i \in DOMAIN db.orders : db.orders[i].req.id = id

\* The ValueErrors of submit: an idempotency key reused for a different order,
\* a quantity beyond the frozen maximum, an eligibility not after submission.
Refused(db, req) ==
    \/ \E i \in DOMAIN db.orders :
           db.orders[i].req.id = req.id /\ db.orders[i].req # req
    \/ /\ ~Known(db, req.id)
       /\ req.qty > MaxQty \/ req.eligible <= req.submitted

Stale(db, req) == \E b \in db.bars : req.expires <= b.ts

Admission(db, req, reject) ==
    IF Stale(db, req) \/ (req.id.kind = "entry" /\ reject)
    THEN "rejected" ELSE "accepted"

Submit(db, req, reject) ==
    IF Known(db, req.id) THEN db
    ELSE [db EXCEPT !.orders = Append(@, [req    |-> req,
                                          state  |-> Admission(db, req, reject),
                                          filled |-> 0])]

(***************************************************************************)
(* advance: one transaction; the loop over the active orders and the loop  *)
(* over the touched lots take one order or one lot at a time.              *)
(***************************************************************************)
\* Mutant: selects every order not yet filled, the rejected ones included.
UnfilledOrders(db) == {i \in DOMAIN db.orders : db.orders[i].state # "filled"}

ActiveOrders(db) == {i \in DOMAIN db.orders : db.orders[i].state \in Active}

InsertBar(db, bar) == [db EXCEPT !.bars = @ \cup {bar}]

\* The inventory an exit of this side can reduce.
Opposite(db, side) == {u \in db.lots : u.side = -side}

Least(a, b) == IF a <= b THEN a ELSE b

\* What the broker would fill of an active order on an eligible bar.
Fillable(db, o, cap) ==
    LET open == Least(o.req.qty - o.filled, cap)
    IN  IF o.req.id.kind = "entry" THEN open
        ELSE Least(open, Cardinality(Opposite(db, o.req.side)))

Older(u, v) == u.lot < v.lot \/ (u.lot = v.lot /\ u.unit < v.unit)

\* The qty units an exit consumes: the oldest ones of the opposite side.
Oldest(db, side, qty) ==
    {u \in Opposite(db, side) :
        Cardinality({v \in Opposite(db, side) : Older(v, u)}) < qty}

Became(o, state, filled) == [req |-> o.req, state |-> state, filled |-> filled]

SetState(db, i, state) ==
    LET o == db.orders[i]
    IN  [orders |-> [db.orders EXCEPT ![i] = Became(o, state, o.filled)],
         bars   |-> db.bars, fills |-> db.fills, lots |-> db.lots]

\* Mutant: the order row keeps the quantity filled before this fill.
FillNotCounted(db, i, qty, bar, lots) ==
    LET o     == db.orders[i]
        state == IF o.filled = o.req.qty THEN "filled" ELSE "partially_filled"
    IN  [orders |-> [db.orders EXCEPT ![i] = Became(o, state, o.filled)],
         bars   |-> db.bars,
         fills  |-> Append(db.fills, [order |-> o.req.id, side |-> o.req.side,
                                      qty |-> qty, ts |-> bar.ts,
                                      reason |-> o.req.id.kind, lot |-> 0]),
         lots   |-> lots]

\* _fill and the order update that follows it; lots is the new inventory.
FillOrder(db, i, qty, bar, lots) ==
    LET o     == db.orders[i]
        total == o.filled + qty
        state == IF total = o.req.qty THEN "filled" ELSE "partially_filled"
    IN  [orders |-> [db.orders EXCEPT ![i] = Became(o, state, total)],
         bars   |-> db.bars,
         fills  |-> Append(db.fills, [order |-> o.req.id, side |-> o.req.side,
                                      qty |-> qty, ts |-> bar.ts,
                                      reason |-> o.req.id.kind, lot |-> 0]),
         lots   |-> lots]

\* A fill of an entry opens a protected lot of its own.
OpenLot(db, o, qty) ==
    db.lots \cup {[lot |-> Len(db.fills) + 1, unit |-> u,
                   side |-> o.req.side, parent |-> o.req.id] : u \in 1..qty}

Entered(db, i, qty, bar) ==
    FillOrder(db, i, qty, bar, OpenLot(db, db.orders[i], qty))

\* Mutant: an exit consumes the newest units first.
ExitedNewestFirst(db, i, qty, bar) ==
    LET units == Opposite(db, db.orders[i].req.side)
    IN  FillOrder(db, i, qty, bar,
                  db.lots \ {u \in units :
                               Cardinality({v \in units : Older(u, v)}) < qty})

Exited(db, i, qty, bar) ==
    FillOrder(db, i, qty, bar, db.lots \ Oldest(db, db.orders[i].req.side, qty))

\* Mutant: the eligibility of an order is not looked at.
WorkIneligible(db, i, bar, cap) ==
    LET o   == db.orders[i]
        qty == Fillable(db, o, cap)
    IN  CASE bar.ts >= o.req.expires -> SetState(db, i, "expired")
          [] bar.ts < o.req.expires /\ ~bar.volume -> db
          [] OTHER ->
               IF o.req.id.kind = "entry" THEN Entered(db, i, qty, bar)
               ELSE IF qty = 0 THEN SetState(db, i, "cancelled")
               ELSE Exited(db, i, qty, bar)

\* Mutant: an order that has begun to fill works on until it is filled.
WorkExpiresUnfilled(db, i, bar, cap) ==
    LET o   == db.orders[i]
        qty == Fillable(db, o, cap)
    IN  CASE bar.ts >= o.req.expires /\ o.filled = 0 -> SetState(db, i, "expired")
          [] (bar.ts < o.req.expires \/ o.filled # 0)
             /\ (bar.ts < o.req.eligible \/ ~bar.volume) -> db
          [] OTHER ->
               IF o.req.id.kind = "entry" THEN Entered(db, i, qty, bar)
               ELSE IF qty = 0 THEN SetState(db, i, "cancelled")
               ELSE Exited(db, i, qty, bar)

\* One iteration over the active orders.
WorkOrder(db, i, bar, cap) ==
    LET o   == db.orders[i]
        qty == Fillable(db, o, cap)
    IN  CASE bar.ts >= o.req.expires -> SetState(db, i, "expired")
          [] bar.ts < o.req.expires /\ (bar.ts < o.req.eligible \/ ~bar.volume) -> db
          [] OTHER ->
               IF o.req.id.kind = "entry" THEN Entered(db, i, qty, bar)
               ELSE IF qty = 0 THEN SetState(db, i, "cancelled")
               ELSE Exited(db, i, qty, bar)

LotNumbers(db) == {u.lot : u \in db.lots}

\* The fill of a stop.
StopFill(l, units, bar) ==
    LET unit == CHOOSE u \in units : TRUE
    IN  [order |-> unit.parent, side |-> -unit.side, qty |-> Cardinality(units),
         ts |-> bar.ts, reason |-> "stop", lot |-> l]

\* Mutant: the closed lot stays in the lots table.
StopKeepsLot(db, l, bar) ==
    [db EXCEPT !.fills = Append(@, StopFill(l, {u \in db.lots : u.lot = l}, bar))]

\* Mutant: the remainder of the entry is left working.
StopLeavesEntry(db, l, bar) ==
    LET units == {u \in db.lots : u.lot = l}
    IN  [db EXCEPT !.fills = Append(@, StopFill(l, units, bar)), !.lots = @ \ units]

\* Mutant: the entry is cancelled in whatever state it is.
StopCancelsAnyEntry(db, l, bar) ==
    LET units == {u \in db.lots : u.lot = l}
        fill  == StopFill(l, units, bar)
    IN  [orders |-> [i \in DOMAIN db.orders |->
                       IF db.orders[i].req.id = fill.order
                       THEN Became(db.orders[i], "cancelled", db.orders[i].filled)
                       ELSE db.orders[i]],
         bars   |-> db.bars, fills |-> Append(db.fills, fill), lots |-> db.lots \ units]

\* The stop of lot l fires: the whole lot is closed and what is left of a
\* partially filled entry is cancelled.
StopLot(db, l, bar) ==
    LET units == {u \in db.lots : u.lot = l}
        fill  == StopFill(l, units, bar)
    IN  [orders |-> [i \in DOMAIN db.orders |->
                       IF /\ db.orders[i].req.id = fill.order
                          /\ db.orders[i].state = "partially_filled"
                       THEN Became(db.orders[i], "cancelled", db.orders[i].filled)
                       ELSE db.orders[i]],
         bars   |-> db.bars, fills |-> Append(db.fills, fill), lots |-> db.lots \ units]

(***************************************************************************)
(* advance as one transaction: the active orders in order, then the stops  *)
(* that the bar reaches, oldest lot first.                                 *)
(***************************************************************************)
Worked(db, b) ==
    LET active == ActiveOrders(db)
        f[n \in 0..Len(db.orders)] ==
            IF n = 0 THEN InsertBar(db, b)
            ELSE IF n \in active THEN WorkOrder(f[n-1], n, b, MaxQty) ELSE f[n-1]
    IN  f[Len(db.orders)]

Stopped(db, lots, b) ==
    LET g[n \in 0..Len(db.fills)] ==
            IF n = 0 THEN db
            ELSE IF n \in lots THEN StopLot(g[n-1], n, b) ELSE g[n-1]
    IN  g[Len(db.fills)]

(***************************************************************************)
(* halt_day's update of the orders                                         *)
(***************************************************************************)
\* Mutant: an entry that has not begun to fill is left working.
PartialEntriesCancelled(db) ==
    [orders |-> [i \in DOMAIN db.orders |->
                   IF /\ db.orders[i].state = "partially_filled"
                      /\ db.orders[i].req.id.kind = "entry"
                   THEN Became(db.orders[i], "cancelled", db.orders[i].filled)
                   ELSE db.orders[i]],
     bars |-> db.bars, fills |-> db.fills, lots |-> db.lots]

EntriesCancelled(db) ==
    [orders |-> [i \in DOMAIN db.orders |->
                   IF i \in ActiveOrders(db) /\ db.orders[i].req.id.kind = "entry"
                   THEN Became(db.orders[i], "cancelled", db.orders[i].filled)
                   ELSE db.orders[i]],
     bars |-> db.bars, fills |-> db.fills, lots |-> db.lots]

\* The filled_qty of order j, of which there is none before it is submitted.
FilledOf(db, j) == IF j \in DOMAIN db.orders THEN db.orders[j].filled ELSE 0

\* snapshot()["position"]
SimPosition(db) == Cardinality({u \in db.lots : u.side = 1})
                 - Cardinality({u \in db.lots : u.side = -1})
=============================================================================
