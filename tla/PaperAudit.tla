------------------------------- MODULE PaperAudit -------------------------------
(***************************************************************************)
(* The independent verifier (backend/paperlab/audit.py): a verdict on a    *)
(* broker ledger db and a worker ledger w against the bars that were to be *)
(* fed, recomputed from the fills alone.  Journals mirror the tables row   *)
(* by row inside each transaction, so of _journal_orders only the check of *)
(* the final lifecycle states remains; prices, cents and the sign of the   *)
(* opening move are abstracted.                                            *)
(*                                                                         *)
(* spec is what the verifier reads of the protocol: the quantity, whether  *)
(* the purpose is engineering_forward_paper, and the contract that the     *)
(* input bar of a minute names.  A request carries the contract of the bar *)
(* it was decided on, which is the minute before it was submitted.         *)
(***************************************************************************)
EXTENDS Worker, SequencesExt

Intents(w) == {w.intents[i].req : i \in DOMAIN w.intents}
Requests(db) == {db.orders[i].req : i \in DOMAIN db.orders}

(***************************************************************************)
(* The replay of the fills: physical lots in the order they were opened,   *)
(* the position, and whether every fill was legal so far.                  *)
(***************************************************************************)
SumQty(lots, side) ==
    FoldLeft(LAMBDA n, lot : n + (IF lot.side = side THEN lot.qty ELSE 0), 0, lots)

\* An exit takes from the oldest lots of the other side and drops empty ones.
Consume(lots, side, qty) ==
    LET ahead(k) == SumQty(SubSeq(lots, 1, k - 1), -side)
        take(k)  == IF lots[k].side # -side \/ ahead(k) >= qty THEN 0
                    ELSE Least(lots[k].qty, qty - ahead(k))
    IN  SelectSeq([k \in DOMAIN lots |-> [lots[k] EXCEPT !.qty = @ - take(k)]],
                  LAMBDA lot : lot.qty > 0)

\* Every fill happens on a bar with volume.
OnMarket(f, db) == \E b \in db.bars : b.ts = f.ts /\ b.volume

Later(m, n) == IF m >= n THEN m ELSE n

\* The minute in which the frozen latency lets the request be filled; a forward
\* decision is never older than the wall clock it was taken at.
Earliest(req, spec) ==
    IF spec.forward THEN Later(req.submitted + Latency, req.decided + 1)
    ELSE req.submitted + Latency

\* What the forward run asks of a fill besides: no retrospective decision, and
\* no fill on another contract than the one the decision was about.
Forward(f, req, spec) ==
    /\ 0 < req.decided /\ req.decided < f.ts
    /\ spec.contract[req.submitted - 1] = spec.contract[f.ts]

Eligible(f, req, spec) ==
    /\ req.eligible <= f.ts /\ f.ts < req.expires
    /\ spec.forward => Forward(f, req, spec)
    /\ req.eligible = Earliest(req, spec)
    /\ f.side = req.side /\ f.reason = req.id.kind

\* An entry opens a protected lot of its own.
LegalEntry(s) == \A k \in DOMAIN s.lots : s.lots[k].id # s.next

ReduceOnly(s, f) == s.position * f.side < 0 /\ f.qty <= Size(s.position)

LegalExit(s, f) == ReduceOnly(s, f) /\ SumQty(s.lots, -f.side) >= f.qty

\* A stop closes what is left of its own lot, after the entry that opened it.
LegalStop(s, f) ==
    /\ ReduceOnly(s, f)
    /\ \E k \in DOMAIN s.lots :
          /\ s.lots[k] = [id |-> f.lot, parent |-> f.order, side |-> -f.side,
                          qty |-> f.qty, opened |-> s.lots[k].opened]
          /\ s.lots[k].opened <= f.ts

\* The part of the replay that looks at one fill; next is its number.
Legal(db, spec, s, f) ==
    /\ s.last <= f.ts
    /\ OnMarket(f, db)
    /\ \E req \in Requests(db) :
          /\ req.id = f.order
          /\ CASE f.reason = "entry" -> Eligible(f, req, spec) /\ LegalEntry(s)
               [] f.reason = "exit"  -> Eligible(f, req, spec) /\ LegalExit(s, f)
               [] f.reason = "stop"  -> LegalStop(s, f)
    /\ Size(s.position + f.side * f.qty) <= spec.quantity

Replay(db, spec, s, f) ==
    [lots     |-> CASE f.reason = "entry" ->
                         Append(s.lots, [id |-> s.next, parent |-> f.order,
                                         side |-> f.side, qty |-> f.qty, opened |-> f.ts])
                    [] f.reason = "exit" -> Consume(s.lots, f.side, f.qty)
                    [] f.reason = "stop" ->
                         SelectSeq(s.lots, LAMBDA lot : lot.id # f.lot),
     position |-> s.position + f.side * f.qty,
     last     |-> f.ts,
     next     |-> s.next + 1,
     ok       |-> s.ok /\ Legal(db, spec, s, f)]

Replayed(db, spec) ==
    FoldLeft(LAMBDA s, f : Replay(db, spec, s, f),
             [lots |-> <<>>, position |-> 0, last |-> 0, next |-> 1, ok |-> TRUE],
             db.fills)

Executed(db, id) ==
    FoldLeft(LAMBDA n, f : n + (IF f.order = id /\ f.reason # "stop" THEN f.qty ELSE 0),
             0, db.fills)

\* The lots table is what the replay leaves.
SameLots(db, lots) ==
    db.lots = UNION {{u \in db.lots : u.lot = lots[k].id} : k \in DOMAIN lots}
    /\ \A k \in DOMAIN lots :
          LET units == {u \in db.lots : u.lot = lots[k].id}
          IN  /\ Cardinality(units) = lots[k].qty
              /\ \A u \in units : u.side = lots[k].side /\ u.parent = lots[k].parent

OrdersSettled(db, w) ==
    \A i \in DOMAIN db.orders :
        LET o == db.orders[i]
        IN  /\ \E j \in DOMAIN w.intents :
                  w.intents[j].req = o.req /\ w.intents[j].state = o.state
            /\ o.filled = Executed(db, o.req.id)

\* The frozen directional rule, from the broker's market record.
EntriesFollowRule(db, w) ==
    \A r \in Intents(w) : r.id.kind = "entry" =>
        /\ Minute(r.submitted) = OpeningBars
        /\ ValidOpening(db.bars, DayOf(r.submitted))

\* Nothing is left open: no inventory and no order that still works.
Flat(db) == SimPosition(db) = 0 /\ ActiveOrders(db) = {}

\* audit(...)["status"] = "pass"
Passes(db, w, bars, spec, allowOpen) ==
    LET end == Replayed(db, spec)
    IN  /\ db.bars = bars
        /\ Intents(w) = Requests(db)
        /\ Len(w.intents) = Len(db.orders)
        /\ db.fills = w.fills
        /\ end.ok
        /\ SameLots(db, end.lots)
        /\ end.position = SimPosition(db) /\ end.position = Position(w.fills)
        /\ allowOpen \/ Flat(db)
        /\ OrdersSettled(db, w)
        /\ \A i \in DOMAIN db.orders : ValidLifecycle(db.orders[i])
        /\ EntriesFollowRule(db, w)
=============================================================================
