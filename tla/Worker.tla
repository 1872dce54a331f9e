-------------------------------- MODULE Worker --------------------------------
(***************************************************************************)
(* The durable worker of the paper lab (backend/paperlab/worker.py) as     *)
(* operators on the value of its SQLite ledger: intents, observed fills,   *)
(* processed bars, halted days and the drawdown halt.  The sign of the     *)
(* opening impulse and the outcome of the mark-to-market loss limits are   *)
(* inputs, because prices are abstracted.                                  *)
(***************************************************************************)
EXTENDS Simulator

CONSTANTS
    Stride,        \* minutes from the open of one session to the next
    OpeningBars,   \* minutes of the opening window (15: 09:30 .. 09:44)
    ExitMinute,    \* first minute whose completion asks for the time exit (10:14)
    Latency,       \* spec["latency_bars"]
    EntryLife,     \* minutes an entry stays live once eligible (3)
    ExitLife       \* minutes an exit stays live once eligible (30)

ASSUME SessionAssumption ==
    /\ Stride \in Nat \ {0}
    /\ OpeningBars \in Nat \ {0}
    /\ ExitMinute \in Nat
    /\ Latency \in Nat \ {0}
    /\ EntryLife \in Nat \ {0}
    /\ ExitLife \in Nat \ {0}

\* An entry is over before the next session opens: it lives for minutes after
\* the opening window, and sessions are a day apart.
ASSUME EntryLifeAssumption == OpeningBars + Latency + EntryLife <= Stride

\* Inventory is asked to leave after the minute that decides the entries, so an
\* exit ends the day's trading.
ASSUME ExitAssumption == OpeningBars <= ExitMinute + 1

DayOf(ts)  == ts \div Stride
Minute(ts) == ts % Stride

Intent == [req : Request, state : {"pending"} \cup Active \cup Final]
Risk   == {"none", "loss", "drawdown"}

EmptyWorker == [intents |-> <<>>, fills |-> <<>>, bars |-> {},
                halted |-> {}, riskHalted |-> FALSE]

WorkerLedger == [intents : Seq(Intent), fills : Seq(Fill), bars : SUBSET Bar,
                 halted : SUBSET Nat, riskHalted : BOOLEAN]

\* account()["position"]: contract units bought less units sold.
Units(fills, side) ==
    {p \in (1..Len(fills)) \X (1..MaxQty) :
        fills[p[1]].side = side /\ p[2] <= fills[p[1]].qty}
Position(fills) == Cardinality(Units(fills, 1)) - Cardinality(Units(fills, -1))

Pending(w) == {i \in DOMAIN w.intents : w.intents[i].state = "pending"}

HasIntent(w, id) == \E i \in DOMAIN w.intents : w.intents[i].req.id = id

\* The day's intents of one kind.
Earlier(v, day, kind) ==
    {i \in DOMAIN v.intents : v.intents[i].req.id.day = day /\ v.intents[i].req.id.kind = kind}

\* An update of the intents table alone.
WithIntents(w, intents) ==
    [intents |-> intents, fills |-> w.fills, bars |-> w.bars,
     halted |-> w.halted, riskHalted |-> w.riskHalted]

(***************************************************************************)
(* reconcile: what its checks raise, and the transaction when they pass.   *)
(***************************************************************************)
Alarm == {"unexplained_order", "request_differs", "order_disappeared",
          "unknown_fill", "conflicting_fill", "position_mismatch"}

ReconcileError(w, db) ==
    IF \E i \in DOMAIN db.orders : ~HasIntent(w, db.orders[i].req.id)
    THEN "unexplained_order"
    ELSE IF \E i \in DOMAIN db.orders, j \in DOMAIN w.intents :
               /\ db.orders[i].req.id = w.intents[j].req.id
               /\ db.orders[i].req # w.intents[j].req
    THEN "request_differs"
    ELSE IF \E j \in DOMAIN w.intents :
               /\ w.intents[j].state # "pending"
               /\ ~Known(db, w.intents[j].req.id)
    THEN "order_disappeared"
    ELSE IF \E i \in DOMAIN db.fills : ~HasIntent(w, db.fills[i].order)
    THEN "unknown_fill"
    ELSE IF \E i \in DOMAIN db.fills :
               i \in DOMAIN w.fills /\ w.fills[i] # db.fills[i]
    THEN "conflicting_fill"
    ELSE IF Position(db.fills) # SimPosition(db)
    THEN "position_mismatch"
    ELSE "none"

\* The state the broker reports for an identity, and the intent with it.
BrokerState(db, id) ==
    db.orders[CHOOSE i \in DOMAIN db.orders : db.orders[i].req.id = id].state

Answered(t, db) ==
    IF Known(db, t.req.id)
    THEN [req |-> t.req, state |-> BrokerState(db, t.req.id)] ELSE t

\* Fill ids number the broker's fills, so the fills the worker lacks are
\* exactly those beyond the ones it has.
Reconciled(w, db) ==
    [intents    |-> [j \in DOMAIN w.intents |-> Answered(w.intents[j], db)],
     fills      |-> IF Len(db.fills) >= Len(w.fills) THEN db.fills ELSE w.fills,
     bars       |-> w.bars,
     halted     |-> w.halted,
     riskHalted |-> w.riskHalted]

\* dispatch's acknowledgement of intent i with the broker's current state.
Acknowledged(w, i, db) ==
    WithIntents(w, [w.intents EXCEPT ![i] = Answered(w.intents[i], db)])

(***************************************************************************)
(* step: the transaction that records a bar and commits the intents.       *)
(***************************************************************************)
Backwards(w, bar) == \E b \in w.bars : bar.ts <= b.ts

\* The latest bar is of the same day and not of the minute before.
Gap(w, bar) ==
    \E b \in w.bars : /\ \A c \in w.bars : c.ts <= b.ts
                      /\ DayOf(b.ts) = DayOf(bar.ts)
                      /\ bar.ts - b.ts # 1

ValidOpening(bars, day) ==
    \A m \in 0..(OpeningBars - 1) :
        \E b \in bars : b.ts = day * Stride + m /\ b.volume

NewRequest(id, side, qty, ts) ==
    [id |-> id, side |-> side, qty |-> qty, decided |-> 0, submitted |-> ts + 1,
     eligible |-> ts + 1 + Latency,
     expires  |-> ts + 1 + Latency
                  + (IF id.kind = "entry" THEN EntryLife ELSE ExitLife)]

\* Worker._intent: a kind of intent is committed at most once a day.
WithIntent(w, id, side, qty, ts) ==
    IF HasIntent(w, id) THEN w
    ELSE WithIntents(w, Append(w.intents, [req   |-> NewRequest(id, side, qty, ts),
                                           state |-> "pending"]))

\* A loss limit can only be met when equity can have moved since the last bar:
\* with inventory, or by a fill after it; a drawdown that was met stays met.
Breachable(w) ==
    \/ w.riskHalted \/ Position(w.fills) # 0
    \/ \E i \in DOMAIN w.fills : \A b \in w.bars : b.ts < w.fills[i].ts

\* The bar recorded and the day halted for a gap or a risk limit.
Observed(w, bar, risk) ==
    [intents    |-> w.intents,
     fills      |-> w.fills,
     bars       |-> w.bars \cup {bar},
     halted     |-> w.halted \cup (IF Gap(w, bar) \/ risk # "none"
                                   THEN {DayOf(bar.ts)} ELSE {}),
     riskHalted |-> (w.riskHalted \/ risk = "drawdown")]

\* Mutant: an entry is wanted whatever inventory is carried.
EntersOverPosition(o, bar, impulse) ==
    /\ Minute(bar.ts) = OpeningBars - 1
    /\ DayOf(bar.ts) \notin o.halted /\ ~o.riskHalted
    /\ ValidOpening(o.bars, DayOf(bar.ts))
    /\ impulse # 0

WantsEntry(o, bar, impulse) ==
    /\ Minute(bar.ts) = OpeningBars - 1
    /\ DayOf(bar.ts) \notin o.halted
    /\ ~o.riskHalted
    /\ ValidOpening(o.bars, DayOf(bar.ts))
    /\ Position(o.fills) = 0
    /\ impulse # 0

WantsExit(o, bar, risk) ==
    /\ Position(o.fills) # 0
    /\ Minute(bar.ts) >= ExitMinute \/ risk # "none"

Size(n) == IF n < 0 THEN -n ELSE n

Decided(w, bar, impulse, risk, quantity) ==
    LET o   == Observed(w, bar, risk)
        pos == Position(o.fills)
        id(kind) == [day |-> DayOf(bar.ts), kind |-> kind, retry |-> 0]
    IN  IF WantsEntry(o, bar, impulse)
        THEN WithIntent(o, id("entry"), impulse, quantity, bar.ts)
        ELSE IF WantsExit(o, bar, risk)
        THEN WithIntent(o, id("exit"), IF pos > 0 THEN -1 ELSE 1, Size(pos), bar.ts)
        ELSE o
=============================================================================
