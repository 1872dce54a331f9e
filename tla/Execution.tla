------------------------------- MODULE Execution -------------------------------
(***************************************************************************)
(* The execution engine over the paper broker: execution.py, risk_manager. *)
(* py, paper_broker.py, the scheduler's cycle and the trading controls of  *)
(* main.py.  The broker's book is a JSON file that every call saves before *)
(* it returns; trades, day rows and the account are in a database the      *)
(* engine reads and writes through one long-lived session.                 *)
(*                                                                         *)
(* None of the paper broker's coroutines ever suspends, so a handler runs  *)
(* to its end without another one in between; what interrupts it is a      *)
(* commit that fails or the death of the process between two durable       *)
(* writes.  The agenda is what the running handler has still to do, one    *)
(* durable write at a time.  Trades are long and of one contract: the      *)
(* code's branches for shorts mirror those for longs.  Prices are in ticks.*)
(***************************************************************************)
EXTENDS ExitRules, SequencesExt

CONSTANTS
    SYMBOLS,          \* the sequence of symbols that are scanned
    STRATEGY,         \* "orb" or "multi_session"
    Bars,             \* completed five-minute bars: [open, high, low, close]
    Emas,             \* EMA-12 of the closes, or 0 when it is unavailable
    Entry, Stops, Target,           \* the prices of a signal: one of the stops
    Commission,                     \* per round trip
    MaxRisk,                        \* of one trade, for this strategy
    LossLimit, MaxDrawdown, ProfitTarget, MaxConcurrent, Deposit,
    MaxBars,                        \* bars completed between two looks
    MaxOrders, MaxDay, MaxFaults    \* bounds of the checked instances

Symbols == {SYMBOLS[i] : i \in DOMAIN SYMBOLS}

ASSUME ExecutionAssumption ==
    /\ SYMBOLS \in Seq(STRING) /\ STRATEGY \in {"orb", "multi_session"}
    /\ Bars \subseteq [open : Nat, high : Nat, low : Nat, close : Nat]
    /\ Emas \cup Stops \subseteq Nat
    /\ {Entry, Target, Commission, MaxRisk, LossLimit, MaxDrawdown,
        ProfitTarget, MaxConcurrent, Deposit, MaxBars, MaxOrders, MaxDay, MaxFaults} \subseteq Nat
    /\ \A stop \in Stops : stop < Entry
    /\ Entry < Target

VARIABLES
    db,        \* committed: trades, pnl of each day row, account
    orm,       \* the same, as the engine's session sees it
    book,      \* the broker's file: balance, positions by symbol, orders
    risk,      \* in memory: active trades, realized P&L today, cycle_date
    clock,     \* exchange date, part of the day, halts since the start
    agenda,    \* what the running handler has still to do
    armed,     \* settings.TRADING_ENABLED
    running,   \* the scheduler's task
    poisoned,  \* a failed commit was not rolled back
    faults     \* crashes, failed commits, bad market history so far

vars == <<db, orm, book, risk, clock, agenda, armed, running, poisoned, faults>>

NoPosition == [order |-> 0]
Phases == {"open", "five", "closing", "halt", "evening"}

Fill == Filled(Entry)

NewTrade(s, o, stop, d) ==
    [sym |-> s, order |-> o, entry |-> Fill, initial |-> stop, stop |-> stop,
     day |-> d, open |-> TRUE, exit |-> 0, net |-> 0]

Open(t) == {i \in DOMAIN t.trades : t.trades[i].open}

\* The rows of the database
Trade == [sym : Symbols, order : Nat \ {0}, entry : Int, initial : Int, stop : Int,
          day : 0..MaxDay, open : BOOLEAN, exit : Int, net : Int]
Account == [balance : Int, peak : Int, drawdown : Int, profit : Int]
Tables == [trades : Seq(Trade), pnl : [0..MaxDay -> Int], account : Account]

\* The broker's file
Position == [order : Nat \ {0}, stop : Int, target : Int, price : Int, halts : Nat,
             flag : BOOLEAN]
OrderRecord == [exit : BOOLEAN, price : Int, flag : BOOLEAN]
State == [balance : Int, positions : [Symbols -> {NoPosition} \cup Position],
          orders : Seq(OrderRecord)]

\* get_or_create_daily_stats: the row of a day is created, with no outcome in it,
\* when a handler first asks for it.
NoOutcomes == [d \in 0..MaxDay |-> 0]

Init ==
    /\ db = [trades |-> <<>>, pnl |-> NoOutcomes,
             account |-> [balance |-> Deposit, peak |-> Deposit, drawdown |-> 0,
                          profit |-> 0]]
    /\ orm = db
    /\ book = [balance |-> Deposit, positions |-> [s \in Symbols |-> NoPosition],
               orders |-> <<>>]
    /\ risk = [active |-> 0, realized |-> 0, date |-> -1]
    /\ clock = [day |-> 0, phase |-> "open", halts |-> 0]
    /\ agenda = <<>>
    /\ armed = FALSE /\ running = FALSE /\ poisoned = FALSE
    /\ faults = 0

Doing(op)  == agenda # <<>> /\ Head(agenda).do = op
Op         == Head(agenda)
Return     == agenda' = Tail(agenda)
Then(op)   == agenda' = <<op>> \o Tail(agenda)
MayFail    == faults < MaxFaults

\* An exception: monitor_positions and the scan of one symbol are each given up
\* by the scheduler, which rolls the session back; an HTTP handler is not.
Resumes(k) == k \in DOMAIN agenda /\ agenda[k].do \in {"gate", "scan"}
Raise == /\ \E k \in 2..Len(agenda) + 1 :
               /\ \A j \in 2..k - 1 : ~Resumes(j)
               /\ Resumes(k) \/ k = Len(agenda) + 1
               /\ agenda' = SubSeq(agenda, k, Len(agenda))
         /\ poisoned' = (Op.by = "http")

-----------------------------------------------------------------------------
(* Rules of risk_manager.py. *)

\* minutes_until_close() <= 5 and < 5; is_market_open() and the last minutes
ForceClose == clock.phase \in {"five", "closing"}
EntriesOpen == clock.phase \in {"open", "five", "evening"}

\* check_can_trade
CanTrade ==
    /\ armed /\ EntriesOpen
    /\ risk.active < MaxConcurrent
    /\ STRATEGY = "orb" => db.pnl[clock.day] < ProfitTarget
    /\ Min({db.pnl[clock.day], risk.realized}) > -LossLimit
    /\ db.account.drawdown < MaxDrawdown

\* validate_signal: the risk is within the cap and no more than the reward.
Validated(stop) == /\ Entry - stop <= MaxRisk
                   /\ Target - Entry >= Entry - stop

\* Mutant: what is already at risk in open trades is not counted.
ProjectedAlone(stop) == Min({db.pnl[clock.day], risk.realized}) - (Entry - stop)

\* The pre-trade exposure: realized, this trade's risk, and every open trade's
\* at its initial stop.
Projected(stop) ==
    LET atRisk == [i \in Open(db) |-> db.trades[i].entry - db.trades[i].initial]
    IN  Min({db.pnl[clock.day], risk.realized}) - (Entry - stop) - SumFunction(atRisk)

NewStop(t, price, ema) ==
    IF STRATEGY = "multi_session" THEN TrailV2(t, price, ema) ELSE BreakEven(t, price)

\* reset_daily, at the first cycle of a day: the count of trades stays.
Today == IF risk.date = clock.day THEN risk
         ELSE [active |-> risk.active, realized |-> 0, date |-> clock.day]

\* decrement_active_trades, update_daily_pnl
TradeLeft(net) == [active |-> Max({0, risk.active - 1}), realized |-> risk.realized + net,
                   date |-> risk.date]

-----------------------------------------------------------------------------
(* The market and the operator. *)

\* Time passes between the handlers and while they fetch market data.
Unhurried == agenda # <<>> => Op.do \in {"check", "gate", "scan"}

NextPhase == [open |-> "five", five |-> "closing",
              closing |-> IF STRATEGY = "multi_session" THEN "halt" ELSE "closing",
              halt |-> "evening", evening |-> "evening"]

\* The engine's clock: the futures one is shut from 17:00 to 18:00 and goes on,
\* the equity one is past its close from 16:00 to midnight.  The market has no
\* bars in that hour, nor over a weekend.
Tick ==
    /\ Unhurried
    /\ \/ /\ NextPhase[clock.phase] # clock.phase
          /\ clock' = [clock EXCEPT !.phase = NextPhase[clock.phase],
                       !.halts = @ + IF clock.phase = "halt" THEN 1 ELSE 0]
       \/ /\ clock.day < MaxDay /\ clock.phase \in {"closing", "evening"}
          /\ clock' = [day |-> clock.day + 1, phase |-> "open",
                       halts |-> clock.halts + IF clock.phase = "closing" THEN 1 ELSE 0]
    /\ UNCHANGED <<db, orm, book, risk, agenda, armed, running, poisoned, faults>>

\* This release starts neither the scheduler nor trading by itself; the tests
\* and the forward-test guide do, outside the application.
Arm ==
    /\ ~running
    /\ armed' = TRUE /\ running' = TRUE
    /\ UNCHANGED <<db, orm, book, risk, clock, agenda, poisoned, faults>>

\* POST /api/trading/stop, while the loop sleeps
TradingStop ==
    /\ agenda = <<>> /\ armed
    /\ armed' = FALSE /\ running' = FALSE
    /\ UNCHANGED <<db, orm, book, risk, clock, agenda, poisoned, faults>>

\* POST /api/account/sync, in a session of its own
Sync ==
    /\ agenda = <<>> /\ db.account.balance # book.balance
    /\ db' = [db EXCEPT !.account.balance = book.balance]
    /\ orm' = [orm EXCEPT !.account.balance = book.balance]
    /\ UNCHANGED <<book, risk, clock, agenda, armed, running, poisoned, faults>>

CloseOp(i, by) == [do |-> "close", trade |-> i, by |-> by]

\* POST /api/trades/{id}/close; its first query raises in a poisoned session.
CloseTrade(i) ==
    /\ agenda = <<>> /\ ~poisoned
    /\ i \in Open(orm)
    /\ agenda' = <<CloseOp(i, "http")>>
    /\ UNCHANGED <<db, orm, book, risk, clock, armed, running, poisoned, faults>>

\* POST /api/trading/close-all: emergency_close_all, whose query names no order
CloseAll ==
    /\ agenda = <<>> /\ ~poisoned /\ Open(db) # {}
    /\ \E ids \in SetToSeqs(Open(db)) :
          agenda' = [k \in DOMAIN ids |-> CloseOp(ids[k], "http")]
    /\ UNCHANGED <<db, orm, book, risk, clock, armed, running, poisoned, faults>>

\* The process dies and is restarted, disarmed (lifespan).
Crash ==
    /\ MayFail
    /\ agenda # <<>> \/ running
    /\ orm' = db
    /\ risk' = [active |-> 0, realized |-> 0, date |-> -1]
    /\ agenda' = <<>> /\ armed' = FALSE /\ running' = FALSE /\ poisoned' = FALSE
    /\ faults' = faults + 1
    /\ UNCHANGED <<db, book, clock>>

-----------------------------------------------------------------------------
(* The scheduler's cycle: rollover, monitor_positions, the gate, the scan. *)

\* Mutant: a failed commit is never rolled back, so every later query raises.
CycleUnrecovered ==
    /\ running /\ agenda = <<>>
    /\ \E ids \in SetToSeqs(Open(db)) :
           agenda' = (IF poisoned THEN <<>>
                      ELSE [k \in DOMAIN ids |-> [do |-> "check", trade |-> ids[k], by |-> "cycle"]])
                     \o <<[do |-> "gate", by |-> "cycle"]>>
    /\ UNCHANGED <<db, orm, book, risk, clock, armed, running, poisoned, faults>>

CheckOp(i) == [do |-> "check", trade |-> i, by |-> "cycle"]
Cycle ==
    /\ running /\ agenda = <<>>
    /\ LET gate == <<[do |-> "gate", by |-> "cycle"]>>
       IN  \/ /\ poisoned                     \* the query raises and is rolled back
              /\ risk' = Today /\ agenda' = gate
              /\ orm' = db
           \/ /\ ~poisoned
              /\ risk' = [Today EXCEPT !.active = Cardinality(Open(db))]
              /\ \E ids \in SetToSeqs(Open(db)) :
                    agenda' = [k \in DOMAIN ids |-> CheckOp(ids[k])] \o gate
              /\ UNCHANGED orm
    /\ poisoned' = FALSE
    /\ UNCHANGED <<db, book, clock, armed, running, faults>>

Gate ==
    /\ Doing("gate")
    /\ agenda' = IF CanTrade
                 THEN [k \in DOMAIN SYMBOLS |->
                         [do |-> "scan", sym |-> SYMBOLS[k], by |-> "cycle"]] \o Tail(agenda)
                 ELSE Tail(agenda)
    /\ UNCHANGED <<db, orm, book, risk, clock, armed, running, poisoned, faults>>

\* No setup, a setup that is turned away, or one the broker turns away.
NoTrade ==
    /\ Doing("scan")
    /\ Return
    /\ UNCHANGED <<db, orm, book, risk, clock, armed, running, poisoned, faults>>

\* _save: the file as a whole, written aside and renamed
Saved(positions, orders) ==
    [balance |-> book.balance, positions |-> positions, orders |-> orders]

\* submit_bracket_order: the fill, the position and the order, saved together
Bracket(s, order, stop) ==
    Saved([book.positions EXCEPT
             ![s] = [order |-> order, stop |-> stop, target |-> Target,
                     price |-> Fill, halts |-> clock.halts, flag |-> FALSE]],
          Append(book.orders, [exit |-> FALSE, price |-> Fill, flag |-> FALSE]))

\* process_signal up to the broker's fill, which the broker has saved.
Submit(stop) ==
    LET s == Op.sym
        order == Len(book.orders) + 1
    IN  /\ Doing("scan")
        /\ CanTrade /\ Validated(stop)
        /\ \A i \in Open(db) : db.trades[i].sym # s
        /\ Projected(stop) > -LossLimit
        /\ book.positions[s] = NoPosition
        /\ order <= MaxOrders
        /\ book' = Bracket(s, order, stop)
        /\ Then([do |-> "record", sym |-> s, order |-> order, stop |-> stop, by |-> "cycle"])
        /\ UNCHANGED <<db, orm, risk, clock, armed, running, poisoned, faults>>

\* The end of a handler's unit of work: the session commits, or raises.
Commits(new) ==
    \/ /\ db' = new /\ orm' = new
       /\ UNCHANGED <<poisoned, faults>>
    \/ /\ MayFail /\ faults' = faults + 1
       /\ orm' = db /\ UNCHANGED db
       /\ Raise

Committed == faults' = faults

\* process_signal after the fill: the trade row
Record ==
    /\ Doing("record")
    /\ Commits([orm EXCEPT !.trades = Append(@, NewTrade(Op.sym, Op.order, Op.stop, clock.day))])
    /\ Committed => Return
    /\ risk' = [risk EXCEPT !.active = @ + 1]
    /\ UNCHANGED <<book, clock, armed, running>>

-----------------------------------------------------------------------------
(* _check_trade: the broker's position, the stop, the closing clock. *)

\* The exit fill of an order, as the broker records it
ExitRecorded(o, price, flag) ==
    [book.orders EXCEPT ![o] = [exit |-> TRUE, price |-> price, flag |-> flag]]

FinalizeOp(i, price) == [do |-> "finalize", trade |-> i, price |-> price, by |-> Op.by]

\* _reconcile_closed_trade: only an exit fill that needs no review is booked.
Reconcile(i, orders) ==
    LET fill == orders[orm.trades[i].order]
    IN  IF fill.exit /\ ~fill.flag THEN Then(FinalizeOp(i, fill.price)) ELSE Return

\* get_position found no position
CheckGone ==
    LET t == orm.trades[Op.trade]
    IN  /\ Doing("check")
        /\ book.positions[t.sym] = NoPosition
        /\ Reconcile(Op.trade, book.orders)
        /\ UNCHANGED <<db, orm, book, risk, clock, armed, running, poisoned, faults>>

\* get_position raised, or the market history cannot be had: for review.
CheckBlind ==
    LET s == orm.trades[Op.trade].sym
    IN  /\ Doing("check")
        /\ book.positions[s] # NoPosition
        /\ MayFail /\ faults' = faults + 1
        /\ book' = [book EXCEPT !.positions[s].flag = TRUE]
        /\ Return
        /\ UNCHANGED <<db, orm, risk, clock, armed, running, poisoned>>

\* A bar later than the one after the last bar judged (last_bar_ts) is a gap: it
\* follows a halt, or bars are missing from the history.
Gap(pos, missing) == missing \/ pos.halts # clock.halts

ManageOp(i, price) == [do |-> "manage", trade |-> i, price |-> price, by |-> Op.by]

\* No exit in the completed bars since the last look; a gap is for review.
CheckHeld(bars, missing) ==
    LET s == orm.trades[Op.trade].sym
        pos == book.positions[s]
        price == IF bars = <<>> THEN pos.price ELSE bars[Len(bars)].close
        flag == pos.flag \/ (bars # <<>> /\ Gap(pos, missing))
    IN  /\ Doing("check")
        /\ pos # NoPosition
        /\ \A k \in DOMAIN bars : ~StopHit(pos, bars[k]) /\ ~TargetHit(pos, bars[k])
        /\ book' = [book EXCEPT !.positions[s] =
                      [order |-> pos.order, stop |-> pos.stop, target |-> pos.target,
                       price |-> price, flag |-> flag,
                       halts |-> IF bars = <<>> THEN pos.halts ELSE clock.halts]]
        /\ missing => MayFail /\ bars # <<>>
        /\ faults' = IF missing THEN faults + 1 ELSE faults
        /\ IF flag THEN Return ELSE Then(ManageOp(Op.trade, price))
        /\ UNCHANGED <<db, orm, risk, clock, armed, running, poisoned>>

\* The last of these bars is the first that reaches the stop or the target.
CheckHit(bars, missing) ==
    LET s == orm.trades[Op.trade].sym
        pos == book.positions[s]
        last == bars[Len(bars)]
        orders == ExitRecorded(pos.order, FillOf(pos, last), pos.flag \/ Gap(pos, missing))
    IN  /\ Doing("check")
        /\ pos # NoPosition /\ bars # <<>>
        /\ \A k \in 1..Len(bars) - 1 : ~StopHit(pos, bars[k]) /\ ~TargetHit(pos, bars[k])
        /\ StopHit(pos, last) \/ TargetHit(pos, last)
        /\ book' = Saved([book.positions EXCEPT ![s] = NoPosition], orders)
        /\ missing => MayFail
        /\ faults' = IF missing THEN faults + 1 ELSE faults
        /\ Reconcile(Op.trade, orders)
        /\ UNCHANGED <<db, orm, risk, clock, armed, running, poisoned>>

\* update_stop, for the position that the order opened
WithStop(order, stop) ==
    [book EXCEPT !.positions =
       [s \in Symbols |-> IF @[s].order = order THEN [@[s] EXCEPT !.stop = stop] ELSE @[s]]]

\* The stop, which only tightens, and then the closing clock
Manage(ema) ==
    LET i == Op.trade
        t == orm.trades[i]
        stop == NewStop(t, Op.price, ema)
        held == \E s \in Symbols : book.positions[s].order = t.order
    IN  /\ Doing("manage")
        /\ IF stop > t.stop /\ held
           THEN /\ book' = WithStop(t.order, stop)
                /\ orm' = [orm EXCEPT !.trades[i].stop = stop]
           ELSE UNCHANGED <<book, orm>>
        /\ Then(IF ForceClose THEN CloseOp(i, Op.by)
                ELSE [do |-> "commit", by |-> Op.by])
        /\ UNCHANGED <<db, risk, clock, armed, running, poisoned, faults>>

Commit ==
    /\ Doing("commit")
    /\ Commits(orm)
    /\ Committed => Return
    /\ UNCHANGED <<book, risk, clock, armed, running>>

-----------------------------------------------------------------------------
(* close_position and _finalize_trade. *)

\* Mutant: the position goes before its fill is recorded.
CloseWithoutRecord ==
    LET t == orm.trades[Op.trade]
        pos == book.positions[t.sym]
    IN  /\ Doing("close")
        /\ IF ~t.open \/ pos = NoPosition
           THEN Return /\ UNCHANGED book
           ELSE /\ book' = [book EXCEPT !.positions[t.sym] = NoPosition]
                /\ Then(FinalizeOp(Op.trade, Exit(pos.price)))
        /\ UNCHANGED <<db, orm, risk, clock, armed, running, poisoned, faults>>

\* The broker closes at the last judged price, and says so in its book first.
Close ==
    LET t == orm.trades[Op.trade]
        pos == book.positions[t.sym]
        price == Exit(pos.price)
    IN  /\ Doing("close")
        /\ IF ~t.open \/ pos = NoPosition
           THEN Return /\ UNCHANGED book
           ELSE /\ book' = Saved([book.positions EXCEPT ![t.sym] = NoPosition],
                                 ExitRecorded(pos.order, price, FALSE))
                /\ Then(FinalizeOp(Op.trade, price))
        /\ UNCHANGED <<db, orm, risk, clock, armed, running, poisoned, faults>>

Implausible(t, price) == price <= 0 \/ 4 * (price - t.entry) > t.entry
                                    \/ 4 * (t.entry - price) > t.entry

\* The trade, its day's row and the account, in one commit
Booked(i, price) ==
    LET t == orm.trades[i]
        net == price - t.entry - Commission
        balance == orm.account.balance + net
        peak == Max({orm.account.peak, balance})
    IN  [trades |-> [orm.trades EXCEPT ![i] =
           [sym |-> t.sym, order |-> t.order, entry |-> t.entry, initial |-> t.initial,
            stop |-> t.stop, day |-> t.day, open |-> FALSE, exit |-> price, net |-> net]],
         pnl |-> [orm.pnl EXCEPT ![t.day] = @ + net],
         account |-> [balance |-> balance, peak |-> peak,
                      drawdown |-> Max({orm.account.drawdown, peak - balance}),
                      profit |-> orm.account.profit + net]]

\* Mutant: the broker's balance moves before the commit.
FinalizeBrokerFirst ==
    LET t == orm.trades[Op.trade]
        net == Op.price - t.entry - Commission
    IN  /\ Doing("finalize") /\ ~Implausible(t, Op.price)
        /\ risk' = TradeLeft(net)
        /\ book' = [book EXCEPT !.balance = @ + net]
        /\ Commits(Booked(Op.trade, Op.price))
        /\ Committed => Return
        /\ UNCHANGED <<clock, armed, running>>

Finalize ==
    LET t == orm.trades[Op.trade]
        net == Op.price - t.entry - Commission
    IN  /\ Doing("finalize")
        /\ IF Implausible(t, Op.price)
           THEN Return /\ UNCHANGED <<db, orm, risk, poisoned, faults>>
           ELSE /\ risk' = TradeLeft(net)
                /\ Commits(Booked(Op.trade, Op.price))
                /\ Committed => Then([do |-> "realize", net |-> net, by |-> Op.by])
        /\ UNCHANGED <<book, clock, armed, running>>

\* realize_pnl: the broker's balance follows the database.
Realize ==
    /\ Doing("realize")
    /\ book' = [book EXCEPT !.balance = @ + Op.net]
    /\ Return
    /\ UNCHANGED <<db, orm, risk, clock, armed, running, poisoned, faults>>

BarSeqs == UNION {[1..n -> Bars] : n \in 0..MaxBars}

Check == \/ CheckGone \/ CheckBlind
         \/ \E bars \in BarSeqs : \E missing \in BOOLEAN :
               CheckHeld(bars, missing) \/ CheckHit(bars, missing)

Handler == \/ Gate \/ NoTrade \/ (\E stop \in Stops : Submit(stop)) \/ Record
           \/ Check \/ (\E ema \in Emas : Manage(ema)) \/ Commit
           \/ Close \/ Finalize \/ Realize

Operator == Arm \/ TradingStop \/ Sync \/ CloseAll
            \/ \E i \in DOMAIN orm.trades : CloseTrade(i)

Next == Handler \/ Cycle \/ Operator \/ Tick \/ Crash

Spec == Init /\ [][Next]_vars

\* A handler runs to its end, and the event loop runs the scheduler's task when
\* its sleep is over, however many requests are waiting.
FairSpec == Spec /\ WF_vars(Handler) /\ SF_vars(Cycle)

-----------------------------------------------------------------------------
(* The tables, the broker's file and what is running have their types.     *)
By == {"cycle", "http"}
Ops == [do : {"gate", "commit"}, by : By]
         \cup [do : {"scan"}, sym : Symbols, by : By]
         \cup [do : {"record"}, sym : Symbols, order : Nat \ {0}, stop : Stops, by : By]
         \cup [do : {"check", "close"}, trade : Nat \ {0}, by : By]
         \cup [do : {"manage", "finalize"}, trade : Nat \ {0}, price : Int, by : By]
         \cup [do : {"realize"}, net : Int, by : By]
TypeOK ==
    /\ db \in Tables /\ orm \in Tables /\ book \in State
    /\ risk \in [active : Int, realized : Int, date : Int]
    /\ clock \in [day : 0..MaxDay, phase : Phases, halts : Nat]
    /\ agenda \in Seq(Ops)
    /\ armed \in BOOLEAN /\ running \in BOOLEAN /\ poisoned \in BOOLEAN
    /\ faults \in Nat

ClosedTrades == DOMAIN db.trades \ Open(db)
TradesOf(d) == {i \in DOMAIN db.trades : db.trades[i].day = d}
Nets(ids) == SumFunctionOnSet([i \in DOMAIN db.trades |-> db.trades[i].net], ids)

(* The books add up, whatever failed or was retried: the account's profit  *)
(* is the sum of the closed trades, each day's row the sum of the trades   *)
(* opened on it, no outcome moved the broker's balance twice, and it lacks *)
(* at most one outcome per fault (execution.py _finalize_trade).           *)
BooksBalance ==
    /\ db.account.profit = Nets(ClosedTrades)
    /\ \A d \in 0..MaxDay : db.pnl[d] = Nets(ClosedTrades \cap TradesOf(d))
    /\ \E ids \in SUBSET ClosedTrades :
          /\ book.balance = Deposit + Nets(ids)
          /\ Cardinality(ClosedTrades \ ids) <= faults + (IF Doing("realize") THEN 1 ELSE 0)

\* The most that a trade lost of what it was admitted with
AtRisk(t) == Entry - t.initial
Worst(t) == IF t.open THEN -AtRisk(t) ELSE Larger(t.net, -AtRisk(t))
WorstOf(d) == SumFunctionOnSet([i \in DOMAIN db.trades |-> Worst(db.trades[i])], TradesOf(d))

(* A day's loss passes the limit by no more than its exits were worse than *)
(* the stops they were admitted with, whatever trades were open together,  *)
(* failed to be recorded or were held overnight (process_signal's exposure *)
(* gate: "a limit that can only detect a breach after it happens is not a  *)
(* limit").                                                                *)
DayLossBounded == \A d \in 0..MaxDay : TradesOf(d) # {} => WorstOf(d) > -LossLimit

\* The order's life, as the broker's book and the trades table show it
Placed == 1..Len(book.orders)
TradeOf(o) == {i \in DOMAIN db.trades : db.trades[i].order = o}
At(o) == IF o \notin Placed THEN "none" ELSE IF book.orders[o].exit THEN "exited" ELSE "held"
RecordOf(o) == IF TradeOf(o) = {} THEN "none"
               ELSE IF TradeOf(o) \cap Open(db) # {} THEN "open" ELSE "booked"
Life == INSTANCE TradeBook WITH Orders <- 1..MaxOrders,
    at <- [o \in 1..MaxOrders |-> At(o)], record <- [o \in 1..MaxOrders |-> RecordOf(o)]

(* Every order lives the life of TradeBook: the broker holds it before a   *)
(* trade records it, and a trade is booked once, after a real exit.        *)
ImplementsTradeBook == Life!Spec
===============================================================================
