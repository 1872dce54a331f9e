-------------------------------- MODULE Replay --------------------------------
(***************************************************************************)
(* One trade, lived on the same completed bars in the back-test            *)
(* (scripts/v2_backtest.py simulate() for "multi_session", the simulation  *)
(* in scripts/backtest.py run_orb_backtest() for "orb"), in the engine,    *)
(* where the paper broker judges the bars it finds at each look and        *)
(* execution.py then trails the stop, and, for "multi_session", in the     *)
(* parameter search (scripts/research.py simulate()).  The trade is one    *)
(* that a signal of the strategy opens (orb.py, v2/strategy.py).  Trades   *)
(* are long: shorts are the mirror image.                                  *)
(***************************************************************************)
EXTENDS ExitRules, Sequences

CONSTANTS
    Bars,        \* completed bars: [open, high, low, close]
    Emas,        \* EMA-12 of the closes up to a bar
    Ranges,      \* opening ranges: [high, low]
    Posts,       \* the bars up to the signal's, for orb since the opening range
    TargetRR,    \* multi_session's target, in multiples of the risk
    MaxStop,     \* orb's cap on the distance of the stop
    Horizon      \* bars after the signal, a bound of the checked instance

ASSUME ReplayAssumption ==
    /\ Bars \subseteq [open : Int, high : Int, low : Int, close : Int]
    /\ \A b \in Bars : b.low <= b.open /\ b.open <= b.high /\ b.low <= b.close /\ b.close <= b.high
    /\ Emas \subseteq Nat
    /\ Ranges \subseteq [high : Int, low : Int]
    /\ Posts \subseteq Seq([open : Int, high : Int, low : Int, close : Int])
    /\ TargetRR \in Nat \ {0}
    /\ MaxStop \in Nat \ {0} /\ Horizon \in Nat

VARIABLES
    strategy,   \* "orb" or "multi_session"
    trade,      \* its fill, initial stop and target
    tape,       \* the bars completed since the signal's, with their EMA
    sim,        \* the back-test's trade: working stop, exit
    lab,        \* the parameter search's: working stop, exit
    live,       \* the engine's: working stop, last price, exit
    seen,       \* bars completed at the broker's last look
    even        \* every bar had a look of its own, and the first touched nothing

vars == <<strategy, trade, tape, sim, lab, live, seen, even>>

None == [bar |-> 0, price |-> 0]           \* no exit yet
At(k, price) == [bar |-> k, price |-> price]

-----------------------------------------------------------------------------
(* The strategies' signals.  The session and the entry window, the news,   *)
(* the filters on volume, trend and VWAP and the first indication of       *)
(* multi_session only decide whether there is one.                         *)

\* _breakout_setup: the level that the stop is to lie beyond
BreakoutRefs(or, post) ==
    LET n == Len(post)
    IN  IF n >= 2 /\ post[n].close > or.high /\ post[n - 1].close <= or.high
        THEN {or.low} ELSE {}

\* _icc_setup: indication, correction, continuation
IccRefs(or, post) ==
    LET n == Len(post)
    IN  IF /\ n >= 3
           /\ \E k \in 1..n - 1 : post[k].high > or.high
           /\ post[n - 1].high < post[n - 2].high /\ post[n - 1].low > or.high
           /\ post[n].close > post[n - 1].high /\ post[n].close > or.high
        THEN {post[n - 1].low} ELSE {}

\* A tenth of the range beyond the level, at most MaxStop away, a target at 1R
OrbSignal(or, post, ref) ==
    LET entry == post[Len(post)].close
        wanted == entry - (ref - (or.high - or.low) \div 10)
        distance == Smaller(wanted, MaxStop)
    IN  [entry |-> entry, stop |-> entry - distance, target |-> entry + distance]

OrbSignalsOf(or, post) ==
    {OrbSignal(or, post, ref) : ref \in BreakoutRefs(or, post) \cup IccRefs(or, post)}

OrbSignals ==
    UNION {OrbSignalsOf(or, post) : or \in {r \in Ranges : r.high > r.low}, post \in Posts}

\* strategy.py, the second indication: a total engulfing that closes up
Engulfs(post) ==
    LET n == Len(post)
    IN  /\ n >= 2
        /\ post[n].high > post[n - 1].high /\ post[n].low < post[n - 1].low
        /\ post[n].close > post[n].open

\* A tick below the swing, a target at the session's multiple of the risk
V2Signal(post) ==
    LET n == Len(post)
        entry == post[n].close
        stop == Smaller(post[n].low, post[n - 1].low) - 1
    IN  [entry |-> entry, stop |-> stop, target |-> entry + TargetRR * (entry - stop)]

V2Signals == {V2Signal(post) : post \in {p \in Posts : Engulfs(p)}}

-----------------------------------------------------------------------------
(* process_signal and the back-tests fill the entry with the same slippage. *)
Init ==
    /\ strategy \in {"orb", "multi_session"}
    /\ \E s \in IF strategy = "orb" THEN OrbSignals ELSE V2Signals :
          /\ s.stop < s.entry
          /\ trade = [entry |-> Filled(s.entry), initial |-> s.stop, target |-> s.target]
          /\ sim = [stop |-> s.stop, exit |-> None] /\ lab = sim
          /\ live = [stop |-> s.stop, price |-> Filled(s.entry), exit |-> None]
    /\ tape = <<>> /\ seen = 0 /\ even = TRUE

\* The trade with the stop it has come to, for the trailing rules
With(stop) == [entry |-> trade.entry, initial |-> trade.initial, stop |-> stop]
Position(stop) == [stop |-> stop, target |-> trade.target]

\* v2_backtest.py: stop first, then target, then trail on the close.
JudgedV2(t, k, b) ==
    IF b.low <= t.stop THEN [stop |-> t.stop, exit |-> At(k, Exit(Smaller(t.stop, b.open)))]
    ELSE IF b.high >= trade.target THEN [stop |-> t.stop, exit |-> At(k, trade.target)]
    ELSE [stop |-> TrailV2(With(t.stop), b.close, b.ema), exit |-> None]

\* research.py: a stop fills at its own price, and the EMA trails it from the
\* first bar on.
JudgedLab(t, k, b) ==
    LET r == trade.entry - trade.initial
        held == IF b.close >= trade.entry + r THEN Larger(t.stop, trade.entry) ELSE t.stop
    IN  IF b.low <= t.stop THEN [stop |-> t.stop, exit |-> At(k, Exit(t.stop))]
        ELSE IF b.high >= trade.target THEN [stop |-> t.stop, exit |-> At(k, trade.target)]
        ELSE [stop |-> Larger(held, Smaller(b.ema, (4 * b.close - r) \div 4)), exit |-> None]

\* backtest.py: break-even on the high, then target, then stop.
JudgedOrb(t, k, b) ==
    LET be == 2 * trade.entry - trade.initial
        stop == IF b.high >= be THEN trade.entry ELSE t.stop
    IN  [stop |-> stop,
         exit |-> IF b.high >= trade.target THEN At(k, trade.target)
                  ELSE IF b.low <= stop THEN At(k, Exit(stop)) ELSE None]

Judged(t, k, b) == IF strategy = "orb" THEN JudgedOrb(t, k, b) ELSE JudgedV2(t, k, b)

\* A bar completes; the replays go on to it.
Complete(bar, ema) ==
    LET b == [open |-> bar.open, high |-> bar.high, low |-> bar.low,
              close |-> bar.close, ema |-> ema]
        k == Len(tape) + 1
    IN  /\ k <= Horizon
        /\ tape' = Append(tape, b)
        /\ sim' = IF sim.exit = None THEN Judged(sim, k, b) ELSE sim
        /\ lab' = IF strategy = "multi_session" /\ lab.exit = None
                  THEN JudgedLab(lab, k, b) ELSE lab
        /\ even' = (even /\ seen = Len(tape) /\ (k = 1 => sim' = sim))
        /\ UNCHANGED <<strategy, trade, live, seen>>

\* backtest.py: the replay ends with the day, with its window or with the data.
Timeout ==
    /\ strategy = "orb" /\ sim.exit = None /\ tape # <<>>
    /\ sim' = [sim EXCEPT !.exit = At(Len(tape), tape[Len(tape)].close)]
    /\ UNCHANGED <<strategy, trade, tape, lab, live, seen, even>>

-----------------------------------------------------------------------------
(* The engine: get_position, then the trailing stop, then the closing clock. *)

\* The bars judged at a look: each once, and never the one in which the order
\* was filled, the first after the signal's.
New == {k \in seen + 1..Len(tape) : k >= 2}

Hits == {k \in New : StopHit(Position(live.stop), tape[k])
                       \/ TargetHit(Position(live.stop), tape[k])}

Price == IF New = {} THEN live.price ELSE tape[Len(tape)].close

NewStop(t, price, ema) ==
    IF strategy = "multi_session" THEN TrailV2(t, price, ema) ELSE BreakEven(t, price)

\* Mutant: trailed on the high of the last bar, not its close.
TrailedOnHigh(price) ==
    LET high == IF New = {} THEN price ELSE tape[Len(tape)].high
    IN  Larger(live.stop, NewStop(With(live.stop), high,
                                  IF tape = <<>> THEN 0 ELSE tape[Len(tape)].ema))

\* _check_trade trails on the last price, by the EMA as it now is.
Trailed(price) ==
    Larger(live.stop, NewStop(With(live.stop), price,
                              IF tape = <<>> THEN 0 ELSE tape[Len(tape)].ema))

Stopped ==
    \E k \in Hits :
        /\ \A j \in Hits : k <= j
        /\ live' = [live EXCEPT !.price = tape[k].close,
                      !.exit = At(k, FillOf(Position(live.stop), tape[k]))]

\* Mutant: the stop is trailed before the bars are judged.
LookTrailFirst ==
    /\ live.exit = None
    /\ LET stop == Trailed(Price)
           hits == {k \in New : StopHit(Position(stop), tape[k])}
       IN  live' = [live EXCEPT !.stop = stop, !.price = Price,
                      !.exit = IF hits = {} THEN None
                               ELSE At(Len(tape), FillOf(Position(stop), tape[Len(tape)]))]
    /\ seen' = Len(tape)
    /\ UNCHANGED <<strategy, trade, tape, sim, lab, even>>

\* A look while the market is open
Look ==
    /\ live.exit = None
    /\ \/ Stopped
       \/ /\ Hits = {}
          /\ live' = [live EXCEPT !.stop = Trailed(Price), !.price = Price]
    /\ seen' = Len(tape)
    /\ UNCHANGED <<strategy, trade, tape, sim, lab, even>>

\* The look of the last five minutes, or a close by hand: at the last price
Close ==
    /\ live.exit = None /\ Hits = {}
    /\ live' = [stop |-> Trailed(Price), price |-> Price, exit |-> At(0, Exit(Price))]
    /\ seen' = Len(tape)
    /\ UNCHANGED <<strategy, trade, tape, sim, lab, even>>

Next == \/ \E bar \in Bars, ema \in Emas : Complete(bar, ema)
        \/ Timeout \/ Look \/ Close

Spec == Init /\ [][Next]_vars

-----------------------------------------------------------------------------
TypeOK ==
    /\ strategy \in {"orb", "multi_session"}
    /\ trade \in [entry : Int, initial : Int, target : Int]
    /\ tape \in Seq([open : Int, high : Int, low : Int, close : Int, ema : Nat])
    /\ {sim, lab} \subseteq [stop : Int, exit : [bar : Nat, price : Int]]
    /\ live \in [stop : Int, price : Int, exit : [bar : Nat, price : Int]]
    /\ seen \in 0..Len(tape) /\ even \in BOOLEAN

Forced == live.exit # None /\ live.exit.bar = 0

(* However late and however rarely the engine looks, and however many bars *)
(* it finds, its working stop is never tighter than the back-test's        *)
(* (execution.py _trailing_stop, _trailing_stop_v2).                       *)
StopsLag == sim.exit = None /\ live.exit = None => live.stop <= sim.stop

(* The engine's own exits never come before the back-test's: a trade that  *)
(* the back-test still holds the engine has not been stopped out of, and   *)
(* has taken no profit from (paper_broker.py get_position).                *)
NeverOutFirst ==
    live.exit # None /\ ~Forced => sim.exit # None /\ sim.exit.bar <= live.exit.bar

(* The parameter search lives the trade as the back-test does: the same    *)
(* working stop, the same exit at the same price (research.py simulate:    *)
(* "Mirrors scripts/v2_backtest.simulate() exactly ... Defaults reproduce  *)
(* the baseline").                                                         *)
SearchMirrors == strategy = "multi_session" => lab = sim

(* Where the two part, the search is the more cautious one: its stop is    *)
(* never the looser and its exit never the later (research.py simulate).   *)
SearchLeads == strategy = "multi_session" /\ lab.exit = None => sim.stop <= lab.stop
SearchNotLast ==
    strategy = "multi_session" /\ sim.exit # None
        => lab.exit # None /\ lab.exit.bar <= sim.exit.bar

(* With a look after every bar, and a first bar that touched nothing, the  *)
(* engine reproduces the back-test's exit: the same bar, the same price    *)
(* (_trailing_stop_v2: "Reproduce scripts/v2_backtest.py's exit management *)
(* exactly").                                                              *)
Reproduces ==
    strategy = "multi_session" /\ even /\ seen = Len(tape) /\ ~Forced
        => live.exit = sim.exit
===============================================================================
