------------------------------- MODULE ExitRules -------------------------------
(***************************************************************************)
(* The rules by which a long trade of one contract is left: exit_rules.py, *)
(* costs.py, the paper broker's judgement of a completed bar and the risk  *)
(* manager's break-even rule.  A trade has its entry fill, its initial and *)
(* its working stop; prices are in ticks.                                  *)
(***************************************************************************)
EXTENDS Integers

CONSTANT Slip       \* ticks of adverse slippage per market order

ASSUME SlipAssumption == Slip \in Nat

Larger(a, b)  == IF a >= b THEN a ELSE b
Smaller(a, b) == IF a <= b THEN a ELSE b

Filled(price) == price + Slip              \* slip_entry
Exit(price)   == price - Slip              \* slip_stop_exit

\* calculate_trailing_stop
BreakEven(t, price) ==
    IF price > t.entry /\ price - t.entry >= t.entry - t.initial
    THEN Larger(t.initial, t.entry) ELSE t.initial

\* Where the trailing stop of trail_v2 wants to be: at the entry, or behind the
\* EMA and the price; a quarter of the risk is rounded away from the price.
Behind(t, price, ema) ==
    IF ema = 0 THEN t.entry
    ELSE Larger(t.entry, Smaller(ema, (4 * price - (t.entry - t.initial)) \div 4))

\* trail_v2: from one R on, and never back.
TrailV2(t, price, ema) ==
    LET r == t.entry - t.initial
    IN  IF r > 0 /\ (price >= t.entry + r \/ t.stop >= t.entry)
        THEN Larger(t.stop, Behind(t, price, ema)) ELSE t.stop

\* The broker judges a bar stop first; a stop that was jumped fills at the open.
StopHit(pos, b)   == b.low <= pos.stop
TargetHit(pos, b) == ~StopHit(pos, b) /\ b.high >= pos.target

\* Mutant: a stop that was jumped fills at its own price.
FillAtLevel(pos, b) == IF StopHit(pos, b) THEN Exit(pos.stop) ELSE pos.target

FillOf(pos, b)    == IF StopHit(pos, b) THEN Exit(Smaller(pos.stop, b.open))
                     ELSE pos.target
===============================================================================
