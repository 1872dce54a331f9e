----------------------------- MODULE ReplayProofs -----------------------------
(***************************************************************************)
(* That the engine's exits never run ahead of the back-test's, and are the *)
(* back-test's when it looks after every bar: for every strategy signal,   *)
(* every sequence of bars, EMAs and looks, and every slippage.             *)
(***************************************************************************)
EXTENDS Replay, TLAPS

Bar == [open : Int, high : Int, low : Int, close : Int, ema : Nat]
Outcome == [bar : Nat, price : Int]

Last == tape[Len(tape)]
OneR(price) == price >= trade.entry + (trade.entry - trade.initial)

\* What the last bar has made of the back-test's stop, while its trade is open
Risky == trade.initial < trade.entry

TrailedFar(t, b) ==
    /\ t.stop >= trade.initial
    /\ strategy = "orb" => /\ t.stop \in {trade.initial, trade.entry}
                           /\ OneR(b.close) => t.stop = trade.entry
    /\ strategy = "multi_session" /\ (OneR(b.close) \/ t.stop >= trade.entry)
         => t.stop >= Behind(trade, b.close, b.ema)

\* The engine has looked at the first `seen' bars and at nothing else.
Priced ==
    live.exit = None =>
        /\ seen >= 2 => live.price = tape[seen].close
        /\ seen < 2 => live.price = trade.entry /\ live.stop = trade.initial

\* A bar that the engine has not judged, and through which the back-test held
\* its trade, would have left the engine's trade open too.
Fresh ==
    live.exit = None =>
        \A j \in seen + 1..Len(tape) :
            sim.exit = None \/ j < sim.exit.bar
                => tape[j].low > live.stop /\ tape[j].high < trade.target

IInv ==
    /\ TypeOK
    /\ Risky
    /\ strategy = "orb" => sim.stop \in {trade.initial, trade.entry}
    /\ sim.exit = None => sim.stop >= trade.initial
    /\ sim.exit.bar <= Len(tape)
    /\ sim.exit = None /\ tape # <<>> => TrailedFar(sim, Last)
    /\ Priced
    /\ Fresh
    /\ StopsLag
    /\ NeverOutFirst

-----------------------------------------------------------------------------
(* The rules. *)

\* Where the trailing stop wants to be is a price, whatever the stop now is.
LEMMA BehindTyped ==
    ASSUME trade \in [entry : Int, initial : Int, target : Int],
           NEW stop \in Int, NEW price \in Int, NEW ema \in Nat
    PROVE  /\ Behind(trade, price, ema) \in Int
           /\ Behind(With(stop), price, ema) = Behind(trade, price, ema)
           /\ Behind(trade, price, ema) >= trade.entry
<1> DEFINE quarter == (4 * price - (trade.entry - trade.initial)) \div 4
<1>1. trade.entry \in Int /\ trade.initial \in Int
  OBVIOUS
<1>2. quarter \in Int
  BY <1>1
<1>3. With(stop).entry = trade.entry /\ With(stop).initial = trade.initial
  BY DEF With
<1>4. Behind(With(stop), price, ema) = Behind(trade, price, ema)
  BY <1>3 DEF Behind
<1>5. Behind(trade, price, ema) =
        IF ema = 0 THEN trade.entry ELSE Larger(trade.entry, Smaller(ema, quarter))
  BY DEF Behind
<1> HIDE DEF quarter
<1> QED
  BY <1>1, <1>2, <1>4, <1>5 DEF Larger, Smaller

\* trail_v2 never loosens a stop; from one R on, or from the entry on, it is
\* where it wants to be.
LEMMA TrailV2Typed ==
    ASSUME trade \in [entry : Int, initial : Int, target : Int], Risky,
           NEW stop \in Int, NEW price \in Int, NEW ema \in Nat
    PROVE  LET new == TrailV2(With(stop), price, ema)
           IN  /\ new \in Int /\ new >= stop
               /\ OneR(price) \/ stop >= trade.entry
                    => new = Larger(stop, Behind(trade, price, ema))
               /\ ~(OneR(price) \/ stop >= trade.entry) => new = stop
<1>1. trade.entry \in Int /\ trade.initial \in Int
  OBVIOUS
<1>2. /\ Behind(With(stop), price, ema) = Behind(trade, price, ema)
      /\ Behind(trade, price, ema) \in Int
  BY BehindTyped
<1>3. /\ With(stop).entry = trade.entry /\ With(stop).initial = trade.initial
      /\ With(stop).stop = stop
  BY DEF With
<1>4. TrailV2(With(stop), price, ema) =
        IF OneR(price) \/ stop >= trade.entry
        THEN Larger(stop, Behind(trade, price, ema)) ELSE stop
  BY <1>1, <1>2, <1>3 DEF TrailV2, OneR, Risky
<1> QED
  BY <1>1, <1>2, <1>4 DEF Larger

\* An exit at a bar is an exit.
LEMMA AtNotNone ==
    ASSUME NEW k \in Nat, NEW price \in Int, k # 0
    PROVE  At(k, price) # None /\ At(k, price) \in Outcome /\ At(k, price).bar = k
  BY DEF At, None, Outcome

\* The back-test's judgement of a bar: it leaves the trade at this bar, or the
\* bar reached neither level and the stop has come as far as the bar takes it.
LEMMA JudgedTyped ==
    ASSUME trade \in [entry : Int, initial : Int, target : Int], Risky,
           strategy \in {"orb", "multi_session"},
           NEW t \in [stop : Int, exit : Outcome], t.exit = None, t.stop >= trade.initial,
           strategy = "orb" => t.stop \in {trade.initial, trade.entry},
           NEW k \in Nat, k # 0, NEW b \in Bar, b.close <= b.high
    PROVE  LET u == Judged(t, k, b)
           IN  /\ u \in [stop : Int, exit : Outcome]
               /\ u.stop >= t.stop
               /\ strategy = "orb" => u.stop \in {trade.initial, trade.entry}
               /\ u.exit # None => u.exit.bar = k
               /\ u.exit = None => /\ b.low > t.stop /\ b.high < trade.target
                                   /\ TrailedFar(u, b)
<1>0. /\ trade.entry \in Int /\ trade.initial \in Int /\ trade.target \in Int
      /\ b.open \in Int /\ b.high \in Int /\ b.low \in Int /\ b.close \in Int /\ b.ema \in Nat
      /\ t.stop \in Int /\ Slip \in Nat
  BY SlipAssumption DEF Bar
<1>1. CASE strategy = "orb"
  <2> DEFINE stop == IF b.high >= 2 * trade.entry - trade.initial THEN trade.entry ELSE t.stop
             exit == IF b.high >= trade.target THEN At(k, trade.target)
                     ELSE IF b.low <= stop THEN At(k, Exit(stop)) ELSE None
  <2>1. Judged(t, k, b) = [stop |-> stop, exit |-> exit]
    BY <1>1 DEF Judged, JudgedOrb
  <2>2. stop \in Int /\ stop >= t.stop /\ stop \in {trade.initial, trade.entry}
    BY <1>0, <1>1 DEF Risky
  <2>3. OneR(b.close) => stop = trade.entry
    BY <1>0 DEF OneR
  <2> HIDE DEF stop
  <2>4. Exit(stop) \in Int
    BY <1>0, <2>2 DEF Exit
  <2>5. /\ At(k, trade.target) # None /\ At(k, trade.target).bar = k
        /\ At(k, trade.target) \in Outcome
        /\ At(k, Exit(stop)) # None /\ At(k, Exit(stop)).bar = k
        /\ At(k, Exit(stop)) \in Outcome
    BY <1>0, <2>4, AtNotNone
  <2>6. None \in Outcome
    BY DEF None, Outcome
  <2>7. /\ exit \in Outcome
        /\ exit # None => exit.bar = k
        /\ exit = None => b.low > stop /\ b.high < trade.target
    BY <1>0, <2>2, <2>5, <2>6
  <2> HIDE DEF exit
  <2>8. /\ Judged(t, k, b).stop = stop /\ Judged(t, k, b).exit = exit
        /\ Judged(t, k, b) \in [stop : Int, exit : Outcome]
    BY <2>1, <2>2, <2>7
  <2> QED
    BY <1>0, <1>1, <2>2, <2>3, <2>7, <2>8 DEF TrailedFar, Risky
<1>2. CASE strategy = "multi_session"
  <2> DEFINE new == TrailV2(With(t.stop), b.close, b.ema)
             fill == Exit(Smaller(t.stop, b.open))
  <2>1. Judged(t, k, b) =
          IF b.low <= t.stop THEN [stop |-> t.stop, exit |-> At(k, fill)]
          ELSE IF b.high >= trade.target THEN [stop |-> t.stop, exit |-> At(k, trade.target)]
          ELSE [stop |-> new, exit |-> None]
    BY <1>2 DEF Judged, JudgedV2
  <2>2. /\ new \in Int /\ new >= t.stop
        /\ OneR(b.close) \/ t.stop >= trade.entry
             => new = Larger(t.stop, Behind(trade, b.close, b.ema))
        /\ ~(OneR(b.close) \/ t.stop >= trade.entry) => new = t.stop
    BY <1>0, TrailV2Typed
  <2>3. Behind(trade, b.close, b.ema) \in Int
    BY <1>0, BehindTyped
  <2> HIDE DEF new
  <2>4. OneR(b.close) \/ new >= trade.entry => new >= Behind(trade, b.close, b.ema)
    BY <1>0, <2>2, <2>3 DEF Larger
  <2>5. fill \in Int
    BY <1>0 DEF Exit, Smaller
  <2> HIDE DEF fill
  <2>6. /\ At(k, trade.target) # None /\ At(k, trade.target).bar = k
        /\ At(k, trade.target) \in Outcome
        /\ At(k, fill) # None /\ At(k, fill).bar = k /\ At(k, fill) \in Outcome
    BY <1>0, <2>5, AtNotNone
  <2>7. None \in Outcome
    BY DEF None, Outcome
  <2>8. CASE b.low <= t.stop
    <3>1. Judged(t, k, b) = [stop |-> t.stop, exit |-> At(k, fill)]
      BY <2>1, <2>8
    <3> QED
      BY <1>0, <1>2, <2>6, <3>1
  <2>9. CASE ~(b.low <= t.stop) /\ b.high >= trade.target
    <3>1. Judged(t, k, b) = [stop |-> t.stop, exit |-> At(k, trade.target)]
      BY <2>1, <2>9
    <3> QED
      BY <1>0, <1>2, <2>6, <3>1
  <2>10. CASE ~(b.low <= t.stop) /\ ~(b.high >= trade.target)
    <3>1. Judged(t, k, b) = [stop |-> new, exit |-> None]
      BY <2>1, <2>10
    <3>2. Judged(t, k, b).stop = new /\ Judged(t, k, b).exit = None
      BY <3>1
    <3>3. TrailedFar(Judged(t, k, b), b)
      BY <1>0, <1>2, <2>2, <2>4, <3>2 DEF TrailedFar
    <3> QED
      BY <1>0, <1>2, <2>2, <2>7, <2>10, <3>1, <3>2, <3>3
  <2> QED
    BY <2>8, <2>9, <2>10
<1> QED
  BY <1>1, <1>2

\* A quarter of the risk behind a bar's close
Quarter(b) == (4 * b.close - (trade.entry - trade.initial)) \div 4

\* The parameter search's judgement of a bar: it leaves the trade at this bar, or
\* the bar reached neither level and its stop is where the EMA, or one R, puts it.
LEMMA JudgedLabTyped ==
    ASSUME trade \in [entry : Int, initial : Int, target : Int],
           NEW t \in [stop : Int, exit : Outcome],
           NEW k \in Nat, k # 0, NEW b \in Bar,
           NEW u, JudgedLab(t, k, b) = u
    PROVE  /\ u \in [stop : Int, exit : Outcome]
           /\ u.stop >= t.stop
           /\ u.exit # None => u.exit.bar = k
           /\ (b.low <= t.stop \/ b.high >= trade.target) <=> u.exit # None
           /\ u.exit = None => /\ OneR(b.close) => u.stop >= trade.entry
                               /\ u.stop >= Smaller(b.ema, Quarter(b))
<1> DEFINE quarter == Quarter(b)
           held == IF b.close >= trade.entry + (trade.entry - trade.initial)
                   THEN Larger(t.stop, trade.entry) ELSE t.stop
           new == Larger(held, Smaller(b.ema, quarter))
<1>1. /\ trade.entry \in Int /\ trade.initial \in Int /\ trade.target \in Int
      /\ b.high \in Int /\ b.low \in Int /\ b.close \in Int /\ b.ema \in Nat
      /\ t.stop \in Int /\ Slip \in Nat
  BY SlipAssumption DEF Bar
<1>2. quarter \in Int
  BY <1>1 DEF Quarter
<1>3. JudgedLab(t, k, b) =
        IF b.low <= t.stop THEN [stop |-> t.stop, exit |-> At(k, Exit(t.stop))]
        ELSE IF b.high >= trade.target THEN [stop |-> t.stop, exit |-> At(k, trade.target)]
        ELSE [stop |-> new, exit |-> None]
  BY DEF JudgedLab, Quarter
<1> HIDE DEF quarter
<1>4. /\ held \in Int /\ held >= t.stop
      /\ OneR(b.close) => held >= trade.entry
  BY <1>1 DEF Larger, OneR
<1> HIDE DEF held
<1>5. /\ new \in Int /\ new >= held /\ new >= Smaller(b.ema, quarter)
  BY <1>1, <1>2, <1>4 DEF Larger, Smaller
<1> HIDE DEF new
<1>6. Exit(t.stop) \in Int
  BY <1>1 DEF Exit
<1>7. /\ At(k, trade.target) # None /\ At(k, trade.target).bar = k
      /\ At(k, trade.target) \in Outcome
      /\ At(k, Exit(t.stop)) # None /\ At(k, Exit(t.stop)).bar = k
      /\ At(k, Exit(t.stop)) \in Outcome
  BY <1>1, <1>6, AtNotNone
<1>8. None \in Outcome
  BY DEF None, Outcome
<1>9. CASE b.low <= t.stop
  <2>1. JudgedLab(t, k, b) = [stop |-> t.stop, exit |-> At(k, Exit(t.stop))]
    BY <1>3, <1>9
  <2> QED
    BY <1>1, <1>7, <1>9, <2>1
<1>10. CASE ~(b.low <= t.stop) /\ b.high >= trade.target
  <2>1. JudgedLab(t, k, b) = [stop |-> t.stop, exit |-> At(k, trade.target)]
    BY <1>3, <1>10
  <2> QED
    BY <1>1, <1>7, <1>10, <2>1
<1>11. CASE ~(b.low <= t.stop) /\ ~(b.high >= trade.target)
  <2>1. JudgedLab(t, k, b) = [stop |-> new, exit |-> None]
    BY <1>3, <1>11
  <2>2. new >= t.stop /\ (OneR(b.close) => new >= trade.entry)
    BY <1>1, <1>4, <1>5
  <2> QED
    BY <1>5, <1>8, <1>11, <2>1, <2>2 DEF quarter
<1> QED
  BY <1>9, <1>10, <1>11

\* The engine's stop after a look: the one it had, or where the rule, applied to
\* the price, puts it.  Where the last bar made the price, the back-test's stop,
\* not behind before, is not behind now.
LEMMA TrailedTyped ==
    ASSUME IInv, live.exit = None, NEW price \in Int,
           price = trade.entry \/ (tape # <<>> /\ price = Last.close)
    PROVE  /\ Trailed(price) \in Int /\ Trailed(price) >= live.stop
           /\ price = trade.entry /\ live.stop = trade.initial
                => Trailed(price) = live.stop
           /\ sim.exit = None /\ tape # <<>> /\ price = Last.close
                => Trailed(price) <= sim.stop
<1> DEFINE ema == IF tape = <<>> THEN 0 ELSE Last.ema
           new == NewStop(With(live.stop), price, ema)
<1>1. /\ trade \in [entry : Int, initial : Int, target : Int]
      /\ trade.entry \in Int /\ trade.initial \in Int /\ trade.initial < trade.entry
      /\ strategy \in {"orb", "multi_session"}
      /\ live.stop \in Int /\ sim.stop \in Int
  BY DEF IInv, TypeOK, Risky
<1>2. ema \in Nat /\ (tape # <<>> => Last \in Bar)
  <2>1. tape \in Seq(Bar)
    BY DEF IInv, TypeOK, Bar
  <2>2. tape # <<>> => Last \in Bar
    BY <2>1 DEF Last
  <2> QED
    BY <2>2 DEF Bar
<1>3. Trailed(price) = Larger(live.stop, new)
  BY DEF Trailed, Last
<1>4. sim.exit = None => live.stop <= sim.stop
  BY DEF IInv, StopsLag
<1>5. sim.exit = None /\ tape # <<>> => TrailedFar(sim, Last)
  BY DEF IInv
<1> HIDE DEF ema
<1>6. CASE strategy = "orb"
  <2>1. new = IF price > trade.entry /\ price - trade.entry >= trade.entry - trade.initial
              THEN Larger(trade.initial, trade.entry) ELSE trade.initial
    BY <1>6 DEF NewStop, BreakEven, With
  <2> HIDE DEF new
  <2>2. new = IF OneR(price) THEN trade.entry ELSE trade.initial
    BY <1>1, <2>1 DEF Larger, OneR
  <2>3. price = trade.entry => new = trade.initial
    BY <1>1, <2>2 DEF OneR
  <2>4. sim.exit = None /\ tape # <<>> /\ price = Last.close => new <= sim.stop
    BY <1>1, <1>5, <1>6, <2>2 DEF TrailedFar
  <2> QED
    BY <1>1, <1>3, <1>4, <2>2, <2>3, <2>4 DEF Larger
<1>7. CASE strategy = "multi_session"
  <2>1. new = TrailV2(With(live.stop), price, ema)
    BY <1>7 DEF NewStop
  <2> HIDE DEF new
  <2>2. /\ new \in Int /\ new >= live.stop
        /\ OneR(price) \/ live.stop >= trade.entry
             => new = Larger(live.stop, Behind(trade, price, ema))
        /\ ~(OneR(price) \/ live.stop >= trade.entry) => new = live.stop
    <3>1. Risky
      BY DEF IInv
    <3> QED
      BY <1>1, <1>2, <2>1, <3>1, TrailV2Typed
  <2>3. Behind(trade, price, ema) \in Int
    BY <1>1, <1>2, BehindTyped
  <2>4. price = trade.entry /\ live.stop = trade.initial => new = live.stop
    BY <1>1, <2>2 DEF OneR
  <2>5. sim.exit = None /\ tape # <<>> /\ price = Last.close => new <= sim.stop
    <3> SUFFICES ASSUME sim.exit = None, tape # <<>>, price = Last.close
                 PROVE  new <= sim.stop
      OBVIOUS
    <3>1. ema = Last.ema
      BY DEF ema
    <3>2. CASE OneR(price) \/ live.stop >= trade.entry
      <4>1. OneR(price) \/ sim.stop >= trade.entry
        BY <1>1, <1>4, <3>2
      <4>2. sim.stop >= Behind(trade, price, ema)
        BY <1>5, <1>7, <3>1, <4>1 DEF TrailedFar
      <4> QED
        BY <1>1, <1>4, <2>2, <2>3, <3>2, <4>2 DEF Larger
    <3>3. CASE ~(OneR(price) \/ live.stop >= trade.entry)
      BY <1>1, <1>4, <2>2, <3>3
    <3> QED
      BY <3>2, <3>3
  <2> QED
    BY <1>1, <1>3, <1>4, <2>2, <2>4, <2>5 DEF Larger
<1> QED
  BY <1>1, <1>6, <1>7

\* The price at a look is the fill until a bar has been judged, then the close
\* of the last bar.
LEMMA PriceTyped ==
    ASSUME IInv, live.exit = None
    PROVE  /\ Price \in Int
           /\ Len(tape) >= 2 => Price = Last.close
           /\ Len(tape) < 2 => Price = trade.entry /\ live.stop = trade.initial
<1>1. /\ tape \in Seq(Bar) /\ Len(tape) \in Nat /\ seen \in 0..Len(tape)
      /\ trade.entry \in Int /\ live.price \in Int
  BY DEF IInv, TypeOK, Bar
<1>2. /\ seen >= 2 => live.price = tape[seen].close
      /\ seen < 2 => live.price = trade.entry /\ live.stop = trade.initial
  BY DEF IInv, Priced
<1>3. New = {} <=> (Len(tape) < 2 \/ seen = Len(tape))
  <2>1. seen < Len(tape) /\ Len(tape) >= 2 => Len(tape) \in New
    BY <1>1 DEF New
  <2>2. ASSUME New = {} PROVE Len(tape) < 2 \/ seen = Len(tape)
    <3>1. ~(seen < Len(tape) /\ Len(tape) >= 2)
      BY <2>1, <2>2
    <3> QED
      BY <1>1, <3>1
  <2>3. ASSUME Len(tape) < 2 \/ seen = Len(tape), NEW k \in New PROVE FALSE
    <3>1. k \in Int /\ k > seen /\ k >= 2 /\ k <= Len(tape)
      BY <1>1 DEF New
    <3> QED
      BY <1>1, <2>3, <3>1
  <2> QED
    BY <2>2, <2>3
<1>4. Len(tape) >= 2 => Last.close \in Int
  <2>1. Len(tape) >= 2 => Last \in Bar
    BY <1>1 DEF Last
  <2> QED
    BY <2>1 DEF Bar
<1>5. CASE New = {}
  BY <1>1, <1>2, <1>3, <1>4, <1>5 DEF Price, Last
<1>6. CASE New # {}
  BY <1>1, <1>3, <1>4, <1>6 DEF Price, Last
<1> QED
  BY <1>5, <1>6

-----------------------------------------------------------------------------
(* The invariant. *)

\* The strategies' signals are prices.
LEMMA SignalsTyped ==
    /\ OrbSignals \subseteq [entry : Int, stop : Int, target : Int]
    /\ V2Signals \subseteq [entry : Int, stop : Int, target : Int]
<1>1. ASSUME NEW or \in Ranges, NEW post \in Posts,
             NEW ref \in BreakoutRefs(or, post) \cup IccRefs(or, post)
      PROVE  OrbSignal(or, post, ref) \in [entry : Int, stop : Int, target : Int]
  <2>1. /\ or.low \in Int /\ or.high \in Int
        /\ post \in Seq([open : Int, high : Int, low : Int, close : Int])
        /\ MaxStop \in Int
    BY ReplayAssumption
  <2>2. Len(post) \in Nat /\ Len(post) >= 2
    BY <2>1 DEF BreakoutRefs, IccRefs
  <2>3. post[Len(post)].close \in Int /\ post[Len(post) - 1].low \in Int
    <3> DEFINE R == [open : Int, high : Int, low : Int, close : Int]
    <3>1. post[Len(post)] \in R /\ post[Len(post) - 1] \in R
      <4> HIDE DEF R
      <4>1. post \in Seq(R)
        BY <2>1 DEF R
      <4> QED
        BY <2>2, <4>1
    <3> QED
      BY <3>1
  <2>4. ref \in Int
    BY <2>1, <2>3 DEF BreakoutRefs, IccRefs
  <2> DEFINE tenth == (or.high - or.low) \div 10
             wanted == post[Len(post)].close - (ref - tenth)
             distance == Smaller(wanted, MaxStop)
  <2>5. tenth \in Int
    BY <2>1
  <2>6. OrbSignal(or, post, ref) =
          [entry |-> post[Len(post)].close, stop |-> post[Len(post)].close - distance,
           target |-> post[Len(post)].close + distance]
    BY DEF OrbSignal
  <2> HIDE DEF tenth
  <2>7. wanted \in Int
    BY <2>3, <2>4, <2>5
  <2> HIDE DEF wanted
  <2>8. distance \in Int
    BY <2>1, <2>7 DEF Smaller
  <2> QED
    BY <2>3, <2>6, <2>8
<1>2. ASSUME NEW post \in Posts, Engulfs(post)
      PROVE  V2Signal(post) \in [entry : Int, stop : Int, target : Int]
  <2>1. /\ post \in Seq([open : Int, high : Int, low : Int, close : Int])
        /\ TargetRR \in Int
    BY ReplayAssumption
  <2>2. Len(post) \in Nat /\ Len(post) >= 2
    BY <2>1, <1>2 DEF Engulfs
  <2> DEFINE entry == post[Len(post)].close
             stop == Smaller(post[Len(post)].low, post[Len(post) - 1].low) - 1
             target == entry + TargetRR * (entry - stop)
  <2>3. entry \in Int /\ stop \in Int
    <3> DEFINE R == [open : Int, high : Int, low : Int, close : Int]
    <3>1. post[Len(post)] \in R /\ post[Len(post) - 1] \in R
      <4> HIDE DEF R
      <4>1. post \in Seq(R)
        BY <2>1 DEF R
      <4> QED
        BY <2>2, <4>1
    <3> QED
      BY <3>1, SMTT(30) DEF Smaller
  <2>4. V2Signal(post) = [entry |-> entry, stop |-> stop, target |-> target]
    BY DEF V2Signal
  <2>5. target \in Int
    <3> HIDE DEF entry, stop
    <3> QED
      BY <2>1, <2>3
  <2> QED
    BY <2>3, <2>4, <2>5
<1>3. ASSUME NEW s \in OrbSignals PROVE s \in [entry : Int, stop : Int, target : Int]
  <2>1. PICK or \in Ranges, post \in Posts : s \in OrbSignalsOf(or, post)
    BY DEF OrbSignals
  <2>2. PICK ref \in BreakoutRefs(or, post) \cup IccRefs(or, post) : s = OrbSignal(or, post, ref)
    BY <2>1 DEF OrbSignalsOf
  <2> QED
    BY <1>1, <2>2
<1>4. ASSUME NEW s \in V2Signals PROVE s \in [entry : Int, stop : Int, target : Int]
  <2>1. PICK post \in Posts : Engulfs(post) /\ s = V2Signal(post)
    BY DEF V2Signals
  <2> QED
    BY <1>2, <2>1
<1> QED
  BY <1>3, <1>4

LEMMA IInvInit == Init => IInv
<1> SUFFICES ASSUME Init PROVE IInv
  OBVIOUS
<1>1. PICK s \in IF strategy = "orb" THEN OrbSignals ELSE V2Signals :
         /\ s.stop < s.entry
         /\ trade = [entry |-> Filled(s.entry), initial |-> s.stop, target |-> s.target]
         /\ sim = [stop |-> s.stop, exit |-> None] /\ lab = sim
         /\ live = [stop |-> s.stop, price |-> Filled(s.entry), exit |-> None]
  BY DEF Init
<1>2. s \in [entry : Int, stop : Int, target : Int] /\ strategy \in {"orb", "multi_session"}
  BY <1>1, SignalsTyped DEF Init
<1>3. Filled(s.entry) \in Int /\ Filled(s.entry) >= s.entry
  BY <1>2, SlipAssumption DEF Filled
<1>4. None \in Outcome
  BY DEF None, Outcome
<1>5. tape = <<>> /\ seen = 0 /\ even = TRUE /\ tape \in Seq(Bar) /\ Len(tape) = 0
  BY DEF Init
<1>6. TypeOK
  BY <1>1, <1>2, <1>3, <1>4, <1>5 DEF TypeOK, Outcome, Bar
<1>7. sim.exit.bar = 0
  BY <1>1 DEF None
<1> QED
  BY <1>1, <1>2, <1>3, <1>5, <1>6, <1>7
     DEF IInv, Risky, Priced, Fresh, StopsLag, NeverOutFirst

\* A bar completes: what was true of the bars before stays so, and a bar that
\* the back-test held through is above its stop, and so above the engine's.
LEMMA CompleteKeeps ==
    ASSUME IInv, NEW bar \in Bars, NEW ema \in Emas, Complete(bar, ema)
    PROVE  IInv'
<1> DEFINE b == [open |-> bar.open, high |-> bar.high, low |-> bar.low,
                 close |-> bar.close, ema |-> ema]
           k == Len(tape) + 1
<1>1. /\ tape' = Append(tape, b)
      /\ sim' = IF sim.exit = None THEN Judged(sim, k, b) ELSE sim
      /\ even' = (even /\ seen = Len(tape) /\ (k = 1 => sim' = sim))
      /\ strategy' = strategy /\ trade' = trade /\ live' = live /\ seen' = seen
  BY DEF Complete
<1>2. /\ strategy \in {"orb", "multi_session"}
      /\ trade \in [entry : Int, initial : Int, target : Int]
      /\ trade.initial \in Int /\ trade.entry \in Int
      /\ tape \in Seq(Bar) /\ Len(tape) \in Nat
      /\ sim \in [stop : Int, exit : Outcome] /\ sim.stop \in Int
      /\ live \in [stop : Int, price : Int, exit : Outcome] /\ live.stop \in Int
      /\ seen \in 0..Len(tape) /\ even \in BOOLEAN
  BY DEF IInv, TypeOK, Bar, Outcome
<1>3. b \in Bar /\ b.close <= b.high
  BY ReplayAssumption DEF Bar
<1> HIDE DEF b
<1>4. /\ k \in Nat /\ k # 0
      /\ tape' \in Seq(Bar) /\ Len(tape') = k
      /\ tape'[k] = b
      /\ \A j \in 1..Len(tape) : tape'[j] = tape[j]
  BY <1>1, <1>2, <1>3
<1>5. ASSUME sim.exit = None
      PROVE  /\ sim' \in [stop : Int, exit : Outcome]
             /\ sim'.stop >= sim.stop
             /\ strategy = "orb" => sim'.stop \in {trade.initial, trade.entry}
             /\ sim'.exit # None => sim'.exit.bar = k
             /\ sim'.exit = None => /\ b.low > sim.stop /\ b.high < trade.target
                                    /\ TrailedFar(sim', b)
  <2>1. Risky /\ sim.stop >= trade.initial
        /\ (strategy = "orb" => sim.stop \in {trade.initial, trade.entry})
    BY <1>5 DEF IInv
  <2>2. sim' = Judged(sim, k, b)
    BY <1>1, <1>5
  <2> HIDE DEF k
  <2>3. k \in Nat /\ k # 0
    BY <1>4
  <2>4. /\ Judged(sim, k, b) \in [stop : Int, exit : Outcome]
        /\ Judged(sim, k, b).stop >= sim.stop
        /\ strategy = "orb" => Judged(sim, k, b).stop \in {trade.initial, trade.entry}
        /\ Judged(sim, k, b).exit # None => Judged(sim, k, b).exit.bar = k
        /\ Judged(sim, k, b).exit = None => /\ b.low > sim.stop /\ b.high < trade.target
                                           /\ TrailedFar(Judged(sim, k, b), b)
    BY <1>2, <1>3, <1>5, <2>1, <2>3, JudgedTyped, Zenon
  <2> QED
    BY <2>2, <2>4, Zenon
<1>6. sim.exit # None => sim' = sim
  BY <1>1
<1> HIDE DEF k
<1>7. sim' \in [stop : Int, exit : Outcome] /\ sim'.stop \in Int /\ sim'.stop >= sim.stop
  BY <1>2, <1>5, <1>6
<1>8. TypeOK'
  <2>1. seen' \in 0..Len(tape')
    BY <1>1, <1>2, <1>4 DEF k
  <2>3. lab' \in [stop : Int, exit : Outcome]
    <3>1. lab \in [stop : Int, exit : Outcome]
      BY DEF IInv, TypeOK, Outcome
    <3>2. JudgedLab(lab, k, b) \in [stop : Int, exit : Outcome]
      BY <1>2, <1>3, <1>4, <3>1, JudgedLabTyped
    <3>3. lab' = JudgedLab(lab, k, b) \/ lab' = lab
      BY DEF Complete, b, k
    <3> QED
      BY <3>1, <3>2, <3>3
  <2>2. even' \in BOOLEAN
    BY <1>1, <1>2
  <2> QED
    BY <1>1, <1>2, <1>4, <1>7, <2>1, <2>2, <2>3 DEF TypeOK, Bar, Outcome
<1>9. Risky'
  BY <1>1 DEF IInv, Risky
<1>10. (strategy = "orb" => sim.stop \in {trade.initial, trade.entry})'
  BY <1>1, <1>5, <1>6 DEF IInv
<1>11. (sim.exit = None => sim.stop >= trade.initial)'
  BY <1>1, <1>2, <1>6, <1>7 DEF IInv
<1>12. (sim.exit = None /\ tape # <<>> => TrailedFar(sim, Last))'
  <2>1. Last' = b
    BY <1>4 DEF Last
  <2>2. sim'.exit = None => TrailedFar(sim', b)
    BY <1>5, <1>6
  <2> QED
    BY <1>1, <2>1, <2>2 DEF TrailedFar, OneR, Behind
<1>13. Priced'
  <2>1. Len(tape) \in Nat /\ seen \in 0..Len(tape)
    BY <1>2
  <2>2. seen >= 2 => seen \in 1..Len(tape)
    BY <2>1
  <2>3. seen >= 2 => tape'[seen] = tape[seen]
    BY <1>4, <2>2, Zenon
  <2> QED
    BY <1>1, <2>3 DEF IInv, Priced
<1>14. StopsLag'
  BY <1>1, <1>2, <1>6, <1>7 DEF IInv, StopsLag
<1>15. NeverOutFirst'
  BY <1>1, <1>6 DEF IInv, NeverOutFirst, Forced
<1>16. Fresh'
  <2> SUFFICES ASSUME live.exit = None, NEW j \in seen + 1..k,
                      sim'.exit = None \/ j < sim'.exit.bar
               PROVE  tape'[j].low > live.stop /\ tape'[j].high < trade.target
    BY <1>1, <1>4 DEF Fresh
  <2>1. CASE j = k
    <3>1. CASE sim.exit = None
      <4>1. sim'.exit = None
        BY <1>2, <1>4, <1>5, <1>7, <2>1, <3>1, SMTT(30) DEF Outcome
      <4>2. live.stop <= sim.stop
        BY <3>1 DEF IInv, StopsLag
      <4>3. b.low \in Int
        BY <1>3 DEF Bar
      <4> QED
        BY <1>2, <1>4, <1>5, <2>1, <3>1, <4>1, <4>2, <4>3
    <3>2. CASE sim.exit # None
      <4>1. sim' = sim /\ sim.exit.bar <= Len(tape) /\ sim.exit.bar \in Nat
        BY <1>2, <1>6, <3>2 DEF IInv, Outcome
      <4>2. ~(j < sim.exit.bar)
        BY <1>2, <2>1, <4>1 DEF k
      <4> QED
        BY <3>2, <4>1, <4>2
    <3> QED
      BY <3>1, <3>2
  <2>2. CASE j # k
    <3>1. j \in seen + 1..Len(tape) /\ j \in 1..Len(tape)
      BY <1>2, <2>2 DEF k
    <3>2. sim.exit = None \/ j < sim.exit.bar
      BY <1>6
    <3>3. tape[j].low > live.stop /\ tape[j].high < trade.target
      BY <3>1, <3>2 DEF IInv, Fresh
    <3> QED
      BY <1>4, <3>1, <3>3
  <2> QED
    BY <2>1, <2>2
<1>17. (sim.exit.bar <= Len(tape))'
  <2>1. sim.exit.bar <= Len(tape) /\ sim.exit.bar \in Nat
    BY <1>2 DEF IInv, Outcome
  <2>2. None.bar = 0
    BY DEF None
  <2> QED
    BY <1>2, <1>4, <1>5, <1>6, <2>1, <2>2 DEF k
<1> QED
  BY <1>8, <1>9, <1>10, <1>11, <1>12, <1>13, <1>14, <1>15, <1>16, <1>17 DEF IInv

\* The replay ends at the last bar.
LEMMA TimeoutKeeps ==
    ASSUME IInv, Timeout
    PROVE  IInv'
<1>1. /\ sim.exit = None /\ tape # <<>>
      /\ sim' = [sim EXCEPT !.exit = At(Len(tape), Last.close)]
      /\ UNCHANGED <<strategy, trade, tape, lab, live, seen, even>>
  BY DEF Timeout, Last
<1>2. /\ sim \in [stop : Int, exit : Outcome] /\ tape \in Seq(Bar)
      /\ Len(tape) \in Nat /\ Len(tape) # 0
      /\ live \in [stop : Int, price : Int, exit : Outcome]
      /\ seen \in 0..Len(tape)
  BY <1>1 DEF IInv, TypeOK, Bar, Outcome
<1>3. Last.close \in Int
  <2>1. Last \in Bar
    BY <1>2 DEF Last
  <2> QED
    BY <2>1 DEF Bar
<1>4. LET e == At(Len(tape), Last.close)
      IN  e # None /\ e \in Outcome /\ e.bar = Len(tape)
  BY <1>2, <1>3, AtNotNone
<1>5. /\ sim'.exit # None /\ sim'.exit.bar = Len(tape) /\ sim'.stop = sim.stop
      /\ sim' \in [stop : Int, exit : Outcome]
  BY <1>1, <1>2, <1>4
<1>6. TypeOK'
  BY <1>1, <1>5 DEF IInv, TypeOK, Outcome
<1>7. Fresh'
  <2> SUFFICES ASSUME live.exit = None, NEW j \in seen + 1..Len(tape)
               PROVE  tape[j].low > live.stop /\ tape[j].high < trade.target
    BY <1>1 DEF Fresh
  <2> QED
    BY <1>1 DEF IInv, Fresh
<1>8. Priced' /\ Risky' /\ (strategy = "orb" => sim.stop \in {trade.initial, trade.entry})'
  BY <1>1, <1>5 DEF IInv, Priced, Risky
<1>9. NeverOutFirst'
  BY <1>1 DEF IInv, NeverOutFirst, Forced
<1>10. StopsLag' /\ (sim.exit.bar <= Len(tape))'
  BY <1>1, <1>2, <1>5 DEF StopsLag
<1> QED
  BY <1>1, <1>5, <1>6, <1>7, <1>8, <1>9, <1>10 DEF IInv

\* A look, or a close at the last price, that found no exit in the bars.
LEMMA TrailKeeps ==
    ASSUME IInv, live.exit = None, NEW e \in Outcome, e = None \/ e.bar = 0,
           live' = [stop |-> Trailed(Price), price |-> Price, exit |-> e],
           seen' = Len(tape),
           UNCHANGED <<strategy, trade, tape, sim, lab, even>>
    PROVE  IInv'
<1>1. /\ tape \in Seq(Bar) /\ Len(tape) \in Nat
      /\ trade.entry \in Int /\ trade.initial \in Int
      /\ sim.stop \in Int
  BY DEF IInv, TypeOK, Bar
<1>2. /\ Price \in Int
      /\ Len(tape) >= 2 => Price = Last.close
      /\ Len(tape) < 2 => Price = trade.entry /\ live.stop = trade.initial
  BY PriceTyped
<1>3. Price = trade.entry \/ (tape # <<>> /\ Price = Last.close)
  BY <1>1, <1>2
<1>4. /\ Trailed(Price) \in Int
      /\ Price = trade.entry /\ live.stop = trade.initial => Trailed(Price) = live.stop
      /\ sim.exit = None /\ tape # <<>> /\ Price = Last.close => Trailed(Price) <= sim.stop
  BY <1>2, <1>3, TrailedTyped
<1>5. live'.stop = Trailed(Price) /\ live'.price = Price /\ live'.exit = e
  OBVIOUS
<1>6. TypeOK'
  <2>1. live' \in [stop : Int, price : Int, exit : [bar : Nat, price : Int]]
    BY <1>2, <1>4 DEF Outcome
  <2>2. seen' \in 0..Len(tape')
    BY <1>1
  <2> QED
    BY <2>1, <2>2 DEF IInv, TypeOK
<1>7. Priced'
  BY <1>1, <1>2, <1>4, <1>5 DEF Priced, Last
<1>8. Fresh'
  BY <1>1 DEF Fresh
<1>9. StopsLag'
  <2> SUFFICES ASSUME sim.exit = None PROVE Trailed(Price) <= sim.stop
    BY <1>5 DEF StopsLag
  <2>1. CASE Len(tape) >= 2
    BY <1>1, <1>2, <1>4, <2>1
  <2>2. CASE Len(tape) < 2
    BY <1>1, <1>2, <1>4, <2>2 DEF IInv
  <2> QED
    BY <1>1, <2>1, <2>2
<1>10. NeverOutFirst'
  BY <1>5 DEF NeverOutFirst, Forced
<1>11. /\ Risky'
       /\ (strategy = "orb" => sim.stop \in {trade.initial, trade.entry})'
       /\ (sim.exit = None => sim.stop >= trade.initial)'
       /\ (sim.exit.bar <= Len(tape))'
  BY DEF IInv, Risky
<1>12. (sim.exit = None /\ tape # <<>> => TrailedFar(sim, Last))'
  BY DEF IInv, TrailedFar, OneR, Behind, Last
<1> QED
  BY <1>6, <1>7, <1>8, <1>9, <1>10, <1>11, <1>12 DEF IInv

\* A look that found an exit: the back-test had left at that bar or before.
LEMMA StoppedKeeps ==
    ASSUME IInv, live.exit = None, Stopped, seen' = Len(tape),
           UNCHANGED <<strategy, trade, tape, sim, lab, even>>
    PROVE  IInv'
<1>1. PICK k \in Hits :
         live' = [live EXCEPT !.price = tape[k].close,
                    !.exit = At(k, FillOf(Position(live.stop), tape[k]))]
  BY DEF Stopped
<1>2. /\ tape \in Seq(Bar) /\ Len(tape) \in Nat /\ seen \in Nat
      /\ live \in [stop : Int, price : Int, exit : Outcome]
      /\ live.stop \in Int /\ trade.target \in Int
      /\ sim \in [stop : Int, exit : Outcome]
  BY DEF IInv, TypeOK, Bar, Outcome
<1>3. k \in seen + 1..Len(tape) /\ k >= 2 /\ k \in Nat /\ k <= Len(tape)
  BY <1>1, <1>2 DEF Hits, New
<1>4. /\ tape[k].low \in Int /\ tape[k].high \in Int
      /\ tape[k].open \in Int /\ tape[k].close \in Int
  <2>1. tape[k] \in Bar
    BY <1>2, <1>3
  <2> QED
    BY <2>1 DEF Bar
<1>5. tape[k].low <= live.stop \/ tape[k].high >= trade.target
  BY <1>1, <1>4 DEF Hits, StopHit, TargetHit, Position
<1>6. sim.exit # None /\ ~(k < sim.exit.bar)
  BY <1>2, <1>3, <1>4, <1>5 DEF IInv, Fresh
<1> DEFINE fill == FillOf(Position(live.stop), tape[k])
<1>7. fill \in Int
  BY <1>2, <1>4, SlipAssumption DEF FillOf, Position, Exit, Smaller, StopHit
<1> HIDE DEF fill
<1>8. At(k, fill) # None /\ At(k, fill) \in Outcome /\ At(k, fill).bar = k
  BY <1>3, <1>7, AtNotNone
<1>9. /\ live'.exit = At(k, fill) /\ live'.exit # None /\ live'.exit.bar = k
      /\ live' \in [stop : Int, price : Int, exit : Outcome]
  BY <1>1, <1>2, <1>4, <1>8 DEF fill
<1>10. TypeOK'
  <2>1. seen' \in 0..Len(tape')
    BY <1>2
  <2> QED
    BY <1>9, <2>1 DEF IInv, TypeOK, Outcome
<1>11. NeverOutFirst'
  BY <1>2, <1>3, <1>6, <1>9 DEF NeverOutFirst, Outcome
<1>12. Priced' /\ Fresh' /\ StopsLag'
  BY <1>9 DEF Priced, Fresh, StopsLag
<1>13. /\ Risky'
       /\ (strategy = "orb" => sim.stop \in {trade.initial, trade.entry})'
       /\ (sim.exit = None => sim.stop >= trade.initial)'
       /\ (sim.exit.bar <= Len(tape))'
  BY DEF IInv, Risky
<1>14. (sim.exit = None /\ tape # <<>> => TrailedFar(sim, Last))'
  BY DEF IInv, TrailedFar, OneR, Behind, Last
<1> QED
  BY <1>10, <1>11, <1>12, <1>13, <1>14 DEF IInv

LEMMA IInvNext == IInv /\ [Next]_vars => IInv'
<1> SUFFICES ASSUME IInv, [Next]_vars PROVE IInv'
  OBVIOUS
<1>1. CASE \E bar \in Bars, ema \in Emas : Complete(bar, ema)
  BY <1>1, CompleteKeeps
<1>2. CASE Timeout
  BY <1>2, TimeoutKeeps
<1>3. live \in [stop : Int, price : Int, exit : Outcome] /\ None \in Outcome
  BY DEF IInv, TypeOK, Outcome, None
<1>4. CASE Look
  <2>1. CASE Stopped
    BY <1>4, <2>1, StoppedKeeps DEF Look
  <2>2. CASE Hits = {} /\ live' = [live EXCEPT !.stop = Trailed(Price), !.price = Price]
    <3>1. live.exit = None /\ seen' = Len(tape)
          /\ UNCHANGED <<strategy, trade, tape, sim, lab, even>>
      BY <1>4 DEF Look
    <3>2. live' = [stop |-> Trailed(Price), price |-> Price, exit |-> None]
      BY <1>3, <2>2, <3>1
    <3> QED
      BY <1>3, <3>1, <3>2, TrailKeeps
  <2> QED
    BY <1>4, <2>1, <2>2 DEF Look
<1>5. CASE Close
  <2>1. /\ live.exit = None /\ seen' = Len(tape)
        /\ live' = [stop |-> Trailed(Price), price |-> Price, exit |-> At(0, Exit(Price))]
        /\ UNCHANGED <<strategy, trade, tape, sim, lab, even>>
    BY <1>5 DEF Close
  <2>2. Price \in Int
    BY <2>1, PriceTyped
  <2>3. At(0, Exit(Price)) \in Outcome /\ At(0, Exit(Price)).bar = 0
    BY <2>2, SlipAssumption DEF At, Exit, Outcome
  <2> QED
    BY <2>1, <2>3, TrailKeeps
<1>6. CASE UNCHANGED vars
  <2>1. /\ strategy' = strategy /\ trade' = trade /\ tape' = tape /\ sim' = sim
        /\ live' = live /\ seen' = seen /\ even' = even /\ lab' = lab
    BY <1>6 DEF vars
  <2>2. TypeOK' /\ Risky' /\ Priced' /\ Fresh' /\ StopsLag' /\ NeverOutFirst'
    BY <2>1 DEF IInv, TypeOK, Risky, Priced, Fresh, StopsLag, NeverOutFirst, Forced
  <2>3. TrailedFar(sim, Last)' = TrailedFar(sim, Last)
    BY <2>1 DEF TrailedFar, OneR, Behind, Last
  <2> QED
    BY <2>1, <2>2, <2>3 DEF IInv
<1> QED
  BY <1>1, <1>2, <1>4, <1>5, <1>6 DEF Next

LEMMA Invariant == Spec => []IInv
BY IInvInit, IInvNext, PTL DEF Spec

-----------------------------------------------------------------------------
(* The parameter search. *)

\* What the search still holds, the back-test holds, with a stop no tighter.
LabInv ==
    /\ lab.exit = None \/ lab.exit.bar <= Len(tape)
    /\ SearchLeads
    /\ SearchNotLast

LEMMA LabInit == Init => LabInv
<1> SUFFICES ASSUME Init PROVE LabInv
  OBVIOUS
<1>1. lab = sim /\ sim.exit = None
  BY DEF Init
<1>2. sim.stop \in Int
  BY IInvInit DEF IInv, TypeOK
<1> QED
  BY <1>1, <1>2 DEF LabInv, SearchLeads, SearchNotLast

\* One bar more: from one R on both stops are at the entry or beyond it, and the
\* search's is also where the EMA would put it.
LEMMA CompleteLab ==
    ASSUME IInv, LabInv, NEW bar \in Bars, NEW ema \in Emas, Complete(bar, ema)
    PROVE  LabInv'
<1> DEFINE b == [open |-> bar.open, high |-> bar.high, low |-> bar.low,
                 close |-> bar.close, ema |-> ema]
           k == Len(tape) + 1
<1>1. /\ tape' = Append(tape, b) /\ strategy' = strategy
      /\ sim' = IF sim.exit = None THEN Judged(sim, k, b) ELSE sim
      /\ lab' = IF strategy = "multi_session" /\ lab.exit = None
                THEN JudgedLab(lab, k, b) ELSE lab
  BY DEF Complete
<1>2. /\ trade \in [entry : Int, initial : Int, target : Int]
      /\ trade.entry \in Int /\ trade.initial \in Int
      /\ tape \in Seq(Bar) /\ Len(tape) \in Nat
      /\ sim \in [stop : Int, exit : Outcome] /\ lab \in [stop : Int, exit : Outcome]
      /\ Risky
  BY DEF IInv, TypeOK, Bar, Outcome
<1>3. b \in Bar
  BY ReplayAssumption DEF Bar
<1> HIDE DEF b
<1>4. k \in Nat /\ k # 0 /\ Len(tape') = k /\ k > Len(tape)
  BY <1>1, <1>2, <1>3
<1> HIDE DEF k
<1>5. CASE strategy = "orb"
  <2>1. lab' = lab
    BY <1>1, <1>5
  <2>2. lab.exit = None \/ lab.exit.bar <= k
    <3>1. lab.exit.bar \in Nat
      BY <1>2 DEF Outcome
    <3> QED
      BY <1>2, <1>4, <3>1 DEF LabInv
  <2> QED
    BY <1>1, <1>4, <1>5, <2>1, <2>2 DEF LabInv, SearchLeads, SearchNotLast
<1>6. CASE strategy = "multi_session" /\ lab.exit # None
  <2>1. lab' = lab /\ lab.exit.bar \in Nat /\ lab.exit.bar <= Len(tape)
    BY <1>1, <1>2, <1>6 DEF LabInv, Outcome
  <2>2. lab'.exit.bar <= k
    BY <1>2, <1>4, <2>1
  <2>3. sim.exit # None => sim' = sim /\ lab.exit.bar <= sim.exit.bar
    BY <1>1, <1>6 DEF LabInv, SearchNotLast
  <2>4. sim.exit = None /\ sim'.exit # None => sim'.exit.bar = k
    <3> SUFFICES ASSUME sim.exit = None, Judged(sim, k, b).exit # None
                 PROVE  Judged(sim, k, b).exit.bar = k
      BY <1>1
    <3>1. Judged(sim, k, b) = JudgedV2(sim, k, b)
      BY <1>6 DEF Judged
    <3> QED
      BY <3>1 DEF JudgedV2, At
  <2> QED
    BY <1>1, <1>4, <1>6, <2>1, <2>2, <2>3, <2>4 DEF LabInv, SearchLeads, SearchNotLast
<1>7. CASE strategy = "multi_session" /\ lab.exit = None
  <2>1. sim.exit = None /\ sim.stop <= lab.stop
    BY <1>7 DEF LabInv, SearchLeads, SearchNotLast
  <2>2. sim' = JudgedV2(sim, k, b) /\ lab' = JudgedLab(lab, k, b)
    BY <1>1, <1>7, <2>1 DEF Judged
  <2> DEFINE trail == TrailV2(With(sim.stop), b.close, b.ema)
             quarter == Quarter(b)
  <2>3. /\ lab' \in [stop : Int, exit : Outcome]
        /\ lab'.stop >= lab.stop
        /\ lab'.exit # None => lab'.exit.bar = k
        /\ (b.low <= lab.stop \/ b.high >= trade.target) <=> lab'.exit # None
        /\ lab'.exit = None => /\ OneR(b.close) => lab'.stop >= trade.entry
                               /\ lab'.stop >= Smaller(b.ema, quarter)
    <3>1. JudgedLab(lab, k, b) = lab'
      BY <2>2
    <3>2. trade \in [entry : Int, initial : Int, target : Int]
      BY <1>2
    <3>3. lab \in [stop : Int, exit : Outcome] /\ k \in Nat /\ k # 0 /\ b \in Bar
      BY <1>2, <1>3, <1>4
    <3>4. /\ lab' \in [stop : Int, exit : Outcome]
          /\ lab'.stop >= lab.stop
          /\ lab'.exit # None => lab'.exit.bar = k
          /\ (b.low <= lab.stop \/ b.high >= trade.target) <=> lab'.exit # None
          /\ lab'.exit = None => /\ OneR(b.close) => lab'.stop >= trade.entry
                                 /\ lab'.stop >= Smaller(b.ema, Quarter(b))
      BY <3>1, <3>2, <3>3, JudgedLabTyped
    <3> QED
      BY <3>4
  <2>4. /\ b.low \in Int /\ b.high \in Int /\ b.close \in Int /\ b.ema \in Nat
        /\ sim.stop \in Int /\ lab.stop \in Int /\ trade.target \in Int
        /\ lab'.stop \in Int
    BY <1>2, <1>3, <2>3 DEF Bar
  <2>5. CASE lab'.exit # None
    <3>1. sim'.exit # None => sim'.exit.bar = k
      BY <2>2 DEF JudgedV2, At
    <3> QED
      BY <1>1, <1>4, <1>7, <2>3, <2>5, <3>1 DEF LabInv, SearchLeads, SearchNotLast
  <2>6. CASE lab'.exit = None
    <3>1. b.low > lab.stop /\ b.high < trade.target
      BY <2>3, <2>4, <2>6
    <3>2. sim' = [stop |-> trail, exit |-> None]
      BY <2>1, <2>2, <2>4, <3>1 DEF JudgedV2
    <3>3. /\ trail \in Int
          /\ OneR(b.close) \/ sim.stop >= trade.entry
               => trail = Larger(sim.stop, Behind(trade, b.close, b.ema))
          /\ ~(OneR(b.close) \/ sim.stop >= trade.entry) => trail = sim.stop
      BY <1>2, <2>4, TrailV2Typed
    <3>4. Behind(trade, b.close, b.ema) \in {trade.entry, Smaller(b.ema, quarter)}
      BY <1>2, <2>4 DEF Behind, Larger, Quarter
    <3>5. quarter \in Int
      BY <1>2, <2>4 DEF Quarter
    <3> HIDE DEF trail, quarter
    <3>6. trail <= lab'.stop
      <4>1. CASE OneR(b.close) \/ sim.stop >= trade.entry
        <5>1. lab'.stop >= trade.entry
          BY <1>2, <2>1, <2>3, <2>4, <2>6, <4>1
        <5>2. Behind(trade, b.close, b.ema) \in Int /\ Behind(trade, b.close, b.ema) <= lab'.stop
          BY <1>2, <2>3, <2>4, <2>6, <3>4, <3>5, <5>1 DEF Smaller
        <5> QED
          BY <2>1, <2>3, <2>4, <3>3, <4>1, <5>2 DEF Larger
      <4>2. CASE ~(OneR(b.close) \/ sim.stop >= trade.entry)
        BY <2>1, <2>3, <2>4, <3>3, <4>2
      <4> QED
        BY <4>1, <4>2
    <3> QED
      BY <1>1, <1>7, <2>6, <3>2, <3>6 DEF LabInv, SearchLeads, SearchNotLast
  <2> QED
    BY <2>5, <2>6
<1>8. strategy \in {"orb", "multi_session"}
  BY DEF IInv, TypeOK
<1> QED
  BY <1>5, <1>6, <1>7, <1>8

LEMMA LabNext == IInv /\ LabInv /\ [Next]_vars => LabInv'
<1> SUFFICES ASSUME IInv, LabInv, [Next]_vars PROVE LabInv'
  OBVIOUS
<1>1. CASE \E bar \in Bars, ema \in Emas : Complete(bar, ema)
  BY <1>1, CompleteLab
<1>2. CASE Timeout
  <2>1. strategy = "orb" /\ UNCHANGED <<strategy, tape, lab>>
    BY <1>2 DEF Timeout
  <2> QED
    BY <2>1 DEF LabInv, SearchLeads, SearchNotLast
<1>3. CASE Look \/ Close \/ UNCHANGED vars
  <2>1. UNCHANGED <<strategy, tape, sim, lab>>
    BY <1>3 DEF Look, Close, vars
  <2> QED
    BY <2>1 DEF LabInv, SearchLeads, SearchNotLast
<1> QED
  BY <1>1, <1>2, <1>3 DEF Next

LEMMA LabInvariant == Spec => []LabInv
BY LabInit, LabNext, Invariant, PTL DEF Spec

(* The engine's stop is never tighter than the back-test's, whatever the   *)
(* bars, the EMAs, the slippage and the times of the engine's looks        *)
(* (execution.py _trailing_stop, _trailing_stop_v2).                       *)
THEOREM StopsAlwaysLag == Spec => []StopsLag
<1>1. IInv => StopsLag
  BY DEF IInv
<1> QED
  BY <1>1, Invariant, PTL

(* The engine never leaves a trade, by its own stop or target, at a bar    *)
(* through which the back-test holds it (paper_broker.py get_position).    *)
THEOREM NeverOutFirstEver == Spec => []NeverOutFirst
<1>1. IInv => NeverOutFirst
  BY DEF IInv
<1> QED
  BY <1>1, Invariant, PTL

(* The parameter search does not mirror the back-test, but where the two   *)
(* part it is always to the same side: the search's stop is never the      *)
(* looser, its exit never the later (research.py simulate).                *)
THEOREM SearchIsNeverLooser == Spec => [](SearchLeads /\ SearchNotLast)
<1>1. LabInv => SearchLeads /\ SearchNotLast
  BY DEF LabInv
<1> QED
  BY <1>1, LabInvariant, PTL

-----------------------------------------------------------------------------
(* With a look after every bar. *)

\* Between looks the back-test is where it was at the last, or one bar on.
InStep ==
    strategy = "multi_session" /\ even =>
        /\ seen = Len(tape) \/ seen + 1 = Len(tape)
        /\ live.exit = None /\ seen = Len(tape)
             => sim.exit = None /\ sim.stop = live.stop
        /\ live.exit = None /\ seen + 1 = Len(tape)
             => IF Len(tape) = 1 THEN sim.exit = None /\ sim.stop = live.stop
                ELSE sim = JudgedV2([stop |-> live.stop, exit |-> None], Len(tape), Last)

EInv == InStep /\ Reproduces

LEMMA EInvInit == Init => EInv
<1> SUFFICES ASSUME Init PROVE EInv
  OBVIOUS
<1>1. sim.exit = None /\ live.exit = None /\ sim.stop = live.stop
  BY DEF Init
<1>2. tape = <<>> /\ seen = 0 /\ Len(tape) = 0
  BY DEF Init
<1> QED
  BY <1>1, <1>2 DEF EInv, InStep, Reproduces

\* One bar more
LEMMA CompleteInStep ==
    ASSUME IInv, EInv, NEW bar \in Bars, NEW ema \in Emas, Complete(bar, ema)
    PROVE  EInv'
<1> DEFINE b == [open |-> bar.open, high |-> bar.high, low |-> bar.low,
                 close |-> bar.close, ema |-> ema]
<1>1. /\ tape' = Append(tape, b)
      /\ sim' = IF sim.exit = None THEN Judged(sim, Len(tape) + 1, b) ELSE sim
      /\ even' = (even /\ seen = Len(tape) /\ (Len(tape) + 1 = 1 => sim' = sim))
      /\ strategy' = strategy /\ trade' = trade /\ live' = live /\ seen' = seen
  BY DEF Complete
<1>2. tape \in Seq(Bar) /\ Len(tape) \in Nat /\ seen \in Nat
  BY DEF IInv, TypeOK, Bar
<1>3. b \in Bar
  BY ReplayAssumption DEF Bar
<1> HIDE DEF b
<1>4. Len(tape') = Len(tape) + 1 /\ Last' = b
  BY <1>1, <1>2, <1>3 DEF Last
<1> SUFFICES ASSUME strategy = "multi_session", even' PROVE EInv'
  BY <1>1 DEF EInv, InStep, Reproduces
<1>5. even /\ seen = Len(tape) /\ (Len(tape) + 1 = 1 => sim' = sim)
  BY <1>1
<1>6. seen' # Len(tape') /\ seen' + 1 = Len(tape')
  BY <1>1, <1>2, <1>4, <1>5
<1>7. ASSUME live.exit = None
      PROVE  IF Len(tape') = 1 THEN sim'.exit = None /\ sim'.stop = live.stop
             ELSE sim' = JudgedV2([stop |-> live.stop, exit |-> None], Len(tape'), b)
  <2>1. sim.exit = None /\ sim.stop = live.stop
    BY <1>5, <1>7 DEF EInv, InStep
  <2>2. sim' = JudgedV2(sim, Len(tape'), b)
    BY <1>1, <1>4, <2>1 DEF Judged
  <2>3. JudgedV2(sim, Len(tape'), b)
          = JudgedV2([stop |-> live.stop, exit |-> None], Len(tape'), b)
    BY <2>1 DEF JudgedV2
  <2> QED
    BY <1>4, <1>5, <2>1, <2>2, <2>3
<1>8. InStep'
  <2>1. JudgedV2([stop |-> live.stop, exit |-> None], Len(tape), Last)'
          = JudgedV2([stop |-> live.stop, exit |-> None], Len(tape'), b)
    BY <1>1, <1>4 DEF JudgedV2, With
  <2> QED
    BY <1>1, <1>6, <1>7, <2>1 DEF InStep
<1> QED
  BY <1>6, <1>8 DEF EInv, Reproduces

\* The bar that a look judges, when it looks after every bar
LEMMA NewInStep ==
    ASSUME IInv, InStep, strategy = "multi_session", even
    PROVE  /\ seen + 1 = Len(tape) /\ Len(tape) # 1 => New = {Len(tape)}
           /\ seen = Len(tape) \/ Len(tape) = 1 => New = {}
<1>1. Len(tape) \in Nat /\ seen \in Nat
  BY DEF IInv, TypeOK
<1>2. ASSUME seen + 1 = Len(tape), Len(tape) # 1 PROVE New = {Len(tape)}
  BY <1>1, <1>2 DEF New
<1>3. ASSUME seen = Len(tape) \/ Len(tape) = 1, NEW k \in New PROVE FALSE
  <2>1. k \in seen + 1..Len(tape) /\ k >= 2
    BY DEF New
  <2>2. k \in Int /\ k >= seen + 1 /\ k <= Len(tape)
    BY <1>1, <2>1
  <2>3. CASE seen = Len(tape)
    BY <1>1, <2>2, <2>3
  <2>4. CASE Len(tape) = 1
    BY <1>1, <2>1, <2>2, <2>4
  <2> QED
    BY <1>3, <2>3, <2>4
<1> QED
  BY <1>2, <1>3

\* A look that found no exit: the back-test has trailed to the same stop.
LEMMA TrailInStep ==
    ASSUME IInv, EInv, live.exit = None, Hits = {},
           strategy = "multi_session", even
    PROVE  sim.exit = None /\ sim.stop = Trailed(Price)
<1>1. /\ tape \in Seq(Bar) /\ Len(tape) \in Nat /\ seen \in Nat
      /\ live.stop \in Int /\ sim.stop \in Int /\ trade.target \in Int
      /\ trade \in [entry : Int, initial : Int, target : Int]
  BY DEF IInv, TypeOK, Bar
<1>2. /\ Price \in Int
      /\ Len(tape) >= 2 => Price = Last.close
      /\ Len(tape) < 2 => Price = trade.entry /\ live.stop = trade.initial
  BY PriceTyped
<1>3. Price = trade.entry \/ (tape # <<>> /\ Price = Last.close)
  BY <1>1, <1>2
<1>4. /\ Trailed(Price) \in Int /\ Trailed(Price) >= live.stop
      /\ Price = trade.entry /\ live.stop = trade.initial => Trailed(Price) = live.stop
      /\ sim.exit = None /\ tape # <<>> /\ Price = Last.close => Trailed(Price) <= sim.stop
  BY <1>2, <1>3, TrailedTyped
<1>5. /\ seen = Len(tape) \/ seen + 1 = Len(tape)
      /\ seen = Len(tape) => sim.exit = None /\ sim.stop = live.stop
      /\ seen + 1 = Len(tape) =>
           IF Len(tape) = 1 THEN sim.exit = None /\ sim.stop = live.stop
           ELSE sim = JudgedV2([stop |-> live.stop, exit |-> None], Len(tape), Last)
  BY DEF EInv, InStep
<1>6. CASE Len(tape) < 2
  <2>1. Price = trade.entry /\ live.stop = trade.initial
    BY <1>2, <1>6
  <2>2. Trailed(Price) = live.stop
    BY <1>4, <2>1
  <2>3. seen = Len(tape) \/ (seen + 1 = Len(tape) /\ Len(tape) = 1)
    <3> DEFINE n == Len(tape)
    <3>1. n \in Nat /\ seen \in Nat /\ n < 2
      BY <1>1, <1>6
    <3>2. seen = n \/ seen + 1 = n
      BY <1>5
    <3> HIDE DEF n
    <3>3. seen = n \/ (seen + 1 = n /\ n = 1)
      BY <3>1, <3>2
    <3> QED
      BY <3>3 DEF n
  <2>4. sim.exit = None /\ sim.stop = live.stop
    BY <1>5, <2>3
  <2> QED
    BY <2>2, <2>4
<1>7. CASE Len(tape) >= 2 /\ seen = Len(tape)
  <2>1. tape # <<>>
    BY <1>1, <1>7
  <2> QED
    BY <1>1, <1>2, <1>4, <1>5, <1>7, <2>1
<1>8. CASE Len(tape) >= 2 /\ seen # Len(tape)
  <2>1. seen + 1 = Len(tape) /\ Len(tape) # 1 /\ tape # <<>>
    <3>1. seen + 1 = Len(tape)
      BY <1>5, <1>8
    <3>2. Len(tape) # 1 /\ Len(tape) # 0
      <4> DEFINE n == Len(tape)
      <4>1. n \in Nat /\ n >= 2
        BY <1>1, <1>8
      <4> HIDE DEF n
      <4>2. n # 1 /\ n # 0
        BY <4>1
      <4> QED
        BY <4>2 DEF n
    <3>3. tape # <<>>
      BY <1>1, <3>2
    <3> QED
      BY <3>1, <3>2, <3>3
  <2>2. New = {Len(tape)}
    BY <2>1, NewInStep DEF EInv
  <2>3. Last \in Bar
    BY <1>1, <2>1 DEF Last
  <2>4. /\ Last.low \in Int /\ Last.high \in Int
        /\ Last.close \in Int /\ Last.ema \in Nat
    BY <2>3 DEF Bar
  <2>5. ~(Last.low <= live.stop) /\ ~(Last.high >= trade.target)
    <3>1. ~StopHit(Position(live.stop), Last) /\ ~TargetHit(Position(live.stop), Last)
      BY <2>2 DEF Hits, Last
    <3> QED
      BY <3>1 DEF StopHit, TargetHit, Position
  <2> DEFINE new == TrailV2(With(live.stop), Last.close, Last.ema)
  <2>6. sim = [stop |-> new, exit |-> None]
    BY <1>5, <2>1, <2>5 DEF JudgedV2
  <2>7. Trailed(Price) = Larger(live.stop, new)
    BY <1>2, <1>8, <2>1 DEF Trailed, NewStop, Last
  <2>8. new \in Int /\ new >= live.stop
    <3>1. Risky
      BY DEF IInv
    <3> HIDE DEF new
    <3>2. new = TrailV2(With(live.stop), Last.close, Last.ema)
      BY DEF new
    <3> QED
      BY <1>1, <2>4, <3>1, <3>2, TrailV2Typed
  <2> HIDE DEF new
  <2> QED
    BY <1>1, <2>6, <2>7, <2>8 DEF Larger
<1> QED
  BY <1>1, <1>6, <1>7, <1>8

\* A look that found an exit: the back-test's
LEMMA StoppedInStep ==
    ASSUME IInv, EInv, live.exit = None, Stopped,
           strategy = "multi_session", even
    PROVE  live'.exit = sim.exit
<1>1. PICK k \in Hits :
         live' = [live EXCEPT !.price = tape[k].close,
                    !.exit = At(k, FillOf(Position(live.stop), tape[k]))]
  BY DEF Stopped
<1>2. /\ Len(tape) \in Nat /\ seen \in Nat
      /\ live \in [stop : Int, price : Int, exit : Outcome]
  BY DEF IInv, TypeOK, Outcome
<1>3. k \in New
  BY DEF Hits
<1>4. seen + 1 = Len(tape) /\ Len(tape) # 1
  BY <1>2, <1>3, NewInStep DEF EInv, InStep
<1>5. k = Len(tape) /\ tape[k] = Last
  BY <1>3, <1>4, NewInStep DEF EInv, Last
<1>6. sim = JudgedV2([stop |-> live.stop, exit |-> None], Len(tape), Last)
  BY <1>4 DEF EInv, InStep
<1>7. live'.exit = At(Len(tape), FillOf(Position(live.stop), Last))
  BY <1>1, <1>2, <1>5
<1>8. StopHit(Position(live.stop), Last) \/ TargetHit(Position(live.stop), Last)
  BY <1>5 DEF Hits
<1>9. CASE Last.low <= live.stop
  BY <1>6, <1>7, <1>9 DEF JudgedV2, FillOf, StopHit, Position
<1>10. CASE ~(Last.low <= live.stop)
  <2>1. Last.high >= trade.target
    BY <1>8, <1>10 DEF StopHit, TargetHit, Position
  <2> QED
    BY <1>6, <1>7, <1>10, <2>1 DEF JudgedV2, FillOf, StopHit, Position
<1> QED
  BY <1>9, <1>10

\* Any look leaves the two in step.
LEMMA LookInStep ==
    ASSUME IInv, EInv, Look \/ Close
    PROVE  EInv'
<1>1. /\ live.exit = None /\ seen' = Len(tape) /\ Len(tape) \in Nat
      /\ strategy' = strategy /\ trade' = trade /\ tape' = tape /\ sim' = sim /\ even' = even
  BY DEF Look, Close, IInv, TypeOK
<1> SUFFICES ASSUME strategy = "multi_session", even PROVE EInv'
  BY <1>1 DEF EInv, InStep, Reproduces
<1>2. live \in [stop : Int, price : Int, exit : Outcome]
  BY DEF IInv, TypeOK, Outcome
<1>3. seen' = Len(tape') /\ seen' + 1 # Len(tape')
  BY <1>1
<1>4. CASE Stopped /\ Look
  <2>1. live'.exit = sim.exit
    BY <1>1, <1>4, StoppedInStep
  <2>2. live'.exit # None
    <3>1. PICK k \in Hits :
             live' = [live EXCEPT !.price = tape[k].close,
                        !.exit = At(k, FillOf(Position(live.stop), tape[k]))]
      BY <1>4 DEF Stopped
    <3>2. k \in Nat /\ k # 0
      BY <1>1 DEF Hits, New, IInv, TypeOK
    <3> QED
      BY <1>2, <3>1, <3>2 DEF At, None
  <2> QED
    BY <1>1, <1>3, <2>1, <2>2 DEF EInv, InStep, Reproduces
<1>5. CASE Hits = {} /\ live'.stop = Trailed(Price) /\ (live'.exit = None \/ live'.exit.bar = 0)
  <2>1. sim.exit = None /\ sim.stop = Trailed(Price)
    BY <1>1, <1>5, TrailInStep
  <2>2. InStep'
    BY <1>1, <1>3, <1>5, <2>1 DEF InStep
  <2>3. Reproduces'
    BY <1>1, <1>5, <2>1 DEF Reproduces, Forced
  <2> QED
    BY <2>2, <2>3 DEF EInv
<1>6. \/ Stopped /\ Look
      \/ Hits = {} /\ live'.stop = Trailed(Price) /\ (live'.exit = None \/ live'.exit.bar = 0)
  <2>1. CASE Look
    BY <1>1, <1>2, <2>1 DEF Look
  <2>2. CASE Close
    <3>1. /\ Hits = {}
          /\ live' = [stop |-> Trailed(Price), price |-> Price, exit |-> At(0, Exit(Price))]
      BY <2>2 DEF Close
    <3>2. live'.stop = Trailed(Price) /\ live'.exit = At(0, Exit(Price))
      BY <3>1
    <3>3. At(0, Exit(Price)).bar = 0
      BY DEF At
    <3> QED
      BY <3>1, <3>2, <3>3
  <2> QED
    BY <2>1, <2>2
<1> QED
  BY <1>4, <1>5, <1>6

LEMMA EInvNext == IInv /\ EInv /\ [Next]_vars => EInv'
<1> SUFFICES ASSUME IInv, EInv, [Next]_vars PROVE EInv'
  OBVIOUS
<1>1. CASE \E bar \in Bars, ema \in Emas : Complete(bar, ema)
  BY <1>1, CompleteInStep
<1>2. CASE Timeout
  <2>1. strategy' = "orb"
    BY <1>2 DEF Timeout
  <2> QED
    BY <2>1 DEF EInv, InStep, Reproduces
<1>3. CASE Look \/ Close
  BY <1>3, LookInStep
<1>4. CASE UNCHANGED vars
  <2>1. /\ strategy' = strategy /\ trade' = trade /\ tape' = tape /\ sim' = sim
        /\ live' = live /\ seen' = seen /\ even' = even
    BY <1>4 DEF vars
  <2>2. JudgedV2([stop |-> live.stop, exit |-> None], Len(tape), Last)'
          = JudgedV2([stop |-> live.stop, exit |-> None], Len(tape), Last)
    BY <2>1 DEF JudgedV2, With, Last
  <2> QED
    BY <2>1, <2>2 DEF EInv, InStep, Reproduces, Forced
<1> QED
  BY <1>1, <1>2, <1>3, <1>4 DEF Next

(* An engine that looks after every bar, and whose first bar touched       *)
(* nothing, leaves a V2 trade where its back-test does.                    *)
THEOREM ReproducesAlways == Spec => []Reproduces
<1>1. EInv => Reproduces
  BY DEF EInv
<1> QED
  BY <1>1, EInvInit, EInvNext, Invariant, PTL DEF Spec
===============================================================================
