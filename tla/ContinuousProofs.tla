--------------------------- MODULE ContinuousProofs ---------------------------
(***************************************************************************)
(* Theorems about ContinuousPaper for all values of its constants: any     *)
(* sizes, sessions, contracts and tapes, any number of crashes, restarts,  *)
(* outages, rolls and halts.  What relates the two ledgers of a scenario,  *)
(* Agree, is in LedgerProofs; here it is the service around them.          *)
(***************************************************************************)
EXTENDS ContinuousPaper, LedgerProofs

(***************************************************************************)
(* Control: the agenda and the receipts                                    *)
(***************************************************************************)
Queued(ops)       == Has(agenda, ops)
QueuedFor(ops, s) == HasFor(agenda, ops, s)

Last == receipts[Len(receipts)]

\* One receipt at a time: the last, which is unapplied while its steps are queued.
ReceiptsInOrder ==
    /\ \A i, j \in DOMAIN receipts : i < j => receipts[i].bar.ts < receipts[j].bar.ts
    /\ \A i \in DOMAIN receipts : receipts[i].bar.ts <= now
    /\ \A i \in DOMAIN receipts : ~receipts[i].applied => i = Len(receipts)

\* A receipt that is left unapplied is resumed at the next start, and until then
\* nothing is received.
ReceiptQueued ==
    /\ Queued(ApplyOps) => Unapplied # {}
    /\ Queued(TradeOps) => Last.disposition = "accepted"
    /\ Queued({"advance", "step", "decide", "opportunity"}) => Queued({"applied"})
    /\ phase = "running" /\ Queued(ApplyOps) /\ Last.disposition = "accepted"
          => now = Last.bar.ts + 1
    /\ phase = "running" /\ Unapplied # {} =>
          \/ Queued(ApplyOps \cup {"raise"})
          \/ ~feed /\ (hard \/ Doing("hard_halt"))
    /\ phase = "starting" /\ Unapplied # {} => Queued(ApplyOps \cup {"raise", "resume"})

ControlTyped ==
    /\ receipts \in Seq(Receipt)
    /\ contract \in Contracts \cup {"none"}
    /\ hard \in BOOLEAN
    /\ audits \subseteq [day : Nat, unresolved : BOOLEAN]
    /\ opportunities \subseteq [day : Nat, eligible : BOOLEAN]
    /\ phase \in {"starting", "running", "down", "broken"}
    /\ agenda \in Seq(Agenda)
    /\ feed \in BOOLEAN /\ now \in Nat /\ faults \in Nat

Control ==
    /\ ControlTyped /\ InOrder(agenda) /\ ReceiptsInOrder /\ ReceiptQueued
    /\ phase \in {"down", "broken"} => agenda = <<>>
    /\ phase = "running" => ~Queued({"resume", "started"})

(***************************************************************************)
(* The ledgers                                                             *)
(***************************************************************************)
\* The brokers advance over received bars; a worker decides on a bar after its
\* broker has advanced over it and it has been reconciled.
InStep ==
    /\ \A s \in Scenario : sim[s].bars \subseteq {Event(receipts[i].bar) : i \in DOMAIN receipts}
    /\ \A s \in Scenario : QueuedFor({"step", "decide"}, s) /\ ~QueuedFor({"advance"}, s)
          => Event(Last.bar) \in sim[s].bars
    /\ Doing("decide") => w[For].fills = sim[For].fills
    /\ Doing("acknowledge") => Pending(w[For]) # {}

\* An entry decided late, when a start resumes a receipt, is of the last receipt and
\* is cancelled before another is received.
LateCancelled ==
    \A s \in Scenario : \A k \in DOMAIN w[s].intents :
        LET req == w[s].intents[k].req IN
        Live(sim[s], w[s], k) /\ req.submitted + Latency < req.eligible =>
            /\ req.submitted = LastTs + 1
            /\ phase = "running" => Cancelling(agenda, s, k \notin DOMAIN sim[s].orders)

Ledgers ==
    /\ sim \in [Scenario -> SimLedger] /\ w \in [Scenario -> WorkerLedger]
    /\ \A s \in Scenario : Agree(sim[s], w[s])
    /\ InStep /\ LateCancelled

(***************************************************************************)
(* Both scenarios, and the receipts                                        *)
(***************************************************************************)
Taking == Unapplied # {} /\ Last.disposition = "accepted"

\* What was traded both have processed; beyond it only the receipt in hand.
Processed ==
    /\ \A s \in Scenario : TradedBars \subseteq w[s].bars
    /\ \A s \in Scenario : sim[s].bars \subseteq TradedBars
                               \cup (IF Taking THEN {Event(Last.bar)} ELSE {})
    /\ \A s \in Scenario :
          Taking /\ Queued({"opportunity", "applied"}) /\ ~QueuedFor({"advance", "step", "decide"}, s)
          => Event(Last.bar) \in w[s].bars
    /\ \A s \in Scenario : QueuedFor({"decide"}, s) => Event(Last.bar) \notin w[s].bars
    /\ \A s \in Scenario : QueuedFor({"advance"}, s) => QueuedFor({"step"}, s)

\* A receipt that cannot be applied leaves no trace in a ledger.
Untouched ==
    /\ Queued({"pin", "advance", "step", "decide", "opportunity"}) /\ ~Queued({"pin"})
          => contract = Last.bar.contract
    /\ Queued({"flat", "exclude"}) => contract # "none" /\ contract # Last.bar.contract
    /\ \A s \in Scenario : Taking /\ Event(Last.bar) \in sim[s].bars
                           => contract = Last.bar.contract
    /\ \A s \in Scenario : phase = "running" /\ Taking /\ ~Queued(ApplyOps)
                           => Event(Last.bar) \notin sim[s].bars

Service == Control /\ Ledgers /\ Processed /\ Untouched

(* A step that only takes the head off the agenda and puts ops in its      *)
(* place leaves the control in order.                                      *)
LEMMA StepControl ==
    ASSUME Control, agenda # <<>>, NEW ops \in Seq(Agenda), InOrder(ops),
           agenda' = ops \o Tail(agenda),
           \A i \in DOMAIN ops, j \in DOMAIN agenda : j # 1 => MayFollow(ops[i], agenda[j]),
           agenda[1].do = "reconcile" => ops = <<>>,
           receipts' = receipts, phase' = phase, feed' = feed, now' = now, faults' = faults,
           contract' \in Contracts \cup {"none"}, hard' \in BOOLEAN, hard => hard',
           audits' \subseteq [day : Nat, unresolved : BOOLEAN],
           opportunities' \subseteq [day : Nat, eligible : BOOLEAN],
           Has(ops, ApplyOps) => Unapplied # {} /\ Has(agenda, ApplyOps \cup {"resume"}),
           Has(ops, TradeOps) => Last.disposition = "accepted",
           phase = "running" /\ Has(ops, ApplyOps) => Has(agenda, ApplyOps),
           Has(ops, Attempted) => Has(ops, {"applied"}) \/ Behind(agenda, {"applied"}),
           agenda[1].do \in ApplyOps \cup {"raise"} /\ Unapplied # {} =>
               Has(ops, ApplyOps \cup {"raise"}) \/ Behind(agenda, ApplyOps \cup {"raise"}),
           agenda[1].do = "resume" /\ Unapplied # {} => Has(ops, ApplyOps \cup {"raise", "resume"}),
           agenda[1].do = "hard_halt" => hard',
           phase = "running" => ~Has(ops, {"resume", "started"})
    PROVE  Control'
<1>1. /\ ControlTyped /\ InOrder(agenda) /\ ReceiptsInOrder /\ ReceiptQueued
      /\ agenda \in Seq(Agenda)
  BY DEF Control, ControlTyped
<1>2. PICK q : agenda' = q
  OBVIOUS
<1>3. ops \o Tail(agenda) = q
  BY <1>2
<1>4. InOrder(q)
  BY <1>1, <1>3, ReplacedInOrder
<1>5. q \in Seq(Agenda)
  <2>1. Spliced(agenda, ops, q)
    BY <1>1, <1>3, Replaced
  <2> QED
    BY <2>1 DEF Spliced
<1>6. /\ \A some : Has(q, some) <=> Has(ops, some) \/ Behind(agenda, some)
      /\ \A some : Has(agenda, some) <=> agenda[1].do \in some \/ Behind(agenda, some)
  <2>1. /\ \A some : Has(q, some) <=> Has(ops, some) \/ Behind(agenda, some)
        /\ \A some, s : HasFor(q, some, s) <=> HasFor(ops, some, s) \/ BehindFor(agenda, some, s)
        /\ \A some : Has(agenda, some) <=> agenda[1].do \in some \/ Behind(agenda, some)
        /\ \A some, s : HasFor(agenda, some, s) <=> \/ agenda[1].do \in some /\ agenda[1].for = s
                                                    \/ BehindFor(agenda, some, s)
    BY <1>1, <1>3, ReplacedHas
  <2> QED
    BY <2>1
<1>7. ControlTyped'
  BY <1>1, <1>2, <1>5 DEF ControlTyped
<1>8. ReceiptsInOrder' /\ Unapplied' = Unapplied /\ Last' = Last
  BY <1>1 DEF ReceiptsInOrder, Unapplied, Last
<1>9. /\ Has(q, ApplyOps) => Unapplied # {}
      /\ Has(q, TradeOps) => Last.disposition = "accepted"
      /\ phase = "running" /\ Has(q, ApplyOps) => Has(agenda, ApplyOps)
  BY <1>1, <1>6 DEF ReceiptQueued, Queued
<1>10. Has(q, Attempted) => Has(q, {"applied"})
  <2>1. CASE Has(ops, Attempted)
    BY <1>6, <2>1
  <2>2. CASE Behind(agenda, Attempted)
    <3>1. Has(agenda, {"applied"})
      BY <1>1, <1>6, <2>2 DEF ReceiptQueued, Queued, Attempted
    <3>2. agenda[1].do = "applied" => ~Behind(agenda, ApplyOps)
      BY <1>1, BehindHead
    <3>3. Behind(agenda, Attempted) => Behind(agenda, ApplyOps)
      BY DEF Behind, Attempted, ApplyOps, TradeOps
    <3>4. agenda[1].do # "applied"
      BY <2>2, <3>2, <3>3
    <3>5. Behind(agenda, {"applied"})
      BY <1>6, <3>1, <3>4
    <3> QED
      BY <1>6, <3>5
  <2> QED
    BY <1>6, <2>1, <2>2
<1>11. ASSUME phase = "running", Unapplied # {}
       PROVE  \/ Has(q, ApplyOps \cup {"raise"})
              \/ ~feed /\ (hard' \/ (q # <<>> /\ Head(q).do = "hard_halt"))
  <2>1. CASE Has(agenda, ApplyOps \cup {"raise"})
    BY <1>6, <1>11, <2>1
  <2>2. CASE ~feed /\ (hard \/ Doing("hard_halt"))
    <3>1. Head(agenda) = agenda[1]
      BY <1>1
    <3>2. hard'
      BY <2>2, <3>1 DEF Doing
    <3> QED
      BY <2>2, <3>2
  <2> QED
    BY <1>1, <1>11, <2>1, <2>2 DEF ReceiptQueued, Queued
<1>12. ASSUME phase = "starting", Unapplied # {}
       PROVE  Has(q, ApplyOps \cup {"raise", "resume"})
  <2>1. Has(agenda, ApplyOps \cup {"raise", "resume"})
    BY <1>1, <1>12 DEF ReceiptQueued, Queued
  <2>2. \A some : Has(ops, some) => Has(ops, some \cup {"resume"})
    BY DEF Has
  <2>3. \A some : Behind(agenda, some) => Behind(agenda, some \cup {"resume"})
    BY DEF Behind
  <2>4. (ApplyOps \cup {"raise"}) \cup {"resume"} = ApplyOps \cup {"raise", "resume"}
    OBVIOUS
  <2>5. CASE agenda[1].do \in ApplyOps \cup {"raise"}
    BY <1>6, <1>12, <2>2, <2>3, <2>4, <2>5
  <2>6. CASE agenda[1].do = "resume"
    BY <1>6, <1>12, <2>6
  <2>7. CASE Behind(agenda, ApplyOps \cup {"raise", "resume"})
    BY <1>6, <2>7
  <2> QED
    BY <1>6, <2>1, <2>5, <2>6, <2>7
<1>13. ReceiptQueued'
  <2>1. Queued(ApplyOps)' => Unapplied' # {}
    BY <1>2, <1>8, <1>9 DEF Queued
  <2>2. Queued(TradeOps)' => Last'.disposition = "accepted"
    BY <1>2, <1>8, <1>9 DEF Queued
  <2>3. Queued({"advance", "step", "decide", "opportunity"})' => Queued({"applied"})'
    BY <1>2, <1>10 DEF Queued, Attempted
  <2>4. phase' = "running" /\ Queued(ApplyOps)' /\ Last'.disposition = "accepted"
           => now' = Last'.bar.ts + 1
    BY <1>1, <1>2, <1>8, <1>9 DEF Queued, ReceiptQueued
  <2>5. phase' = "running" /\ Unapplied' # {} =>
           Queued(ApplyOps \cup {"raise"})' \/ (~feed' /\ (hard' \/ Doing("hard_halt")'))
    BY <1>2, <1>8, <1>11 DEF Queued, Doing
  <2>6. phase' = "starting" /\ Unapplied' # {} => Queued(ApplyOps \cup {"raise", "resume"})'
    BY <1>2, <1>8, <1>12 DEF Queued
  <2> QED
    BY <2>1, <2>2, <2>3, <2>4, <2>5, <2>6 DEF ReceiptQueued
<1>14. phase' \notin {"down", "broken"}
  BY DEF Control
<1>15. phase' = "running" => ~Queued({"resume", "started"})'
  BY <1>2, <1>6 DEF Control, Queued
<1> QED
  BY <1>2, <1>4, <1>7, <1>8, <1>13, <1>14, <1>15 DEF Control

(* A step that starts another call, or none, while no receipt is in hand   *)
(* or the one in hand stays for the next start.                            *)
LEMMA ResetControl ==
    ASSUME Control, receipts' = receipts, ControlTyped', InOrder(agenda'), now <= now',
           ~Has(agenda', ApplyOps),
           phase' = "running" /\ Unapplied # {} =>
               Has(agenda', {"raise"}) \/ (~feed' /\ (hard' \/ Doing("hard_halt")')),
           phase' = "starting" /\ Unapplied # {} => Has(agenda', {"resume"}),
           phase' \in {"down", "broken"} => agenda' = <<>>,
           phase' = "running" => ~Has(agenda', {"resume", "started"})
    PROVE  Control'
<1>1. ReceiptsInOrder /\ ControlTyped
  BY DEF Control
<1>2. ReceiptsInOrder' /\ Unapplied' = Unapplied /\ Last' = Last
  <2>1. now \in Nat /\ now' \in Nat
    BY <1>1 DEF ControlTyped
  <2>2. \A i \in DOMAIN receipts : receipts[i].bar.ts \in Nat
    <3>1. \A i \in DOMAIN receipts : receipts[i] \in Receipt
      BY <1>1, ElementOfSeq, LenProperties DEF ControlTyped
    <3> QED
      BY <3>1 DEF Receipt, MarketBar
  <2> QED
    BY <1>1, <2>1, <2>2 DEF ReceiptsInOrder, Unapplied, Last
<1>3. /\ Has(agenda', {"raise"}) => Has(agenda', ApplyOps \cup {"raise"})
      /\ Has(agenda', {"resume"}) => Has(agenda', ApplyOps \cup {"raise", "resume"})
      /\ Has(agenda', TradeOps) => Has(agenda', ApplyOps)
      /\ Has(agenda', {"advance", "step", "decide", "opportunity"}) => Has(agenda', ApplyOps)
  BY DEF Has, ApplyOps, TradeOps
<1>4. ReceiptQueued'
  <2>1. ~Queued(ApplyOps)' /\ ~Queued(TradeOps)'
        /\ ~Queued({"advance", "step", "decide", "opportunity"})'
    BY <1>3 DEF Queued
  <2>2. phase' = "running" /\ Unapplied' # {} =>
           Queued(ApplyOps \cup {"raise"})' \/ (~feed' /\ (hard' \/ Doing("hard_halt")'))
    BY <1>2, <1>3 DEF Queued
  <2>3. phase' = "starting" /\ Unapplied' # {} => Queued(ApplyOps \cup {"raise", "resume"})'
    BY <1>2, <1>3 DEF Queued
  <2> QED
    BY <2>1, <2>2, <2>3 DEF ReceiptQueued
<1>5. phase' = "running" => ~Queued({"resume", "started"})'
  BY DEF Queued
<1> QED
  BY <1>2, <1>4, <1>5 DEF Control

(* What is known when nothing is being processed.                          *)
LEMMA IdleControl ==
    ASSUME Control, agenda = <<>>
    PROVE  /\ phase = "running" /\ Unapplied # {} => ~feed /\ hard
           /\ phase # "starting" \/ Unapplied = {}
<1>1. \A some : ~Has(agenda, some)
  BY EmptyAgenda
<1>2. ~Doing("hard_halt")
  BY DEF Doing
<1> QED
  BY <1>1, <1>2 DEF Control, ReceiptQueued, Queued

(* The receipt in hand is the last.                                        *)
LEMMA CurrentLast ==
    ASSUME Control, Unapplied # {}
    PROVE  /\ Current = Len(receipts) /\ Unapplied = {Len(receipts)}
           /\ Len(receipts) \in DOMAIN receipts /\ DOMAIN receipts = 1..Len(receipts)
           /\ Len(receipts) \in Nat
           /\ bar = Last.bar /\ Last \in Receipt /\ bar \in MarketBar
           /\ Event(bar) \in Bar /\ bar.ts \in Nat /\ bar.contract \in Contracts /\ bar.ts <= now
<1>1. receipts \in Seq(Receipt) /\ ReceiptsInOrder
  BY DEF Control, ControlTyped
<1>2. /\ DOMAIN receipts = 1..Len(receipts) /\ Len(receipts) \in Nat
      /\ \A i \in DOMAIN receipts : receipts[i] \in Receipt
  BY <1>1, LenProperties, ElementOfSeq
<1>3. Unapplied = {Len(receipts)} /\ Len(receipts) \in DOMAIN receipts
  BY <1>1 DEF Unapplied, ReceiptsInOrder
<1>4. Current = Len(receipts)
  <2>1. \E i \in Unapplied : \A j \in Unapplied : i <= j
    BY <1>2, <1>3
  <2>2. Current \in Unapplied
    BY <2>1 DEF Current
  <2> QED
    BY <1>3, <2>2
<1>5. bar = Last.bar /\ Last \in Receipt
  BY <1>2, <1>3, <1>4 DEF bar, Last
<1>6. bar \in MarketBar /\ bar.ts <= now
  BY <1>1, <1>3, <1>5 DEF Receipt, ReceiptsInOrder, Last
<1>7. Event(bar) \in Bar /\ bar.ts \in Nat /\ bar.contract \in Contracts
  BY <1>6 DEF MarketBar, Event, Bar
<1> QED
  BY <1>2, <1>3, <1>4, <1>5, <1>6, <1>7

LEMMA RaiseControl ==
    ASSUME Control, agenda # <<>>, Raise
    PROVE  /\ Control' /\ ~Queued(ApplyOps \cup {"acknowledge"})'
           /\ phase' = "running" => \A s \in Scenario : Cancelling(agenda', s, TRUE)
<1> USE DEF Raise
<1>1. /\ receipts' = receipts /\ contract' = contract /\ hard' = hard /\ audits' = audits
      /\ opportunities' = opportunities /\ now' = now /\ faults' = faults /\ feed' = FALSE
  BY DEF tables
<1>2. ControlTyped /\ phase \in {"starting", "running"}
  BY DEF Control, ControlTyped
<1>3. CASE phase = "starting"
  <2>1. phase' = "broken" /\ agenda' = <<>>
    BY <1>3
  <2>2. agenda' \in Seq(Agenda) /\ InOrder(agenda') /\ \A some : ~Has(agenda', some)
    BY <2>1, EmptyAgenda
  <2>3. ControlTyped'
    BY <1>1, <1>2, <2>1, <2>2 DEF ControlTyped
  <2>4. now <= now'
    BY <1>1, <1>2 DEF ControlTyped
  <2>5. Control'
    BY <1>1, <2>1, <2>2, <2>3, <2>4, ResetControl
  <2> QED
    BY <2>1, <2>2, <2>5 DEF Queued
<1>4. CASE phase # "starting"
  <2>1. PICK p : HaltDay(DayOf(now), TRUE) = p
    OBVIOUS
  <2>2. PICK r : HaltDay(DayOf(now), FALSE) = r
    OBVIOUS
  <2>3. PICK q : p \o r = q
    OBVIOUS
  <2>4. agenda' = q /\ phase' = phase /\ phase = "running"
    BY <1>2, <1>4, <2>1, <2>2, <2>3
  <2>5. DayOf(now) \in Nat
    BY <1>2, DayNat DEF ControlTyped
  <2>6. Plain(p) /\ p # <<>> /\ p[1] = [do |-> "hard_halt"]
    BY <2>1, <2>5, HaltDayShape
  <2>7. Plain(r)
    BY <2>2, <2>5, HaltDayShape
  <2>8. Plain(q) /\ q # <<>> /\ q[1] = p[1]
    BY <2>3, <2>6, <2>7, PlainConcat
  <2>9. q \in Seq(Agenda) /\ InOrder(q) /\ ~Has(q, ApplyOps) /\ ~Has(q, {"resume", "started"})
        /\ ~Has(q, ApplyOps \cup {"acknowledge"})
    <3>1. /\ ApplyOps \cap PlainOps = {} /\ {"resume", "started"} \cap PlainOps = {}
          /\ (ApplyOps \cup {"acknowledge"}) \cap PlainOps = {}
      BY DEF ApplyOps, TradeOps, PlainOps, HaltOps
    <3> QED
      BY <2>8, <3>1, PlainInOrder
  <2>10. Doing("hard_halt")'
    <3>1. Head(q) = q[1]
      BY <2>8, <2>9
    <3>2. Head(q).do = "hard_halt"
      BY <2>6, <2>8, <3>1
    <3>3. (agenda # <<>>)' /\ Head(agenda)'.do = "hard_halt"
      BY <2>4, <2>8, <3>2
    <3> QED
      BY <3>3 DEF Doing
  <2>11. ControlTyped'
    BY <1>1, <1>2, <2>4, <2>9 DEF ControlTyped
  <2>12. now <= now'
    BY <1>1, <1>2 DEF ControlTyped
  <2>13. Control'
    BY <1>1, <2>4, <2>9, <2>10, <2>11, <2>12, ResetControl
  <2>14. ASSUME NEW s \in Scenario
         PROVE  Cancelling(q, s, TRUE)
    <3>1. PICK i \in DOMAIN p, j \in DOMAIN p :
            /\ j < i /\ p[i] = [do |-> "cancel", for |-> s]
            /\ p[j] = [do |-> "dispatch", for |-> s]
      <4>1. Cancelling(p, s, TRUE)
        BY <2>1, <2>5, HaltDayShape
      <4> QED
        BY <4>1 DEF Cancelling
    <3>2. i \in DOMAIN q /\ q[i] = p[i] /\ j \in DOMAIN q /\ q[j] = p[j]
      BY <2>3, <2>6, <2>7, PlainConcat
    <3> QED
      BY <3>1, <3>2 DEF Cancelling
  <2> QED
    BY <2>4, <2>9, <2>13, <2>14 DEF Queued
<1> QED
  BY <1>3, <1>4

\* What a step on the agenda leaves alone.
Still == UNCHANGED <<receipts, phase, feed, now, faults>>

Recorded ==
    /\ contract' \in Contracts \cup {"none"} /\ hard' \in BOOLEAN /\ (hard => hard')
    /\ audits' \subseteq [day : Nat, unresolved : BOOLEAN]
    /\ opportunities' \subseteq [day : Nat, eligible : BOOLEAN]

LEMMA UnchangedRecorded ==
    ASSUME Control, UNCHANGED tables
    PROVE  Recorded /\ receipts' = receipts
BY DEF Control, ControlTyped, tables, Recorded

LEMMA HeadIs ==
    ASSUME Control, NEW do, Doing(do)
    PROVE  /\ agenda # <<>> /\ agenda \in Seq(Agenda) /\ InOrder(agenda) /\ 1 \in DOMAIN agenda
           /\ Head(agenda) = agenda[1] /\ agenda[1].do = do
           /\ \A ops : do \in ops => Has(agenda, ops)
           /\ phase \in {"starting", "running"}
<1>1. agenda # <<>> /\ agenda \in Seq(Agenda) /\ InOrder(agenda)
  BY DEF Doing, Control, ControlTyped
<1>2. 1 \in DOMAIN agenda /\ Head(agenda) = agenda[1]
  BY <1>1, LenProperties, EmptySeq
<1> QED
  BY <1>1, <1>2 DEF Doing, Has, Control, ControlTyped

(* The head is done.                                                       *)
LEMMA PopControl ==
    ASSUME Control, agenda # <<>>, Then(<<>>), Still, Recorded,
           agenda[1].do \notin FirstOps \cup {"applied"},
           agenda[1].do = "resume" => Unapplied = {},
           agenda[1].do = "hard_halt" => hard'
    PROVE  Control'
<1>1. agenda \in Seq(Agenda) /\ InOrder(agenda) /\ ReceiptQueued
  BY DEF Control, ControlTyped
<1> DEFINE ops == <<>>
<1>2. ops \in Seq(Agenda) /\ InOrder(ops) /\ (\A some : ~Has(ops, some)) /\ DOMAIN ops = {}
  BY EmptyAgenda
<1>3. agenda' = ops \o Tail(agenda)
  BY DEF Then
<1> HIDE DEF ops
<1>4. agenda[1].do \in ApplyOps \cup {"raise"} => Behind(agenda, ApplyOps \cup {"raise"})
  <2> SUFFICES ASSUME agenda[1].do \in ApplyOps \cup {"raise"}
               PROVE  Behind(agenda, ApplyOps \cup {"raise"})
    OBVIOUS
  <2>1. agenda[1].do \in Attempted
    BY DEF ApplyOps, TradeOps, Attempted, FirstOps
  <2>2. \A some : Has(agenda, some) <=> agenda[1].do \in some \/ Behind(agenda, some)
    BY <1>1, LenProperties, EmptySeq DEF Has, Behind
  <2>3. Behind(agenda, {"applied"})
    BY <1>1, <2>1, <2>2 DEF ReceiptQueued, Queued, Attempted
  <2> QED
    BY <2>3 DEF Behind, ApplyOps
<1>5. /\ receipts' = receipts /\ phase' = phase /\ feed' = feed /\ now' = now /\ faults' = faults
  BY DEF Still
<1>6. agenda[1].do = "reconcile" => ops = <<>>
  BY DEF ops
<1> QED
  BY <1>1, <1>2, <1>3, <1>4, <1>5, <1>6, StepControl DEF Recorded

(* The head, the first step of a receipt, gives way to its next ones.      *)
LEMMA FirstControl ==
    ASSUME Control, agenda # <<>>, agenda[1].do \in FirstOps \ {"raise"},
           NEW ops \in Seq(Agenda), Then(ops), Still, Recorded, InOrder(ops),
           \A i \in DOMAIN ops : ops[i].do \in PlainOps \cup ApplyOps \cup {"raise"},
           Has(ops, ApplyOps \cup {"raise"}),
           Has(ops, TradeOps) => Last.disposition = "accepted",
           Has(ops, Attempted) => Has(ops, {"applied"})
    PROVE  Control'
<1>1. agenda \in Seq(Agenda) /\ InOrder(agenda) /\ ReceiptQueued
  BY DEF Control, ControlTyped
<1>2. 1 \in DOMAIN agenda /\ DOMAIN agenda = 1..Len(agenda) /\ Len(agenda) \in Nat
  BY <1>1, LenProperties, EmptySeq
<1>3. agenda' = ops \o Tail(agenda)
  BY DEF Then
<1>4. /\ receipts' = receipts /\ phase' = phase /\ feed' = feed /\ now' = now /\ faults' = faults
  BY DEF Still
<1>5. agenda[1].do \in ApplyOps /\ agenda[1].do # "reconcile" /\ agenda[1].do # "resume"
      /\ agenda[1].do # "hard_halt"
  BY DEF FirstOps, ApplyOps, TradeOps
<1>6. Has(agenda, ApplyOps) /\ Has(agenda, ApplyOps \cup {"resume"}) /\ Unapplied # {}
  BY <1>1, <1>2, <1>5 DEF Has, ReceiptQueued, Queued
<1>7. ASSUME NEW i \in DOMAIN ops, NEW j \in DOMAIN agenda, j # 1
      PROVE  MayFollow(ops[i], agenda[j])
  <2>1. CASE ops[i].do \in PlainOps
    BY <2>1, PlainRank
  <2>2. CASE ops[i].do \in ApplyOps \cup {"raise"}
    <3>1. Rank(ops[i]) \in 1..9
      BY <2>2 DEF Rank, ApplyOps, TradeOps, FirstOps, HaltOps
    <3>2. Rank(agenda[1]) = 1
      BY DEF Rank, FirstOps, HaltOps
    <3>3. MayFollow(agenda[1], agenda[j])
      BY <1>1, <1>2, <1>7 DEF InOrder
    <3>4. Rank(agenda[j]) \in -1..11
      BY DEF Rank
    <3> QED
      BY <3>1, <3>2, <3>3, <3>4 DEF MayFollow
  <2> QED
    BY <1>7, <2>1, <2>2
<1>8. ~Has(ops, {"resume", "started"})
  <2>1. {"resume", "started"} \cap (PlainOps \cup ApplyOps \cup {"raise"}) = {}
    BY DEF PlainOps, HaltOps, ApplyOps, TradeOps
  <2> QED
    BY <2>1 DEF Has
<1> QED
  BY <1>1, <1>3, <1>4, <1>5, <1>6, <1>7, <1>8, StepControl DEF Recorded

(* The scenario an entry of the agenda is for.                             *)
LEMMA HeadFor ==
    ASSUME Control, NEW do \in {"reconcile", "dispatch", "acknowledge", "cancel", "advance", "step",
                                "decide", "halt"}, Doing(do)
    PROVE  /\ For \in Scenario /\ For = agenda[1].for
           /\ do # "halt" => agenda[1] = [do |-> do, for |-> For]
           /\ do = "halt" => Head(agenda).day \in Nat /\ Head(agenda).hard \in BOOLEAN
<1>1. /\ agenda \in Seq(Agenda) /\ 1 \in DOMAIN agenda /\ Head(agenda) = agenda[1] /\ agenda[1].do = do
  BY HeadIs
<1>2. agenda[1] \in Agenda
  BY <1>1, ElementOfSeq, LenProperties
<1> QED
  BY <1>1, <1>2 DEF Agenda, For

(* Steps that only take their entry off the agenda.                        *)
LEMMA PoppedControl ==
    ASSUME Control,
           \/ Reconcile /\ ReconcileError(w[For], sim[For]) = "none"
           \/ Dispatch /\ Pending(w[For]) = {}
           \/ Acknowledge \/ MarkHard \/ CancelEntries \/ HaltEntries \/ Advance
           \/ Decide /\ ~Backwards(w[For], Event(bar))
           \/ CountOpportunity
    PROVE  Control'
<1>1. ControlTyped
  BY DEF Control
<1>2. PICK do \in {"reconcile", "dispatch", "acknowledge", "hard_halt", "cancel", "halt", "advance",
                   "decide", "opportunity"} :
        Doing(do) /\ Then(<<>>) /\ Still /\ (do = "hard_halt" => hard')
        /\ (tables' = tables \/ MarkHard \/ CountOpportunity)
  BY DEF Reconcile, Dispatch, Acknowledge, MarkHard, CancelEntries, HaltEntries, Advance, Decide,
         CountOpportunity, Still, tables
<1>3. Recorded
  <2>1. CASE MarkHard
    BY <1>1, <2>1 DEF MarkHard, Recorded, ControlTyped
  <2>2. CASE CountOpportunity
    <3>1. Unapplied # {}
      <4>1. ReceiptQueued /\ Doing("opportunity")
        BY <2>2 DEF Control, CountOpportunity
      <4>2. Has(agenda, ApplyOps)
        BY <4>1, HeadIs DEF ApplyOps, TradeOps
      <4> QED
        BY <4>1, <4>2 DEF ReceiptQueued, Queued
    <3>2. DayOf(bar.ts) \in Nat
      BY <3>1, CurrentLast, DayNat
    <3>3. CompleteOpening(DayOf(bar.ts)) \in BOOLEAN
      BY DEF CompleteOpening
    <3>4. [day |-> DayOf(bar.ts), eligible |-> CompleteOpening(DayOf(bar.ts))]
             \in [day : Nat, eligible : BOOLEAN]
      BY <3>2, <3>3
    <3> DEFINE new == [day |-> DayOf(bar.ts), eligible |-> CompleteOpening(DayOf(bar.ts))]
    <3>5. /\ opportunities' \in {opportunities, opportunities \cup {new}}
          /\ contract' = contract /\ hard' = hard /\ audits' = audits
      BY <2>2 DEF CountOpportunity
    <3>6. new \in [day : Nat, eligible : BOOLEAN]
      BY <3>4
    <3> HIDE DEF new
    <3> QED
      BY <1>1, <3>5, <3>6 DEF Recorded, ControlTyped
  <2>3. CASE tables' = tables
    BY <2>3, UnchangedRecorded
  <2> QED
    BY <1>2, <2>1, <2>2, <2>3
<1>4. agenda # <<>> /\ agenda[1].do = do
  BY <1>2, HeadIs
<1>5. agenda[1].do \notin FirstOps \cup {"applied"}
  BY <1>4 DEF FirstOps
<1> QED
  BY <1>2, <1>3, <1>4, <1>5, PopControl

(* An order is submitted, and its answer is due.                           *)
LEMMA SubmitControl ==
    ASSUME Control, Dispatch, Pending(w[For]) # {},
           ~Refused(sim[For], w[For].intents[FirstPending(For)].req)
    PROVE  Control'
<1>1. /\ Doing("dispatch") /\ agenda' = DoFor("acknowledge", For) \o agenda
      /\ Still /\ UNCHANGED tables
  BY DEF Dispatch, Still, tables
<1>2. /\ agenda # <<>> /\ agenda \in Seq(Agenda) /\ InOrder(agenda) /\ 1 \in DOMAIN agenda
      /\ Head(agenda) = agenda[1] /\ agenda[1].do = "dispatch"
  BY <1>1, HeadIs
<1>3. For \in Scenario /\ agenda[1] = [do |-> "dispatch", for |-> For]
  BY <1>1, HeadFor
<1> DEFINE ops == <<[do |-> "acknowledge", for |-> For], agenda[1]>>
<1>4. [do |-> "acknowledge", for |-> For] \in Agenda /\ agenda[1] \in Agenda
  BY <1>3 DEF Agenda
<1>5. /\ ops \in Seq(Agenda) /\ DOMAIN ops = {1, 2}
      /\ ops[1].do = "acknowledge" /\ ops[2].do = "dispatch"
  BY <1>3, <1>4
<1>6. agenda' = ops \o Tail(agenda)
  BY <1>1, <1>2, <1>4 DEF DoFor
<1> HIDE DEF ops
<1>7. \A i \in DOMAIN ops : Rank(ops[i]) = -1
  <2>1. \A op : op.do \in {"acknowledge", "dispatch"} => Rank(op) = -1
    BY DEF Rank, HaltOps, FirstOps
  <2> QED
    BY <1>5, <2>1
<1>8. \A i \in DOMAIN ops : \A y : MayFollow(ops[i], y)
  BY <1>7 DEF MayFollow
<1>9. InOrder(ops)
  BY <1>5, <1>8 DEF InOrder
<1>10. \A some : "acknowledge" \notin some /\ "dispatch" \notin some => ~Has(ops, some)
  BY <1>5 DEF Has
<1>11. /\ ~Has(ops, ApplyOps) /\ ~Has(ops, TradeOps) /\ ~Has(ops, Attempted)
       /\ ~Has(ops, {"resume", "started"})
  BY <1>10 DEF ApplyOps, TradeOps, Attempted
<1>12. agenda[1].do \notin ApplyOps \cup {"raise", "resume", "hard_halt", "reconcile"}
  BY <1>2 DEF ApplyOps, TradeOps
<1>13. Recorded /\ receipts' = receipts
  BY <1>1, UnchangedRecorded
<1>14. /\ receipts' = receipts /\ phase' = phase /\ feed' = feed /\ now' = now /\ faults' = faults
  BY <1>1 DEF Still
<1> QED
  BY <1>2, <1>5, <1>6, <1>8, <1>9, <1>11, <1>12, <1>13, <1>14, StepControl DEF Recorded

(* A receipt that is in hand while its steps are queued.                   *)
LEMMA InHand ==
    ASSUME Control, Queued(ApplyOps)
    PROVE  /\ Unapplied # {} /\ Current = Len(receipts) /\ bar = Last.bar /\ Last \in Receipt
           /\ bar \in MarketBar /\ Event(bar) \in Bar /\ bar.ts \in Nat /\ bar.contract \in Contracts
           /\ receipts[Current] = Last /\ DayOf(bar.ts) \in Nat /\ ReceivedDay \in Nat
<1>1. Unapplied # {}
  BY DEF Control, ReceiptQueued
<1>2. bar.ts + 1 \in Nat
  BY <1>1, CurrentLast
<1> QED
  BY <1>1, <1>2, CurrentLast, DayNat DEF Last, ReceivedDay

\* What may come in place of a first step.
Next1(ops) ==
    \E x \in {"contract", "applied", "flat", "exclude", "raise", "pin"} :
        /\ \/ ops = Do(x)
           \/ /\ x # "pin"
              /\ \E day \in Nat, hardly \in BOOLEAN : ops = HaltDay(day, hardly) \o Do(x)
        /\ x \notin {"applied", "raise"} => Last.disposition = "accepted"

LEMMA FirstStepControl ==
    ASSUME Control, Doing("apply") \/ Doing("contract") \/ Doing("flat"), NEW ops, Next1(ops),
           Then(ops), Still, UNCHANGED tables
    PROVE  Control'
<1>1. agenda # <<>> /\ agenda[1].do \in FirstOps \ {"raise"}
  BY HeadIs DEF FirstOps
<1>2. PICK x \in {"contract", "applied", "flat", "exclude", "raise", "pin"} :
        /\ \/ ops = Do(x)
           \/ /\ x # "pin"
              /\ \E day \in Nat, hardly \in BOOLEAN : ops = HaltDay(day, hardly) \o Do(x)
        /\ x \notin {"applied", "raise"} => Last.disposition = "accepted"
  BY DEF Next1
<1>3. /\ ops \in Seq(Agenda) /\ InOrder(ops) /\ Has(ops, {x})
      /\ \A i \in DOMAIN ops : ops[i].do \in PlainOps \cup {x}
  <2>1. CASE ops = Do(x)
    BY <2>1, OneStep
  <2>2. CASE x # "pin" /\ \E day \in Nat, hardly \in BOOLEAN : ops = HaltDay(day, hardly) \o Do(x)
    <3>1. PICK day \in Nat, hardly \in BOOLEAN : ops = HaltDay(day, hardly) \o Do(x)
      BY <2>2
    <3>2. PICK p : HaltDay(day, hardly) = p
      OBVIOUS
    <3>3. p \o Do(x) = ops /\ x \in {"contract", "applied", "flat", "exclude", "raise"}
      BY <2>2, <3>1, <3>2
    <3>4. p = <<>> \/ \E d \in Nat, h \in BOOLEAN : p = HaltDay(d, h)
      BY <3>2
    <3>5. HaltedThen(p, x, ops)
      BY <3>3, <3>4, HaltThen
    <3> QED
      BY <3>5 DEF HaltedThen
  <2> QED
    BY <1>2, <2>1, <2>2
<1>4. x \in ApplyOps \cup {"raise"} /\ x \notin Attempted
  BY DEF ApplyOps, TradeOps, Attempted
<1>5. /\ \A i \in DOMAIN ops : ops[i].do \in PlainOps \cup ApplyOps \cup {"raise"}
      /\ Has(ops, ApplyOps \cup {"raise"})
  BY <1>3, <1>4 DEF Has
<1>6. ~Has(ops, Attempted)
  <2>1. PlainOps \cap Attempted = {}
    BY DEF PlainOps, HaltOps, Attempted
  <2> QED
    BY <1>3, <1>4, <2>1 DEF Has
<1>7. Has(ops, TradeOps) => Last.disposition = "accepted"
  <2>1. PlainOps \cap TradeOps = {} /\ {"applied", "raise"} \cap TradeOps = {}
    BY DEF PlainOps, HaltOps, TradeOps
  <2> QED
    BY <1>2, <1>3, <2>1 DEF Has
<1>8. Recorded
  BY UnchangedRecorded
<1> QED
  BY <1>1, <1>3, <1>5, <1>6, <1>7, <1>8, FirstControl

LEMMA FirstStepsControl ==
    ASSUME Control, BeginApply \/ CheckContract \/ CheckFlat
    PROVE  Control'
<1>1. Doing("apply") \/ Doing("contract") \/ Doing("flat")
  BY DEF BeginApply, CheckContract, CheckFlat
<1>2. Queued(ApplyOps)
  BY <1>1, HeadIs DEF Queued, ApplyOps, TradeOps
<1>3. /\ receipts[Current] = Last /\ ReceivedDay \in Nat /\ DayOf(now) \in Nat
      /\ Last \in Receipt
  <2>1. now \in Nat
    BY DEF Control, ControlTyped
  <2> QED
    BY <1>2, <2>1, InHand, DayNat
<1>4. Doing("contract") \/ Doing("flat") => Last.disposition = "accepted"
  BY HeadIs DEF Control, ReceiptQueued, Queued, TradeOps
<1>5. Still /\ UNCHANGED tables
  BY DEF BeginApply, CheckContract, CheckFlat, Still, tables
<1>6. \E ops : Next1(ops) /\ Then(ops)
  <2>1. CASE BeginApply
    <3>1. CASE Last.disposition = "accepted"
      <4>1. CASE MissingEvent
        <5>1. Then(HaltDay(ReceivedDay, FALSE) \o Do("contract"))
          BY <1>3, <2>1, <3>1, <4>1 DEF BeginApply
        <5>2. Next1(HaltDay(ReceivedDay, FALSE) \o Do("contract"))
          BY <1>3, <3>1 DEF Next1
        <5> QED
          BY <5>1, <5>2
      <4>2. CASE ~MissingEvent
        <5>1. PICK c : Do("contract") = c
          OBVIOUS
        <5>2. c \in Seq(Agenda)
          BY <5>1, OneStep
        <5>3. <<>> \o c = c
          BY <5>2
        <5>4. Then(c)
          BY <1>3, <2>1, <3>1, <4>2, <5>1, <5>3 DEF BeginApply
        <5>5. Next1(c)
          BY <3>1, <5>1 DEF Next1
        <5> QED
          BY <5>4, <5>5
      <4> QED
        BY <4>1, <4>2
    <3>2. CASE Last.disposition \in {"late_bar", "incomplete_or_future_bar"}
      <4>1. Then(HaltDay(DayOf(now), FALSE) \o Do("applied"))
        BY <1>3, <2>1, <3>2 DEF BeginApply
      <4>2. Next1(HaltDay(DayOf(now), FALSE) \o Do("applied"))
        BY <1>3 DEF Next1
      <4> QED
        BY <4>1, <4>2
    <3>3. CASE Last.disposition \notin {"accepted", "late_bar", "incomplete_or_future_bar"}
      <4>1. Then(Do("applied"))
        BY <1>3, <2>1, <3>3 DEF BeginApply
      <4>2. Next1(Do("applied"))
        BY DEF Next1
      <4> QED
        BY <4>1, <4>2
    <3> QED
      BY <3>1, <3>2, <3>3
  <2>2. CASE CheckContract
    <3>0. Last.disposition = "accepted"
      BY <1>4, <2>2 DEF CheckContract
    <3>1. /\ Next1(Do("pin")) /\ Next1(HaltDay(ReceivedDay, TRUE) \o Do("exclude"))
          /\ Next1(HaltDay(ReceivedDay, FALSE) \o Do("flat"))
      BY <1>3, <3>0 DEF Next1
    <3> QED
      BY <2>2, <3>1 DEF CheckContract
  <2>3. CASE CheckFlat
    <3>0. Last.disposition = "accepted"
      BY <1>4, <2>3 DEF CheckFlat
    <3>1. Next1(Do("pin")) /\ Next1(HaltDay(ReceivedDay, TRUE) \o Do("raise"))
      BY <1>3, <3>0 DEF Next1
    <3> QED
      BY <2>3, <3>1 DEF CheckFlat
  <2> QED
    BY <2>1, <2>2, <2>3
<1> QED
  BY <1>1, <1>5, <1>6, FirstStepControl

LEMMA PinControl ==
    ASSUME Control, Pin
    PROVE  Control'
<1>1. Doing("pin") /\ Still
  BY DEF Pin, Still
<1>2. Queued(ApplyOps) /\ Queued(TradeOps)
  BY <1>1, HeadIs DEF Queued, ApplyOps, TradeOps
<1>3. bar.contract \in Contracts /\ Last.disposition = "accepted"
  BY <1>2, InHand DEF Control, ReceiptQueued
<1>4. Recorded
  BY <1>3 DEF Pin, Recorded, Control, ControlTyped
<1>5. PICK q : PinOps = q
  OBVIOUS
<1>6. Then(q)
  BY <1>5 DEF Pin, PinOps
<1>7. agenda # <<>> /\ agenda[1].do \in FirstOps \ {"raise"}
  BY <1>1, HeadIs DEF FirstOps
<1>8. /\ q \in Seq(Agenda) /\ InOrder(q) /\ DOMAIN q = 1..8 /\ q[8] = [do |-> "applied"]
      /\ \A i \in 1..8 : q[i].do \in {"advance", "step", "reconcile", "opportunity", "applied"}
  <2>1. \A i \in 1..8 : i \in {1, 2, 3, 4, 5, 6, 7, 8}
    OBVIOUS
  <2>2. /\ q \in Seq(Agenda) /\ InOrder(q) /\ DOMAIN q = 1..8 /\ q[8] = [do |-> "applied"]
        /\ q[1].do = "advance" /\ q[2].do = "step" /\ q[3].do = "reconcile"
        /\ q[4].do = "advance" /\ q[5].do = "step" /\ q[6].do = "reconcile"
        /\ q[7].do = "opportunity" /\ q[8].do = "applied"
    BY <1>5, PinSteps
  <2>3. \A i \in {1, 2, 3, 4, 5, 6, 7, 8} :
           q[i].do \in {"advance", "step", "reconcile", "opportunity", "applied"}
    BY <2>2
  <2> QED
    BY <2>1, <2>2, <2>3
<1>9. \A i \in DOMAIN q : q[i].do \in PlainOps \cup ApplyOps \cup {"raise"}
  BY <1>8 DEF PlainOps, ApplyOps, TradeOps
<1>10. Has(q, {"applied"}) /\ Has(q, ApplyOps \cup {"raise"})
  <2>1. 8 \in DOMAIN q /\ q[8].do = "applied"
    BY <1>8
  <2> QED
    BY <2>1 DEF Has, ApplyOps
<1> QED
  BY <1>1, <1>3, <1>4, <1>6, <1>7, <1>8, <1>9, <1>10, FirstControl

(* What stands behind the head has no other entries than the agenda.       *)
LEMMA HasBehind ==
    ASSUME Control, agenda # <<>>
    PROVE  \A some : Queued(some) <=> agenda[1].do \in some \/ Behind(agenda, some)
<1>1. 1 \in DOMAIN agenda
  BY LenProperties, EmptySeq DEF Control, ControlTyped
<1> QED
  BY <1>1 DEF Queued, Has, Behind

LEMMA BeginStepControl ==
    ASSUME Control, BeginStep
    PROVE  Control'
<1>1. Doing("step") /\ Still /\ UNCHANGED tables
  BY DEF BeginStep, Still, tables
<1>2. /\ agenda # <<>> /\ agenda \in Seq(Agenda) /\ InOrder(agenda) /\ 1 \in DOMAIN agenda
      /\ agenda[1].do = "step"
  BY <1>1, HeadIs
<1>3. For \in Scenario /\ agenda[1] = [do |-> "step", for |-> For]
  BY <1>1, HeadFor
<1>4. Recorded /\ receipts' = receipts
  BY <1>1, UnchangedRecorded
<1>5. CASE Event(bar) \in w[For].bars
  <2>1. Then(<<>>)
    BY <1>5 DEF BeginStep
  <2>2. agenda[1].do \notin FirstOps \cup {"applied"}
    BY <1>2 DEF FirstOps
  <2> QED
    BY <1>1, <1>2, <1>4, <2>1, <2>2, PopControl
<1>6. CASE Event(bar) \notin w[For].bars
  <2> DEFINE ops == <<[do |-> "reconcile", for |-> For], [do |-> "decide", for |-> For],
                      [do |-> "dispatch", for |-> For]>>
  <2>1. /\ [do |-> "reconcile", for |-> For] \in Agenda /\ [do |-> "decide", for |-> For] \in Agenda
        /\ [do |-> "dispatch", for |-> For] \in Agenda
    BY <1>3 DEF Agenda
  <2>2. /\ ops \in Seq(Agenda) /\ DOMAIN ops = {1, 2, 3}
        /\ ops[1] = [do |-> "reconcile", for |-> For] /\ ops[2] = [do |-> "decide", for |-> For]
        /\ ops[3] = [do |-> "dispatch", for |-> For]
    BY <2>1
  <2>3. ops = DoFor("reconcile", For) \o DoFor("decide", For) \o DoFor("dispatch", For)
    BY DEF DoFor
  <2>4. agenda' = ops \o Tail(agenda)
    BY <1>6, <2>3 DEF BeginStep, Then
  <2> HIDE DEF ops
  <2>5. /\ Rank(ops[1]) = -1 /\ Rank(ops[3]) = -1
        /\ Rank(ops[2]) = IF For = Family[1] THEN 4 ELSE 7
        /\ Rank(agenda[1]) = IF For = Family[1] THEN 3 ELSE 6
    BY <1>3, <2>2 DEF Rank, HaltOps, FirstOps
  <2>6. ASSUME NEW j \in DOMAIN agenda, j # 1
        PROVE  /\ MayFollow(ops[2], agenda[j]) /\ MayFollow(ops[1], agenda[j])
               /\ MayFollow(ops[3], agenda[j])
    <3>1. agenda[j].do # "decide"
      BY <1>2, <2>6, BehindHead DEF Behind
    <3>2. MayFollow(agenda[1], agenda[j])
      <4>1. j \in Nat /\ 1 < j
        BY <1>2, <2>6, LenProperties
      <4> QED
        BY <1>2, <4>1 DEF InOrder
    <3>3. CASE For = Family[1]
      <4>1. Rank(agenda[j]) # 4
        BY <3>1 DEF Rank, HaltOps, FirstOps
      <4>2. Rank(agenda[j]) \in -1..11
        BY DEF Rank
      <4>3. Rank(ops[2]) = 4 /\ Rank(agenda[1]) = 3
        BY <2>5, <3>3
      <4> QED
        BY <2>5, <3>2, <4>1, <4>2, <4>3 DEF MayFollow
    <3>4. CASE For # Family[1]
      <4>1. Rank(agenda[j]) # 7
        BY <3>1 DEF Rank, HaltOps, FirstOps
      <4>2. Rank(agenda[j]) \in -1..11
        BY DEF Rank
      <4>3. Rank(ops[2]) = 7 /\ Rank(agenda[1]) = 6
        BY <2>5, <3>4
      <4> QED
        BY <2>5, <3>2, <4>1, <4>2, <4>3 DEF MayFollow
    <3> QED
      BY <3>3, <3>4
  <2>7. \A i \in DOMAIN ops, j \in DOMAIN agenda : j # 1 => MayFollow(ops[i], agenda[j])
    BY <2>2, <2>6
  <2>8. InOrder(ops)
    <3>1. /\ MayFollow(ops[1], ops[2]) /\ MayFollow(ops[1], ops[3]) /\ MayFollow(ops[2], ops[3])
      BY <2>5 DEF MayFollow
    <3>2. \A i, j \in {1, 2, 3} : i < j => MayFollow(ops[i], ops[j])
      BY <3>1
    <3> QED
      BY <2>2, <3>2 DEF InOrder
  <2>9. \A some : Has(ops, some) => some \cap {"reconcile", "decide", "dispatch"} # {}
    BY <2>2 DEF Has
  <2>10. ~Has(ops, {"resume", "started"})
    BY <2>9
  <2>11. Queued(ApplyOps) /\ Queued(TradeOps)
    BY <1>1, HeadIs DEF Queued, ApplyOps, TradeOps
  <2>12. Unapplied # {} /\ Last.disposition = "accepted" /\ Has(agenda, ApplyOps)
    BY <2>11 DEF Control, ReceiptQueued, Queued
  <2>13. Behind(agenda, {"applied"})
    <3>1. Queued({"advance", "step", "decide", "opportunity"})
      BY <1>1, HeadIs DEF Queued
    <3>2. Queued({"applied"})
      BY <3>1 DEF Control, ReceiptQueued
    <3> QED
      BY <1>2, <3>2, HasBehind
  <2>14. Behind(agenda, ApplyOps \cup {"raise"})
    BY <2>13 DEF Behind, ApplyOps
  <2>15. Has(agenda, ApplyOps \cup {"resume"})
    BY <2>12 DEF Has
  <2>16. receipts' = receipts /\ phase' = phase /\ feed' = feed /\ now' = now /\ faults' = faults
    BY <1>1 DEF Still
  <2>17. agenda[1].do \notin {"reconcile", "resume", "hard_halt"}
    BY <1>2
  <2> QED
    BY <1>2, <1>4, <2>2, <2>4, <2>7, <2>8, <2>10, <2>12, <2>13, <2>14, <2>15, <2>16, <2>17,
       StepControl DEF Recorded
<1> QED
  BY <1>5, <1>6

LEMMA ResumeControl ==
    ASSUME Control, Resume
    PROVE  Control'
<1>1. Doing("resume") /\ Still /\ UNCHANGED tables
  BY DEF Resume, Still, tables
<1>2. /\ agenda # <<>> /\ agenda \in Seq(Agenda) /\ InOrder(agenda) /\ 1 \in DOMAIN agenda
      /\ agenda[1].do = "resume" /\ Has(agenda, ApplyOps \cup {"resume"})
      /\ Has(agenda, {"resume", "started"})
  BY <1>1, HeadIs
<1>3. Recorded /\ receipts' = receipts
  BY <1>1, UnchangedRecorded
<1>4. phase # "running"
  BY <1>2 DEF Control, Queued
<1>5. CASE Unapplied = {}
  <2>1. Then(<<>>)
    BY <1>5 DEF Resume
  <2>2. agenda[1].do \notin FirstOps \cup {"applied"}
    BY <1>2 DEF FirstOps
  <2> QED
    BY <1>1, <1>2, <1>3, <1>5, <2>1, <2>2, PopControl
<1>6. CASE Unapplied # {}
  <2> DEFINE ops == <<[do |-> "apply"], [do |-> "resume"]>>
  <2>1. [do |-> "apply"] \in Agenda /\ [do |-> "resume"] \in Agenda
    BY DEF Agenda
  <2>2. /\ ops \in Seq(Agenda) /\ DOMAIN ops = {1, 2}
        /\ ops[1] = [do |-> "apply"] /\ ops[2] = [do |-> "resume"]
    BY <2>1
  <2>3. ops = Do("apply") \o Do("resume")
    BY DEF Do
  <2>4. agenda' = ops \o Tail(agenda)
    BY <1>6, <2>3 DEF Resume, Then
  <2> HIDE DEF ops
  <2>5. Rank(ops[1]) = 1 /\ Rank(ops[2]) = 10 /\ Rank(agenda[1]) = 10
    BY <1>2, <2>2 DEF Rank, HaltOps, FirstOps
  <2>6. ASSUME NEW j \in DOMAIN agenda, j # 1
        PROVE  MayFollow(ops[1], agenda[j]) /\ MayFollow(ops[2], agenda[j])
    <3>1. MayFollow(agenda[1], agenda[j])
      <4>1. j \in Nat /\ 1 < j
        BY <1>2, <2>6, LenProperties
      <4> QED
        BY <1>2, <4>1 DEF InOrder
    <3>2. Rank(agenda[j]) \in -1..11
      BY DEF Rank
    <3> QED
      BY <2>5, <3>1, <3>2 DEF MayFollow
  <2>7. \A i \in DOMAIN ops, j \in DOMAIN agenda : j # 1 => MayFollow(ops[i], agenda[j])
    BY <2>2, <2>6
  <2>8. InOrder(ops)
    <3>1. MayFollow(ops[1], ops[2])
      BY <2>5 DEF MayFollow
    <3>2. \A i, j \in {1, 2} : i < j => MayFollow(ops[i], ops[j])
      BY <3>1
    <3> QED
      BY <2>2, <3>2 DEF InOrder
  <2>9. ~Has(ops, TradeOps) /\ ~Has(ops, Attempted) /\ Has(ops, ApplyOps \cup {"raise", "resume"})
    <3>1. /\ "apply" \notin TradeOps /\ "resume" \notin TradeOps
          /\ "apply" \notin Attempted /\ "resume" \notin Attempted
      BY DEF TradeOps, Attempted
    <3>2. \A i \in DOMAIN ops : ops[i].do \in {"apply", "resume"}
      BY <2>2
    <3>3. 2 \in DOMAIN ops /\ ops[2].do = "resume"
      BY <2>2
    <3> QED
      BY <3>1, <3>2, <3>3 DEF Has
  <2>10. agenda[1].do \notin ApplyOps \cup {"raise", "reconcile", "hard_halt"}
    BY <1>2 DEF ApplyOps, TradeOps
  <2>11. receipts' = receipts /\ phase' = phase /\ feed' = feed /\ now' = now /\ faults' = faults
    BY <1>1 DEF Still
  <2> QED
    BY <1>2, <1>3, <1>4, <1>6, <2>2, <2>4, <2>7, <2>8, <2>9, <2>10, <2>11, StepControl DEF Recorded
<1> QED
  BY <1>5, <1>6

LEMMA CloseDayControl ==
    ASSUME Control, CloseDay
    PROVE  Control'
<1>1. Doing("close") /\ Still
  BY DEF CloseDay, Still
<1>2. /\ agenda # <<>> /\ agenda \in Seq(Agenda) /\ InOrder(agenda) /\ 1 \in DOMAIN agenda
      /\ agenda[1].do = "close"
  BY <1>1, HeadIs
<1>3. DayOf(now) \in Nat /\ ControlTyped
  BY DayNat DEF Control, ControlTyped
<1>4. Recorded /\ receipts' = receipts
  <2> DEFINE new == [day |-> DayOf(now), unresolved |-> AnyPosition \/ OrdersLive]
  <2>1. new \in [day : Nat, unresolved : BOOLEAN]
    BY <1>3 DEF AnyPosition, OrdersLive
  <2>2. /\ audits' = audits \cup {new} /\ contract' = contract /\ hard' = hard
        /\ opportunities' = opportunities /\ receipts' = receipts
    BY DEF CloseDay
  <2> HIDE DEF new
  <2> QED
    BY <1>3, <2>1, <2>2 DEF ControlTyped, Recorded
<1>5. agenda[1].do \notin FirstOps \cup ApplyOps \cup {"raise", "reconcile", "resume", "hard_halt"}
  BY <1>2 DEF ApplyOps, TradeOps, FirstOps
<1>6. CASE ~(AnyPosition \/ OrdersLive)
  <2>1. Then(<<>>)
    BY <1>6 DEF CloseDay
  <2>2. agenda[1].do \notin FirstOps \cup {"applied"}
    BY <1>5 DEF ApplyOps
  <2> QED
    BY <1>1, <1>2, <1>4, <1>5, <2>1, <2>2, PopControl
<1>7. CASE AnyPosition \/ OrdersLive
  <2>1. PICK p : HaltDay(DayOf(now), TRUE) = p
    OBVIOUS
  <2>2. agenda' = p \o Tail(agenda)
    BY <1>7, <2>1 DEF CloseDay, Then
  <2>3. Plain(p)
    BY <1>3, <2>1, HaltDayShape
  <2>4. p \in Seq(Agenda) /\ InOrder(p) /\ \A i \in DOMAIN p : \A y : MayFollow(p[i], y)
    BY <2>3, PlainInOrder
  <2>5. /\ ~Has(p, ApplyOps) /\ ~Has(p, TradeOps) /\ ~Has(p, Attempted)
        /\ ~Has(p, {"resume", "started"})
    <3>1. /\ ApplyOps \cap PlainOps = {} /\ TradeOps \cap PlainOps = {}
          /\ Attempted \cap PlainOps = {} /\ {"resume", "started"} \cap PlainOps = {}
      BY DEF ApplyOps, TradeOps, Attempted, PlainOps, HaltOps
    <3> QED
      BY <2>3, <3>1, PlainInOrder
  <2>6. receipts' = receipts /\ phase' = phase /\ feed' = feed /\ now' = now /\ faults' = faults
    BY <1>1 DEF Still
  <2> QED
    BY <1>2, <1>4, <1>5, <2>2, <2>4, <2>5, <2>6, StepControl DEF Recorded
<1> QED
  BY <1>6, <1>7

(* The receipt in hand is settled.                                         *)
LEMMA SettleControl ==
    ASSUME Control, Exclude \/ FinishApply
    PROVE  /\ Control' /\ Unapplied' = {} /\ ~Queued(ApplyOps)' /\ Len(receipts') = Len(receipts)
           /\ Last'.bar = Last.bar
           /\ Last'.disposition = (IF Exclude THEN "roll_with_exposure" ELSE Last.disposition)
           /\ \A i \in DOMAIN receipts : i # Len(receipts) => receipts'[i] = receipts[i]
           /\ DOMAIN receipts' = DOMAIN receipts
<1>1. /\ Doing("exclude") \/ Doing("applied")
      /\ UNCHANGED <<contract, hard, audits, opportunities, phase, feed, now, faults>>
      /\ agenda' = <<>> \o Tail(agenda)
  BY DEF Exclude, FinishApply, Then
<1>2. /\ agenda # <<>> /\ agenda \in Seq(Agenda) /\ InOrder(agenda) /\ 1 \in DOMAIN agenda
      /\ agenda[1].do \in {"exclude", "applied"} /\ Queued(ApplyOps)
  BY <1>1, HeadIs DEF Queued, ApplyOps, TradeOps
<1>3. /\ Unapplied = {Len(receipts)} /\ Current = Len(receipts) /\ bar = Last.bar
      /\ bar \in MarketBar /\ Last \in Receipt /\ receipts[Current] = Last
      /\ Len(receipts) \in DOMAIN receipts /\ DOMAIN receipts = 1..Len(receipts)
  BY <1>2, InHand, CurrentLast
<1> DEFINE d == IF Exclude THEN "roll_with_exposure" ELSE Last.disposition
           new == [bar |-> Last.bar, disposition |-> d, applied |-> TRUE]
<1>4. receipts' = [receipts EXCEPT ![Len(receipts)] = new]
  <2>1. CASE Exclude
    BY <1>3, <2>1 DEF Exclude, Settled
  <2>2. CASE ~Exclude
    BY <1>3, <2>2 DEF FinishApply, Settled
  <2> QED
    BY <2>1, <2>2
<1>5. new \in Receipt /\ new.applied /\ new.bar = Last.bar /\ new.disposition = d
  <2>1. d \in Disposition
    BY <1>3 DEF Receipt, Disposition
  <2> HIDE DEF d
  <2> QED
    BY <1>3, <2>1 DEF Receipt
<1> HIDE DEF new, d
<1>6. ControlTyped /\ ReceiptsInOrder /\ receipts \in Seq(Receipt)
  BY DEF Control, ControlTyped
<1>7. /\ receipts' \in Seq(Receipt) /\ Len(receipts') = Len(receipts)
      /\ DOMAIN receipts' = DOMAIN receipts
      /\ \A i \in DOMAIN receipts : receipts'[i] = IF i = Len(receipts) THEN new ELSE receipts[i]
  <2>1. PICK r : receipts' = r
    OBVIOUS
  <2>2. r = [receipts EXCEPT ![Len(receipts)] = new]
    BY <1>4, <2>1
  <2>3. /\ r \in Seq(Receipt) /\ Len(r) = Len(receipts) /\ DOMAIN r = DOMAIN receipts
        /\ \A i \in DOMAIN receipts : r[i] = IF i = Len(receipts) THEN new ELSE receipts[i]
    BY <1>3, <1>5, <1>6, <2>2, ExceptSeq, LenProperties
  <2> QED
    BY <2>1, <2>3
<1>8. \A i \in DOMAIN receipts' : receipts'[i].applied /\ receipts'[i].bar = receipts[i].bar
  BY <1>3, <1>5, <1>6, <1>7 DEF ReceiptsInOrder, Last
<1>9. Unapplied' = {}
  BY <1>8 DEF Unapplied
<1>10. ReceiptsInOrder'
  BY <1>1, <1>6, <1>7, <1>8 DEF ReceiptsInOrder
<1>11. PICK q : agenda' = q
  OBVIOUS
<1> DEFINE ops == <<>>
<1>12. ops \in Seq(Agenda) /\ InOrder(ops) /\ (\A some : ~Has(ops, some)) /\ DOMAIN ops = {}
       /\ ops \o Tail(agenda) = q
  BY <1>1, <1>11, EmptyAgenda
<1> HIDE DEF ops
<1>13. /\ q \in Seq(Agenda)
       /\ \A some : Has(q, some) <=> Behind(agenda, some)
  <2>1. Spliced(agenda, ops, q)
    BY <1>2, <1>12, Replaced
  <2>2. \A some : Has(q, some) <=> Has(ops, some) \/ Behind(agenda, some)
    BY <1>2, <1>12, ReplacedHas
  <2> QED
    BY <1>12, <2>1, <2>2 DEF Spliced
<1>14. InOrder(q)
  <2>1. \A i \in DOMAIN ops, j \in DOMAIN agenda : j # 1 => MayFollow(ops[i], agenda[j])
    BY <1>12
  <2>2. agenda[1].do = "reconcile" => ops = <<>>
    BY DEF ops
  <2> QED
    BY <1>2, <1>12, <2>1, <2>2, ReplacedInOrder
<1>15. ~Behind(agenda, ApplyOps)
  <2>1. /\ agenda[1].do \in FirstOps => ~Behind(agenda, ApplyOps \cup HaltOps \cup {"raise"})
        /\ agenda[1].do = "applied" => ~Behind(agenda, ApplyOps)
    BY <1>2, BehindHead
  <2>2. Behind(agenda, ApplyOps) => Behind(agenda, ApplyOps \cup HaltOps \cup {"raise"})
    BY DEF Behind
  <2> QED
    BY <1>2, <2>1, <2>2 DEF FirstOps
<1>16. ~Queued(ApplyOps)' /\ ~Queued(TradeOps)' /\ ~Queued({"advance", "step", "decide", "opportunity"})'
  <2>1. ~Has(q, ApplyOps)
    BY <1>13, <1>15
  <2>2. /\ Has(q, TradeOps) => Has(q, ApplyOps)
        /\ Has(q, {"advance", "step", "decide", "opportunity"}) => Has(q, ApplyOps)
    BY DEF Has, ApplyOps, TradeOps
  <2> QED
    BY <1>11, <2>1, <2>2 DEF Queued
<1>17. ReceiptQueued'
  BY <1>9, <1>16 DEF ReceiptQueued
<1>18. ControlTyped'
  BY <1>1, <1>6, <1>7, <1>11, <1>13 DEF ControlTyped
<1>19. phase' = "running" => ~Queued({"resume", "started"})'
  <2>1. Has(q, {"resume", "started"}) => Queued({"resume", "started"})
    BY <1>2, <1>13, HasBehind
  <2> QED
    BY <1>1, <1>11, <2>1 DEF Control, Queued
<1>20. phase' \notin {"down", "broken"}
  BY <1>1, <1>2 DEF Control
<1>21. Control'
  BY <1>10, <1>11, <1>14, <1>17, <1>18, <1>19, <1>20 DEF Control
<1>22. /\ Last'.bar = Last.bar /\ Last'.disposition = d
       /\ \A i \in DOMAIN receipts : i # Len(receipts) => receipts'[i] = receipts[i]
  BY <1>3, <1>5, <1>7 DEF Last
<1> QED
  BY <1>7, <1>9, <1>16, <1>21, <1>22 DEF d

\* Steps that begin or end a call.
Reset == \/ Started \/ Crash \/ Connect \/ Disconnect \/ BeginClose
         \/ ReceiveInvalid \/ ReceiveUnmapped \/ PassMinute

LEMMA ResetsControl ==
    ASSUME Control, Reset
    PROVE  /\ Control' /\ ~Queued(Begun)'
           /\ phase' = "running" /\ phase # "running" =>
                 \A s \in Scenario : Cancelling(agenda', s, TRUE)
<1>1. ControlTyped /\ ReceiptQueued /\ now \in Nat /\ DayOf(now) \in Nat /\ faults \in Nat
  BY DayNat DEF Control, ControlTyped
<1>2. Idle => (feed => Unapplied = {}) /\ (~hard => Unapplied = {})
  BY IdleControl DEF Idle
<1>3. /\ receipts' = receipts /\ contract' = contract /\ hard' = hard /\ audits' = audits
      /\ opportunities' = opportunities
  BY DEF Reset, Started, Crash, Connect, Disconnect, BeginClose, ReceiveInvalid, ReceiveUnmapped,
         PassMinute, tables
<1>4. CASE Started
  <2>1. PICK p : HaltDay(DayOf(now), FALSE) = p
    OBVIOUS
  <2>2. Plain(p)
    BY <1>1, <2>1, HaltDayShape
  <2>3. /\ p \in Seq(Agenda) /\ InOrder(p) /\ ~Has(p, ApplyOps) /\ ~Has(p, Begun)
        /\ ~Has(p, {"resume", "started"})
    <3>1. /\ ApplyOps \cap PlainOps = {} /\ {"resume", "started"} \cap PlainOps = {}
          /\ Begun \cap PlainOps = {}
      BY DEF Begun, ApplyOps, TradeOps, PlainOps, HaltOps
    <3> QED
      BY <2>2, <3>1, PlainInOrder
  <2>4. agenda' = p /\ phase' = "running" /\ feed' = feed /\ now' = now /\ faults' = faults
    BY <1>4, <2>1 DEF Started
  <2>5. Doing("started") /\ phase # "running"
    <3>1. Doing("started")
      BY <1>4 DEF Started
    <3>2. Queued({"resume", "started"})
      BY <3>1, HeadIs DEF Queued
    <3> QED
      BY <3>1, <3>2 DEF Control
  <2>6. Unapplied = {}
    <3>1. phase = "starting"
      BY <2>5, HeadIs
    <3>2. agenda[1].do = "started" /\ agenda # <<>> /\ agenda \in Seq(Agenda) /\ InOrder(agenda)
      BY <2>5, HeadIs
    <3>3. ~Behind(agenda, ApplyOps \cup HaltOps \cup {"raise", "resume", "started"})
      BY <3>2, BehindHead
    <3>4. ~Behind(agenda, ApplyOps \cup {"raise", "resume"})
      BY <3>3 DEF Behind
    <3>5. ~Queued(ApplyOps \cup {"raise", "resume"})
      BY <3>2, <3>4, HasBehind DEF ApplyOps, TradeOps
    <3> QED
      BY <1>1, <3>1, <3>5 DEF ReceiptQueued
  <2>7. ControlTyped'
    BY <1>1, <1>3, <2>3, <2>4 DEF ControlTyped
  <2>8. now <= now'
    BY <1>1, <2>4
  <2>9. Control'
    BY <1>3, <2>3, <2>4, <2>6, <2>7, <2>8, ResetControl
  <2>10. ASSUME NEW s \in Scenario
         PROVE  Cancelling(p, s, TRUE)
    BY <1>1, <2>1, HaltDayShape
  <2> QED
    BY <2>3, <2>4, <2>9, <2>10 DEF Queued
<1>5. CASE Crash
  <2>1. agenda' = <<>> /\ phase' = "down" /\ feed' = FALSE /\ now' = now /\ faults' \in Nat
    BY <1>1, <1>5 DEF Crash
  <2>2. agenda' \in Seq(Agenda) /\ InOrder(agenda') /\ \A some : ~Has(agenda', some)
    BY <2>1, EmptyAgenda
  <2>3. ControlTyped'
    BY <1>1, <1>3, <2>1, <2>2 DEF ControlTyped
  <2>4. now <= now'
    BY <1>1, <2>1
  <2>9. Control'
    BY <1>3, <2>1, <2>2, <2>3, <2>4, ResetControl
  <2>10. phase' = "running" => phase = "running"
    BY <2>1
  <2> QED
    BY <2>2, <2>9, <2>10 DEF Queued
<1>6. CASE Connect \/ PassMinute
  <2>1. /\ agenda' = <<>> /\ agenda = <<>> /\ phase' = phase /\ feed' \in BOOLEAN
        /\ now' \in Nat /\ now <= now' /\ faults' \in Nat
    <3>1. CASE Connect
      BY <1>1, <3>1 DEF Connect, Idle
    <3>2. CASE PassMinute
      <4>1. (IF Owed THEN 1 ELSE 0) \in Nat
        OBVIOUS
      <4>2. faults' = faults + (IF Owed THEN 1 ELSE 0) /\ now' = now + 1
        BY <3>2 DEF PassMinute
      <4>3. faults' \in Nat /\ now' \in Nat /\ now <= now'
        BY <1>1, <4>1, <4>2
      <4>4. agenda' = agenda /\ agenda = <<>> /\ phase' = phase /\ feed' = feed
        BY <3>2 DEF PassMinute
      <4> QED
        BY <1>1, <4>3, <4>4 DEF ControlTyped
    <3> QED
      BY <1>6, <3>1, <3>2
  <2>2. agenda' \in Seq(Agenda) /\ InOrder(agenda') /\ \A some : ~Has(agenda', some)
    BY <2>1, EmptyAgenda
  <2>3. ControlTyped'
    BY <1>1, <1>3, <2>1, <2>2 DEF ControlTyped
  <2>4. /\ phase = "running" /\ Unapplied # {} => ~feed' /\ hard'
        /\ phase = "starting" => Unapplied = {}
    <3>1. CASE Connect
      BY <1>2, <2>1, <3>1, IdleControl DEF Connect
    <3>2. CASE PassMinute
      BY <1>3, <2>1, <3>2, IdleControl DEF PassMinute
    <3> QED
      BY <1>6, <3>1, <3>2
  <2>9. Control'
    BY <1>3, <2>1, <2>2, <2>3, <2>4, ResetControl
  <2>10. phase' = "running" => phase = "running"
    BY <2>1
  <2> QED
    BY <2>2, <2>9, <2>10 DEF Queued
<1>7. CASE Disconnect \/ ReceiveUnmapped \/ ReceiveInvalid \/ BeginClose
  <2>1. /\ phase' = phase /\ phase = "running" /\ feed' \in BOOLEAN /\ now' = now /\ faults' \in Nat
        /\ Idle
    <3>1. Idle
      BY <1>7 DEF Disconnect, ReceiveUnmapped, ReceiveInvalid, BeginClose, CloseOwed
    <3>2. phase' = phase /\ now' = now
      BY <1>7 DEF Disconnect, ReceiveUnmapped, ReceiveInvalid, BeginClose
    <3>3. feed' \in BOOLEAN
      BY <1>1, <1>7 DEF Disconnect, ReceiveUnmapped, ReceiveInvalid, BeginClose, ControlTyped
    <3>4. faults' \in {faults, faults + 1}
      BY <1>7 DEF Disconnect, ReceiveUnmapped, ReceiveInvalid, BeginClose
    <3> QED
      BY <1>1, <3>1, <3>2, <3>3, <3>4 DEF Idle
  <2>2. Unapplied # {} => ~feed /\ hard /\ ~feed' /\ hard'
    BY <1>2, <1>3, <1>7, <2>1, IdleControl
       DEF Disconnect, ReceiveUnmapped, ReceiveInvalid, BeginClose, Idle
  <2>3. /\ agenda' \in Seq(Agenda) /\ InOrder(agenda') /\ ~Has(agenda', ApplyOps)
        /\ ~Has(agenda', {"resume", "started"}) /\ ~Has(agenda', Begun)
    <3>0. /\ ApplyOps \cap PlainOps = {} /\ {"resume", "started"} \cap PlainOps = {}
          /\ Begun \cap PlainOps = {}
      BY DEF Begun, ApplyOps, TradeOps, PlainOps, HaltOps
    <3>1. CASE Disconnect \/ ReceiveUnmapped
      <4>1. PICK p : HaltDay(DayOf(now), FALSE) = p
        OBVIOUS
      <4>2. Plain(p)
        BY <1>1, <4>1, HaltDayShape
      <4>3. agenda' = p
        BY <3>1, <4>1 DEF Disconnect, ReceiveUnmapped
      <4> QED
        BY <3>0, <4>2, <4>3, PlainInOrder
    <3>2. CASE ReceiveInvalid
      <4>1. PICK p : HaltDay(DayOf(now), TRUE) = p
        OBVIOUS
      <4>2. PICK q : p \o Do("raise") = q
        OBVIOUS
      <4>3. agenda' = q
        BY <3>2, <4>1, <4>2 DEF ReceiveInvalid
      <4>4. p = <<>> \/ \E d \in Nat, h \in BOOLEAN : p = HaltDay(d, h)
        BY <1>1, <4>1
      <4>5. HaltedThen(p, "raise", q)
        BY <4>2, <4>4, HaltThen
      <4>6. ~("raise" \in ApplyOps) /\ ~("raise" \in {"resume", "started"}) /\ "raise" \notin Begun
        BY DEF Begun, ApplyOps, TradeOps
      <4> QED
        BY <3>0, <4>3, <4>5, <4>6 DEF HaltedThen, Has
    <3>3. CASE BeginClose
      <4> DEFINE Q == <<[do |-> "reconcile", for |-> "baseline"],
                        [do |-> "reconcile", for |-> "worse_costs"], [do |-> "close"]>>
      <4>1. Q = Each(ReconcileOf) \o Do("close")
        BY DEF Each, Family, ReconcileOf, Do, DoFor
      <4>2. /\ Q \in Seq(Agenda) /\ DOMAIN Q = {1, 2, 3} /\ Len(Q) = 3
            /\ \A i \in {1, 2, 3} : Q[i].do \in {"reconcile", "close"}
        <5>1. /\ [do |-> "reconcile", for |-> "baseline"] \in Agenda
              /\ [do |-> "reconcile", for |-> "worse_costs"] \in Agenda /\ [do |-> "close"] \in Agenda
          BY DEF Agenda, Scenario
        <5> QED
          BY <5>1
      <4>3. agenda' = Q
        BY <3>3, <4>1 DEF BeginClose
      <4> HIDE DEF Q
      <4>4. \A i \in DOMAIN Q : Rank(Q[i]) = -1
        BY <4>2 DEF Rank, HaltOps, FirstOps
      <4>5. InOrder(Q)
        BY <4>2, <4>4, ListedAgenda
      <4>6. /\ ApplyOps \cap {"reconcile", "close"} = {}
            /\ {"resume", "started"} \cap {"reconcile", "close"} = {}
            /\ Begun \cap {"reconcile", "close"} = {}
        BY DEF Begun, ApplyOps, TradeOps
      <4> QED
        BY <4>2, <4>3, <4>5, <4>6 DEF Has
    <3> QED
      BY <1>7, <3>1, <3>2, <3>3
  <2>4. ControlTyped'
    BY <1>1, <1>3, <2>1, <2>3 DEF ControlTyped
  <2>5. now <= now'
    BY <1>1, <2>1
  <2>9. Control'
    BY <1>3, <2>1, <2>2, <2>3, <2>4, <2>5, ResetControl
  <2>10. phase' = "running" => phase = "running"
    BY <2>1
  <2> QED
    BY <2>3, <2>9, <2>10 DEF Queued
<1> QED
  BY <1>4, <1>5, <1>6, <1>7 DEF Reset

LEMMA RestartControl ==
    ASSUME Control, Restart
    PROVE  Control' /\ phase' = "starting" /\ phase \in {"down", "broken"}
           /\ \A some : Queued(some)' => some \cap {"reconcile", "dispatch", "resume", "started"} # {}
<1>1. ControlTyped /\ now \in Nat
  BY DEF Control, ControlTyped
<1>2. /\ receipts' = receipts /\ contract' = contract /\ hard' = hard /\ audits' = audits
      /\ opportunities' = opportunities /\ phase' = "starting" /\ feed' = feed /\ now' = now
      /\ faults' = faults /\ phase \in {"down", "broken"}
  BY DEF Restart, tables
<1> DEFINE Q == <<[do |-> "reconcile", for |-> "baseline"], [do |-> "dispatch", for |-> "baseline"],
                  [do |-> "reconcile", for |-> "worse_costs"],
                  [do |-> "dispatch", for |-> "worse_costs"], [do |-> "resume"],
                  [do |-> "reconcile", for |-> "baseline"],
                  [do |-> "reconcile", for |-> "worse_costs"], [do |-> "started"]>>
<1>3. Q = Startup
  BY DEF Startup, Each, Family, Recover, ReconcileOf, Do, DoFor
<1>4. /\ Q[1] \in Agenda /\ Q[2] \in Agenda /\ Q[3] \in Agenda /\ Q[4] \in Agenda
      /\ Q[5] \in Agenda /\ Q[6] \in Agenda /\ Q[7] \in Agenda /\ Q[8] \in Agenda
  BY DEF Agenda, Scenario
<1>5. Q \in Seq(Agenda) /\ Len(Q) = 8 /\ DOMAIN Q = 1..8
  BY <1>4
<1>6. /\ Q[1].do = "reconcile" /\ Q[2].do = "dispatch" /\ Q[3].do = "reconcile"
      /\ Q[4].do = "dispatch" /\ Q[5] = [do |-> "resume"] /\ Q[6].do = "reconcile"
      /\ Q[7].do = "reconcile" /\ Q[8] = [do |-> "started"]
  OBVIOUS
<1>7. PICK q : Q = q
  OBVIOUS
<1>8. agenda' = q
  BY <1>3, <1>7 DEF Restart
<1>9. /\ q \in Seq(Agenda) /\ Len(q) = 8 /\ DOMAIN q = 1..8
      /\ q[1].do = "reconcile" /\ q[2].do = "dispatch" /\ q[3].do = "reconcile"
      /\ q[4].do = "dispatch" /\ q[5].do = "resume" /\ q[6].do = "reconcile"
      /\ q[7].do = "reconcile" /\ q[8].do = "started"
  BY <1>5, <1>6, <1>7
<1> HIDE DEF Q
<1>10. /\ Rank(q[1]) = -1 /\ Rank(q[2]) = -1 /\ Rank(q[3]) = -1 /\ Rank(q[4]) = -1
       /\ Rank(q[5]) = 10 /\ Rank(q[6]) = -1 /\ Rank(q[7]) = -1 /\ Rank(q[8]) = 11
  BY <1>9 DEF Rank, HaltOps, FirstOps
<1>11. ASSUME NEW i \in 1..8, NEW j \in 1..8, i < j
       PROVE  MayFollow(q[i], q[j])
  <2>1. CASE i \in {1, 2, 3, 4, 6, 7}
    BY <1>10, <2>1 DEF MayFollow
  <2>2. CASE i \in {5, 8}
    <3>1. j \in {6, 7, 8}
      BY <1>11, <2>2
    <3> QED
      BY <1>10, <1>11, <2>2, <3>1 DEF MayFollow
  <2>3. i \in {1, 2, 3, 4, 5, 6, 7, 8}
    OBVIOUS
  <2> QED
    BY <2>1, <2>2, <2>3
<1>12. \A i \in 1..8 : q[i].do \in {"reconcile", "dispatch", "resume", "started"}
  <2>1. \A i \in 1..8 : i \in {1, 2, 3, 4, 5, 6, 7, 8}
    OBVIOUS
  <2> QED
    BY <1>9, <2>1
<1>13. InOrder(q)
  BY <1>9, <1>11, <1>12 DEF InOrder
<1>14. ControlTyped'
  BY <1>1, <1>2, <1>8, <1>9 DEF ControlTyped
<1>15. \A some : Has(q, some) => some \cap {"reconcile", "dispatch", "resume", "started"} # {}
  BY <1>9, <1>12 DEF Has
<1>16. ~Has(q, ApplyOps)
  BY <1>15 DEF ApplyOps, TradeOps
<1>17. Has(q, {"resume"})
  <2>1. 5 \in DOMAIN q
    BY <1>9
  <2> QED
    BY <1>9, <2>1 DEF Has
<1>18. now <= now'
  BY <1>1, <1>2
<1>19. Control'
  BY <1>2, <1>8, <1>13, <1>14, <1>16, <1>17, <1>18, ResetControl
<1> QED
  BY <1>2, <1>8, <1>15, <1>19 DEF Queued

(* A bar is received.                                                      *)
LEMMA ReceiveControl ==
    ASSUME Control, Receive
    PROVE  /\ Control'
           /\ Unapplied = {} /\ Len(receipts') = Len(receipts) + 1
           /\ Unapplied' = {Len(receipts')} /\ DOMAIN receipts' = DOMAIN receipts \cup {Len(receipts')}
           /\ \A i \in DOMAIN receipts : receipts'[i] = receipts[i] /\ i # Len(receipts')
           /\ Last'.bar.ts > LastTs /\ Last'.disposition = DispositionOf(Last'.bar)
           /\ Printed(Last'.bar)
           /\ agenda' = <<[do |-> "apply"]>>
<1>1. ControlTyped /\ ReceiptsInOrder /\ receipts \in Seq(Receipt) /\ now \in Nat /\ faults \in Nat
  BY DEF Control, ControlTyped
<1>2. Unapplied = {} /\ phase = "running"
  BY IdleControl DEF Receive, Idle
<1>3. PICK b \in [ts : {now - 2, now - 1, now}, volume : BOOLEAN,
                  contract : Contracts, impulse : Impulses] :
         /\ b.ts > LastTs /\ Printed(b)
         /\ faults' = faults + (IF b.volume THEN 0 ELSE 1) + (IF b.ts = now - 1 THEN 0 ELSE 1)
                            + (IF Remapped(b) THEN 1 ELSE 0)
         /\ receipts' = Append(receipts, [bar |-> b, disposition |-> DispositionOf(b),
                                          applied |-> FALSE])
  BY DEF Receive
<1>4. /\ contract' = contract /\ hard' = hard /\ audits' = audits /\ opportunities' = opportunities
      /\ phase' = phase /\ feed' = feed /\ now' = now /\ agenda' = Do("apply")
  BY DEF Receive
<1> DEFINE new == [bar |-> b, disposition |-> DispositionOf(b), applied |-> FALSE]
<1>5. /\ DOMAIN receipts = 1..Len(receipts) /\ Len(receipts) \in Nat
      /\ \A i \in DOMAIN receipts : receipts[i] \in Receipt
  BY <1>1, LenProperties, ElementOfSeq
<1>6. \A i \in DOMAIN receipts : receipts[i].bar.ts \in Nat
  BY <1>5 DEF Receipt, MarketBar
<1>7. LastTs \in Int /\ LastTs >= -1 /\ \A i \in DOMAIN receipts : receipts[i].bar.ts <= LastTs
  <2>1. CASE receipts = <<>>
    <3>1. DOMAIN receipts = {}
      BY <2>1
    <3> QED
      BY <2>1, <3>1 DEF LastTs
  <2>2. CASE receipts # <<>>
    <3>1. Len(receipts) \in DOMAIN receipts
      BY <1>1, <1>5, <2>2, EmptySeq
    <3>2. \A i \in DOMAIN receipts : i < Len(receipts) \/ i = Len(receipts)
      BY <1>5
    <3>3. \A i \in DOMAIN receipts : receipts[i].bar.ts <= receipts[Len(receipts)].bar.ts
      BY <1>1, <1>6, <3>1, <3>2 DEF ReceiptsInOrder
    <3>4. LastTs = receipts[Len(receipts)].bar.ts
      BY <2>2 DEF LastTs
    <3> QED
      BY <1>6, <3>1, <3>3, <3>4
  <2> QED
    BY <2>1, <2>2
<1>8. b.ts \in Nat /\ b.ts <= now /\ b \in MarketBar
  <2>1. b.ts \in Int /\ b.ts >= 0
    BY <1>1, <1>3, <1>7
  <2>2. Impulses \subseteq {-1, 0, 1}
    BY ContinuousAssumption
  <2>3. /\ b = [ts |-> b.ts, volume |-> b.volume, contract |-> b.contract, impulse |-> b.impulse]
        /\ b.volume \in BOOLEAN /\ b.contract \in Contracts /\ b.impulse \in Impulses
        /\ b.ts \in {now - 2, now - 1, now}
    OBVIOUS
  <2>4. b.ts \in Nat
    BY <2>1
  <2>5. b.ts <= now
    BY <1>1, <2>3
  <2>6. b.impulse \in {-1, 0, 1}
    BY <2>2, <2>3
  <2>7. b \in [ts : Nat, volume : BOOLEAN, contract : Contracts, impulse : {-1, 0, 1}]
    BY <2>3, <2>4, <2>6, Zenon
  <2> QED
    BY <2>4, <2>5, <2>7 DEF MarketBar
<1>9. DispositionOf(b) \in Disposition
  BY DEF DispositionOf, Disposition
<1>10. new \in Receipt /\ new.bar = b /\ new.disposition = DispositionOf(b) /\ new.applied = FALSE
  BY <1>8, <1>9 DEF Receipt
<1>11. Append(receipts, new) = receipts'
  BY <1>3
<1> HIDE DEF new
<1>12. /\ receipts' \in Seq(Receipt) /\ Len(receipts') = Len(receipts) + 1
       /\ \A i \in 1..Len(receipts) : receipts'[i] = receipts[i]
       /\ receipts'[Len(receipts) + 1] = new
  <2>1. PICK r : receipts' = r
    OBVIOUS
  <2>2. Append(receipts, new) = r
    BY <1>11, <2>1
  <2>3. /\ Append(receipts, new) \in Seq(Receipt)
        /\ Len(Append(receipts, new)) = Len(receipts) + 1
        /\ \A i \in 1..Len(receipts) : Append(receipts, new)[i] = receipts[i]
        /\ Append(receipts, new)[Len(receipts) + 1] = new
    BY <1>1, <1>10, AppendProperties
  <2>4. /\ r \in Seq(Receipt) /\ Len(r) = Len(receipts) + 1
        /\ \A i \in 1..Len(receipts) : r[i] = receipts[i]
        /\ r[Len(receipts) + 1] = new
    BY <2>2, <2>3
  <2> QED
    BY <2>1, <2>4
<1>13. /\ DOMAIN receipts' = 1..(Len(receipts) + 1)
       /\ DOMAIN receipts' = DOMAIN receipts \cup {Len(receipts')}
  <2>1. DOMAIN receipts' = 1..(Len(receipts) + 1)
    BY <1>12, LenProperties
  <2> QED
    BY <1>5, <1>12, <2>1
<1>14. \A i \in DOMAIN receipts : receipts'[i] = receipts[i] /\ i # Len(receipts') /\ i < Len(receipts')
  BY <1>5, <1>12
<1>15. Unapplied' = {Len(receipts')}
  <2>1. \A i \in DOMAIN receipts : receipts[i].applied
    BY <1>2 DEF Unapplied
  <2>2. \A i \in DOMAIN receipts' : ~receipts'[i].applied <=> i = Len(receipts')
    BY <1>10, <1>12, <1>13, <1>14, <2>1
  <2>3. Len(receipts') \in DOMAIN receipts'
    BY <1>13
  <2> QED
    BY <2>2, <2>3 DEF Unapplied
<1>16. ReceiptsInOrder'
  <2>1. ASSUME NEW i \in DOMAIN receipts', NEW j \in DOMAIN receipts', i < j
        PROVE  receipts'[i].bar.ts < receipts'[j].bar.ts
    <3>1. i \in DOMAIN receipts /\ receipts'[i] = receipts[i]
      BY <1>5, <1>12, <1>13, <2>1
    <3>2. CASE j \in DOMAIN receipts
      BY <1>1, <1>14, <2>1, <3>1, <3>2 DEF ReceiptsInOrder
    <3>3. CASE j = Len(receipts')
      BY <1>3, <1>6, <1>7, <1>8, <1>10, <1>12, <3>1, <3>3
    <3> QED
      BY <1>13, <3>2, <3>3
  <2>2. \A i \in DOMAIN receipts' : receipts'[i].bar.ts <= now'
    BY <1>1, <1>4, <1>8, <1>10, <1>12, <1>13, <1>14 DEF ReceiptsInOrder
  <2>3. \A i \in DOMAIN receipts' : ~receipts'[i].applied => i = Len(receipts')
    BY <1>15 DEF Unapplied
  <2> QED
    BY <2>1, <2>2, <2>3 DEF ReceiptsInOrder
<1>17. Last' = new
  BY <1>12 DEF Last
<1>18. DispositionOf(b) = "accepted" => now = b.ts + 1
  BY <1>1, <1>8 DEF DispositionOf
<1> DEFINE Q == <<[do |-> "apply"]>>
<1>19. Q \in Seq(Agenda) /\ DOMAIN Q = {1} /\ Q[1] = [do |-> "apply"]
  BY DEF Agenda
<1>20. agenda' = Q
  BY <1>4 DEF Do
<1> HIDE DEF Q
<1>21. /\ InOrder(Q) /\ Has(Q, ApplyOps \cup {"raise"})
       /\ \A some : "apply" \notin some => ~Has(Q, some)
  <2>1. InOrder(Q)
    BY <1>19 DEF InOrder
  <2> QED
    BY <1>19, <2>1 DEF Has, ApplyOps
<1>22. ~Has(Q, TradeOps) /\ ~Has(Q, Attempted) /\ ~Has(Q, {"resume", "started"})
  BY <1>21 DEF TradeOps, Attempted
<1>23. ReceiptQueued'
  <2>1. /\ ~Queued(TradeOps)' /\ ~Queued({"advance", "step", "decide", "opportunity"})'
        /\ Queued(ApplyOps \cup {"raise"})'
    BY <1>20, <1>21, <1>22 DEF Queued, Attempted
  <2>2. Last'.disposition = "accepted" => now' = Last'.bar.ts + 1
    BY <1>4, <1>10, <1>17, <1>18
  <2> QED
    BY <1>2, <1>4, <1>15, <2>1, <2>2 DEF ReceiptQueued
<1>24. ControlTyped'
  <2>1. faults' \in Nat
    BY <1>1, <1>3
  <2> QED
    BY <1>1, <1>4, <1>12, <1>19, <1>20, <2>1 DEF ControlTyped
<1>25. Control'
  BY <1>2, <1>4, <1>16, <1>20, <1>21, <1>22, <1>23, <1>24 DEF Control, Queued
<1>26. Last'.disposition = DispositionOf(Last'.bar) /\ Last'.bar = b
  BY <1>10, <1>17
<1> QED
  BY <1>2, <1>3, <1>12, <1>13, <1>14, <1>15, <1>20, <1>25, <1>26 DEF Q

LEMMA ControlInit == Init => Control
<1> SUFFICES ASSUME Init
             PROVE  Control
  OBVIOUS
<1> USE DEF Init
<1>1. receipts \in Seq(Receipt) /\ DOMAIN receipts = {}
  OBVIOUS
<1>2. agenda \in Seq(Agenda) /\ InOrder(agenda) /\ \A some : ~Has(agenda, some)
  BY EmptyAgenda
<1>3. ControlTyped
  BY <1>1, <1>2 DEF ControlTyped
<1>4. ReceiptsInOrder /\ Unapplied = {}
  BY <1>1 DEF ReceiptsInOrder, Unapplied
<1>5. ReceiptQueued
  BY <1>2, <1>4 DEF ReceiptQueued, Queued
<1> QED
  BY <1>2, <1>3, <1>4, <1>5 DEF Control, Queued

LEMMA ControlNext == Control /\ [Next]_vars => Control'
<1> SUFFICES ASSUME Control, [Next]_vars
             PROVE  Control'
  OBVIOUS
<1>1. CASE UNCHANGED vars
  BY <1>1 DEF vars, Control, ControlTyped, InOrder, ReceiptsInOrder, ReceiptQueued, Queued, Has,
              Last, Unapplied, Doing
<1>2. CASE Reconcile
  <2>1. CASE ReconcileError(w[For], sim[For]) = "none"
    BY <1>2, <2>1, PoppedControl
  <2>2. CASE ReconcileError(w[For], sim[For]) # "none"
    BY <1>2, <2>2, HeadIs, RaiseControl DEF Reconcile
  <2> QED
    BY <2>1, <2>2
<1>3. CASE Dispatch
  <2>1. CASE Pending(w[For]) = {}
    BY <1>3, <2>1, PoppedControl
  <2>2. CASE Pending(w[For]) # {} /\ Refused(sim[For], w[For].intents[FirstPending(For)].req)
    BY <1>3, <2>2, HeadIs, RaiseControl DEF Dispatch
  <2>3. CASE Pending(w[For]) # {} /\ ~Refused(sim[For], w[For].intents[FirstPending(For)].req)
    BY <1>3, <2>3, SubmitControl
  <2> QED
    BY <2>1, <2>2, <2>3
<1>4. CASE Decide
  <2>1. CASE Backwards(w[For], Event(bar))
    BY <1>4, <2>1, HeadIs, RaiseControl DEF Decide
  <2>2. CASE ~Backwards(w[For], Event(bar))
    BY <1>4, <2>2, PoppedControl
  <2> QED
    BY <2>1, <2>2
<1>5. CASE RaiseNow
  BY <1>5, HeadIs, RaiseControl DEF RaiseNow
<1>6. CASE Reset
  BY <1>6, ResetsControl
<1>7. CASE Restart
  BY <1>7, RestartControl
<1>8. CASE Receive
  BY <1>8, ReceiveControl
<1>9. CASE Exclude \/ FinishApply
  BY <1>9, SettleControl
<1>10. CASE \/ Acknowledge \/ MarkHard \/ CancelEntries \/ HaltEntries \/ Advance
            \/ CountOpportunity
  BY <1>10, PoppedControl
<1>11. CASE BeginApply \/ CheckContract \/ CheckFlat
  BY <1>11, FirstStepsControl
<1> QED
  BY <1>1, <1>2, <1>3, <1>4, <1>5, <1>6, <1>7, <1>8, <1>9, <1>10, <1>11, PinControl,
     BeginStepControl, ResumeControl, CloseDayControl
     DEF Reset, Next, Process, Environment

\* What a step that replaces the head by ops leaves queued.
Replaces(ops) ==
    /\ \A some : Queued(some)' <=> Has(ops, some) \/ Behind(agenda, some)
    /\ \A some, s : QueuedFor(some, s)' <=> HasFor(ops, some, s) \/ BehindFor(agenda, some, s)
    /\ \A some : Queued(some) <=> agenda[1].do \in some \/ Behind(agenda, some)
    /\ \A some, s : QueuedFor(some, s) <=> \/ agenda[1].do \in some /\ agenda[1].for = s
                                           \/ BehindFor(agenda, some, s)
    /\ \A s, submit : /\ submit \in BOOLEAN /\ Cancelling(agenda, s, submit)
                      /\ agenda[1] = [do |-> "cancel", for |-> s] => submit
                      /\ submit /\ agenda[1] = [do |-> "dispatch", for |-> s] =>
                            \E m \in DOMAIN ops : ops[m] = [do |-> "dispatch", for |-> s]
                      => Cancelling(agenda', s, submit)
    /\ ops # <<>> => agenda' # <<>> /\ Head(agenda') = ops[1]
    /\ ops = <<>> => /\ ~Doing("acknowledge")'
                     /\ Doing("decide")' =>
                          agenda[1] = [do |-> "reconcile", for |-> Head(agenda').for]

LEMMA ThenSteps ==
    ASSUME Control, agenda # <<>>, NEW ops \in Seq(Agenda), Then(ops)
    PROVE  Replaces(ops)
<1>1. agenda \in Seq(Agenda) /\ InOrder(agenda)
  BY DEF Control, ControlTyped
<1>2. PICK q : agenda' = q
  OBVIOUS
<1>3. ops \o Tail(agenda) = q
  BY <1>2 DEF Then
<1>4. Spliced(agenda, ops, q)
  BY <1>1, <1>3, Replaced
<1>5. /\ \A some : Has(q, some) <=> Has(ops, some) \/ Behind(agenda, some)
      /\ \A some, s : HasFor(q, some, s) <=> HasFor(ops, some, s) \/ BehindFor(agenda, some, s)
      /\ \A some : Has(agenda, some) <=> agenda[1].do \in some \/ Behind(agenda, some)
      /\ \A some, s : HasFor(agenda, some, s) <=> \/ agenda[1].do \in some /\ agenda[1].for = s
                                                  \/ BehindFor(agenda, some, s)
  BY <1>1, <1>3, ReplacedHas
<1>6. \A s, submit : /\ submit \in BOOLEAN /\ Cancelling(agenda, s, submit)
                     /\ agenda[1] = [do |-> "cancel", for |-> s] => submit
                     /\ submit /\ agenda[1] = [do |-> "dispatch", for |-> s] =>
                           \E m \in DOMAIN ops : ops[m] = [do |-> "dispatch", for |-> s]
                     => Cancelling(q, s, submit)
  BY <1>4, CancellingStays
<1>7. /\ DOMAIN agenda = 1..Len(agenda) /\ Len(agenda) \in Nat /\ q \in Seq(Agenda)
      /\ DOMAIN q = 1..Len(q) /\ Len(q) \in Nat /\ Len(q) = Len(ops) + Len(agenda) - 1
      /\ DOMAIN ops = 1..Len(ops) /\ Len(ops) \in Nat
      /\ \A i \in DOMAIN ops : i \in DOMAIN q /\ q[i] = ops[i]
      /\ \A i \in DOMAIN q : i \notin DOMAIN ops =>
            i + 1 - Len(ops) \in DOMAIN agenda /\ i + 1 - Len(ops) # 1 /\ q[i] = agenda[i + 1 - Len(ops)]
  BY <1>4 DEF Spliced
<1>8. q # <<>> => 1 \in DOMAIN q /\ Head(q) = q[1]
  BY <1>7, EmptySeq
<1>9. ops # <<>> => q # <<>> /\ Head(q) = ops[1]
  <2> SUFFICES ASSUME ops # <<>>
               PROVE  q # <<>> /\ Head(q) = ops[1]
    OBVIOUS
  <2>1. 1 \in DOMAIN ops
    BY <1>7, EmptySeq
  <2>2. 1 \in DOMAIN q /\ q[1] = ops[1]
    BY <1>7, <2>1
  <2>3. q # <<>>
    BY <1>7, <2>2
  <2> QED
    BY <1>8, <2>2, <2>3
<1>10. ASSUME ops = <<>>, q # <<>>
       PROVE  /\ Head(q).do # "acknowledge"
              /\ Head(q).do = "decide" => agenda[1] = [do |-> "reconcile", for |-> Head(q).for]
  <2>1. Len(ops) = 0 /\ DOMAIN ops = {}
    BY <1>10
  <2>2. 1 \in DOMAIN q /\ Head(q) = q[1]
    BY <1>8, <1>10
  <2>3. 2 \in DOMAIN agenda /\ q[1] = agenda[2]
    <3>1. 1 + 1 - Len(ops) = 2
      BY <2>1
    <3> QED
      BY <1>7, <2>1, <2>2, <3>1
  <2>4. agenda[2].do # "acknowledge"
    BY <1>1, <2>3 DEF InOrder
  <2>5. agenda[2].do = "decide" => agenda[1] = [do |-> "reconcile", for |-> agenda[2].for]
    BY <1>1, <2>3 DEF InOrder
  <2> QED
    BY <2>2, <2>3, <2>4, <2>5
<1>11. ops = <<>> => /\ ~Doing("acknowledge")'
                     /\ Doing("decide")' =>
                          agenda[1] = [do |-> "reconcile", for |-> Head(agenda').for]
  BY <1>2, <1>10 DEF Doing
<1>12. /\ \A some : Queued(some)' <=> Has(ops, some) \/ Behind(agenda, some)
       /\ \A some, s : QueuedFor(some, s)' <=> HasFor(ops, some, s) \/ BehindFor(agenda, some, s)
       /\ \A some : Queued(some) <=> agenda[1].do \in some \/ Behind(agenda, some)
       /\ \A some, s : QueuedFor(some, s) <=> \/ agenda[1].do \in some /\ agenda[1].for = s
                                              \/ BehindFor(agenda, some, s)
  BY <1>2, <1>5 DEF Queued, QueuedFor
<1> QED
  BY <1>2, <1>6, <1>9, <1>11, <1>12 DEF Replaces

Received == {Event(receipts[i].bar) : i \in DOMAIN receipts}

\* Entries that are decided late and still live, of a scenario.
Late(s) == {k \in DOMAIN w[s].intents :
              /\ Live(sim[s], w[s], k)
              /\ w[s].intents[k].req.submitted + Latency < w[s].intents[k].req.eligible}

\* What a step must leave of the broker's advances and the reconciliations that are due.
StepsDue ==
    /\ \A s \in Scenario : QueuedFor({"step", "decide"}, s) /\ ~QueuedFor({"advance"}, s)
          => Event(Last.bar) \in sim[s].bars
    /\ Doing("decide") => w[For].fills = sim[For].fills
    /\ Doing("acknowledge") => Pending(w[For]) # {}

(* The parts of Ledgers after a step.                                      *)
LEMMA LedgersFrom ==
    ASSUME Ledgers,
           sim' \in [Scenario -> SimLedger], w' \in [Scenario -> WorkerLedger],
           \A s \in Scenario : Agree(sim'[s], w'[s]),
           \A s \in Scenario : sim'[s].bars \subseteq Received', StepsDue',
           \A s \in Scenario : \A k \in Late(s)' :
               /\ w'[s].intents[k].req.submitted = LastTs' + 1
               /\ phase' = "running" => Cancelling(agenda', s, k \notin DOMAIN sim'[s].orders)
    PROVE  Ledgers'
<1>1. InStep'
  BY DEF InStep, StepsDue, Received
<1>2. LateCancelled'
  BY DEF LateCancelled, Late
<1> QED
  BY <1>1, <1>2 DEF Ledgers

(* Late entries that remain.                                               *)
LEMMA LateStays ==
    ASSUME Ledgers, LastTs' = LastTs, NEW s \in Scenario,
           \A k \in Late(s)' : /\ k \in Late(s)
                               /\ w'[s].intents[k].req = w[s].intents[k].req
                               /\ k \notin DOMAIN sim'[s].orders => k \notin DOMAIN sim[s].orders,
           phase' = "running" => phase = "running",
           phase' = "running" => \A k \in Late(s)' :
               Cancelling(agenda, s, k \notin DOMAIN sim[s].orders)
                 => Cancelling(agenda', s, k \notin DOMAIN sim'[s].orders)
    PROVE  \A k \in Late(s)' :
               /\ w'[s].intents[k].req.submitted = LastTs' + 1
               /\ phase' = "running" => Cancelling(agenda', s, k \notin DOMAIN sim'[s].orders)
<1>1. \A k \in Late(s) : /\ w[s].intents[k].req.submitted = LastTs + 1
                         /\ phase = "running" => Cancelling(agenda, s, k \notin DOMAIN sim[s].orders)
  BY DEF Ledgers, LateCancelled, Late
<1> QED
  BY <1>1

\* The receipts after a step name the same last bar.
SameLast == LastTs' = LastTs /\ Last'.bar = Last.bar /\ Received' = Received

LEMMA UnchangedReceipts ==
    ASSUME receipts' = receipts
    PROVE  SameLast
BY DEF SameLast, LastTs, Last, Received

(* A step on the agenda that leaves the ledgers alone.                     *)
LEMMA QuietThen ==
    ASSUME Control, Ledgers, agenda # <<>>, NEW ops \in Seq(Agenda), Then(ops),
           UNCHANGED ledgers, phase' = phase, SameLast,
           agenda[1].do \notin {"cancel", "dispatch", "advance", "reconcile"},
           \A s \in Scenario : HasFor(ops, {"step", "decide"}, s) =>
               \/ HasFor(ops, {"advance"}, s)
               \/ agenda[1].do = "step" /\ QueuedFor({"step", "decide"}, s),
           ops # <<>> => ops[1].do \notin {"decide", "acknowledge"}
    PROVE  Ledgers'
<1>1. Replaces(ops)
  BY ThenSteps
<1>2. sim' = sim /\ w' = w
  BY DEF ledgers
<1>3. /\ sim \in [Scenario -> SimLedger] /\ w \in [Scenario -> WorkerLedger]
      /\ \A s \in Scenario : Agree(sim[s], w[s]) /\ InStep
  BY DEF Ledgers
<1>4. ASSUME NEW s \in Scenario, QueuedFor({"step", "decide"}, s)', ~QueuedFor({"advance"}, s)'
      PROVE  Event(Last'.bar) \in sim[s].bars
  <2>1. ~HasFor(ops, {"advance"}, s) /\ ~BehindFor(agenda, {"advance"}, s)
    BY <1>1, <1>4 DEF Replaces
  <2>2. ~QueuedFor({"advance"}, s)
    BY <1>1, <2>1 DEF Replaces
  <2>3. QueuedFor({"step", "decide"}, s)
    BY <1>1, <1>4, <2>1 DEF Replaces
  <2>4. Event(Last.bar) \in sim[s].bars
    BY <2>2, <2>3 DEF Ledgers, InStep
  <2> QED
    BY <2>4 DEF SameLast
<1>5. ~Doing("decide")' /\ ~Doing("acknowledge")'
  <2>1. CASE ops = <<>>
    BY <1>1, <2>1 DEF Replaces
  <2>2. CASE ops # <<>>
    <3>1. agenda' # <<>> /\ Head(agenda') = ops[1]
      BY <1>1, <2>2 DEF Replaces
    <3> QED
      BY <2>2, <3>1 DEF Doing
  <2> QED
    BY <2>1, <2>2
<1>6. StepsDue'
  BY <1>2, <1>4, <1>5 DEF StepsDue
<1>7. ASSUME NEW s \in Scenario
      PROVE  \A k \in Late(s)' :
               /\ w'[s].intents[k].req.submitted = LastTs' + 1
               /\ phase' = "running" => Cancelling(agenda', s, k \notin DOMAIN sim'[s].orders)
  <2>1. Late(s)' = Late(s)
    BY <1>2 DEF Late
  <2>2. \A k \in Late(s)' : Cancelling(agenda, s, k \notin DOMAIN sim[s].orders)
                 => Cancelling(agenda', s, k \notin DOMAIN sim'[s].orders)
    <3> SUFFICES ASSUME NEW k \in Late(s)', Cancelling(agenda, s, k \notin DOMAIN sim[s].orders)
                 PROVE  Cancelling(agenda', s, k \notin DOMAIN sim'[s].orders)
      OBVIOUS
    <3> DEFINE submit == k \notin DOMAIN sim[s].orders
    <3>1. submit \in BOOLEAN /\ (k \notin DOMAIN sim'[s].orders) = submit
      BY <1>2
    <3>2. Cancelling(agenda, s, submit)
      OBVIOUS
    <3> HIDE DEF submit
    <3>3. /\ agenda[1] # [do |-> "cancel", for |-> s]
          /\ agenda[1] # [do |-> "dispatch", for |-> s]
      OBVIOUS
    <3>4. Cancelling(agenda', s, submit)
      BY <1>1, <3>1, <3>2, <3>3 DEF Replaces
    <3> QED
      BY <3>1, <3>4
  <2>3. LastTs' = LastTs
    BY DEF SameLast
  <2> QED
    BY <1>2, <2>1, <2>2, <2>3, LateStays
<1>8. \A s \in Scenario : sim'[s].bars \subseteq Received'
  BY <1>2 DEF Ledgers, InStep, SameLast, Received
<1> QED
  BY <1>2, <1>3, <1>6, <1>7, <1>8, LedgersFrom

(* A step that begins or ends a call and leaves the ledgers alone.         *)
LEMMA QuietReset ==
    ASSUME Control, Ledgers, Control', UNCHANGED ledgers, Received \subseteq Received',
           ~Queued({"step", "decide", "acknowledge"})',
           \/ LastTs' = LastTs /\ phase' # "running"
           \/ phase = "running" /\ agenda = <<>>
           \/ LastTs' = LastTs /\ \A s \in Scenario : Cancelling(agenda', s, TRUE)
    PROVE  Ledgers'
<1>1. sim' = sim /\ w' = w
  BY DEF ledgers
<1>2. /\ sim \in [Scenario -> SimLedger] /\ w \in [Scenario -> WorkerLedger]
      /\ \A s \in Scenario : Agree(sim[s], w[s]) /\ sim[s].bars \subseteq Received
  BY DEF Ledgers, InStep, Received
<1>3. ~Doing("decide")' /\ ~Doing("acknowledge")' /\ \A s : ~QueuedFor({"step", "decide"}, s)'
  <2>1. PICK q : agenda' = q
    OBVIOUS
  <2>2. q \in Seq(Agenda)
    BY <2>1 DEF Control, ControlTyped
  <2>3. q # <<>> => 1 \in DOMAIN q /\ Head(q) = q[1]
    BY <2>2, LenProperties, EmptySeq
  <2>4. ~Has(q, {"step", "decide", "acknowledge"})
    BY <2>1 DEF Queued
  <2>5. q # <<>> => Head(q).do # "decide" /\ Head(q).do # "acknowledge"
    BY <2>3, <2>4 DEF Has
  <2>6. \A s : ~HasFor(q, {"step", "decide"}, s)
    BY <2>4 DEF Has, HasFor
  <2> QED
    BY <2>1, <2>5, <2>6 DEF Doing, QueuedFor
<1>4. StepsDue'
  BY <1>3 DEF StepsDue
<1>5. \A s \in Scenario : Late(s)' = Late(s)
  BY <1>1 DEF Late
<1>6. \A s \in Scenario : \A k \in Late(s) :
          /\ w[s].intents[k].req.submitted = LastTs + 1
          /\ phase = "running" => Cancelling(agenda, s, k \notin DOMAIN sim[s].orders)
  BY DEF Ledgers, LateCancelled, Late
<1>7. ASSUME NEW s \in Scenario, NEW k \in Late(s)'
      PROVE  /\ w'[s].intents[k].req.submitted = LastTs' + 1
             /\ phase' = "running" => Cancelling(agenda', s, k \notin DOMAIN sim'[s].orders)
  <2>1. k \in Late(s)
    BY <1>5, <1>7
  <2>2. CASE LastTs' = LastTs /\ phase' # "running"
    BY <1>1, <1>6, <2>1, <2>2
  <2>3. CASE phase = "running" /\ agenda = <<>>
    <3>1. Cancelling(agenda, s, k \notin DOMAIN sim[s].orders)
      BY <1>6, <2>1, <2>3
    <3>2. DOMAIN agenda = {}
      BY <2>3
    <3> QED
      BY <3>1, <3>2 DEF Cancelling
  <2>4. CASE LastTs' = LastTs /\ \A s_1 \in Scenario : Cancelling(agenda', s_1, TRUE)
    <3>1. Cancelling(agenda', s, TRUE)
      BY <2>4
    <3>2. Cancelling(agenda', s, k \notin DOMAIN sim'[s].orders)
      BY <3>1 DEF Cancelling
    <3> QED
      BY <1>1, <1>6, <2>1, <2>4, <3>2
  <2> QED
    BY <2>2, <2>3, <2>4
<1>8. \A s \in Scenario : sim'[s].bars \subseteq Received'
  BY <1>1, <1>2
<1> QED
  BY <1>1, <1>2, <1>4, <1>7, <1>8, LedgersFrom

LEMMA QuietStepsLedgers ==
    ASSUME Control, Ledgers,
           \/ MarkHard \/ BeginApply \/ CheckContract \/ CheckFlat \/ CountOpportunity
           \/ Resume \/ CloseDay
    PROVE  Ledgers'
<1>1. ControlTyped /\ DayOf(now) \in Nat
  BY DayNat DEF Control, ControlTyped
<1>2. /\ Doing("apply") \/ Doing("contract") \/ Doing("flat") => ReceivedDay \in Nat
  BY HeadIs, InHand DEF Queued, ApplyOps, TradeOps
<1> DEFINE First == \/ Doing("hard_halt") \/ Doing("apply") \/ Doing("contract") \/ Doing("flat")
                    \/ Doing("opportunity") \/ Doing("resume") \/ Doing("close")
\* The next entries are a halt and at most two more.
           Next2(ops) == /\ Then(ops) /\ ops \in Seq(Agenda)
                         /\ ~Has(ops, {"step", "decide", "acknowledge"})
<1>3. First /\ UNCHANGED ledgers /\ phase' = phase /\ receipts' = receipts
  BY DEF MarkHard, BeginApply, CheckContract, CheckFlat, CountOpportunity, Resume, CloseDay, tables
<1>4. \E ops : Next2(ops)
  <2>0. ASSUME NEW x \in {"contract", "applied", "flat", "exclude", "raise", "pin"}
        PROVE  Do(x) \in Seq(Agenda) /\ ~Has(Do(x), {"step", "decide", "acknowledge"})
    <3>1. /\ Do(x) \in Seq(Agenda)
          /\ \A i \in DOMAIN Do(x) : Do(x)[i].do \in PlainOps \cup {x}
      BY OneStep
    <3>2. {"step", "decide", "acknowledge"} \cap (PlainOps \cup {x}) = {}
      BY DEF PlainOps, HaltOps
    <3> QED
      BY <3>1, <3>2 DEF Has
  <2>1. ASSUME NEW day \in Nat, NEW hardly \in BOOLEAN,
               NEW x \in {"contract", "applied", "flat", "exclude", "raise"}
        PROVE  /\ HaltDay(day, hardly) \o Do(x) \in Seq(Agenda)
               /\ ~Has(HaltDay(day, hardly) \o Do(x), {"step", "decide", "acknowledge"})
    <3>1. PICK p : HaltDay(day, hardly) = p
      OBVIOUS
    <3>2. PICK q : p \o Do(x) = q
      OBVIOUS
    <3>3. p = <<>> \/ \E d \in Nat, h \in BOOLEAN : p = HaltDay(d, h)
      BY <3>1
    <3>4. HaltedThen(p, x, q)
      BY <3>2, <3>3, HaltThen
    <3>5. {"step", "decide", "acknowledge"} \cap (PlainOps \cup {x}) = {}
      BY DEF PlainOps, HaltOps
    <3>6. q \in Seq(Agenda) /\ ~Has(q, {"step", "decide", "acknowledge"})
      BY <3>4, <3>5 DEF HaltedThen, Has
    <3> QED
      BY <3>1, <3>2, <3>6
  <2>2. ASSUME NEW day \in Nat, NEW hardly \in BOOLEAN
        PROVE  /\ HaltDay(day, hardly) \in Seq(Agenda)
               /\ ~Has(HaltDay(day, hardly), {"step", "decide", "acknowledge"})
    <3>1. PICK p : HaltDay(day, hardly) = p
      OBVIOUS
    <3>2. Plain(p)
      BY <3>1, HaltDayShape
    <3>3. {"step", "decide", "acknowledge"} \cap PlainOps = {}
      BY DEF PlainOps, HaltOps
    <3>4. p \in Seq(Agenda) /\ ~Has(p, {"step", "decide", "acknowledge"})
      BY <3>2, <3>3, PlainInOrder
    <3> QED
      BY <3>1, <3>4
  <2>3. <<>> \in Seq(Agenda) /\ ~Has(<<>>, {"step", "decide", "acknowledge"})
    BY EmptyAgenda
  <2>4. CASE MarkHard \/ CountOpportunity
    BY <2>3, <2>4 DEF MarkHard, CountOpportunity
  <2>5. CASE CloseDay
    <3>1. Then(<<>>) \/ Then(HaltDay(DayOf(now), TRUE))
      BY <2>5 DEF CloseDay
    <3> QED
      BY <1>1, <2>2, <2>3, <3>1
  <2>6. CASE Resume
    <3> DEFINE Q == <<[do |-> "apply"], [do |-> "resume"]>>
    <3>1. Q = Do("apply") \o Do("resume")
      BY DEF Do
    <3>2. /\ Q \in Seq(Agenda) /\ DOMAIN Q = {1, 2} /\ Q[1].do = "apply" /\ Q[2].do = "resume"
      <4>1. [do |-> "apply"] \in Agenda /\ [do |-> "resume"] \in Agenda
        BY DEF Agenda
      <4> QED
        BY <4>1
    <3>3. Then(<<>>) \/ Then(Q)
      BY <2>6, <3>1 DEF Resume
    <3> HIDE DEF Q
    <3>4. ~Has(Q, {"step", "decide", "acknowledge"})
      BY <3>2 DEF Has
    <3> QED
      BY <2>3, <3>2, <3>3, <3>4
  <2>7. CASE CheckContract
    <3>1. ReceivedDay \in Nat
      BY <1>2, <2>7 DEF CheckContract
    <3>2. \/ Then(Do("pin")) \/ Then(HaltDay(ReceivedDay, TRUE) \o Do("exclude"))
          \/ Then(HaltDay(ReceivedDay, FALSE) \o Do("flat"))
      BY <2>7 DEF CheckContract
    <3> QED
      BY <2>0, <2>1, <3>1, <3>2
  <2>8. CASE CheckFlat
    <3>1. ReceivedDay \in Nat
      BY <1>2, <2>8 DEF CheckFlat
    <3>2. Then(Do("pin")) \/ Then(HaltDay(ReceivedDay, TRUE) \o Do("raise"))
      BY <2>8 DEF CheckFlat
    <3> QED
      BY <2>0, <2>1, <3>1, <3>2
  <2>9. CASE BeginApply
    <3>1. ReceivedDay \in Nat
      BY <1>2, <2>9 DEF BeginApply
    <3>2. PICK c : Do("contract") = c
      OBVIOUS
    <3>3. <<>> \o c = c
      <4>1. c \in Seq(Agenda)
        BY <2>0, <3>2
      <4> QED
        BY <4>1
    <3>4. \/ Then(HaltDay(ReceivedDay, FALSE) \o Do("contract")) \/ Then(Do("contract"))
          \/ Then(HaltDay(DayOf(now), FALSE) \o Do("applied")) \/ Then(Do("applied"))
      <4>1. CASE receipts[Current].disposition = "accepted"
        <5>1. Then((IF MissingEvent THEN HaltDay(ReceivedDay, FALSE) ELSE <<>>) \o Do("contract"))
          BY <2>9, <4>1 DEF BeginApply
        <5> QED
          BY <3>2, <3>3, <5>1
      <4>2. CASE receipts[Current].disposition # "accepted"
        BY <2>9, <4>2 DEF BeginApply
      <4> QED
        BY <4>1, <4>2
    <3> QED
      BY <1>1, <2>0, <2>1, <3>1, <3>4
  <2> QED
    BY <2>4, <2>5, <2>6, <2>7, <2>8, <2>9
<1>5. PICK ops : Next2(ops)
  BY <1>4
<1>6. SameLast
  BY <1>3, UnchangedReceipts
<1>7. agenda # <<>> /\ agenda[1].do \notin {"cancel", "dispatch", "advance", "reconcile"}
  BY <1>3, HeadIs
<1>8. \A s : ~HasFor(ops, {"step", "decide"}, s)
  BY <1>5 DEF Has, HasFor
<1>9. ops # <<>> => ops[1].do \notin {"decide", "acknowledge"}
  <2>1. ops # <<>> => 1 \in DOMAIN ops
    BY <1>5, LenProperties, EmptySeq
  <2> QED
    BY <1>5, <2>1 DEF Has
<1> QED
  BY <1>3, <1>5, <1>6, <1>7, <1>8, <1>9, QuietThen

LEMMA PinLedgers ==
    ASSUME Control, Ledgers, Pin
    PROVE  Ledgers'
<1>1. PICK q : PinOps = q
  OBVIOUS
<1>2. /\ q \in Seq(Agenda) /\ Len(q) = 8 /\ DOMAIN q = 1..8
      /\ q[1] = [do |-> "advance", for |-> "baseline"]
      /\ q[4] = [do |-> "advance", for |-> "worse_costs"]
  BY <1>1, PinSteps
<1>3. Then(q) /\ UNCHANGED ledgers /\ phase' = phase /\ receipts' = receipts /\ Doing("pin")
  BY <1>1 DEF Pin, PinOps
<1>4. SameLast /\ agenda # <<>>
      /\ agenda[1].do \notin {"cancel", "dispatch", "advance", "reconcile"}
  BY <1>3, UnchangedReceipts, HeadIs
<1>5. \A s \in Scenario : HasFor(q, {"advance"}, s)
  <2>1. 1 \in DOMAIN q /\ 4 \in DOMAIN q
    BY <1>2
  <2> QED
    BY <1>2, <2>1 DEF HasFor, Scenario
<1>6. q[1].do \notin {"decide", "acknowledge"}
  BY <1>2
<1> QED
  BY <1>2, <1>3, <1>4, <1>5, <1>6, QuietThen

LEMMA BeginStepLedgers ==
    ASSUME Control, Ledgers, BeginStep
    PROVE  Ledgers'
<1>1. Doing("step") /\ UNCHANGED ledgers /\ phase' = phase /\ receipts' = receipts
  BY DEF BeginStep, tables
<1>2. For \in Scenario /\ For = agenda[1].for /\ agenda # <<>> /\ agenda[1].do = "step"
  BY <1>1, HeadFor, HeadIs
<1>3. SameLast
  BY <1>1, UnchangedReceipts
<1>4. CASE Event(bar) \in w[For].bars
  <2>1. PICK ops : ops = <<>>
    OBVIOUS
  <2>2. ops \in Seq(Agenda) /\ Then(ops) /\ \A some, s : ~HasFor(ops, some, s)
    BY <1>4, <2>1, EmptyAgenda DEF BeginStep
  <2> QED
    BY <1>1, <1>2, <1>3, <2>1, <2>2, QuietThen
<1>5. CASE Event(bar) \notin w[For].bars
  <2> DEFINE Q == <<[do |-> "reconcile", for |-> For], [do |-> "decide", for |-> For],
                    [do |-> "dispatch", for |-> For]>>
  <2>1. Q = DoFor("reconcile", For) \o DoFor("decide", For) \o DoFor("dispatch", For)
    BY DEF DoFor
  <2>2. /\ [do |-> "reconcile", for |-> For] \in Agenda /\ [do |-> "decide", for |-> For] \in Agenda
        /\ [do |-> "dispatch", for |-> For] \in Agenda
    BY <1>2 DEF Agenda
  <2>3. /\ Q \in Seq(Agenda) /\ DOMAIN Q = {1, 2, 3} /\ Q[1].do = "reconcile"
        /\ \A i \in {1, 2, 3} : Q[i].for = For
    BY <2>2
  <2>4. Then(Q)
    BY <1>5, <2>1 DEF BeginStep
  <2> HIDE DEF Q
  <2>5. QueuedFor({"step", "decide"}, For)
    <3>1. 1 \in DOMAIN agenda
      BY <1>1, HeadIs
    <3> QED
      BY <1>2, <3>1 DEF QueuedFor, HasFor
  <2>6. \A s \in Scenario : HasFor(Q, {"step", "decide"}, s) =>
           agenda[1].do = "step" /\ QueuedFor({"step", "decide"}, s)
    <3>1. \A s \in Scenario : HasFor(Q, {"step", "decide"}, s) => s = For
      BY <2>3 DEF HasFor
    <3> QED
      BY <1>2, <2>5, <3>1
  <2>7. Q # <<>> => Q[1].do \notin {"decide", "acknowledge"}
    BY <2>3
  <2>8. agenda[1].do \notin {"cancel", "dispatch", "advance", "reconcile"}
    BY <1>2
  <2> QED
    BY <1>1, <1>2, <1>3, <2>3, <2>4, <2>6, <2>7, <2>8, QuietThen
<1> QED
  BY <1>4, <1>5

\* The events of a settled receipt are the same.
LEMMA SettledSame ==
    ASSUME Control, Exclude \/ FinishApply
    PROVE  SameLast
<1>1. /\ Len(receipts') = Len(receipts) /\ Last'.bar = Last.bar
      /\ \A i \in DOMAIN receipts : i # Len(receipts) => receipts'[i] = receipts[i]
      /\ DOMAIN receipts' = DOMAIN receipts /\ Control'
  BY SettleControl
<1>2. \A i \in DOMAIN receipts : receipts'[i].bar = receipts[i].bar
  BY <1>1 DEF Last
<1>3. Received' = Received
  BY <1>1, <1>2 DEF Received
<1>4. Len(receipts) \in DOMAIN receipts /\ receipts # <<>>
  <2>1. Doing("exclude") \/ Doing("applied")
    BY DEF Exclude, FinishApply
  <2>2. Unapplied # {}
    BY <2>1, HeadIs, InHand DEF Queued, ApplyOps, TradeOps
  <2>3. Len(receipts) \in DOMAIN receipts
    BY <2>2, CurrentLast
  <2> QED
    BY <2>3
<1>5. receipts' # <<>>
  BY <1>1, <1>4
<1>6. LastTs' = LastTs
  BY <1>1, <1>4, <1>5 DEF LastTs, Last
<1> QED
  BY <1>1, <1>3, <1>6 DEF SameLast

LEMMA SettleLedgers ==
    ASSUME Control, Ledgers, Exclude \/ FinishApply
    PROVE  Ledgers'
<1>1. SameLast
  BY SettledSame
<1>2. PICK ops : ops = <<>>
  OBVIOUS
<1>3. /\ ops \in Seq(Agenda) /\ Then(ops) /\ (\A some, s : ~HasFor(ops, some, s))
      /\ Doing("exclude") \/ Doing("applied")
      /\ UNCHANGED ledgers /\ phase' = phase
  BY <1>2, EmptyAgenda DEF Exclude, FinishApply
<1>4. agenda # <<>> /\ agenda[1].do \notin {"cancel", "dispatch", "advance", "reconcile"}
  BY <1>3, HeadIs
<1> QED
  BY <1>1, <1>2, <1>3, <1>4, QuietThen

LEMMA ResetLedgers ==
    ASSUME Control, Ledgers, Reset \/ Restart \/ Receive \/ RaiseNow
    PROVE  Ledgers'
<1>0. \A some : ~Queued(some)' => \A fewer \in SUBSET some : ~Queued(fewer)'
  BY DEF Queued, Has
<1>1. CASE RaiseNow
  <2>1. agenda # <<>> /\ Raise
    BY <1>1, HeadIs DEF RaiseNow
  <2>2. /\ Control' /\ ~Queued(ApplyOps \cup {"acknowledge"})'
        /\ phase' = "running" => \A s \in Scenario : Cancelling(agenda', s, TRUE)
    BY <2>1, RaiseControl
  <2>3. ~Queued({"step", "decide", "acknowledge"})'
    <3>1. {"step", "decide", "acknowledge"} \subseteq ApplyOps \cup {"acknowledge"}
      BY DEF ApplyOps, TradeOps
    <3> QED
      BY <1>0, <2>2, <3>1
  <2>4. UNCHANGED ledgers /\ receipts' = receipts
    BY <2>1 DEF Raise, tables
  <2>5. LastTs' = LastTs /\ Received' = Received
    BY <2>4, UnchangedReceipts DEF SameLast
  <2> QED
    BY <2>2, <2>3, <2>4, <2>5, QuietReset
<1>2. CASE Restart
  <2>1. /\ Control' /\ phase' = "starting"
        /\ \A some : Queued(some)' => some \cap {"reconcile", "dispatch", "resume", "started"} # {}
    BY <1>2, RestartControl
  <2>2. ~Queued({"step", "decide", "acknowledge"})'
    BY <2>1
  <2>3. UNCHANGED ledgers /\ receipts' = receipts
    BY <1>2 DEF Restart, tables
  <2>4. LastTs' = LastTs /\ Received' = Received
    BY <2>3, UnchangedReceipts DEF SameLast
  <2>5. phase' # "running"
    BY <2>1
  <2> QED
    BY <2>1, <2>2, <2>3, <2>4, <2>5, QuietReset
<1>3. CASE Receive
  <2>1. /\ Control' /\ agenda' = <<[do |-> "apply"]>>
        /\ DOMAIN receipts' = DOMAIN receipts \cup {Len(receipts')}
        /\ \A i \in DOMAIN receipts : receipts'[i] = receipts[i]
    BY <1>3, ReceiveControl
  <2>2. ~Queued({"step", "decide", "acknowledge"})'
    <3> DEFINE Q == <<[do |-> "apply"]>>
    <3>1. DOMAIN Q = {1} /\ Q[1].do = "apply"
      OBVIOUS
    <3>2. agenda' = Q
      BY <2>1
    <3> HIDE DEF Q
    <3> QED
      BY <3>1, <3>2 DEF Queued, Has
  <2>3. UNCHANGED ledgers /\ phase = "running" /\ agenda = <<>>
    BY <1>3 DEF Receive, Idle
  <2>4. Received \subseteq Received'
    BY <2>1 DEF Received
  <2> QED
    BY <2>1, <2>2, <2>3, <2>4, QuietReset
<1>4. CASE Reset
  <2>1. /\ Control' /\ ~Queued(Begun)'
        /\ phase' = "running" /\ phase # "running" =>
              \A s \in Scenario : Cancelling(agenda', s, TRUE)
    BY <1>4, ResetsControl
  <2>2. ~Queued({"step", "decide", "acknowledge"})'
    <3>1. {"step", "decide", "acknowledge"} \subseteq Begun
      BY DEF Begun, ApplyOps, TradeOps
    <3> QED
      BY <1>0, <2>1, <3>1
  <2>3. UNCHANGED ledgers /\ receipts' = receipts
    BY <1>4 DEF Reset, Started, Crash, Connect, Disconnect, BeginClose, ReceiveInvalid,
                ReceiveUnmapped, PassMinute, tables
  <2>4. LastTs' = LastTs /\ Received' = Received
    BY <2>3, UnchangedReceipts DEF SameLast
  <2>5. \/ phase' # "running"
        \/ phase = "running" /\ agenda = <<>>
        \/ phase' = "running" /\ phase # "running"
    <3>1. CASE Started
      <4>1. Doing("started") /\ phase' = "running"
        BY <3>1 DEF Started
      <4>2. Has(agenda, {"resume", "started"})
        BY <4>1, HeadIs
      <4>3. phase # "running"
        BY <4>2 DEF Control, Queued
      <4> QED
        BY <4>1, <4>3
    <3>2. CASE Crash
      BY <3>2 DEF Crash
    <3>3. CASE Connect \/ Disconnect \/ BeginClose \/ ReceiveInvalid \/ ReceiveUnmapped
      BY <3>3 DEF Connect, Disconnect, BeginClose, ReceiveInvalid, ReceiveUnmapped, Idle, CloseOwed
    <3>4. CASE PassMinute
      BY <3>4 DEF PassMinute
    <3> QED
      BY <1>4, <3>1, <3>2, <3>3, <3>4 DEF Reset
  <2> QED
    BY <2>1, <2>2, <2>3, <2>4, <2>5, QuietReset
<1> QED
  BY <1>1, <1>2, <1>3, <1>4

\* The ledgers of scenario t become x and u, and the head of the agenda is done.
Done(t, x, u) ==
    /\ Then(<<>>) /\ phase' = phase /\ receipts' = receipts
    /\ sim' = [sim EXCEPT ![t] = x] /\ w' = [w EXCEPT ![t] = u]

\* A late entry of u that was live before, as far from submission as now, or a new one.
LateFrom(t, x, u, k) ==
    \/ /\ k \in Late(t) /\ u.intents[k].req = w[t].intents[k].req
       /\ k \notin DOMAIN x.orders => k \notin DOMAIN sim[t].orders
    \/ u.intents[k].req.submitted = LastTs + 1 /\ phase # "running"

(* A step of one scenario that takes the head off the agenda.              *)
LEMMA DoneLedgers ==
    ASSUME Control, Ledgers, agenda # <<>>, NEW t \in Scenario, agenda[1].for = t,
           NEW x, NEW u, Done(t, x, u), Agree(x, u),
           sim[t].bars \subseteq x.bars, x.bars \subseteq Received,
           agenda[1].do = "advance" => Event(Last.bar) \in x.bars,
           agenda[1].do = "reconcile" => u.fills = x.fills,
           \A k \in DOMAIN u.intents :
              Live(x, u, k) /\ u.intents[k].req.submitted + Latency < u.intents[k].req.eligible
                 => LateFrom(t, x, u, k),
           agenda[1].do = "cancel" =>
              \A k \in DOMAIN u.intents : Live(x, u, k) => k \notin DOMAIN x.orders,
           agenda[1].do = "dispatch" => DOMAIN u.intents \subseteq DOMAIN x.orders
    PROVE  Ledgers'
<1>1. PICK ops : ops = <<>>
  OBVIOUS
<1>2. ops \in Seq(Agenda) /\ Then(ops) /\ \A some, s : ~HasFor(ops, some, s)
  BY <1>1, EmptyAgenda DEF Done
<1>3. Replaces(ops)
  BY <1>2, ThenSteps
<1>4. /\ \A s : /\ QueuedFor({"step", "decide"}, s)' => QueuedFor({"step", "decide"}, s)
                /\ QueuedFor({"advance"}, s) =>
                  (QueuedFor({"advance"}, s)') \/ (agenda[1].do = "advance" /\ agenda[1].for = s)
      /\ ~Doing("acknowledge")'
      /\ Doing("decide")' => agenda[1] = [do |-> "reconcile", for |-> Head(agenda').for]
  <2>1. /\ \A some, s : QueuedFor(some, s)' <=> BehindFor(agenda, some, s)
        /\ \A some, s : QueuedFor(some, s) <=> \/ agenda[1].do \in some /\ agenda[1].for = s
                                               \/ BehindFor(agenda, some, s)
    BY <1>2, <1>3 DEF Replaces
  <2>2. \A s : /\ QueuedFor({"step", "decide"}, s)' <=> BehindFor(agenda, {"step", "decide"}, s)
               /\ BehindFor(agenda, {"step", "decide"}, s) => QueuedFor({"step", "decide"}, s)
               /\ QueuedFor({"advance"}, s)' <=> BehindFor(agenda, {"advance"}, s)
               /\ QueuedFor({"advance"}, s) =>
                  (agenda[1].do \in {"advance"} /\ agenda[1].for = s) \/ (BehindFor(agenda, {"advance"}, s))
    BY <2>1, Zenon
  <2>3. /\ ~Doing("acknowledge")'
        /\ Doing("decide")' => agenda[1] = [do |-> "reconcile", for |-> Head(agenda').for]
    BY <1>1, <1>3 DEF Replaces
  <2>4. ASSUME NEW s
        PROVE  /\ QueuedFor({"step", "decide"}, s)' => QueuedFor({"step", "decide"}, s)
               /\ QueuedFor({"advance"}, s) =>
                  (QueuedFor({"advance"}, s)') \/ (agenda[1].do = "advance" /\ agenda[1].for = s)
    <3>1. QueuedFor({"step", "decide"}, s)' => QueuedFor({"step", "decide"}, s)
      BY <2>2, Zenon
    <3>2. QueuedFor({"advance"}, s) =>
                  (QueuedFor({"advance"}, s)') \/ (agenda[1].do \in {"advance"} /\ agenda[1].for = s)
      <4>1. QueuedFor({"advance"}, s) =>
                  (agenda[1].do \in {"advance"} /\ agenda[1].for = s) \/ (BehindFor(agenda, {"advance"}, s))
        BY <2>2, Zenon
      <4>2. BehindFor(agenda, {"advance"}, s) => QueuedFor({"advance"}, s)'
        BY <2>2, Zenon
      <4> QED
        BY <4>1, <4>2, Zenon
    <3>3. agenda[1].do \in {"advance"} => agenda[1].do = "advance"
      OBVIOUS
    <3> QED
      BY <3>1, <3>2, <3>3, Zenon
  <2> QED
    BY <2>3, <2>4
<1>5. /\ sim \in [Scenario -> SimLedger] /\ w \in [Scenario -> WorkerLedger]
      /\ \A s \in Scenario : Agree(sim[s], w[s]) /\ InStep
  BY DEF Ledgers
<1>6. /\ x \in SimLedger /\ u \in WorkerLedger
  BY DEF Agree
<1>7. /\ sim' \in [Scenario -> SimLedger] /\ w' \in [Scenario -> WorkerLedger]
      /\ sim'[t] = x /\ w'[t] = u
      /\ \A s \in Scenario : s # t => sim'[s] = sim[s] /\ w'[s] = w[s]
  BY <1>5, <1>6 DEF Done
<1>8. \A s \in Scenario : Agree(sim'[s], w'[s])
  BY <1>5, <1>7
<1>9. SameLast
  BY UnchangedReceipts DEF Done
<1>10. \A s \in Scenario : sim'[s].bars \subseteq Received'
  <2>1. \A s \in Scenario : sim[s].bars \subseteq Received
    BY <1>5 DEF InStep, Received
  <2> QED
    BY <1>7, <1>9, <2>1 DEF SameLast
<1>11. ASSUME NEW s \in Scenario, QueuedFor({"step", "decide"}, s)', ~QueuedFor({"advance"}, s)'
       PROVE  Event(Last'.bar) \in sim'[s].bars
  <2>1. CASE QueuedFor({"advance"}, s)
    <3>1. agenda[1].do = "advance" /\ s = t
      BY <1>4, <1>11, <2>1
    <3> QED
      BY <1>7, <1>9, <3>1 DEF SameLast
  <2>2. CASE ~QueuedFor({"advance"}, s)
    <3>1. Event(Last.bar) \in sim[s].bars
      BY <1>4, <1>5, <1>11, <2>2 DEF InStep
    <3>2. sim[s].bars \subseteq sim'[s].bars
      BY <1>7
    <3> QED
      BY <1>9, <3>1, <3>2 DEF SameLast
  <2> QED
    BY <2>1, <2>2
<1>12. ASSUME Doing("decide")'
       PROVE  w'[Head(agenda').for].fills = sim'[Head(agenda').for].fills
  <2>1. agenda[1] = [do |-> "reconcile", for |-> Head(agenda').for]
    BY <1>4, <1>12
  <2>2. Head(agenda').for = t /\ agenda[1].do = "reconcile"
    BY <2>1
  <2> QED
    BY <1>7, <2>2
<1>13. StepsDue'
  BY <1>4, <1>11, <1>12 DEF StepsDue, For
<1>14. \A k \in Late(t)' : Live(x, u, k) /\ k \in DOMAIN u.intents
                  /\ u.intents[k].req.submitted + Latency < u.intents[k].req.eligible
  BY <1>7 DEF Late
<1>15. ASSUME NEW s \in Scenario, NEW k, NEW submit \in BOOLEAN,
              Cancelling(agenda, s, submit), s # t \/ ~(agenda[1].do = "cancel" /\ ~submit),
              s # t \/ ~(agenda[1].do = "dispatch" /\ submit)
       PROVE  Cancelling(agenda', s, submit)
  <2>1. agenda[1] = [do |-> "cancel", for |-> s] => submit
    BY <1>15
  <2>2. ~(submit /\ agenda[1] = [do |-> "dispatch", for |-> s])
    BY <1>15
  <2> QED
    BY <1>3, <1>15, <2>1, <2>2 DEF Replaces
<1>16. \A s \in Scenario : \A k \in Late(s) :
          /\ w[s].intents[k].req.submitted = LastTs + 1
          /\ phase = "running" => Cancelling(agenda, s, k \notin DOMAIN sim[s].orders)
  BY DEF Ledgers, LateCancelled, Late
<1>17. ASSUME NEW s \in Scenario, NEW k \in Late(s)'
       PROVE  /\ w'[s].intents[k].req.submitted = LastTs' + 1
              /\ phase' = "running" => Cancelling(agenda', s, k \notin DOMAIN sim'[s].orders)
  <2>0. LastTs' = LastTs /\ phase' = phase
    BY <1>9 DEF SameLast, Done
  <2>1. CASE s # t
    <3>1. k \in Late(s)
      BY <1>7, <1>17, <2>1 DEF Late
    <3> DEFINE submit == k \notin DOMAIN sim[s].orders
    <3>2. submit \in BOOLEAN /\ (k \notin DOMAIN sim'[s].orders) = submit
      BY <1>7, <2>1
    <3>3. phase = "running" => Cancelling(agenda, s, submit)
      BY <1>16, <3>1
    <3>4. w'[s].intents[k].req.submitted = LastTs + 1
      BY <1>7, <1>16, <2>1, <3>1
    <3> HIDE DEF submit
    <3> QED
      BY <1>15, <2>0, <2>1, <3>2, <3>3, <3>4
  <2>2. CASE s = t
    <3>1. LateFrom(t, x, u, k)
      BY <1>14, <1>17, <2>2
    <3>2. CASE u.intents[k].req.submitted = LastTs + 1 /\ phase # "running"
      BY <1>7, <2>0, <2>2, <3>2
    <3>3. CASE /\ k \in Late(t) /\ u.intents[k].req = w[t].intents[k].req
               /\ k \notin DOMAIN x.orders => k \notin DOMAIN sim[t].orders
      <4>1. w'[s].intents[k].req.submitted = LastTs + 1
        BY <1>7, <1>16, <2>2, <3>3
      <4> DEFINE submit == k \notin DOMAIN x.orders
      <4>2. submit \in BOOLEAN /\ (k \notin DOMAIN sim'[s].orders) = submit
        BY <1>7, <2>2
      <4>3. ASSUME phase = "running"
            PROVE  Cancelling(agenda, s, submit)
        <5>1. Cancelling(agenda, s, k \notin DOMAIN sim[s].orders)
          BY <1>16, <2>2, <3>3, <4>3
        <5>2. submit => k \notin DOMAIN sim[s].orders
          BY <2>2, <3>3
        <5> HIDE DEF submit
        <5> QED
          BY <5>1, <5>2 DEF Cancelling
      <4>4. ~(agenda[1].do = "cancel" /\ ~submit)
        BY <1>14, <1>17, <2>2
      <4>5. ~(agenda[1].do = "dispatch" /\ submit)
        BY <1>14, <1>17, <2>2
      <4> HIDE DEF submit
      <4> QED
        BY <1>15, <2>0, <2>2, <4>1, <4>2, <4>3, <4>4, <4>5
    <3> QED
      BY <3>1, <3>2, <3>3 DEF LateFrom
  <2> QED
    BY <2>1, <2>2
<1> QED
  BY <1>7, <1>8, <1>10, <1>13, <1>17, LedgersFrom

(* Late entries are the same under the same requests.                      *)
LEMMA SameLate ==
    ASSUME Ledgers, NEW t \in Scenario, NEW u \in WorkerLedger, SameIntents(w[t], u),
           NEW x, \A k : Live(x, u, k) => Live(sim[t], u, k),
           DOMAIN sim[t].orders \subseteq DOMAIN x.orders
    PROVE  \A k \in DOMAIN u.intents :
              Live(x, u, k) /\ u.intents[k].req.submitted + Latency < u.intents[k].req.eligible
                 => LateFrom(t, x, u, k)
<1>1. w[t] \in WorkerLedger
  BY DEF Ledgers
<1>2. DOMAIN u.intents = DOMAIN w[t].intents
  BY <1>1, WorkerFields DEF SameIntents
<1> SUFFICES ASSUME NEW k \in DOMAIN u.intents, Live(x, u, k),
                    u.intents[k].req.submitted + Latency < u.intents[k].req.eligible
             PROVE  k \in Late(t) /\ u.intents[k].req = w[t].intents[k].req
  BY DEF LateFrom
<1>3. u.intents[k].req = w[t].intents[k].req /\ k \in DOMAIN w[t].intents
  BY <1>2 DEF SameIntents
<1>4. Live(sim[t], w[t], k)
  <2>1. Live(sim[t], u, k)
    OBVIOUS
  <2> QED
    BY <1>3, <2>1 DEF Live, Fresh
<1> QED
  BY <1>3, <1>4 DEF Late

\* What a step of one scenario finds.
Found(t) ==
    /\ t \in Scenario /\ agenda[1].for = t /\ agenda # <<>>
    /\ sim[t] \in SimLedger /\ w[t] \in WorkerLedger /\ Agree(sim[t], w[t])
    /\ sim[t].bars \subseteq Received
    /\ [sim EXCEPT ![t] = sim[t]] = sim /\ [w EXCEPT ![t] = w[t]] = w

LEMMA ForFound ==
    ASSUME Control, Ledgers,
           NEW do \in {"reconcile", "dispatch", "acknowledge", "cancel", "advance", "step",
                       "decide", "halt"}, Doing(do)
    PROVE  Found(For) /\ agenda[1].do = do
<1>1. For \in Scenario /\ For = agenda[1].for /\ agenda # <<>> /\ agenda[1].do = do
  BY HeadFor, HeadIs
<1> DEFINE t == For
<1>2. t \in Scenario /\ agenda[1].for = t
  BY <1>1
<1> HIDE DEF t
<1>3. /\ sim \in [Scenario -> SimLedger] /\ w \in [Scenario -> WorkerLedger]
      /\ Agree(sim[t], w[t]) /\ sim[t].bars \subseteq Received
  BY <1>2 DEF Ledgers, InStep, Received
<1>4. [sim EXCEPT ![t] = sim[t]] = sim /\ [w EXCEPT ![t] = w[t]] = w
  BY <1>2, <1>3
<1>5. Found(t)
  BY <1>1, <1>2, <1>3, <1>4 DEF Found
<1> QED
  BY <1>1, <1>5 DEF t

LEMMA ReconcileLedgers ==
    ASSUME Control, Ledgers, Reconcile
    PROVE  /\ Ledgers' /\ ReconcileError(w[For], sim[For]) = "none"
           /\ Found(For) /\ Done(For, sim[For], Reconciled(w[For], sim[For]))
<1>1. Doing("reconcile")
  BY DEF Reconcile
<1>2. PICK t : For = t
  OBVIOUS
<1>3. Found(t) /\ agenda[1].do = "reconcile"
  BY <1>1, <1>2, ForFound
<1>4. Agree(sim[t], w[t])
  BY <1>3 DEF Found
<1>5. ReconcileError(w[t], sim[t]) = "none"
  BY <1>4, NoAlarm
<1>6. PICK u : Reconciled(w[t], sim[t]) = u
  OBVIOUS
<1>7. /\ Agree(sim[t], u) /\ SameIntents(w[t], u) /\ u.fills = sim[t].fills
  BY <1>4, <1>6, ReconciledAgree
<1>8. /\ w' = [w EXCEPT ![t] = u] /\ Then(<<>>) /\ phase' = phase /\ receipts' = receipts
      /\ sim' = sim
  BY <1>2, <1>5, <1>6 DEF Reconcile, tables
<1>9. Done(t, sim[t], u)
  BY <1>3, <1>8 DEF Done, Found
<1>10. u \in WorkerLedger
  BY <1>7 DEF Agree
<1>11. \A k \in DOMAIN u.intents :
          Live(sim[t], u, k) /\ u.intents[k].req.submitted + Latency < u.intents[k].req.eligible
             => LateFrom(t, sim[t], u, k)
  BY <1>3, <1>7, <1>10, SameLate DEF Found
<1>12. Ledgers'
  BY <1>3, <1>7, <1>9, <1>11, DoneLedgers DEF Found
<1> QED
  BY <1>2, <1>3, <1>5, <1>6, <1>9, <1>12

LEMMA DispatchedLedgers ==
    ASSUME Control, Ledgers, Dispatch, Pending(w[For]) = {}
    PROVE  /\ Ledgers' /\ Found(For) /\ Done(For, sim[For], w[For])
<1>1. Doing("dispatch")
  BY DEF Dispatch
<1>2. PICK t : For = t
  OBVIOUS
<1>3. Found(t) /\ agenda[1].do = "dispatch"
  BY <1>1, <1>2, ForFound
<1>4. Agree(sim[t], w[t]) /\ Pending(w[t]) = {}
  BY <1>2, <1>3 DEF Found
<1>5. PICK u : w[t] = u
  OBVIOUS
<1>6. u \in WorkerLedger /\ SameIntents(w[t], u) /\ Agree(sim[t], u)
  BY <1>3, <1>5 DEF Found, SameIntents
<1>7. /\ w' = w /\ sim' = sim /\ Then(<<>>) /\ phase' = phase /\ receipts' = receipts
  BY <1>2, <1>4 DEF Dispatch, tables
<1>8. Done(t, sim[t], u)
  BY <1>3, <1>5, <1>7 DEF Done, Found
<1>9. DOMAIN u.intents \subseteq DOMAIN sim[t].orders
  BY <1>4, <1>5 DEF Agree, Ordered, Pending
<1>10. \A k \in DOMAIN u.intents :
          Live(sim[t], u, k) /\ u.intents[k].req.submitted + Latency < u.intents[k].req.eligible
             => LateFrom(t, sim[t], u, k)
  BY <1>3, <1>6, SameLate DEF Found
<1>11. Ledgers'
  BY <1>3, <1>6, <1>8, <1>9, <1>10, DoneLedgers DEF Found
<1> QED
  BY <1>2, <1>3, <1>5, <1>8, <1>11

LEMMA AcknowledgeLedgers ==
    ASSUME Control, Ledgers, Acknowledge
    PROVE  /\ Ledgers' /\ Found(For) /\ FirstPending(For) \in Pending(w[For])
           /\ Done(For, sim[For], Acknowledged(w[For], FirstPending(For), sim[For]))
<1>1. Doing("acknowledge")
  BY DEF Acknowledge
<1>2. PICK t : For = t
  OBVIOUS
<1>3. Found(t) /\ agenda[1].do = "acknowledge"
  BY <1>1, <1>2, ForFound
<1>4. Agree(sim[t], w[t]) /\ Pending(w[t]) # {} /\ w[t] \in WorkerLedger
  BY <1>1, <1>2, <1>3 DEF Found, Ledgers, InStep
<1>5. PICK i : FirstPending(t) = i
  OBVIOUS
<1>6. i \in Pending(w[t]) /\ \A j \in Pending(w[t]) : i <= j
  <2>1. Pending(w[t]) \subseteq Nat
    BY <1>4, WorkerFields DEF Pending
  <2>2. \E j \in Pending(w[t]) : \A k \in Pending(w[t]) : j <= k
    BY <1>4, <2>1, LeastNat
  <2> QED
    BY <1>5, <2>2 DEF FirstPending
<1>7. PICK u : Acknowledged(w[t], i, sim[t]) = u
  OBVIOUS
<1>8. i \in DOMAIN w[t].intents
  BY <1>6 DEF Pending
<1>9. Agree(sim[t], u) /\ SameIntents(w[t], u)
  BY <1>4, <1>7, <1>8, AcknowledgedAgree
<1>10. /\ w' = [w EXCEPT ![t] = u] /\ Then(<<>>) /\ phase' = phase /\ receipts' = receipts
       /\ sim' = sim
  BY <1>2, <1>5, <1>7 DEF Acknowledge, tables
<1>11. Done(t, sim[t], u)
  BY <1>3, <1>10 DEF Done, Found
<1>12. u \in WorkerLedger
  BY <1>9 DEF Agree
<1>13. \A k \in DOMAIN u.intents :
          Live(sim[t], u, k) /\ u.intents[k].req.submitted + Latency < u.intents[k].req.eligible
             => LateFrom(t, sim[t], u, k)
  BY <1>3, <1>9, <1>12, SameLate DEF Found
<1>14. Ledgers'
  BY <1>3, <1>9, <1>11, <1>13, DoneLedgers DEF Found
<1> QED
  BY <1>2, <1>3, <1>5, <1>6, <1>7, <1>11, <1>14

LEMMA CancelLedgers ==
    ASSUME Control, Ledgers, CancelEntries
    PROVE  /\ Ledgers' /\ Found(For) /\ Done(For, EntriesCancelled(sim[For]), w[For])
<1>1. Doing("cancel")
  BY DEF CancelEntries
<1>2. PICK t : For = t
  OBVIOUS
<1>3. Found(t) /\ agenda[1].do = "cancel"
  BY <1>1, <1>2, ForFound
<1>4. PICK u : w[t] = u
  OBVIOUS
<1>5. Agree(sim[t], u) /\ u \in WorkerLedger /\ SameIntents(w[t], u) /\ sim[t] \in SimLedger
  BY <1>3, <1>4 DEF Found, SameIntents
<1>6. PICK x : EntriesCancelled(sim[t]) = x
  OBVIOUS
<1>7. /\ Agree(x, u) /\ Extends(sim[t], x) /\ x.bars = sim[t].bars
      /\ DOMAIN x.orders = DOMAIN sim[t].orders
      /\ \A k \in DOMAIN u.intents : Live(x, u, k) => k \notin DOMAIN x.orders
  BY <1>5, <1>6, CancelledAgree
<1>8. /\ w' = w /\ sim' = [sim EXCEPT ![t] = x] /\ Then(<<>>) /\ phase' = phase
      /\ receipts' = receipts
  BY <1>2, <1>6 DEF CancelEntries, tables
<1>9. Done(t, x, u)
  BY <1>3, <1>4, <1>8 DEF Done, Found
<1>10. x \in SimLedger /\ sim[t].bars \subseteq x.bars
  BY <1>7 DEF Agree
<1>11. \A k : Live(x, u, k) => Live(sim[t], u, k)
  BY <1>5, <1>7, <1>10, LiveShrinks
<1>12. \A k \in DOMAIN u.intents :
          Live(x, u, k) /\ u.intents[k].req.submitted + Latency < u.intents[k].req.eligible
             => LateFrom(t, x, u, k)
  BY <1>3, <1>5, <1>7, <1>11, SameLate DEF Found
<1>13. x.bars \subseteq Received
  BY <1>3, <1>7 DEF Found
<1>14. Ledgers'
  BY <1>3, <1>7, <1>9, <1>10, <1>12, <1>13, DoneLedgers DEF Found
<1> QED
  BY <1>2, <1>3, <1>4, <1>6, <1>9, <1>14

LEMMA HaltLedgers ==
    ASSUME Control, Ledgers, HaltEntries
    PROVE  /\ Ledgers' /\ Found(For)
           /\ \E u : /\ Done(For, sim[For], u) /\ u.intents = w[For].intents
                     /\ u.fills = w[For].fills /\ u.bars = w[For].bars
                     /\ w[For].halted \subseteq u.halted
                     /\ w[For].riskHalted => u.riskHalted
<1>1. Doing("halt")
  BY DEF HaltEntries
<1>2. PICK t : For = t
  OBVIOUS
<1>3. Found(t) /\ agenda[1].do = "halt"
  BY <1>1, <1>2, ForFound
<1>4. Head(agenda).day \in Nat /\ Head(agenda).hard \in BOOLEAN
  BY <1>1, HeadFor
<1>5. PICK v : w[t] = v
  OBVIOUS
<1>6. Agree(sim[t], v)
  BY <1>3, <1>5 DEF Found
<1>7. PICK day \in Nat, risk \in BOOLEAN : Head(agenda).day = day /\ Head(agenda).hard = risk
  BY <1>4
<1>8. PICK u : [v EXCEPT !.halted = v.halted \cup {day}, !.riskHalted = v.riskHalted \/ risk] = u
  OBVIOUS
<1>13. /\ u \in WorkerLedger /\ v.halted \subseteq u.halted /\ (v.riskHalted => u.riskHalted)
       /\ u.intents = v.intents /\ u.fills = v.fills /\ u.bars = v.bars
  <2>1. v \in WorkerLedger
    BY <1>6 DEF Agree
  <2> QED
    BY <1>7, <1>8, <2>1 DEF WorkerLedger
<1>9. Agree(sim[t], u) /\ SameIntents(v, u)
  BY <1>6, <1>13, SameRowsAgree
<1>10. /\ sim' = sim /\ Then(<<>>) /\ phase' = phase /\ receipts' = receipts
       /\ w' = [w EXCEPT ![t].halted = @ \cup {day}, ![t].riskHalted = @ \/ risk]
  BY <1>2, <1>7 DEF HaltEntries, tables
<1>11. w' = [w EXCEPT ![t] = u]
  <2>1. w \in [Scenario -> WorkerLedger] /\ t \in Scenario
    BY <1>3 DEF Ledgers, Found
  <2> QED
    BY <1>5, <1>8, <1>10, <2>1 DEF WorkerLedger
<1>12. Done(t, sim[t], u)
  BY <1>3, <1>10, <1>11 DEF Done, Found
<1>14. \A k \in DOMAIN u.intents :
          Live(sim[t], u, k) /\ u.intents[k].req.submitted + Latency < u.intents[k].req.eligible
             => LateFrom(t, sim[t], u, k)
  BY <1>3, <1>5, <1>9, <1>13, SameLate DEF Found
<1>15. Ledgers'
  BY <1>3, <1>9, <1>12, <1>14, DoneLedgers DEF Found
<1> QED
  BY <1>2, <1>3, <1>5, <1>12, <1>13, <1>15

(* The broker takes the next intent, and its answer is awaited.            *)
LEMMA SubmitLedgers ==
    ASSUME Control, Ledgers, Dispatch, Pending(w[For]) # {}
    PROVE  /\ Ledgers' /\ Found(For) /\ FirstPending(For) \in Pending(w[For])
           /\ ~Refused(sim[For], w[For].intents[FirstPending(For)].req)
           /\ sim' = [sim EXCEPT ![For] =
                        Submit(sim[For], w[For].intents[FirstPending(For)].req, FALSE)]
           /\ w' = w
<1>1. Doing("dispatch")
  BY DEF Dispatch
<1>2. PICK t : For = t
  OBVIOUS
<1>3. /\ Found(t) /\ agenda[1].do = "dispatch" /\ agenda[1] = [do |-> "dispatch", for |-> t]
      /\ agenda \in Seq(Agenda) /\ agenda # <<>> /\ Head(agenda) = agenda[1]
  BY <1>1, <1>2, ForFound, HeadFor, HeadIs
<1>4. Agree(sim[t], w[t]) /\ Pending(w[t]) # {} /\ w[t] \in WorkerLedger /\ t \in Scenario
  BY <1>2, <1>3 DEF Found
<1>5. PICK i : FirstPending(t) = i
  OBVIOUS
<1>6. i \in Pending(w[t]) /\ \A j \in Pending(w[t]) : i <= j
  <2>1. Pending(w[t]) \subseteq Nat
    BY <1>4, WorkerFields DEF Pending
  <2>2. \E j \in Pending(w[t]) : \A k \in Pending(w[t]) : j <= k
    BY <1>4, <2>1, LeastNat
  <2> QED
    BY <1>5, <2>2 DEF FirstPending
<1>7. ~Refused(sim[t], w[t].intents[i].req)
  BY <1>4, <1>6, NextIntent
<1>8. PICK x : Submit(sim[t], w[t].intents[i].req, FALSE) = x
  OBVIOUS
<1>9. /\ Agree(x, w[t]) /\ Extends(sim[t], x) /\ x.bars = sim[t].bars /\ i \in DOMAIN x.orders
      /\ x.fills = sim[t].fills
      /\ DOMAIN x.orders \subseteq DOMAIN sim[t].orders \cup {i}
      /\ \A k \in DOMAIN sim[t].orders : x.orders[k] = sim[t].orders[k]
  <2>1. Takes(sim[t], w[t], i, x)
    BY <1>4, <1>6, <1>8, SubmittedAgree
  <2> QED
    BY <2>1 DEF Takes
<1>10. /\ sim' = [sim EXCEPT ![t] = x] /\ w' = w /\ phase' = phase /\ receipts' = receipts
       /\ agenda' = DoFor("acknowledge", t) \o agenda
  BY <1>2, <1>4, <1>5, <1>7, <1>8 DEF Dispatch, tables
<1> DEFINE Q == <<[do |-> "acknowledge", for |-> t], [do |-> "dispatch", for |-> t]>>
<1>11. /\ [do |-> "acknowledge", for |-> t] \in Agenda /\ [do |-> "dispatch", for |-> t] \in Agenda
  BY <1>4 DEF Agenda
<1>12. /\ Q \in Seq(Agenda) /\ DOMAIN Q = {1, 2} /\ Q[1] = [do |-> "acknowledge", for |-> t]
       /\ Q[2] = [do |-> "dispatch", for |-> t] /\ Q # <<>>
  BY <1>11
<1>13. Then(Q)
  BY <1>3, <1>10, <1>11 DEF Then, DoFor
<1> HIDE DEF Q
<1>14. Replaces(Q)
  BY <1>3, <1>12, <1>13, ThenSteps
<1>15. /\ sim' \in [Scenario -> SimLedger] /\ w' \in [Scenario -> WorkerLedger]
       /\ sim'[t] = x /\ w' = w
       /\ \A s \in Scenario : s # t => sim'[s] = sim[s]
  BY <1>4, <1>9, <1>10 DEF Ledgers, Agree
<1>16. \A s \in Scenario : Agree(sim'[s], w'[s])
  BY <1>9, <1>15 DEF Ledgers
<1>17. SameLast
  BY <1>10, UnchangedReceipts
<1>18. \A s \in Scenario : sim'[s].bars = sim[s].bars
  BY <1>9, <1>15
<1>19. \A s \in Scenario : sim'[s].bars \subseteq Received'
  BY <1>17, <1>18 DEF Ledgers, InStep, SameLast, Received
<1>20. ASSUME NEW s \in Scenario, QueuedFor({"step", "decide"}, s)', ~QueuedFor({"advance"}, s)'
       PROVE  Event(Last'.bar) \in sim'[s].bars
  <2>1. ~HasFor(Q, {"step", "decide"}, s)
    BY <1>12 DEF HasFor
  <2>2. BehindFor(agenda, {"step", "decide"}, s) /\ ~BehindFor(agenda, {"advance"}, s)
    BY <1>14, <1>20, <2>1 DEF Replaces
  <2>3. agenda[1].do \notin {"advance"}
    BY <1>3
  <2>4. QueuedFor({"step", "decide"}, s) /\ ~QueuedFor({"advance"}, s)
    BY <1>14, <2>2, <2>3 DEF Replaces
  <2>5. Event(Last.bar) \in sim[s].bars
    BY <2>4 DEF Ledgers, InStep
  <2> QED
    BY <1>17, <1>18, <2>5 DEF SameLast
<1>21. /\ Head(agenda').do = "acknowledge" /\ Head(agenda').for = t
  BY <1>12, <1>14 DEF Replaces
<1>22. StepsDue'
  <2>1. ~Doing("decide")'
    BY <1>21 DEF Doing
  <2>2. Pending(w'[Head(agenda').for]) # {}
    BY <1>4, <1>15, <1>21
  <2> QED
    BY <1>20, <2>1, <2>2 DEF StepsDue, For
<1>23. ASSUME NEW s \in Scenario, NEW k \in Late(s)'
       PROVE  /\ k \in Late(s)
              /\ k \notin DOMAIN sim'[s].orders => k \notin DOMAIN sim[s].orders
  <2>1. CASE s # t
    BY <1>15, <1>23, <2>1 DEF Late
  <2>2. CASE s = t
    <3>1. /\ k \in DOMAIN w[t].intents /\ Live(x, w[t], k)
          /\ w[t].intents[k].req.submitted + Latency < w[t].intents[k].req.eligible
      BY <1>15, <1>23, <2>2 DEF Late
    <3>2. Live(sim[t], w[t], k) /\ (k \notin DOMAIN x.orders => k \notin DOMAIN sim[t].orders)
      <4>1. x \in SimLedger /\ sim[t] \in SimLedger
        BY <1>4, <1>9 DEF Agree
      <4>2. DOMAIN sim[t].orders \subseteq DOMAIN x.orders
        BY <1>9, <4>1, LedgerFields DEF Extends
      <4>3. Live(sim[t], w[t], k)
        BY <1>9, <3>1, <4>1, LiveShrinks
      <4> QED
        BY <4>2, <4>3
    <3> QED
      BY <1>15, <2>2, <3>1, <3>2 DEF Late
  <2> QED
    BY <2>1, <2>2
<1>24. ASSUME NEW s \in Scenario
       PROVE  \A k \in Late(s)' :
                 /\ w'[s].intents[k].req.submitted = LastTs' + 1
                 /\ phase' = "running" => Cancelling(agenda', s, k \notin DOMAIN sim'[s].orders)
  <2>1. LastTs' = LastTs
    BY <1>17 DEF SameLast
  <2>2. ASSUME NEW k \in Late(s)', Cancelling(agenda, s, k \notin DOMAIN sim[s].orders)
        PROVE  Cancelling(agenda', s, k \notin DOMAIN sim'[s].orders)
    <3> DEFINE submit == k \notin DOMAIN sim[s].orders
               submitted == k \notin DOMAIN sim'[s].orders
    <3>1. /\ submit \in BOOLEAN /\ Cancelling(agenda, s, submit)
          /\ submitted => submit
      BY <1>23, <2>2
    <3> HIDE DEF submit
    <3>2. agenda[1] # [do |-> "cancel", for |-> s]
      BY <1>3
    <3>3. agenda[1] = [do |-> "dispatch", for |-> s] =>
             \E m \in DOMAIN Q : Q[m] = [do |-> "dispatch", for |-> s]
      <4>1. agenda[1] = [do |-> "dispatch", for |-> s] => Q[2] = [do |-> "dispatch", for |-> s]
        BY <1>3, <1>12
      <4> QED
        BY <1>12, <4>1
    <3>4. Cancelling(agenda', s, submit)
      BY <1>14, <3>1, <3>2, <3>3 DEF Replaces
    <3>5. Cancelling(agenda', s, submitted)
      <4> HIDE DEF submitted
      <4> QED
        BY <3>1, <3>4 DEF Cancelling
    <3> QED
      BY <3>5
  <2>3. \A k \in Late(s)' : /\ k \in Late(s)
                            /\ w'[s].intents[k].req = w[s].intents[k].req
                            /\ k \notin DOMAIN sim'[s].orders => k \notin DOMAIN sim[s].orders
    BY <1>15, <1>23
  <2> QED
    BY <1>10, <2>1, <2>2, <2>3, LateStays
<1>25. Ledgers'
  BY <1>15, <1>16, <1>19, <1>22, <1>24, LedgersFrom
<1> QED
  BY <1>2, <1>3, <1>5, <1>6, <1>7, <1>8, <1>10, <1>25

(* The bar in hand is the latest of those received.                        *)
LEMMA LatestReceived ==
    ASSUME Control, receipts # <<>>
    PROVE  /\ Event(Last.bar) \in Received /\ Last.bar.ts = LastTs /\ LastTs \in Nat
           /\ \A c \in Received : c \in Bar /\ c.ts \in Nat /\ c.ts <= LastTs
           /\ \A i \in DOMAIN receipts : Event(receipts[i].bar).ts = LastTs => i = Len(receipts)
           /\ Len(receipts) \in DOMAIN receipts
<1>1. receipts \in Seq(Receipt) /\ ReceiptsInOrder
  BY DEF Control, ControlTyped
<1>2. /\ DOMAIN receipts = 1..Len(receipts) /\ Len(receipts) \in Nat
      /\ \A i \in DOMAIN receipts : receipts[i] \in Receipt
      /\ Len(receipts) \in DOMAIN receipts
  BY <1>1, LenProperties, ElementOfSeq, EmptySeq
<1>3. \A i \in DOMAIN receipts : receipts[i].bar \in MarketBar
  BY <1>2 DEF Receipt
<1>4. \A i \in DOMAIN receipts : /\ Event(receipts[i].bar) \in Bar
                                 /\ Event(receipts[i].bar).ts = receipts[i].bar.ts
                                 /\ receipts[i].bar.ts \in Nat
  BY <1>3 DEF MarketBar, Event, Bar
<1>5. \A i \in DOMAIN receipts : i # Len(receipts) => i < Len(receipts)
  BY <1>2
<1>6. \A i \in DOMAIN receipts : i # Len(receipts) => receipts[i].bar.ts < Last.bar.ts
  BY <1>1, <1>2, <1>5 DEF ReceiptsInOrder, Last
<1>7. Last.bar.ts = LastTs
  BY DEF LastTs, Last
<1>8. Event(Last.bar) \in Received /\ LastTs \in Nat
  BY <1>2, <1>4, <1>7 DEF Received, Last
<1>9. \A i \in DOMAIN receipts : receipts[i].bar.ts <= LastTs
  BY <1>4, <1>6, <1>7, <1>8 DEF Last
<1>10. \A c \in Received : c \in Bar /\ c.ts \in Nat /\ c.ts <= LastTs
  BY <1>4, <1>9 DEF Received
<1>11. ASSUME NEW i \in DOMAIN receipts, Event(receipts[i].bar).ts = LastTs
       PROVE  i = Len(receipts)
  BY <1>4, <1>6, <1>7, <1>8, <1>11
<1> QED
  BY <1>2, <1>7, <1>8, <1>10, <1>11

\* What an advance over bar b makes of the ledger of scenario t.
AdvancedTo(t, b, x) ==
    \/ x = sim[t] /\ b \in sim[t].bars
    \/ Advances(sim[t], w[t], b, x) /\ b \notin sim[t].bars

LEMMA AdvanceLedgers ==
    ASSUME Control, Ledgers, Advance
    PROVE  /\ Ledgers' /\ Found(For) /\ bar = Last.bar
           /\ \E x : Done(For, x, w[For]) /\ AdvancedTo(For, Event(Last.bar), x)
<1>1. Doing("advance")
  BY DEF Advance
<1>2. PICK t : For = t
  OBVIOUS
<1>3. Found(t) /\ agenda[1].do = "advance" /\ Queued(ApplyOps)
  BY <1>1, <1>2, ForFound, HeadIs DEF Queued, ApplyOps, TradeOps
<1>4. Unapplied # {} /\ bar = Last.bar /\ Event(bar) \in Bar
  BY <1>3, InHand
<1>5. receipts # <<>>
  BY <1>4 DEF Unapplied
<1>6. PICK b \in Bar : Event(bar) = b
  BY <1>4
<1>7. b \in Received /\ \A c \in Received : c.ts <= b.ts
  BY <1>4, <1>5, <1>6, LatestReceived DEF Event
<1>8. PICK u : w[t] = u
  OBVIOUS
<1>9. Agree(sim[t], u) /\ u \in WorkerLedger /\ SameIntents(w[t], u) /\ sim[t] \in SimLedger
  BY <1>3, <1>8 DEF Found, SameIntents
<1>10. \A c \in sim[t].bars : c.ts <= b.ts
  BY <1>3, <1>7 DEF Found
<1>11. /\ w' = w /\ Then(<<>>) /\ phase' = phase /\ receipts' = receipts
  BY DEF Advance, tables
<1>12. PICK x : /\ sim' = [sim EXCEPT ![t] = x] /\ Agree(x, u) /\ AdvancedTo(t, b, x)
  <2>1. CASE b \in sim[t].bars
    <3>1. sim' = sim
      BY <1>2, <1>6, <2>1 DEF Advance
    <3>2. sim' = [sim EXCEPT ![t] = sim[t]]
      BY <1>3, <3>1 DEF Found
    <3> QED
      BY <1>9, <2>1, <3>2 DEF AdvancedTo
  <2>2. CASE b \notin sim[t].bars
    <3>1. PICK lots \in SUBSET (IF b.volume THEN LotNumbers(Worked(sim[t], b)) ELSE {}) :
            sim' = [sim EXCEPT ![t] = Stopped(Worked(sim[t], b), lots, b)]
      BY <1>2, <1>6, <2>2 DEF Advance
    <3>2. lots \in SUBSET LotNumbers(Worked(sim[t], b))
      BY <3>1
    <3>3. PICK x : Stopped(Worked(sim[t], b), lots, b) = x
      OBVIOUS
    <3>4. Agree(x, u) /\ Advances(sim[t], u, b, x)
      BY <1>9, <1>10, <3>2, <3>3, AdvancedAgree
    <3> QED
      BY <1>8, <2>2, <3>1, <3>3, <3>4 DEF AdvancedTo
  <2> QED
    BY <2>1, <2>2
<1>13. /\ x.bars = sim[t].bars \cup {b} /\ Extends(sim[t], x) /\ x \in SimLedger
  <2>1. CASE x = sim[t] /\ b \in sim[t].bars
    BY <1>9, <2>1, ExtendsReflexive
  <2>2. CASE Advances(sim[t], w[t], b, x)
    BY <2>2 DEF Advances, Follows
  <2> QED
    BY <1>12, <2>1, <2>2 DEF AdvancedTo
<1>14. Done(t, x, u)
  BY <1>3, <1>8, <1>11, <1>12 DEF Done, Found
<1>15. \A k : Live(x, u, k) => Live(sim[t], u, k)
  BY <1>9, <1>13, LiveShrinks
<1>16. DOMAIN sim[t].orders \subseteq DOMAIN x.orders
  BY <1>9, <1>13, LedgerFields DEF Extends
<1>17. \A k \in DOMAIN u.intents :
          Live(x, u, k) /\ u.intents[k].req.submitted + Latency < u.intents[k].req.eligible
             => LateFrom(t, x, u, k)
  BY <1>3, <1>9, <1>15, <1>16, SameLate DEF Found
<1>18. sim[t].bars \subseteq x.bars /\ x.bars \subseteq Received /\ Event(Last.bar) \in x.bars
  BY <1>3, <1>4, <1>6, <1>7, <1>13 DEF Found
<1>19. Ledgers'
  BY <1>3, <1>12, <1>14, <1>17, <1>18, DoneLedgers DEF Found
<1> QED
  BY <1>2, <1>3, <1>4, <1>6, <1>8, <1>12, <1>14, <1>19

(* The bar is decided after its scenario's broker has advanced over it.    *)
LEMMA DecideReady ==
    ASSUME Control, Ledgers, Doing("decide")
    PROVE  /\ Found(For) /\ Event(Last.bar) \in sim[For].bars /\ w[For].fills = sim[For].fills
           /\ Event(Last.bar) \in Bar /\ bar = Last.bar /\ bar \in MarketBar
           /\ receipts # <<>> /\ Last.disposition = "accepted" /\ Last.bar.ts = LastTs
           /\ phase = "running" => now = Last.bar.ts + 1
<1>1. PICK t : For = t
  OBVIOUS
<1>2. /\ Found(t) /\ agenda[1].do = "decide" /\ agenda[1] = [do |-> "decide", for |-> t]
      /\ Queued(ApplyOps) /\ Queued(TradeOps) /\ InOrder(agenda) /\ agenda \in Seq(Agenda)
      /\ 1 \in DOMAIN agenda
  BY <1>1, ForFound, HeadIs, HeadFor DEF Queued, ApplyOps, TradeOps
<1>3. /\ Unapplied # {} /\ bar = Last.bar /\ Event(bar) \in Bar /\ bar \in MarketBar
  BY <1>2, InHand
<1>4. receipts # <<>>
  BY <1>3 DEF Unapplied
<1>5. Last.bar.ts = LastTs
  BY <1>4 DEF Last, LastTs
<1>6. /\ Last.disposition = "accepted" /\ (phase = "running" => now = Last.bar.ts + 1)
  BY <1>2 DEF Control, ReceiptQueued
<1>7. QueuedFor({"step", "decide"}, t)
  BY <1>2 DEF QueuedFor, HasFor
<1>8. ~QueuedFor({"advance"}, t)
  <2> SUFFICES ASSUME NEW j \in DOMAIN agenda, agenda[j].do = "advance", agenda[j].for = t
               PROVE  FALSE
    BY DEF QueuedFor, HasFor
  <2>1. /\ DOMAIN agenda = 1..Len(agenda) /\ Len(agenda) \in Nat
    BY <1>2, LenProperties
  <2>2. j # 1 /\ 1 < j
    BY <1>2, <2>1
  <2>3. MayFollow(agenda[1], agenda[j])
    BY <1>2, <2>2 DEF InOrder
  <2>4. Rank(agenda[1]) = IF t = Family[1] THEN 4 ELSE 7
    BY <1>2 DEF Rank, HaltOps, FirstOps
  <2>5. Rank(agenda[j]) = IF t = Family[1] THEN 2 ELSE 5
    BY DEF Rank, HaltOps, FirstOps
  <2> QED
    BY <2>3, <2>4, <2>5 DEF MayFollow
<1>9. Event(Last.bar) \in sim[t].bars
  BY <1>2, <1>7, <1>8 DEF Ledgers, InStep, Found
<1>10. w[t].fills = sim[t].fills
  BY <1>1 DEF Ledgers, InStep
<1> QED
  BY <1>1, <1>2, <1>3, <1>4, <1>5, <1>6, <1>9, <1>10

\* What a decision over bar b makes of the ledger of scenario t.
DecidedTo(t, b, u) ==
    /\ ~Backwards(w[t], b)
    /\ \E risk \in Risks : /\ risk # "none" => Breachable(w[t])
                           /\ u = ForwardDecided(w[t], b, bar.impulse, risk, now)
    /\ u.intents = w[t].intents \/ Intends(w[t], u, b, now)
    /\ u.fills = w[t].fills /\ u.bars = w[t].bars \cup {b}
    /\ w[t].halted \subseteq u.halted /\ (w[t].riskHalted => u.riskHalted)

LEMMA DecideLedgers ==
    ASSUME Control, Ledgers, Decide, ~Backwards(w[For], Event(bar))
    PROVE  /\ Ledgers' /\ Found(For) /\ bar = Last.bar
           /\ \E u : Done(For, sim[For], u) /\ DecidedTo(For, Event(Last.bar), u)
<1>1. Doing("decide")
  BY DEF Decide
<1>2. PICK t : For = t
  OBVIOUS
<1>3. Found(t) /\ agenda[1].do = "decide"
  BY <1>1, <1>2, ForFound
<1>4. PICK b \in Bar : Event(Last.bar) = b
  BY <1>1, DecideReady
<1>5. /\ b \in sim[t].bars /\ w[t].fills = sim[t].fills
      /\ bar = Last.bar /\ bar \in MarketBar /\ receipts # <<>>
      /\ Last.bar.ts = LastTs /\ b.ts = LastTs
      /\ phase = "running" => now = b.ts + 1
  <2>1. b.ts = Last.bar.ts
    BY <1>4 DEF Event
  <2> QED
    BY <1>1, <1>2, <1>4, <2>1, DecideReady
<1>6. /\ LastTs \in Nat /\ \A c \in Received : c \in Bar /\ c.ts \in Nat /\ c.ts <= LastTs
  BY <1>5, LatestReceived
<1>7. PICK db, v : sim[t] = db /\ w[t] = v
  OBVIOUS
<1>8. /\ Agree(db, v) /\ db \in SimLedger /\ v \in WorkerLedger /\ db.bars \subseteq Received
  BY <1>3, <1>7 DEF Found
<1>9. now \in Nat
  BY DEF Control, ControlTyped
<1>10. ASSUME Minute(b.ts) = OpeningBars - 1, NEW k \in DOMAIN v.intents, Live(db, v, k)
       PROVE  v.intents[k].req.id.day = DayOf(b.ts)
  <2> DEFINE req == v.intents[k].req
  <2>1. req.id.kind = "entry" /\ \A c \in db.bars : c.ts < req.expires
    BY <1>10 DEF Live, Fresh
  <2>2. /\ req.submitted + Latency <= req.eligible
        /\ req.expires = req.eligible + EntryLife
        /\ Minute(req.submitted - 1) = OpeningBars - 1
        /\ \E c \in v.bars : req.submitted = c.ts + 1 /\ req.id.day = DayOf(c.ts)
    BY <1>8, <2>1 DEF Agree, Planned
  <2>3. PICK c \in v.bars : req.submitted = c.ts + 1 /\ req.id.day = DayOf(c.ts)
    BY <2>2
  <2>4. c \in Received
    BY <1>8, <2>3 DEF Agree, Observes
  <2>5. c.ts \in Nat /\ c.ts <= b.ts /\ b.ts \in Nat
    BY <1>5, <1>6, <2>4
  <2>6. b.ts < req.expires
    BY <1>5, <1>7, <2>1
  <2>7. CASE req.submitted + Latency < req.eligible
    <3>1. req.submitted = LastTs + 1
      BY <1>3, <1>7, <1>10, <2>7 DEF Ledgers, LateCancelled, Found
    <3>2. c.ts = b.ts
      BY <1>5, <2>3, <2>5, <3>1
    <3> QED
      BY <2>3, <3>2
  <2>8. CASE ~(req.submitted + Latency < req.eligible)
    <3>0. req \in Request
      BY <1>8, WorkerFields DEF Intent
    <3>1. Latency \in Nat /\ EntryLife \in Nat /\ req.eligible \in Nat /\ req.submitted \in Nat
      BY <3>0, SessionAssumption DEF Request
    <3> HIDE DEF req
    <3>2. req.expires = c.ts + 1 + Latency + EntryLife
      BY <2>2, <2>3, <2>5, <2>8, <3>1
    <3>3. Minute(c.ts) = OpeningBars - 1
      <4>1. req.submitted - 1 = c.ts
        BY <2>3, <2>5, <3>1
      <4> QED
        BY <2>2, <4>1
    <3>4. DayOf(c.ts) <= DayOf(b.ts) /\ DayOf(c.ts) \in Nat /\ DayOf(b.ts) \in Nat
      BY <2>5, DayMonotone, DayNat
    <3>5. ~(DayOf(c.ts) < DayOf(b.ts))
      <4>1. DayOf(c.ts) < DayOf(b.ts) => c.ts + 1 + Latency + EntryLife <= b.ts
        BY <1>10, <2>5, <3>3, EntryOver
      <4>2. ~(c.ts + 1 + Latency + EntryLife <= b.ts)
        BY <2>5, <2>6, <3>1, <3>2
      <4> QED
        BY <4>1, <4>2
    <3>6. DayOf(c.ts) = DayOf(b.ts)
      BY <3>4, <3>5
    <3> QED
      BY <2>3, <3>6 DEF req
  <2> QED
    BY <2>7, <2>8
<1>11. PICK risk \in Risks : /\ risk # "none" => Breachable(w[t])
                             /\ w' = [w EXCEPT ![t] = ForwardDecided(v, b, bar.impulse, risk, now)]
                             /\ Then(<<>>)
                             /\ UNCHANGED <<sim, tables, phase, feed, now, faults>>
  BY <1>2, <1>4, <1>5, <1>7 DEF Decide
<1>12. risk \in Risk
  BY <1>11, ContinuousAssumption
<1>13. bar.impulse \in {-1, 0, 1}
  BY <1>5 DEF MarketBar
<1>14. PICK u : ForwardDecided(v, b, bar.impulse, risk, now) = u
  OBVIOUS
<1>15. Agree(db, u)
  <2>1. v.fills = db.fills /\ b \in db.bars
    BY <1>5, <1>7
  <2> QED
    BY <1>8, <1>9, <1>10, <1>12, <1>13, <1>14, <2>1, DecidedAgree
<1>16. /\ u.intents = v.intents \/ Intends(v, u, b, now)
       /\ u.fills = v.fills /\ u.bars = v.bars \cup {b}
       /\ v.halted \subseteq u.halted /\ (v.riskHalted => u.riskHalted)
  BY <1>8, <1>9, <1>12, <1>13, <1>14, DecidedForward
<1>17. DecidedTo(t, b, u)
  <2>1. ~Backwards(w[t], b)
    BY <1>2, <1>4, <1>5
  <2> QED
    BY <1>7, <1>11, <1>14, <1>16, <2>1 DEF DecidedTo
<1>18. Done(t, sim[t], u)
  <2>1. sim' = sim /\ phase' = phase /\ receipts' = receipts
    BY <1>11 DEF tables
  <2> QED
    BY <1>3, <1>11, <1>14, <2>1 DEF Done, Found
<1>19. ASSUME NEW k \in DOMAIN u.intents, Live(sim[t], u, k),
              u.intents[k].req.submitted + Latency < u.intents[k].req.eligible
       PROVE  LateFrom(t, sim[t], u, k)
  <2>1. CASE k \in DOMAIN v.intents /\ u.intents[k] = v.intents[k]
    <3>1. Live(sim[t], v, k)
      BY <1>19, <2>1 DEF Live, Fresh
    <3> QED
      BY <1>7, <1>19, <2>1, <3>1 DEF LateFrom, Late
  <2>2. CASE ~(k \in DOMAIN v.intents /\ u.intents[k] = v.intents[k])
    <3>1. Intends(v, u, b, now)
      BY <1>16, <1>19, <2>2
    <3>2. PICK kind \in Kind, side \in Side, n \in Nat \ {0} :
             u.intents = Append(v.intents, [req   |-> RequestOn(v, b, kind, side, n, now),
                                            state |-> "pending"])
      BY <3>1 DEF Intends
    <3>3. PICK req : RequestOn(v, b, kind, side, n, now) = req
      OBVIOUS
    <3>4. PICK e : [req |-> req, state |-> "pending"] = e
      OBVIOUS
    <3>5. u.intents = Append(v.intents, e) /\ e.req = req
      BY <3>2, <3>3, <3>4
    <3>6. v.intents \in Seq(Intent) /\ u.intents \in Seq(Intent)
      BY <1>8, <1>15, WorkerFields DEF Agree, WorkerLedger
    <3>7. u.intents[k] = e
      <4>1. /\ DOMAIN v.intents = 1..Len(v.intents) /\ Len(v.intents) \in Nat
            /\ DOMAIN u.intents = 1..(Len(v.intents) + 1)
            /\ u.intents[Len(v.intents) + 1] = e
            /\ \A i \in 1..Len(v.intents) : u.intents[i] = v.intents[i]
        <5>1. e \in Intent
          <6>1. Len(v.intents) + 1 \in DOMAIN u.intents /\ u.intents[Len(v.intents) + 1] = e
            BY <3>5, <3>6
          <6> QED
            BY <3>6, <6>1, ElementOfSeq, LenProperties
        <5> QED
          BY <3>5, <3>6, <5>1, AppendProperties, LenProperties
      <4> QED
        BY <1>19, <2>2, <4>1
    <3>8. /\ req.submitted = b.ts + 1
          /\ now <= b.ts + 1 => req.eligible = req.submitted + Latency
          /\ req \in Request
      BY <1>8, <1>9, <3>2, <3>3, RequestShape
    <3>9. phase # "running"
      <4>1. ASSUME phase = "running"
            PROVE  FALSE
        <5>1. now <= b.ts + 1
          BY <1>5, <1>6, <4>1
        <5>2. req.eligible = req.submitted + Latency
          BY <3>8, <5>1
        <5>3. req.submitted + Latency < req.eligible
          BY <1>19, <3>5, <3>7
        <5>4. req.eligible \in Nat
          BY <3>8 DEF Request
        <5> QED
          BY <5>2, <5>3, <5>4
      <4> QED
        BY <4>1
    <3> QED
      BY <1>5, <3>5, <3>7, <3>8, <3>9 DEF LateFrom
  <2> QED
    BY <2>1, <2>2
<1>20. Ledgers'
  <2>1. Agree(sim[t], u)
    BY <1>7, <1>15
  <2> QED
    BY <1>3, <1>18, <1>19, <2>1, DoneLedgers DEF Found
<1> QED
  BY <1>2, <1>3, <1>4, <1>5, <1>17, <1>18, <1>20

(***************************************************************************)
(* Both scenarios, and the receipts                                        *)
(***************************************************************************)

(* What stands behind the head follows it.                                 *)
LEMMA BehindFollows ==
    ASSUME Control, agenda # <<>>
    PROVE  /\ \A some : Behind(agenda, some) =>
                 \E j \in DOMAIN agenda : agenda[j].do \in some /\ MayFollow(agenda[1], agenda[j])
           /\ \A some, s : BehindFor(agenda, some, s) =>
                 \E j \in DOMAIN agenda : /\ agenda[j].do \in some /\ agenda[j].for = s
                                          /\ MayFollow(agenda[1], agenda[j])
<1>1. agenda \in Seq(Agenda) /\ InOrder(agenda)
  BY DEF Control, ControlTyped
<1>2. DOMAIN agenda = 1..Len(agenda) /\ Len(agenda) \in Nat /\ 1 \in DOMAIN agenda
  BY <1>1, LenProperties, EmptySeq
<1>3. \A j \in DOMAIN agenda : j # 1 => 1 < j
  BY <1>2
<1>4. \A j \in DOMAIN agenda : j # 1 => MayFollow(agenda[1], agenda[j])
  BY <1>1, <1>2, <1>3 DEF InOrder
<1> QED
  BY <1>4 DEF Behind, BehindFor

\* A step that leaves the processing of the receipts where it is.
SameQueue ==
    /\ Taking /\ Queued({"opportunity", "applied"})' => Queued({"opportunity", "applied"})
    /\ \A s \in Scenario : QueuedFor(Steps, s) =>
          QueuedFor(Steps, s)' \/ Event(Last.bar) \in w[s].bars
    /\ \A s \in Scenario : QueuedFor({"decide"}, s)' =>
          QueuedFor({"decide"}, s) \/ Event(Last.bar) \notin w[s].bars
    /\ \A s \in Scenario : QueuedFor({"advance"}, s)' => QueuedFor({"step"}, s)'
    /\ Queued({"pin", "advance", "step", "decide", "opportunity"})' /\ ~Queued({"pin"})'
          => Queued({"pin", "advance", "step", "decide", "opportunity"}) /\ ~Queued({"pin"})
    /\ Queued({"flat", "exclude"})' =>
          Queued({"flat", "exclude"}) \/ (contract # "none" /\ contract # Last.bar.contract)
    /\ phase = "running" /\ Taking /\ ~Queued(ApplyOps)' =>
          ~Queued(ApplyOps) \/ contract # Last.bar.contract

LEMMA SameQueueProcessed ==
    ASSUME Processed, Untouched, receipts' = receipts, contract' = contract, phase' = phase,
           \A s \in Scenario : sim'[s].bars = sim[s].bars /\ w'[s].bars = w[s].bars,
           SameQueue
    PROVE  Processed' /\ Untouched'
<1>1. Last' = Last /\ Taking' = Taking /\ TradedBars' = TradedBars /\ Unapplied' = Unapplied
  BY DEF Last, Taking, TradedBars, Traded, Unapplied
<1>2. /\ \A s \in Scenario : TradedBars' \subseteq w'[s].bars
      /\ \A s \in Scenario : sim'[s].bars \subseteq TradedBars'
                               \cup (IF Taking' THEN {Event(Last'.bar)} ELSE {})
  BY <1>1 DEF Processed
<1>3. \A s \in Scenario :
         Taking' /\ Queued({"opportunity", "applied"})' /\ ~QueuedFor(Steps, s)'
            => Event(Last'.bar) \in w'[s].bars
  BY <1>1 DEF Processed, SameQueue, Steps
<1>4. \A s \in Scenario : QueuedFor({"decide"}, s)' => Event(Last'.bar) \notin w'[s].bars
  BY <1>1 DEF Processed, SameQueue
<1>5. Processed'
  BY <1>2, <1>3, <1>4 DEF Processed, SameQueue, Steps
<1>6. Untouched'
  <2>1. Queued({"pin", "advance", "step", "decide", "opportunity"})' /\ ~Queued({"pin"})'
          => contract' = Last'.bar.contract
    BY <1>1 DEF Untouched, SameQueue
  <2>2. Queued({"flat", "exclude"})' => contract' # "none" /\ contract' # Last'.bar.contract
    BY <1>1 DEF Untouched, SameQueue
  <2>3. \A s \in Scenario : Taking' /\ Event(Last'.bar) \in sim'[s].bars
                            => contract' = Last'.bar.contract
    BY <1>1 DEF Untouched
  <2>4. \A s \in Scenario : phase' = "running" /\ Taking' /\ ~Queued(ApplyOps)'
                            => Event(Last'.bar) \notin sim'[s].bars
    BY <1>1 DEF Untouched, SameQueue
  <2> QED
    BY <2>1, <2>2, <2>3, <2>4 DEF Untouched
<1> QED
  BY <1>5, <1>6

(* A step that takes no scenario's step off and queues none.               *)
LEMMA ThenSameQueue ==
    ASSUME Control, Processed, agenda # <<>>, NEW ops \in Seq(Agenda), Then(ops),
           agenda[1].do \notin {"pin", "advance", "step", "decide"},
           ~Has(ops, {"advance", "step", "decide", "opportunity"}),
           Taking => ~Has(ops, {"applied"}),
           Has(ops, {"flat", "exclude"}) => contract # "none" /\ contract # Last.bar.contract,
           phase = "running" /\ Taking /\ agenda[1].do \in ApplyOps =>
               Has(ops, ApplyOps) \/ Behind(agenda, ApplyOps) \/ contract # Last.bar.contract
    PROVE  SameQueue
<1>1. Replaces(ops)
  BY ThenSteps
<1>2. /\ \A some : Queued(some)' <=> Has(ops, some) \/ Behind(agenda, some)
      /\ \A some, s : QueuedFor(some, s)' <=> HasFor(ops, some, s) \/ BehindFor(agenda, some, s)
      /\ \A some : Queued(some) <=> agenda[1].do \in some \/ Behind(agenda, some)
      /\ \A some, s : QueuedFor(some, s) <=> \/ agenda[1].do \in some /\ agenda[1].for = s
                                             \/ BehindFor(agenda, some, s)
  BY <1>1 DEF Replaces
<1> DEFINE Pinned == {"pin", "advance", "step", "decide", "opportunity"}
<1>3. \A some, s : some \subseteq {"advance", "step", "decide", "opportunity"} =>
          ~Has(ops, some) /\ ~HasFor(ops, some, s)
  BY DEF Has, HasFor
<1>4. Taking /\ Queued({"opportunity", "applied"})' => Queued({"opportunity", "applied"})
  <2>1. Taking => ~Has(ops, {"opportunity", "applied"})
    <3>1. Has(ops, {"opportunity", "applied"}) =>
             Has(ops, {"advance", "step", "decide", "opportunity"}) \/ Has(ops, {"applied"})
      BY DEF Has
    <3> QED
      BY <3>1
  <2> QED
    BY <1>2, <2>1
<1>5. ASSUME NEW s \in Scenario, QueuedFor(Steps, s)
      PROVE  QueuedFor(Steps, s)'
  <2>1. agenda[1].do \notin Steps
    BY DEF Steps
  <2> QED
    BY <1>2, <1>5, <2>1
<1>6. ASSUME NEW s \in Scenario, QueuedFor({"decide"}, s)'
      PROVE  QueuedFor({"decide"}, s)
  <2>1. ~HasFor(ops, {"decide"}, s)
    BY <1>3
  <2> QED
    BY <1>2, <1>6, <2>1
<1>7. ASSUME NEW s \in Scenario, QueuedFor({"advance"}, s)'
      PROVE  QueuedFor({"step"}, s)'
  <2>1. ~HasFor(ops, {"advance"}, s)
    BY <1>3
  <2>2. QueuedFor({"advance"}, s)
    BY <1>2, <1>7, <2>1
  <2>3. QueuedFor({"step"}, s)
    BY <2>2 DEF Processed
  <2>4. agenda[1].do \notin {"step"}
    OBVIOUS
  <2> QED
    BY <1>2, <2>3, <2>4
<1>8. ASSUME Queued(Pinned)', ~Queued({"pin"})'
      PROVE  Queued(Pinned) /\ ~Queued({"pin"})
  <2>1. ~Has(ops, {"pin"}) /\ ~Behind(agenda, {"pin"})
    BY <1>2, <1>8
  <2>2. ~Has(ops, Pinned)
    <3>1. Has(ops, Pinned) =>
             Has(ops, {"advance", "step", "decide", "opportunity"}) \/ Has(ops, {"pin"})
      BY DEF Has
    <3> QED
      BY <2>1, <3>1
  <2>3. agenda[1].do \notin {"pin"}
    OBVIOUS
  <2> HIDE DEF Pinned
  <2> QED
    BY <1>2, <1>8, <2>1, <2>2, <2>3
<1>9. Queued({"flat", "exclude"})' =>
          Queued({"flat", "exclude"}) \/ (contract # "none" /\ contract # Last.bar.contract)
  BY <1>2
<1>10. phase = "running" /\ Taking /\ ~Queued(ApplyOps)' =>
          ~Queued(ApplyOps) \/ contract # Last.bar.contract
  BY <1>2
<1> QED
  BY <1>4, <1>5, <1>6, <1>7, <1>8, <1>9, <1>10 DEF SameQueue

(* Steps of one scenario that process no bar.                              *)
LEMMA DoneProcessed ==
    ASSUME Control, Ledgers, Processed, Untouched, NEW t \in Scenario, agenda # <<>>,
           NEW x, NEW u, Done(t, x, u), x.bars = sim[t].bars, u.bars = w[t].bars,
           contract' = contract, agenda[1].do \notin ApplyOps
    PROVE  Processed' /\ Untouched'
<1>1. PICK ops : ops = <<>>
  OBVIOUS
<1>2. /\ ops \in Seq(Agenda) /\ Then(ops) /\ \A some : ~Has(ops, some)
  BY <1>1, EmptyAgenda DEF Done
<1>3. agenda[1].do \notin {"pin", "advance", "step", "decide"}
  BY DEF ApplyOps, TradeOps
<1>4. SameQueue
  BY <1>2, <1>3, ThenSameQueue
<1>5. \A s \in Scenario : sim'[s].bars = sim[s].bars /\ w'[s].bars = w[s].bars
  BY DEF Ledgers, Done
<1> QED
  BY <1>4, <1>5, SameQueueProcessed DEF Done

LEMMA ScenarioStepsProcessed ==
    ASSUME Control, Ledgers, Processed, Untouched,
           Reconcile \/ Dispatch \/ Acknowledge \/ CancelEntries \/ HaltEntries
    PROVE  Processed' /\ Untouched'
<1>0. \A x : x \in {"reconcile", "dispatch", "acknowledge", "cancel", "halt"} => x \notin ApplyOps
  BY DEF ApplyOps, TradeOps
<1>1. CASE Reconcile
  <2>1. PICK t : For = t
    OBVIOUS
  <2>2. /\ Found(t) /\ Done(t, sim[t], Reconciled(w[t], sim[t])) /\ contract' = contract
        /\ Doing("reconcile") /\ agenda[1].do = "reconcile"
    <3>1. Doing("reconcile") /\ ReconcileError(w[For], sim[For]) = "none"
      BY <1>1, ReconcileLedgers DEF Reconcile
    <3>2. contract' = contract
      BY <1>1, <3>1 DEF Reconcile, tables
    <3> QED
      BY <1>1, <2>1, <3>1, <3>2, ReconcileLedgers, HeadIs
  <2>3. PICK u : Reconciled(w[t], sim[t]) = u
    OBVIOUS
  <2>4. u.bars = w[t].bars
    BY <2>3 DEF Reconciled
  <2> QED
    BY <1>0, <2>2, <2>3, <2>4, DoneProcessed DEF Found
<1>2. CASE Dispatch /\ Pending(w[For]) = {}
  <2>1. PICK t : For = t
    OBVIOUS
  <2>2. /\ Found(t) /\ Done(t, sim[t], w[t]) /\ contract' = contract
        /\ agenda[1].do = "dispatch"
    <3>1. Doing("dispatch") /\ contract' = contract
      BY <1>2 DEF Dispatch, tables
    <3> QED
      BY <1>2, <2>1, <3>1, DispatchedLedgers, HeadIs
  <2>3. PICK u : w[t] = u
    OBVIOUS
  <2> QED
    BY <1>0, <2>2, <2>3, DoneProcessed DEF Found
<1>3. CASE Dispatch /\ Pending(w[For]) # {}
  <2>1. PICK t : For = t
    OBVIOUS
  <2>2. /\ Found(t) /\ Doing("dispatch") /\ w' = w
        /\ sim' = [sim EXCEPT ![t] = Submit(sim[t], w[t].intents[FirstPending(t)].req, FALSE)]
        /\ ~Refused(sim[t], w[t].intents[FirstPending(t)].req)
    BY <1>3, <2>1, SubmitLedgers DEF Dispatch
  <2>3. /\ agenda[1] = [do |-> "dispatch", for |-> t] /\ agenda # <<>> /\ Head(agenda) = agenda[1]
        /\ agenda \in Seq(Agenda) /\ t \in Scenario
    BY <2>1, <2>2, HeadFor, HeadIs DEF Found
  <2>4. /\ agenda' = DoFor("acknowledge", t) \o agenda /\ receipts' = receipts
        /\ contract' = contract /\ phase' = phase
    BY <1>3, <2>1, <2>2 DEF Dispatch, tables
  <2> DEFINE Q == <<[do |-> "acknowledge", for |-> t], [do |-> "dispatch", for |-> t]>>
  <2>5. /\ [do |-> "acknowledge", for |-> t] \in Agenda /\ [do |-> "dispatch", for |-> t] \in Agenda
    BY <2>3 DEF Agenda
  <2>6. /\ Q \in Seq(Agenda) /\ DOMAIN Q = {1, 2} /\ Q[1].do = "acknowledge" /\ Q[2].do = "dispatch"
    BY <2>5
  <2>7. Then(Q)
    BY <2>3, <2>4, <2>5 DEF Then, DoFor
  <2> HIDE DEF Q
  <2>8. \A some : some \subseteq {"advance", "step", "decide", "opportunity", "applied", "flat", "exclude"}
                   => ~Has(Q, some)
    BY <2>6 DEF Has
  <2>9. agenda[1].do \notin {"pin", "advance", "step", "decide"} /\ agenda[1].do \notin ApplyOps
    BY <1>0, <2>3
  <2>10. SameQueue
    BY <2>3, <2>6, <2>7, <2>8, <2>9, ThenSameQueue
  <2>11. \A db, req : Submit(db, req, FALSE).bars = db.bars
    BY DEF Submit
  <2>12. \A s \in Scenario : sim'[s].bars = sim[s].bars /\ w'[s].bars = w[s].bars
    BY <2>2, <2>3, <2>11 DEF Ledgers
  <2> QED
    BY <2>4, <2>10, <2>12, SameQueueProcessed
<1>4. CASE Acknowledge
  <2>1. PICK t : For = t
    OBVIOUS
  <2>2. /\ Found(t) /\ Done(t, sim[t], Acknowledged(w[t], FirstPending(t), sim[t]))
        /\ contract' = contract /\ agenda[1].do = "acknowledge"
    <3>1. Doing("acknowledge") /\ contract' = contract
      BY <1>4 DEF Acknowledge, tables
    <3> QED
      BY <1>4, <2>1, <3>1, AcknowledgeLedgers, HeadIs
  <2>3. PICK u : Acknowledged(w[t], FirstPending(t), sim[t]) = u
    OBVIOUS
  <2>4. u.bars = w[t].bars
    BY <2>3 DEF Acknowledged, WithIntents
  <2> QED
    BY <1>0, <2>2, <2>3, <2>4, DoneProcessed DEF Found
<1>5. CASE CancelEntries
  <2>1. PICK t : For = t
    OBVIOUS
  <2>2. /\ Found(t) /\ Done(t, EntriesCancelled(sim[t]), w[t])
        /\ contract' = contract /\ agenda[1].do = "cancel"
    <3>1. Doing("cancel") /\ contract' = contract
      BY <1>5 DEF CancelEntries, tables
    <3> QED
      BY <1>5, <2>1, <3>1, CancelLedgers, HeadIs
  <2>3. PICK x, u : EntriesCancelled(sim[t]) = x /\ w[t] = u
    OBVIOUS
  <2>4. x.bars = sim[t].bars
    BY <2>3 DEF EntriesCancelled
  <2> QED
    BY <1>0, <2>2, <2>3, <2>4, DoneProcessed DEF Found
<1>6. CASE HaltEntries
  <2>1. PICK t : For = t
    OBVIOUS
  <2>2. PICK u : /\ Found(t) /\ Done(t, sim[t], u) /\ u.bars = w[t].bars
                 /\ contract' = contract /\ agenda[1].do = "halt"
    <3>1. Doing("halt") /\ contract' = contract
      BY <1>6 DEF HaltEntries, tables
    <3> QED
      BY <1>6, <2>1, <3>1, HaltLedgers, HeadIs
  <2> QED
    BY <1>0, <2>2, DoneProcessed DEF Found
<1> QED
  BY <1>1, <1>2, <1>3, <1>4, <1>5, <1>6

(* A step that queues a halt, perhaps, and then x.                         *)
LEMMA HaltAndSameQueue ==
    ASSUME Control, Processed, agenda # <<>>, NEW x, NEW ops, HaltAnd(x, ops), Then(ops),
           agenda[1].do \notin {"pin", "advance", "step", "decide"},
           x \in {"contract", "applied", "flat", "exclude", "raise", "pin"},
           x = "applied" => ~Taking,
           x \in {"flat", "exclude"} => contract # "none" /\ contract # Last.bar.contract,
           x = "raise" => contract # Last.bar.contract
    PROVE  SameQueue
<1>1. \A some : some \subseteq ApplyOps \cup {"raise"} => some \cap PlainOps = {}
  BY DEF ApplyOps, TradeOps, PlainOps, HaltOps
<1>2. ops \in Seq(Agenda) /\ \A some : some \subseteq ApplyOps \cup {"raise"} /\ Has(ops, some)
                                       => x \in some
  BY <1>1 DEF HaltAnd
<1>3. ~Has(ops, {"advance", "step", "decide", "opportunity"})
  <2>1. {"advance", "step", "decide", "opportunity"} \subseteq ApplyOps \cup {"raise"}
    BY DEF ApplyOps, TradeOps
  <2>2. x \notin {"advance", "step", "decide", "opportunity"}
    OBVIOUS
  <2> QED
    BY <1>2, <2>1, <2>2
<1>4. Taking => ~Has(ops, {"applied"})
  <2>1. {"applied"} \subseteq ApplyOps \cup {"raise"}
    BY DEF ApplyOps
  <2> QED
    BY <1>2, <2>1
<1>5. Has(ops, {"flat", "exclude"}) => contract # "none" /\ contract # Last.bar.contract
  <2>1. {"flat", "exclude"} \subseteq ApplyOps \cup {"raise"}
    BY DEF ApplyOps, TradeOps
  <2> QED
    BY <1>2, <2>1
<1>6. Has(ops, ApplyOps) \/ contract # Last.bar.contract
  <2>1. CASE x = "raise"
    BY <2>1
  <2>2. CASE x # "raise"
    <3>1. x \in ApplyOps
      BY <2>2 DEF ApplyOps, TradeOps
    <3>2. Has(ops, {x})
      BY DEF HaltAnd
    <3> QED
      BY <3>1, <3>2 DEF Has
  <2> QED
    BY <2>1, <2>2
<1> QED
  BY <1>2, <1>3, <1>4, <1>5, <1>6, ThenSameQueue

\* The head gives way to a halt, perhaps, and then x, which fits the receipt.
Goes(x, ops) ==
    /\ HaltAnd(x, ops) /\ Then(ops)
    /\ x \in {"contract", "applied", "flat", "exclude", "raise", "pin"}
    /\ x = "applied" => ~Taking
    /\ x \in {"flat", "exclude"} => contract # "none" /\ contract # Last.bar.contract
    /\ x = "raise" => contract # Last.bar.contract

LEMMA QuietStepsProcessed ==
    ASSUME Control, Processed, Untouched,
           \/ MarkHard \/ BeginApply \/ CheckContract \/ CheckFlat \/ CountOpportunity
           \/ Resume \/ CloseDay
    PROVE  Processed' /\ Untouched'
<1>0. ControlTyped /\ DayOf(now) \in Nat
  BY DayNat DEF Control, ControlTyped
<1> DEFINE First == \/ Doing("hard_halt") \/ Doing("apply") \/ Doing("contract") \/ Doing("flat")
                    \/ Doing("opportunity") \/ Doing("resume") \/ Doing("close")
<1>1. First /\ UNCHANGED ledgers /\ phase' = phase /\ receipts' = receipts /\ contract' = contract
  BY DEF MarkHard, BeginApply, CheckContract, CheckFlat, CountOpportunity, Resume, CloseDay, tables
<1>2. agenda # <<>> /\ agenda[1].do \notin {"pin", "advance", "step", "decide"}
  BY <1>1, HeadIs
<1>3. CASE MarkHard \/ CountOpportunity \/ Resume \/ CloseDay
  <2>1. PICK ops : /\ ops \in Seq(Agenda) /\ Then(ops)
                   /\ \A some : Has(ops, some) => some \cap (PlainOps \cup {"apply", "resume"}) # {}
    <3>1. CASE MarkHard \/ CountOpportunity
      <4>1. Then(<<>>)
        BY <3>1 DEF MarkHard, CountOpportunity
      <4> QED
        BY <4>1, EmptyAgenda
    <3>2. ASSUME NEW q, Plain(q) PROVE \A some : Has(q, some) => some \cap PlainOps # {}
      BY <3>2, PlainInOrder
    <3>3. CASE CloseDay
      <4>1. Then(<<>>) \/ Then(HaltDay(DayOf(now), TRUE))
        BY <3>3 DEF CloseDay
      <4>2. PICK q : HaltDay(DayOf(now), TRUE) = q
        OBVIOUS
      <4>3. q \in Seq(Agenda) /\ \A some : Has(q, some) => some \cap PlainOps # {}
        <5>1. Plain(q)
          BY <1>0, <4>2, HaltDayShape
        <5> QED
          BY <3>2, <5>1, PlainInOrder
      <4> QED
        BY <4>1, <4>2, <4>3, EmptyAgenda
    <3>4. CASE Resume
      <4> DEFINE Q == <<[do |-> "apply"], [do |-> "resume"]>>
      <4>1. Q = Do("apply") \o Do("resume")
        BY DEF Do
      <4>2. /\ Q \in Seq(Agenda) /\ DOMAIN Q = {1, 2} /\ Q[1].do = "apply" /\ Q[2].do = "resume"
        <5>1. [do |-> "apply"] \in Agenda /\ [do |-> "resume"] \in Agenda
          BY DEF Agenda
        <5> QED
          BY <5>1
      <4>3. Then(<<>>) \/ Then(Q)
        BY <3>4, <4>1 DEF Resume
      <4> HIDE DEF Q
      <4>4. \A some : Has(Q, some) => "apply" \in some \/ "resume" \in some
        BY <4>2 DEF Has
      <4> QED
        BY <4>2, <4>3, <4>4, EmptyAgenda
    <3> QED
      BY <1>3, <3>1, <3>3, <3>4
  <2>2. \A some : some \subseteq TradeOps \cup {"applied"} => ~Has(ops, some)
    <3>1. \A some : some \subseteq TradeOps \cup {"applied"} =>
                       some \cap (PlainOps \cup {"apply", "resume"}) = {}
      BY DEF TradeOps, PlainOps, HaltOps
    <3> QED
      BY <2>1, <3>1
  <2>3. /\ ~Has(ops, {"advance", "step", "decide", "opportunity"}) /\ ~Has(ops, {"applied"})
        /\ ~Has(ops, {"flat", "exclude"})
    <3>1. /\ {"advance", "step", "decide", "opportunity"} \subseteq TradeOps \cup {"applied"}
          /\ {"applied"} \subseteq TradeOps \cup {"applied"}
          /\ {"flat", "exclude"} \subseteq TradeOps \cup {"applied"}
      BY DEF TradeOps
    <3> QED
      BY <2>2, <3>1
  <2>4. agenda[1].do \in ApplyOps => Behind(agenda, ApplyOps)
    <3> SUFFICES ASSUME agenda[1].do \in ApplyOps PROVE Behind(agenda, ApplyOps)
      OBVIOUS
    <3>1. Doing("opportunity") /\ agenda[1].do = "opportunity"
      <4>1. \/ Doing("hard_halt") \/ Doing("opportunity") \/ Doing("resume") \/ Doing("close")
        BY <1>3 DEF MarkHard, CountOpportunity, Resume, CloseDay
      <4>2. ~Doing("hard_halt") /\ ~Doing("resume") /\ ~Doing("close")
        BY HeadIs DEF ApplyOps, TradeOps
      <4> QED
        BY <4>1, <4>2, HeadIs
    <3>2. Queued({"advance", "step", "decide", "opportunity"})
      BY <3>1, HeadIs DEF Queued
    <3>3. Queued({"applied"})
      BY <3>2 DEF Control, ReceiptQueued
    <3>4. Behind(agenda, {"applied"})
      <4>1. Queued({"applied"}) <=> agenda[1].do \in {"applied"} \/ Behind(agenda, {"applied"})
        BY <1>2, HasBehind
      <4> QED
        BY <3>1, <3>3, <4>1
    <3> QED
      BY <3>4 DEF Behind, ApplyOps
  <2>5. SameQueue
    BY <1>2, <2>1, <2>3, <2>4, ThenSameQueue
  <2> QED
    BY <1>1, <2>5, SameQueueProcessed DEF ledgers
<1>4. CASE BeginApply \/ CheckContract \/ CheckFlat
  <2>1. Queued(ApplyOps)
    <3>1. Doing("apply") \/ Doing("contract") \/ Doing("flat")
      BY <1>4 DEF BeginApply, CheckContract, CheckFlat
    <3> QED
      BY <3>1, HeadIs DEF Queued, ApplyOps, TradeOps
  <2>2. /\ Unapplied # {} /\ bar = Last.bar /\ receipts[Current] = Last /\ ReceivedDay \in Nat
    BY <2>1, InHand
  <2>3. \E x, ops : Goes(x, ops)
    <3>1. CASE BeginApply /\ Last.disposition = "accepted"
      <4>1. Then((IF MissingEvent THEN HaltDay(ReceivedDay, FALSE) ELSE <<>>) \o Do("contract"))
        BY <2>2, <3>1 DEF BeginApply
      <4>2. PICK c : Do("contract") = c
        OBVIOUS
      <4>3. <<>> \o c = c
        <5>1. c \in Seq(Agenda)
          BY <4>2, OneStep
        <5> QED
          BY <5>1
      <4>4. Then(HaltDay(ReceivedDay, FALSE) \o Do("contract")) \/ Then(Do("contract"))
        BY <4>1, <4>2, <4>3
      <4>5. HaltAnd("contract", HaltDay(ReceivedDay, FALSE) \o Do("contract"))
        BY <2>2, HaltsAnd
      <4>6. HaltAnd("contract", Do("contract"))
        BY HaltsAnd
      <4>7. \/ Goes("contract", HaltDay(ReceivedDay, FALSE) \o Do("contract"))
            \/ Goes("contract", Do("contract"))
        BY <4>4, <4>5, <4>6 DEF Goes
      <4> QED
        BY <4>7
    <3>2. CASE BeginApply /\ Last.disposition # "accepted"
      <4>1. Then(HaltDay(DayOf(now), FALSE) \o Do("applied")) \/ Then(Do("applied"))
        BY <2>2, <3>2 DEF BeginApply
      <4>2. HaltAnd("applied", HaltDay(DayOf(now), FALSE) \o Do("applied"))
        BY <1>0, HaltsAnd
      <4>3. HaltAnd("applied", Do("applied"))
        BY HaltsAnd
      <4>4. ~Taking
        BY <3>2 DEF Taking
      <4>5. \/ Goes("applied", HaltDay(DayOf(now), FALSE) \o Do("applied"))
            \/ Goes("applied", Do("applied"))
        BY <4>1, <4>2, <4>3, <4>4 DEF Goes
      <4> QED
        BY <4>5
    <3>3. CASE CheckContract
      <4>1. \/ Then(Do("pin"))
            \/ Rolls /\ Then(HaltDay(ReceivedDay, TRUE) \o Do("exclude"))
            \/ Rolls /\ Then(HaltDay(ReceivedDay, FALSE) \o Do("flat"))
        BY <3>3 DEF CheckContract
      <4>2. HaltAnd("exclude", HaltDay(ReceivedDay, TRUE) \o Do("exclude"))
        BY <2>2, HaltsAnd
      <4>3. HaltAnd("flat", HaltDay(ReceivedDay, FALSE) \o Do("flat"))
        BY <2>2, HaltsAnd
      <4>4. Rolls => contract # "none" /\ contract # Last.bar.contract
        BY <2>2 DEF Rolls
      <4>5. \/ Goes("pin", Do("pin"))
            \/ Goes("exclude", HaltDay(ReceivedDay, TRUE) \o Do("exclude"))
            \/ Goes("flat", HaltDay(ReceivedDay, FALSE) \o Do("flat"))
        BY <4>1, <4>2, <4>3, <4>4, PinAnd DEF Goes
      <4> QED
        BY <4>5
    <3>4. CASE CheckFlat
      <4>1. Then(Do("pin")) \/ Then(HaltDay(ReceivedDay, TRUE) \o Do("raise"))
        BY <3>4 DEF CheckFlat
      <4>2. HaltAnd("raise", HaltDay(ReceivedDay, TRUE) \o Do("raise"))
        BY <2>2, HaltsAnd
      <4>3. contract # Last.bar.contract
        <5>1. Doing("flat")
          BY <3>4 DEF CheckFlat
        <5>2. Queued({"flat", "exclude"})
          BY <5>1, HeadIs DEF Queued
        <5> QED
          BY <5>2 DEF Untouched
      <4>4. \/ Goes("pin", Do("pin"))
            \/ Goes("raise", HaltDay(ReceivedDay, TRUE) \o Do("raise"))
        BY <4>1, <4>2, <4>3, PinAnd DEF Goes
      <4> QED
        BY <4>4
    <3> QED
      BY <1>4, <3>1, <3>2, <3>3, <3>4
  <2>4. PICK x, ops : Goes(x, ops)
    BY <2>3
  <2>5. SameQueue
    BY <1>2, <2>4, HaltAndSameQueue DEF Goes
  <2> QED
    BY <1>1, <2>5, SameQueueProcessed DEF ledgers
<1> QED
  BY <1>3, <1>4

(* What stands behind a step of a scenario.                                *)
LEMMA AtStep ==
    ASSUME Control, agenda # <<>>, agenda[1].do \in Steps
    PROVE  /\ Behind(agenda, {"applied"}) /\ Taking /\ Queued({"opportunity", "applied"})
           /\ ~Queued({"pin"}) /\ ~Queued({"flat", "exclude"})
           /\ \A s \in Scenario : BehindFor(agenda, {"advance"}, s) => agenda[1].for # s
           /\ \A s \in Scenario : agenda[1].do = "decide" /\ BehindFor(agenda, {"decide"}, s)
                                  => agenda[1].for # s
           /\ \A some : Queued(some) <=> agenda[1].do \in some \/ Behind(agenda, some)
<1>1. \A some : Queued(some) <=> agenda[1].do \in some \/ Behind(agenda, some)
  BY HasBehind
<1>2. Rank(agenda[1]) \in 2..9
  BY Ranks DEF Steps
<1>3. Behind(agenda, {"applied"}) /\ Taking /\ Queued({"opportunity", "applied"})
  <2>1. Queued({"advance", "step", "decide", "opportunity"}) /\ Queued(TradeOps) /\ Queued(ApplyOps)
    <3>1. \A x \in Steps : x \in TradeOps /\ x \in ApplyOps
                           /\ x \in {"advance", "step", "decide", "opportunity"}
      BY DEF Steps, TradeOps, ApplyOps
    <3> QED
      BY <1>1, <3>1
  <2>2. Unapplied # {} /\ Last.disposition = "accepted" /\ Queued({"applied"})
    BY <2>1 DEF Control, ReceiptQueued
  <2>3. Behind(agenda, {"applied"})
    <3>1. agenda[1].do \notin {"applied"}
      BY DEF Steps
    <3> QED
      BY <1>1, <2>2, <3>1
  <2> QED
    BY <2>2, <2>3, <1>1 DEF Taking, Behind
<1>4. ASSUME NEW some, some \subseteq FirstOps
      PROVE  ~Queued(some)
  <2>1. ~Behind(agenda, some)
    <3> SUFFICES ASSUME Behind(agenda, some) PROVE FALSE
      OBVIOUS
    <3>1. PICK j \in DOMAIN agenda : agenda[j].do \in some /\ MayFollow(agenda[1], agenda[j])
      BY BehindFollows
    <3>2. Rank(agenda[j]) = 1
      BY <1>4, <3>1, Ranks
    <3> QED
      BY <1>2, <3>1, <3>2 DEF MayFollow
  <2>2. agenda[1].do \notin some
    BY <1>4 DEF Steps, FirstOps
  <2> QED
    BY <1>1, <2>1, <2>2
<1>5. ~Queued({"pin"}) /\ ~Queued({"flat", "exclude"})
  BY <1>4 DEF FirstOps
<1>6. ASSUME NEW s \in Scenario, BehindFor(agenda, {"advance"}, s)
      PROVE  agenda[1].for # s
  <2>1. PICK j \in DOMAIN agenda : /\ agenda[j].do \in {"advance"} /\ agenda[j].for = s
                                   /\ MayFollow(agenda[1], agenda[j])
    BY <1>6, BehindFollows
  <2>2. Rank(agenda[1]) < Rank(agenda[j])
    BY <1>2, <2>1, Ranks DEF MayFollow
  <2>3. agenda[j].do = "advance" /\ agenda[j].for = s
    BY <2>1
  <2>4. CASE s = Family[1]
    <3>1. Rank(agenda[j]) = 2
      BY <2>3, <2>4, Ranks
    <3> QED
      BY <1>2, <2>2, <3>1
  <2>5. CASE s # Family[1]
    <3>1. Rank(agenda[j]) = 5
      BY <2>3, <2>5, Ranks
    <3>2. agenda[1].for = s => Rank(agenda[1]) \in {5, 6, 7}
      BY <2>5, Ranks DEF Steps
    <3> QED
      BY <2>2, <3>1, <3>2
  <2> QED
    BY <2>4, <2>5
<1>7. ASSUME NEW s \in Scenario, agenda[1].do = "decide", BehindFor(agenda, {"decide"}, s)
      PROVE  agenda[1].for # s
  <2>1. PICK j \in DOMAIN agenda : /\ agenda[j].do \in {"decide"} /\ agenda[j].for = s
                                   /\ MayFollow(agenda[1], agenda[j])
    BY <1>7, BehindFollows
  <2>2. Rank(agenda[1]) < Rank(agenda[j])
    BY <1>2, <2>1, Ranks DEF MayFollow
  <2>3. Rank(agenda[j]) = IF s = Family[1] THEN 4 ELSE 7
    BY <2>1, Ranks
  <2>4. agenda[1].for = s => Rank(agenda[1]) = IF s = Family[1] THEN 4 ELSE 7
    BY <1>7, Ranks
  <2> QED
    BY <2>2, <2>3, <2>4
<1> QED
  BY <1>1, <1>3, <1>5, <1>6, <1>7

LEMMA BeginStepProcessed ==
    ASSUME Control, Ledgers, Processed, Untouched, BeginStep
    PROVE  Processed' /\ Untouched'
<1>1. Doing("step") /\ UNCHANGED ledgers /\ phase' = phase /\ receipts' = receipts
      /\ contract' = contract
  BY DEF BeginStep, tables
<1>2. PICK t : For = t
  OBVIOUS
<1>3. /\ t \in Scenario /\ agenda # <<>> /\ agenda[1].do = "step" /\ agenda[1].for = t
      /\ agenda[1].do \in Steps
  BY <1>1, <1>2, HeadFor, HeadIs DEF Steps
<1>4. bar = Last.bar
  <2>1. Queued(ApplyOps)
    BY <1>1, HeadIs DEF Queued, ApplyOps, TradeOps
  <2> QED
    BY <2>1, InHand
<1> DEFINE Q == <<[do |-> "reconcile", for |-> t], [do |-> "decide", for |-> t],
                  [do |-> "dispatch", for |-> t]>>
<1>5. PICK ops : /\ ops \in Seq(Agenda) /\ Then(ops)
                 /\ \/ ops = <<>> /\ Event(Last.bar) \in w[t].bars
                    \/ /\ DOMAIN ops = 1..3 /\ ops[1].do = "reconcile" /\ ops[3].do = "dispatch"
                       /\ ops[2].do = "decide" /\ ops[2].for = t /\ Event(Last.bar) \notin w[t].bars
  <2>1. Q = DoFor("reconcile", t) \o DoFor("decide", t) \o DoFor("dispatch", t)
    BY DEF DoFor
  <2>2. /\ Q \in Seq(Agenda) /\ DOMAIN Q = 1..3 /\ Q[1].do = "reconcile" /\ Q[3].do = "dispatch"
        /\ Q[2].do = "decide" /\ Q[2].for = t
    <3>1. /\ [do |-> "reconcile", for |-> t] \in Agenda /\ [do |-> "decide", for |-> t] \in Agenda
          /\ [do |-> "dispatch", for |-> t] \in Agenda
      BY <1>3 DEF Agenda
    <3> QED
      BY <3>1
  <2>3. Then(IF Event(Last.bar) \in w[t].bars THEN <<>> ELSE Q)
    BY <1>2, <1>4, <2>1 DEF BeginStep
  <2> HIDE DEF Q
  <2>4. CASE Event(Last.bar) \in w[t].bars
    BY <2>3, <2>4, EmptyAgenda
  <2>5. CASE Event(Last.bar) \notin w[t].bars
    <3>1. Then(Q)
      BY <2>3, <2>5
    <3> QED
      BY <2>2, <2>5, <3>1
  <2> QED
    BY <2>4, <2>5
<1> HIDE DEF Q
<1>6. /\ \A some : Queued(some)' <=> Has(ops, some) \/ Behind(agenda, some)
      /\ \A some, s : QueuedFor(some, s)' <=> HasFor(ops, some, s) \/ BehindFor(agenda, some, s)
      /\ \A some : Queued(some) <=> agenda[1].do \in some \/ Behind(agenda, some)
      /\ \A some, s : QueuedFor(some, s) <=> \/ agenda[1].do \in some /\ agenda[1].for = s
                                             \/ BehindFor(agenda, some, s)
  <2>1. Replaces(ops)
    BY <1>3, <1>5, ThenSteps
  <2> QED
    BY <2>1 DEF Replaces
<1>7. /\ \A some : some \cap {"reconcile", "decide", "dispatch"} = {} => ~Has(ops, some)
      /\ \A some, s : some \cap {"reconcile", "decide", "dispatch"} = {} => ~HasFor(ops, some, s)
  BY <1>5, EmptyAgenda DEF Has, HasFor
<1>8. Taking /\ Queued({"opportunity", "applied"})' => Queued({"opportunity", "applied"})
  BY <1>3, AtStep
<1>9. ASSUME NEW s \in Scenario, QueuedFor(Steps, s)
      PROVE  QueuedFor(Steps, s)' \/ Event(Last.bar) \in w[s].bars
  <2>1. CASE BehindFor(agenda, Steps, s)
    BY <1>6, <2>1
  <2>2. CASE s = t /\ ~(ops = <<>> /\ Event(Last.bar) \in w[t].bars)
    <3>1. HasFor(ops, Steps, t)
      BY <1>5, <2>2 DEF HasFor, Steps
    <3> QED
      BY <1>6, <2>2, <3>1
  <2> QED
    BY <1>3, <1>6, <1>9, <2>1, <2>2
<1>10. ASSUME NEW s \in Scenario, QueuedFor({"decide"}, s)'
       PROVE  QueuedFor({"decide"}, s) \/ Event(Last.bar) \notin w[s].bars
  <2>1. HasFor(ops, {"decide"}, s) => s = t /\ Event(Last.bar) \notin w[t].bars
    BY <1>5 DEF HasFor
  <2> QED
    BY <1>6, <1>10, <2>1
<1>11. ASSUME NEW s \in Scenario, QueuedFor({"advance"}, s)'
       PROVE  QueuedFor({"step"}, s)'
  <2>1. BehindFor(agenda, {"advance"}, s)
    BY <1>6, <1>7, <1>11
  <2>2. agenda[1].for # s
    BY <1>3, <2>1, AtStep
  <2>3. QueuedFor({"step"}, s)
    BY <1>6, <2>1 DEF Processed
  <2> QED
    BY <1>6, <2>2, <2>3
<1>12. Queued({"pin", "advance", "step", "decide", "opportunity"}) /\ ~Queued({"pin"})
  BY <1>3, <1>6, AtStep
<1>13. ~Queued({"flat", "exclude"})'
  BY <1>3, <1>6, <1>7, AtStep
<1>14. Queued(ApplyOps)'
  <2>1. Behind(agenda, ApplyOps)
    BY <1>3, AtStep DEF Behind, ApplyOps
  <2> QED
    BY <1>6, <2>1
<1>15. SameQueue
  BY <1>8, <1>9, <1>10, <1>11, <1>12, <1>13, <1>14 DEF SameQueue
<1> QED
  BY <1>1, <1>15, SameQueueProcessed DEF ledgers

LEMMA PinProcessed ==
    ASSUME Control, Ledgers, Processed, Untouched, Pin
    PROVE  Processed' /\ Untouched'
<1>1. Doing("pin") /\ UNCHANGED ledgers /\ phase' = phase /\ receipts' = receipts
      /\ contract' = bar.contract /\ Then(PinOps)
  BY DEF Pin, PinOps, tables
<1>2. agenda # <<>> /\ agenda[1].do = "pin"
  BY <1>1, HeadIs
<1>3. bar = Last.bar
  <2>1. Queued(ApplyOps)
    BY <1>1, HeadIs DEF Queued, ApplyOps, TradeOps
  <2> QED
    BY <2>1, InHand
<1>4. PICK q : PinOps = q
  OBVIOUS
<1>5. /\ q \in Seq(Agenda) /\ Then(q) /\ DOMAIN q = 1..8
      /\ q[1] = [do |-> "advance", for |-> "baseline"]
      /\ q[2] = [do |-> "step", for |-> "baseline"]
      /\ q[3] = [do |-> "reconcile", for |-> "baseline"]
      /\ q[4] = [do |-> "advance", for |-> "worse_costs"]
      /\ q[5] = [do |-> "step", for |-> "worse_costs"]
      /\ q[6] = [do |-> "reconcile", for |-> "worse_costs"]
      /\ q[7] = [do |-> "opportunity"] /\ q[8] = [do |-> "applied"]
  BY <1>1, <1>4, PinSteps
<1>6. /\ \A some : Queued(some)' <=> Has(q, some) \/ Behind(agenda, some)
      /\ \A some, s : QueuedFor(some, s)' <=> HasFor(q, some, s) \/ BehindFor(agenda, some, s)
  <2>1. Replaces(q)
    BY <1>2, <1>5, ThenSteps
  <2> QED
    BY <2>1 DEF Replaces
<1>7. Last' = Last /\ Taking' = Taking /\ TradedBars' = TradedBars /\ UNCHANGED <<sim, w>>
  BY <1>1 DEF Last, Taking, TradedBars, Traded, Unapplied, ledgers
<1>8. Rank(agenda[1]) = 1
  BY <1>2, Ranks DEF FirstOps
<1>9. \A s \in Scenario : QueuedFor({"step"}, s)' /\ QueuedFor(Steps, s)'
  <2>1. \A s \in Scenario : HasFor(q, {"step"}, s) /\ HasFor(q, Steps, s)
    BY <1>5 DEF HasFor, Steps, Scenario
  <2> QED
    BY <1>6, <2>1
<1>10. \A s \in Scenario : ~QueuedFor({"decide"}, s)'
  <2>1. \A s \in Scenario : ~HasFor(q, {"decide"}, s)
    BY <1>5 DEF HasFor
  <2>2. ASSUME NEW s \in Scenario, BehindFor(agenda, {"decide"}, s) PROVE FALSE
    <3>1. PICK j \in DOMAIN agenda : agenda[j].do \in {"decide"} /\ MayFollow(agenda[1], agenda[j])
      BY <1>2, <2>2, BehindFollows
    <3>2. Rank(agenda[j]) \in 2..9
      BY <3>1, Ranks
    <3> QED
      BY <1>8, <3>1, <3>2 DEF MayFollow
  <2> QED
    BY <1>6, <2>1, <2>2
<1>11. ~Queued({"flat", "exclude"})'
  <2>1. ~Has(q, {"flat", "exclude"})
    BY <1>5 DEF Has
  <2>2. ASSUME Behind(agenda, {"flat", "exclude"}) PROVE FALSE
    <3>1. PICK j \in DOMAIN agenda : /\ agenda[j].do \in {"flat", "exclude"}
                                     /\ MayFollow(agenda[1], agenda[j])
      BY <1>2, <2>2, BehindFollows
    <3>2. Rank(agenda[j]) = 1
      BY <3>1, Ranks DEF FirstOps
    <3> QED
      BY <1>8, <3>1, <3>2 DEF MayFollow
  <2> QED
    BY <1>6, <2>1, <2>2
<1>12. Queued(ApplyOps)'
  <2>1. Has(q, ApplyOps)
    BY <1>5 DEF Has, ApplyOps
  <2> QED
    BY <1>6, <2>1
<1>13. Processed'
  BY <1>7, <1>9, <1>10 DEF Processed, Steps
<1>14. Untouched'
  BY <1>1, <1>3, <1>7, <1>11, <1>12 DEF Untouched
<1> QED
  BY <1>13, <1>14

(* The receipt in hand has not been traded.                                *)
LEMMA NotTraded ==
    ASSUME Control
    PROVE  /\ Unapplied # {} => Event(Last.bar) \notin TradedBars
           /\ \A i \in Traded : i \in DOMAIN receipts /\ receipts[i].applied
           /\ TradedBars \subseteq Received
<1>1. \A i \in Traded : i \in DOMAIN receipts /\ receipts[i].applied
  BY DEF Traded
<1>2. ASSUME Unapplied # {}, Event(Last.bar) \in TradedBars PROVE FALSE
  <2>1. receipts # <<>> /\ Unapplied = {Len(receipts)}
    BY <1>2, CurrentLast DEF Unapplied
  <2>2. PICK i \in Traded : Event(receipts[i].bar) = Event(Last.bar)
    BY <1>2 DEF TradedBars
  <2>3. Event(receipts[i].bar).ts = LastTs
    BY <2>1, <2>2, LatestReceived DEF Event
  <2>4. i = Len(receipts)
    BY <1>1, <2>1, <2>2, <2>3, LatestReceived
  <2>5. Len(receipts) \in Unapplied
    BY <2>1
  <2> QED
    BY <1>1, <2>2, <2>4, <2>5 DEF Unapplied
<1> QED
  BY <1>1, <1>2 DEF TradedBars, Received

LEMMA SettleProcessed ==
    ASSUME Control, Ledgers, Processed, Untouched, Exclude \/ FinishApply
    PROVE  Processed' /\ Untouched'
<1>1. /\ Unapplied' = {} /\ ~Queued(ApplyOps)' /\ Len(receipts') = Len(receipts)
      /\ Last'.bar = Last.bar
      /\ Last'.disposition = (IF Exclude THEN "roll_with_exposure" ELSE Last.disposition)
      /\ \A i \in DOMAIN receipts : i # Len(receipts) => receipts'[i] = receipts[i]
      /\ DOMAIN receipts' = DOMAIN receipts
  BY SettleControl
<1>2. UNCHANGED <<sim, w>> /\ (Exclude => Doing("exclude")) /\ (~Exclude => Doing("applied"))
  BY DEF Exclude, FinishApply, ledgers
<1>3. /\ Unapplied = {Len(receipts)} /\ Len(receipts) \in DOMAIN receipts
      /\ agenda # <<>> /\ (Exclude => agenda[1].do = "exclude") /\ (~Exclude => agenda[1].do = "applied")
  <2>1. Queued(ApplyOps)
    BY <1>2, HeadIs DEF Queued, ApplyOps, TradeOps
  <2> QED
    BY <1>2, <2>1, InHand, CurrentLast, HeadIs
<1>4. ~Taking' /\ (\A ops : ops \subseteq ApplyOps => ~Queued(ops)')
      /\ \A ops, s : ops \subseteq ApplyOps => ~QueuedFor(ops, s)'
  BY <1>1 DEF Taking, Queued, Has, QueuedFor, HasFor
<1>5. \A some : Queued(some) <=> agenda[1].do \in some \/ Behind(agenda, some)
  BY <1>3, HasBehind
<1>6. /\ TradedBars \subseteq TradedBars' /\ TradedBars' \subseteq TradedBars \cup {Event(Last.bar)}
      /\ Event(Last.bar) \in TradedBars' => ~Exclude /\ Taking
      /\ ~Exclude /\ Taking => Event(Last.bar) \in TradedBars'
  <2>1. \A i \in DOMAIN receipts : i # Len(receipts) => (i \in Traded' <=> i \in Traded)
    BY <1>1 DEF Traded
  <2>2. Len(receipts) \notin Traded
    BY <1>3 DEF Traded, Unapplied
  <2>3. Len(receipts) \in Traded' <=> ~Exclude /\ Taking
    <3>1. receipts'[Len(receipts)].applied
      BY <1>1, <1>3 DEF Unapplied
    <3>2. receipts'[Len(receipts)].disposition = "accepted" <=> ~Exclude /\ Last.disposition = "accepted"
      BY <1>1 DEF Last
    <3> QED
      BY <1>1, <1>3, <3>1, <3>2 DEF Traded, Taking
  <2>4. /\ \A i \in DOMAIN receipts : i # Len(receipts) => receipts'[i].bar = receipts[i].bar
        /\ receipts'[Len(receipts)].bar = Last.bar
    BY <1>1 DEF Last
  <2>5. Traded \subseteq DOMAIN receipts /\ Traded' \subseteq DOMAIN receipts
    BY <1>1 DEF Traded
  <2>6. Traded \subseteq Traded' /\ Traded' \subseteq Traded \cup {Len(receipts)}
    BY <2>1, <2>2, <2>5
  <2>7. \A i \in Traded : receipts'[i].bar = receipts[i].bar
    BY <2>2, <2>4, <2>5
  <2>8. TradedBars \subseteq TradedBars' /\ TradedBars' \subseteq TradedBars \cup {Event(Last.bar)}
    BY <2>4, <2>6, <2>7 DEF TradedBars
  <2>9. ~Exclude /\ Taking => Event(Last.bar) \in TradedBars'
    BY <2>3, <2>4 DEF TradedBars
  <2>10. Event(Last.bar) \in TradedBars' => ~Exclude /\ Taking
    <3> SUFFICES ASSUME Event(Last.bar) \in TradedBars', ~(~Exclude /\ Taking) PROVE FALSE
      OBVIOUS
    <3>1. Traded' = Traded
      BY <2>2, <2>3, <2>6
    <3>2. TradedBars' = TradedBars
      BY <2>7, <3>1 DEF TradedBars
    <3> QED
      BY <1>3, <3>2, NotTraded
  <2> QED
    BY <2>8, <2>9, <2>10
<1>7. CASE ~Exclude /\ Taking
  <2>1. Event(Last.bar) \in TradedBars'
    BY <1>6, <1>7
  <2>2. \A s \in Scenario : ~QueuedFor(Steps, s)
    <3> SUFFICES ASSUME NEW s \in Scenario, QueuedFor(Steps, s) PROVE FALSE
      OBVIOUS
    <3>1. Behind(agenda, Steps)
      <4>1. Queued(Steps)
        BY DEF QueuedFor, HasFor, Queued, Has
      <4>2. agenda[1].do \notin Steps
        BY <1>3, <1>7 DEF Steps
      <4> QED
        BY <1>5, <4>1, <4>2
    <3>2. PICK j \in DOMAIN agenda : agenda[j].do \in Steps /\ MayFollow(agenda[1], agenda[j])
      BY <1>3, <3>1, BehindFollows
    <3>3. Rank(agenda[1]) = 9 /\ Rank(agenda[j]) \in 2..9
      BY <1>3, <1>7, <3>2, Ranks DEF Steps
    <3> QED
      BY <3>2, <3>3 DEF MayFollow
  <2>3. Queued({"opportunity", "applied"})
    BY <1>3, <1>5, <1>7
  <2>4. \A s \in Scenario : Event(Last.bar) \in w[s].bars
    BY <1>7, <2>2, <2>3 DEF Processed, Steps
  <2>5. \A s \in Scenario : TradedBars' \subseteq w'[s].bars
    BY <1>2, <1>6, <2>4 DEF Processed
  <2>6. \A s \in Scenario : sim'[s].bars \subseteq TradedBars'
    BY <1>2, <1>6, <1>7, <2>1 DEF Processed
  <2>7. Processed'
    BY <1>4, <2>5, <2>6 DEF Processed, ApplyOps, TradeOps
  <2>8. Untouched'
    BY <1>4 DEF Untouched, ApplyOps, TradeOps
  <2> QED
    BY <2>7, <2>8
<1>8. CASE ~(~Exclude /\ Taking)
  <2>1. TradedBars' = TradedBars
    BY <1>6, <1>8
  <2>2. \A s \in Scenario : sim[s].bars \subseteq TradedBars
    <3>1. CASE ~Taking
      BY <3>1 DEF Processed
    <3>2. CASE Exclude
      <4>1. Queued({"flat", "exclude"})
        BY <1>3, <1>5, <3>2
      <4>2. contract # Last.bar.contract
        BY <4>1 DEF Untouched
      <4>3. \A s \in Scenario : Taking => Event(Last.bar) \notin sim[s].bars
        BY <4>2 DEF Untouched
      <4> QED
        BY <4>3 DEF Processed
    <3> QED
      BY <1>8, <3>1, <3>2
  <2>3. /\ \A s \in Scenario : sim'[s].bars \subseteq TradedBars'
        /\ \A s \in Scenario : TradedBars' \subseteq w'[s].bars
    BY <1>2, <2>1, <2>2 DEF Processed
  <2>4. Processed'
    BY <1>4, <2>3 DEF Processed, ApplyOps, TradeOps
  <2>5. Untouched'
    BY <1>4 DEF Untouched, ApplyOps, TradeOps
  <2> QED
    BY <2>4, <2>5
<1> QED
  BY <1>7, <1>8

(* A step that leaves no receipt in hand.                                  *)
LEMMA ClearedProcessed ==
    ASSUME Processed, Untouched, ~Queued(ApplyOps)', UNCHANGED ledgers,
           receipts' = receipts, contract' = contract,
           phase' = "running" /\ Taking => phase = "running" /\ ~Queued(ApplyOps)
    PROVE  Processed' /\ Untouched'
<1>1. Last' = Last /\ Taking' = Taking /\ TradedBars' = TradedBars /\ UNCHANGED <<sim, w>>
  BY DEF Last, Taking, TradedBars, Traded, Unapplied, ledgers
<1>2. /\ \A ops : ops \subseteq ApplyOps => ~Queued(ops)'
      /\ \A ops, s : ops \subseteq ApplyOps => ~QueuedFor(ops, s)'
  BY DEF Queued, Has, QueuedFor, HasFor
<1>3. Processed'
  BY <1>1, <1>2 DEF Processed, ApplyOps, TradeOps
<1>4. Untouched'
  <2>1. \A s \in Scenario : Taking' /\ Event(Last'.bar) \in sim'[s].bars
                            => contract' = Last'.bar.contract
    BY <1>1 DEF Untouched
  <2>2. \A s \in Scenario : phase' = "running" /\ Taking' /\ ~Queued(ApplyOps)'
                            => Event(Last'.bar) \notin sim'[s].bars
    BY <1>1 DEF Untouched
  <2> QED
    BY <1>2, <2>1, <2>2 DEF Untouched, ApplyOps, TradeOps
<1> QED
  BY <1>3, <1>4

LEMMA ResetProcessed ==
    ASSUME Control, Processed, Untouched, Reset \/ Restart \/ RaiseNow
    PROVE  Processed' /\ Untouched'
<1>1. UNCHANGED ledgers /\ receipts' = receipts /\ contract' = contract
  BY DEF Reset, Started, Crash, Connect, Disconnect, BeginClose, ReceiveInvalid, ReceiveUnmapped,
         PassMinute, Restart, RaiseNow, Raise, tables
<1>2. CASE Reset
  <2>1. ~Queued(ApplyOps)'
    <3>1. ~Queued(Begun)'
      BY <1>2, ResetsControl
    <3> QED
      BY <3>1 DEF Queued, Has, Begun
  <2>2. phase' = "running" /\ Taking => phase = "running" /\ ~Queued(ApplyOps)
    <3>1. CASE Started
      <4>1. agenda # <<>> /\ agenda[1].do = "started"
        BY <3>1, HeadIs DEF Started
      <4>2. \A some : Queued(some) <=> agenda[1].do \in some \/ Behind(agenda, some)
        BY <4>1, HasBehind
      <4>3. phase = "starting"
        BY <4>1, <4>2 DEF Control, ControlTyped
      <4>4. ~Queued(ApplyOps \cup {"raise", "resume"})
        <5> SUFFICES ASSUME Queued(ApplyOps \cup {"raise", "resume"}) PROVE FALSE
          OBVIOUS
        <5>1. Behind(agenda, ApplyOps \cup {"raise", "resume"})
          BY <4>1, <4>2 DEF ApplyOps, TradeOps
        <5>2. PICK j \in DOMAIN agenda : /\ agenda[j].do \in ApplyOps \cup {"raise", "resume"}
                                         /\ MayFollow(agenda[1], agenda[j])
          BY <4>1, <5>1, BehindFollows
        <5>3. Rank(agenda[1]) = 11 /\ (Rank(agenda[j]) \in 1..9 \/ Rank(agenda[j]) = 10)
          BY <4>1, <5>2, Ranks
        <5> QED
          BY <5>2, <5>3 DEF MayFollow
      <4>5. Unapplied = {}
        BY <4>3, <4>4 DEF Control, ReceiptQueued
      <4> QED
        BY <4>5 DEF Taking
    <3>2. CASE Crash
      BY <3>2 DEF Crash
    <3>3. CASE ~Started /\ ~Crash
      <4>1. phase' = phase /\ agenda = <<>>
        BY <1>2, <3>3 DEF Reset, Connect, Disconnect, BeginClose, ReceiveInvalid,
                          ReceiveUnmapped, PassMinute, Idle, CloseOwed
      <4> QED
        BY <4>1 DEF Queued, Has
    <3> QED
      BY <3>1, <3>2, <3>3
  <2> QED
    BY <1>1, <2>1, <2>2, ClearedProcessed
<1>3. CASE Restart
  <2>1. phase' = "starting" /\ ~Queued(ApplyOps)'
    <3>1. ApplyOps \cap {"reconcile", "dispatch", "resume", "started"} = {}
      BY DEF ApplyOps, TradeOps
    <3> QED
      BY <1>3, <3>1, RestartControl
  <2> QED
    BY <1>1, <2>1, ClearedProcessed
<1>4. CASE RaiseNow
  <2>1. agenda # <<>> /\ agenda[1].do = "raise"
    BY <1>4, HeadIs DEF RaiseNow
  <2>2. ~Queued(ApplyOps)'
    <3>1. ~Queued(ApplyOps \cup {"acknowledge"})'
      BY <1>4, <2>1, RaiseControl DEF RaiseNow
    <3> QED
      BY <3>1 DEF Queued, Has
  <2>3. phase' = "running" => phase = "running"
    BY <1>4 DEF RaiseNow, Raise
  <2>4. ~Queued(ApplyOps)
    <3> SUFFICES ASSUME Queued(ApplyOps) PROVE FALSE
      OBVIOUS
    <3>1. Behind(agenda, ApplyOps)
      <4>1. agenda[1].do \notin ApplyOps
        BY <2>1 DEF ApplyOps, TradeOps
      <4> QED
        BY <2>1, <4>1, HasBehind
    <3>2. PICK j \in DOMAIN agenda : agenda[j].do \in ApplyOps /\ MayFollow(agenda[1], agenda[j])
      BY <2>1, <3>1, BehindFollows
    <3>3. Rank(agenda[1]) = 1 /\ Rank(agenda[j]) \in 1..9
      BY <2>1, <3>2, Ranks DEF FirstOps
    <3> QED
      BY <3>2, <3>3 DEF MayFollow
  <2> QED
    BY <1>1, <2>2, <2>3, <2>4, ClearedProcessed
<1> QED
  BY <1>2, <1>3, <1>4

LEMMA ReceiveProcessed ==
    ASSUME Control, Ledgers, Processed, Untouched, Receive
    PROVE  Processed' /\ Untouched'
<1>1. /\ Unapplied = {} /\ Len(receipts') = Len(receipts) + 1
      /\ Unapplied' = {Len(receipts')} /\ DOMAIN receipts' = DOMAIN receipts \cup {Len(receipts')}
      /\ \A i \in DOMAIN receipts : receipts'[i] = receipts[i] /\ i # Len(receipts')
      /\ Last'.bar.ts > LastTs
  BY ReceiveControl
<1>2. UNCHANGED <<sim, w>> /\ contract' = contract
  BY DEF Receive, ledgers
<1>3. <<[do |-> "apply"]>> = agenda'
  BY ReceiveControl
<1>4. /\ \A some : Queued(some)' <=> "apply" \in some
      /\ \A some, s : "apply" \notin some => ~QueuedFor(some, s)'
  <2>1. DOMAIN agenda' = {1} /\ agenda'[1].do = "apply"
    <3>1. PICK q : q = <<[do |-> "apply"]>>
      OBVIOUS
    <3>2. DOMAIN q = {1} /\ q[1].do = "apply"
      BY <3>1
    <3> QED
      BY <1>3, <3>1, <3>2
  <2> QED
    BY <2>1 DEF Queued, Has, QueuedFor, HasFor
<1>5. TradedBars' = TradedBars
  <2>1. Traded' = Traded
    <3>1. \A i \in DOMAIN receipts : i \in Traded' <=> i \in Traded
      BY <1>1 DEF Traded
    <3>2. Len(receipts') \notin Traded'
      BY <1>1 DEF Traded, Unapplied
    <3>3. Traded \subseteq DOMAIN receipts /\ Traded' \subseteq DOMAIN receipts \cup {Len(receipts')}
      BY <1>1 DEF Traded
    <3> QED
      BY <3>1, <3>2, <3>3
  <2>2. \A i \in Traded : receipts'[i] = receipts[i]
    BY <1>1 DEF Traded
  <2> QED
    BY <2>1, <2>2 DEF TradedBars
<1>6. ~Taking
  BY <1>1 DEF Taking
<1>7. /\ \A s \in Scenario : TradedBars' \subseteq w'[s].bars
      /\ \A s \in Scenario : sim'[s].bars \subseteq TradedBars'
  BY <1>2, <1>5, <1>6 DEF Processed
<1>8. \A s \in Scenario : Event(Last'.bar) \notin sim'[s].bars
  <2> SUFFICES ASSUME NEW s \in Scenario, Event(Last'.bar) \in sim[s].bars PROVE FALSE
    BY <1>2
  <2>1. Event(Last'.bar) \in Received
    BY DEF Ledgers, InStep, Received
  <2>2. receipts # <<>>
    <3> SUFFICES ASSUME receipts = <<>> PROVE FALSE
      OBVIOUS
    <3> QED
      BY <2>1 DEF Received
  <2>3. Event(Last'.bar).ts <= LastTs /\ LastTs \in Nat /\ Event(Last'.bar).ts \in Nat
    BY <2>1, <2>2, LatestReceived
  <2>4. Event(Last'.bar).ts = Last'.bar.ts
    BY DEF Event
  <2> QED
    BY <1>1, <2>3, <2>4
<1>9. Processed'
  BY <1>4, <1>7 DEF Processed
<1>10. Untouched'
  BY <1>4, <1>8 DEF Untouched, ApplyOps
<1> QED
  BY <1>9, <1>10

(* One scenario's share of the receipt.                                    *)
LEMMA ShareProcessed ==
    ASSUME Control, Ledgers, Processed, Untouched, NEW t \in Scenario, agenda # <<>>,
           agenda[1].do \in {"advance", "decide"}, agenda[1].for = t,
           NEW x, NEW u, Done(t, x, u), contract' = contract,
           x.bars = sim[t].bars \/ x.bars = sim[t].bars \cup {Event(Last.bar)},
           u.bars = w[t].bars \/ u.bars = w[t].bars \cup {Event(Last.bar)},
           agenda[1].do = "advance" => u.bars = w[t].bars,
           agenda[1].do = "decide" => Event(Last.bar) \in u.bars
    PROVE  Processed' /\ Untouched'
<1>1. agenda[1].do \in Steps
  BY DEF Steps
<1>2. /\ Behind(agenda, {"applied"}) /\ Taking /\ Queued({"opportunity", "applied"})
      /\ ~Queued({"pin"}) /\ ~Queued({"flat", "exclude"})
      /\ \A s \in Scenario : BehindFor(agenda, {"advance"}, s) => agenda[1].for # s
      /\ \A s \in Scenario : agenda[1].do = "decide" /\ BehindFor(agenda, {"decide"}, s)
                             => agenda[1].for # s
      /\ \A some : Queued(some) <=> agenda[1].do \in some \/ Behind(agenda, some)
  BY <1>1, AtStep
<1>3. /\ \A some : Queued(some)' <=> Behind(agenda, some)
      /\ \A some, s : QueuedFor(some, s)' <=> BehindFor(agenda, some, s)
      /\ \A some, s : QueuedFor(some, s) <=> \/ agenda[1].do \in some /\ agenda[1].for = s
                                             \/ BehindFor(agenda, some, s)
  <2>1. PICK ops : ops = <<>>
    OBVIOUS
  <2>2. ops \in Seq(Agenda) /\ Then(ops) /\ (\A some : ~Has(ops, some))
        /\ \A some, s : ~HasFor(ops, some, s)
    BY <2>1, EmptyAgenda DEF Done
  <2>3. Replaces(ops)
    BY <2>2, ThenSteps
  <2> QED
    BY <2>2, <2>3 DEF Replaces
<1>4. /\ Last' = Last /\ Taking' = Taking /\ TradedBars' = TradedBars /\ receipts' = receipts
      /\ phase' = phase
  BY DEF Last, Taking, TradedBars, Traded, Unapplied, Done
<1>5. /\ \A s \in Scenario : s # t => sim'[s] = sim[s] /\ w'[s] = w[s]
      /\ sim'[t] = x /\ w'[t] = u
  BY DEF Ledgers, Done
<1>6. Queued(ApplyOps)'
  BY <1>2, <1>3 DEF Behind, ApplyOps
<1>7. contract = Last.bar.contract
  <2>1. Queued({"pin", "advance", "step", "decide", "opportunity"})
    BY <1>2
  <2> QED
    BY <1>2, <2>1 DEF Untouched
<1>8. Processed'
  <2>1. \A s \in Scenario : TradedBars' \subseteq w'[s].bars
    BY <1>4, <1>5 DEF Processed
  <2>2. \A s \in Scenario : sim'[s].bars \subseteq TradedBars'
                                 \cup (IF Taking' THEN {Event(Last'.bar)} ELSE {})
    BY <1>2, <1>4, <1>5 DEF Processed
  <2>3. ASSUME NEW s \in Scenario, ~QueuedFor({"advance", "step", "decide"}, s)'
        PROVE  Event(Last'.bar) \in w'[s].bars
    <3>1. CASE s = t
      <4>1. CASE agenda[1].do = "decide"
        BY <1>4, <1>5, <3>1, <4>1
      <4>2. CASE agenda[1].do = "advance"
        <5>1. QueuedFor({"advance"}, t)
          BY <1>3, <4>2
        <5>2. QueuedFor({"step"}, t)
          BY <5>1 DEF Processed
        <5>3. BehindFor(agenda, {"step"}, t)
          BY <1>3, <4>2, <5>2
        <5>4. BehindFor(agenda, {"advance", "step", "decide"}, t)
          BY <5>3 DEF BehindFor
        <5> QED
          BY <1>3, <2>3, <3>1, <5>4
      <4> QED
        BY <4>1, <4>2
    <3>2. CASE s # t
      <4>1. ~QueuedFor({"advance", "step", "decide"}, s)
        BY <1>3, <2>3, <3>2
      <4> QED
        BY <1>2, <1>4, <1>5, <3>2, <4>1 DEF Processed
    <3> QED
      BY <3>1, <3>2
  <2>4. ASSUME NEW s \in Scenario, QueuedFor({"decide"}, s)'
        PROVE  Event(Last'.bar) \notin w'[s].bars
    <3>1. BehindFor(agenda, {"decide"}, s) /\ QueuedFor({"decide"}, s)
      BY <1>3, <2>4
    <3>2. Event(Last.bar) \notin w[s].bars
      BY <3>1 DEF Processed
    <3>3. agenda[1].do = "decide" => s # t
      BY <1>2, <3>1
    <3> QED
      BY <1>4, <1>5, <3>2, <3>3
  <2>5. ASSUME NEW s \in Scenario, QueuedFor({"advance"}, s)'
        PROVE  QueuedFor({"step"}, s)'
    <3>1. BehindFor(agenda, {"advance"}, s) /\ QueuedFor({"advance"}, s)
      BY <1>3, <2>5
    <3>2. QueuedFor({"step"}, s)
      BY <3>1 DEF Processed
    <3> QED
      BY <1>3, <3>2
  <2> QED
    BY <2>1, <2>2, <2>3, <2>4, <2>5 DEF Processed
<1>9. Untouched'
  <2>1. ~Queued({"flat", "exclude"})'
    BY <1>2, <1>3
  <2> QED
    BY <1>4, <1>6, <1>7, <2>1 DEF Untouched
<1> QED
  BY <1>8, <1>9

LEMMA AdvanceProcessed ==
    ASSUME Control, Ledgers, Processed, Untouched, Advance
    PROVE  Processed' /\ Untouched'
<1>1. PICK t : For = t
  OBVIOUS
<1>2. Doing("advance") /\ contract' = contract
  BY DEF Advance, tables
<1>3. PICK x : /\ Found(t) /\ Done(t, x, w[t]) /\ AdvancedTo(t, Event(Last.bar), x)
  BY <1>1, AdvanceLedgers
<1>4. agenda # <<>> /\ agenda[1].do = "advance" /\ agenda[1].for = t /\ t \in Scenario
  BY <1>2, <1>3, HeadIs DEF Found
<1>5. x.bars = sim[t].bars \/ x.bars = sim[t].bars \cup {Event(Last.bar)}
  BY <1>3 DEF AdvancedTo, Advances
<1>6. PICK u : w[t] = u
  OBVIOUS
<1> QED
  BY <1>2, <1>3, <1>4, <1>5, <1>6, ShareProcessed

(* The bar in hand is after every bar the worker has.                      *)
LEMMA NotBackwards ==
    ASSUME Control, Ledgers, Processed, Doing("decide")
    PROVE  ~Backwards(w[For], Event(bar))
<1>1. PICK t : For = t
  OBVIOUS
<1>2. /\ Found(t) /\ bar = Last.bar /\ receipts # <<>> /\ Last.bar.ts = LastTs
      /\ agenda # <<>> /\ agenda[1].do = "decide" /\ agenda[1].for = t /\ t \in Scenario
      /\ 1 \in DOMAIN agenda
  BY <1>1, DecideReady, HeadIs DEF Found
<1>3. QueuedFor({"decide"}, t)
  BY <1>2 DEF QueuedFor, HasFor
<1>4. Event(Last.bar) \notin w[t].bars
  BY <1>2, <1>3 DEF Processed
<1>5. w[t].bars \subseteq Received
  BY <1>2 DEF Found, Agree, Observes
<1> SUFFICES ASSUME NEW c \in w[t].bars, Event(Last.bar).ts <= c.ts PROVE FALSE
  BY <1>1, <1>2 DEF Backwards
<1>6. c \in Received /\ c.ts \in Nat /\ c.ts <= LastTs /\ LastTs \in Nat
  BY <1>2, <1>5, LatestReceived
<1>7. c.ts = LastTs
  BY <1>2, <1>6 DEF Event
<1>8. PICK i \in DOMAIN receipts : c = Event(receipts[i].bar)
  BY <1>6 DEF Received
<1>9. i = Len(receipts)
  BY <1>2, <1>7, <1>8, LatestReceived
<1> QED
  BY <1>4, <1>8, <1>9 DEF Last

LEMMA DecideProcessed ==
    ASSUME Control, Ledgers, Processed, Untouched, Decide
    PROVE  Ledgers' /\ Processed' /\ Untouched'
<1>1. PICK t : For = t
  OBVIOUS
<1>2. Doing("decide") /\ ~Backwards(w[For], Event(bar))
  BY NotBackwards DEF Decide
<1>3. contract' = contract
  BY <1>2 DEF Decide, tables
<1>4. PICK u : Found(t) /\ Done(t, sim[t], u) /\ DecidedTo(t, Event(Last.bar), u)
  BY <1>1, <1>2, DecideLedgers
<1>5. agenda # <<>> /\ agenda[1].do = "decide" /\ agenda[1].for = t /\ t \in Scenario
  BY <1>2, <1>4, HeadIs DEF Found
<1>6. u.bars = w[t].bars \cup {Event(Last.bar)}
  BY <1>4 DEF DecidedTo
<1>7. PICK x : sim[t] = x
  OBVIOUS
<1>8. Processed' /\ Untouched'
  BY <1>3, <1>4, <1>5, <1>6, <1>7, ShareProcessed
<1> QED
  BY <1>2, <1>8, DecideLedgers

(***************************************************************************)
(* The service                                                             *)
(***************************************************************************)
LEMMA ServiceInit == Init => Service
<1> SUFFICES ASSUME Init PROVE Service
  OBVIOUS
<1>1. Control
  BY ControlInit
<1>2. /\ receipts = <<>> /\ agenda = <<>> /\ DOMAIN agenda = {} /\ DOMAIN receipts = {}
      /\ \A s \in Scenario : sim[s] = EmptySim /\ w[s] = EmptyWorker
  BY DEF Init
<1>3. /\ \A some : ~Queued(some)
      /\ \A some, s : ~QueuedFor(some, s)
      /\ \A do : ~Doing(do)
  BY <1>2 DEF Queued, Has, QueuedFor, HasFor, Doing
<1>4. EmptySim.bars = {} /\ EmptyWorker.bars = {} /\ DOMAIN EmptyWorker.intents = {}
  BY DEF EmptySim, EmptyWorker
<1>5. Unapplied = {} /\ TradedBars = {}
  BY <1>2 DEF Unapplied, TradedBars, Traded
<1>6. Ledgers
  <2>1. Agree(EmptySim, EmptyWorker)
    BY EmptyAgree
  <2>2. EmptySim \in SimLedger /\ EmptyWorker \in WorkerLedger
    BY <2>1 DEF Agree
  <2>3. sim \in [Scenario -> SimLedger] /\ w \in [Scenario -> WorkerLedger]
    BY <2>2 DEF Init
  <2>4. InStep
    BY <1>2, <1>3, <1>4 DEF InStep
  <2>5. LateCancelled
    BY <1>2, <1>4 DEF LateCancelled
  <2> QED
    BY <1>2, <2>1, <2>3, <2>4, <2>5 DEF Ledgers
<1>7. Processed
  BY <1>2, <1>3, <1>4, <1>5 DEF Processed
<1>8. Untouched
  BY <1>3, <1>5 DEF Untouched, Taking
<1> QED
  BY <1>1, <1>6, <1>7, <1>8 DEF Service

LEMMA ServiceSteps ==
    ASSUME Control, Ledgers, Processed, Untouched, Next
    PROVE  Ledgers' /\ Processed' /\ Untouched'
<1>1. CASE Reconcile \/ Dispatch \/ Acknowledge \/ CancelEntries \/ HaltEntries
  BY <1>1, ScenarioStepsProcessed, ReconcileLedgers, DispatchedLedgers, SubmitLedgers,
     AcknowledgeLedgers, CancelLedgers, HaltLedgers
<1>2. CASE \/ MarkHard \/ BeginApply \/ CheckContract \/ CheckFlat \/ CountOpportunity
           \/ Resume \/ CloseDay
  BY <1>2, QuietStepsProcessed, QuietStepsLedgers
<1>3. CASE Exclude \/ FinishApply
  BY <1>3, SettleProcessed, SettleLedgers
<1>4. CASE Pin \/ BeginStep
  BY <1>4, PinProcessed, PinLedgers, BeginStepProcessed, BeginStepLedgers
<1>5. CASE Advance \/ Decide
  BY <1>5, AdvanceProcessed, AdvanceLedgers, DecideProcessed
<1>6. CASE Receive
  BY <1>6, ReceiveProcessed, ResetLedgers
<1>7. CASE RaiseNow \/ Restart \/ Reset
  BY <1>7, ResetProcessed, ResetLedgers
<1> QED
  BY <1>1, <1>2, <1>3, <1>4, <1>5, <1>6, <1>7 DEF Next, Process, Environment, Reset

LEMMA ServiceNext == Service /\ [Next]_vars => Service'
<1> SUFFICES ASSUME Service, [Next]_vars PROVE Service'
  OBVIOUS
<1>1. Control'
  BY ControlNext DEF Service
<1>2. CASE Next
  BY <1>1, <1>2, ServiceSteps DEF Service
<1>3. CASE UNCHANGED vars
  <2>1. UNCHANGED <<sim, w, receipts, contract, hard, phase, agenda, feed, now>>
    BY <1>3 DEF vars
  <2>2. Last' = Last /\ Taking' = Taking /\ TradedBars' = TradedBars
    BY <2>1 DEF Last, Taking, TradedBars, Traded, Unapplied
  <2>3. /\ \A some : Queued(some)' <=> Queued(some)
        /\ \A some, s : QueuedFor(some, s)' <=> QueuedFor(some, s)
        /\ \A do : Doing(do)' <=> Doing(do)
        /\ For' = For /\ LastTs' = LastTs
    BY <2>1 DEF Queued, QueuedFor, Doing, For, LastTs
  <2>4. Ledgers'
    <3>1. InStep'
      BY <2>1, <2>2, <2>3 DEF Ledgers, Service, InStep
    <3>2. LateCancelled'
      BY <2>1, <2>2, <2>3 DEF Ledgers, Service, LateCancelled
    <3> QED
      BY <2>1, <3>1, <3>2 DEF Ledgers, Service
  <2>5. Processed'
    BY <2>1, <2>2, <2>3 DEF Processed, Service
  <2>6. Untouched'
    BY <2>1, <2>2, <2>3 DEF Untouched, Service
  <2> QED
    BY <1>1, <2>4, <2>5, <2>6 DEF Service
<1> QED
  BY <1>2, <1>3

(* Whatever is interrupted between its commits, the tables, the ledgers    *)
(* and the agenda of the service stay consistent (continuous.py).          *)
THEOREM ServiceStays == Spec => []Service
<1>1. Init => Service
  BY ServiceInit
<1>2. Service /\ [Next]_vars => Service'
  BY ServiceNext
<1> QED
  BY <1>1, <1>2, PTL DEF Spec

(* Every variable of the service keeps its type.                           *)
THEOREM ServiceTyped == Spec => []TypeOK
<1>1. Service => TypeOK
  BY DEF Service, Control, ControlTyped, Ledgers, TypeOK
<1> QED
  BY <1>1, ServiceStays, PTL

(* Every scenario consumes the same receipts.                              *)
THEOREM ScenariosStayInStep == Spec => []ScenariosInStep
<1>1. Service => ScenariosInStep
  <2> SUFFICES ASSUME Service, Idle, NEW s \in Scenario
               PROVE  sim[s].bars = TradedBars /\ w[s].bars = TradedBars
    BY DEF ScenariosInStep
  <2>1. ~Queued(ApplyOps)
    BY DEF Idle, Queued, Has
  <2>2. sim[s].bars \subseteq TradedBars
    <3>1. CASE Taking
      BY <2>1, <3>1 DEF Service, Untouched, Processed, Idle
    <3>2. CASE ~Taking
      BY <3>2 DEF Service, Processed
    <3> QED
      BY <3>1, <3>2
  <2>3. w[s].bars \subseteq sim[s].bars /\ TradedBars \subseteq w[s].bars
    BY DEF Service, Ledgers, Agree, Observes, Processed
  <2> QED
    BY <2>2, <2>3
<1> QED
  BY <1>1, ServiceStays, PTL

(***************************************************************************)
(* What the ledgers never raise                                            *)
(***************************************************************************)
LedgersNeverRaise ==
    /\ Doing("reconcile") => ReconcileError(w[For], sim[For]) = "none"
    /\ Doing("dispatch") /\ Pending(w[For]) # {}
          => ~Refused(sim[For], w[For].intents[FirstPending(For)].req)
    /\ Doing("decide") => ~Backwards(w[For], Event(bar))

(* No reconciliation check fails, the broker refuses no order and no bar   *)
(* goes backwards for a worker: the only exceptions of the service are a   *)
(* bad bar of the provider and a roll over an unresolved order.            *)
THEOREM LedgersRaiseNothing == Spec => []LedgersNeverRaise
<1>1. Service => LedgersNeverRaise
  <2> SUFFICES ASSUME Service PROVE LedgersNeverRaise
    OBVIOUS
  <2>1. Control /\ Ledgers /\ Processed
    BY DEF Service
  <2>2. ASSUME Doing("reconcile") PROVE ReconcileError(w[For], sim[For]) = "none"
    <3>1. Found(For)
      BY <2>1, <2>2, ForFound
    <3>2. Agree(sim[For], w[For])
      BY <3>1 DEF Found
    <3> QED
      BY <3>2, NoAlarm
  <2>3. ASSUME Doing("dispatch"), Pending(w[For]) # {}
        PROVE  ~Refused(sim[For], w[For].intents[FirstPending(For)].req)
    <3>1. Found(For)
      BY <2>1, <2>3, ForFound
    <3>2. PICK t : For = t
      OBVIOUS
    <3>3. Agree(sim[t], w[t]) /\ w[t] \in WorkerLedger
      BY <3>1, <3>2 DEF Found
    <3>4. Pending(w[t]) \subseteq Nat
      BY <3>3, WorkerFields DEF Pending
    <3>5. \E x \in Pending(w[t]) : \A y \in Pending(w[t]) : x <= y
      BY <2>3, <3>2, <3>4, LeastNat
    <3>6. FirstPending(t) \in Pending(w[t]) /\ \A j \in Pending(w[t]) : FirstPending(t) <= j
      BY <3>5 DEF FirstPending
    <3>7. PICK i \in Pending(w[t]) : i = FirstPending(t) /\ \A j \in Pending(w[t]) : i <= j
      BY <3>6
    <3>8. ~Refused(sim[t], w[t].intents[i].req)
      BY <3>3, <3>7, NextIntent
    <3> QED
      BY <3>2, <3>7, <3>8
  <2>4. Doing("decide") => ~Backwards(w[For], Event(bar))
    BY <2>1, NotBackwards
  <2> QED
    BY <2>2, <2>3, <2>4 DEF LedgersNeverRaise
<1> QED
  BY <1>1, ServiceStays, PTL

(***************************************************************************)
(* What a step does to the ledgers and the receipts                        *)
(***************************************************************************)
\* A step of the ledgers of t: what becomes of them, by the action.
MovesTo(t, x, u) ==
    \/ Advance /\ AdvancedTo(t, Event(Last.bar), x) /\ u = w[t]
    \/ Decide /\ x = sim[t] /\ DecidedTo(t, Event(Last.bar), u)
    \/ Reconcile /\ x = sim[t] /\ u = Reconciled(w[t], sim[t])
    \/ /\ Dispatch \/ Acknowledge \/ CancelEntries \/ HaltEntries
       /\ x.bars = sim[t].bars /\ x.fills = sim[t].fills /\ x.lots = sim[t].lots
       /\ u.bars = w[t].bars /\ u.fills = w[t].fills

Moved(t, x, u) ==
    /\ Found(t) /\ Agree(x, u)
    /\ sim'[t] = x /\ w'[t] = u /\ \A s \in Scenario \ {t} : sim'[s] = sim[s] /\ w'[s] = w[s]
    /\ MovesTo(t, x, u)

Moves == UNCHANGED ledgers \/ \E t, x, u : Moved(t, x, u)

LEMMA ServiceMoves ==
    ASSUME Service, Next
    PROVE  Moves
<1>0. /\ Control /\ Ledgers /\ Processed /\ Untouched
      /\ sim \in [Scenario -> SimLedger] /\ w \in [Scenario -> WorkerLedger]
      /\ \A s \in Scenario : Agree(sim'[s], w'[s])
  <2>1. Ledgers'
    BY ServiceSteps DEF Service
  <2> QED
    BY <2>1 DEF Service, Ledgers
<1>1. ASSUME NEW t, NEW x, NEW u, Found(t), sim' = [sim EXCEPT ![t] = x],
             w' = [w EXCEPT ![t] = u] \/ (w' = w /\ u = w[t]), MovesTo(t, x, u)
      PROVE  Moves
  <2>1. t \in Scenario
    BY <1>1 DEF Found
  <2>2. /\ sim'[t] = x /\ w'[t] = u
        /\ \A s \in Scenario \ {t} : sim'[s] = sim[s] /\ w'[s] = w[s]
    BY <1>0, <1>1, <2>1
  <2>3. Agree(x, u)
    BY <1>0, <2>1, <2>2
  <2>4. Moved(t, x, u)
    BY <1>1, <2>2, <2>3 DEF Moved
  <2> QED
    BY <2>4 DEF Moves
<1>2. ASSUME NEW t, NEW x, NEW u, Found(t), Done(t, x, u), MovesTo(t, x, u)
      PROVE  Moves
  BY <1>1, <1>2 DEF Done
<1> DEFINE Kept(t, x, u) == /\ x.bars = sim[t].bars /\ x.fills = sim[t].fills
                            /\ x.lots = sim[t].lots
                            /\ u.bars = w[t].bars /\ u.fills = w[t].fills
<1>3. CASE Advance
  <2>1. PICK t : For = t
    OBVIOUS
  <2>2. PICK x : Found(t) /\ Done(t, x, w[t]) /\ AdvancedTo(t, Event(Last.bar), x)
    BY <1>0, <1>3, <2>1, AdvanceLedgers
  <2>3. MovesTo(t, x, w[t])
    BY <1>3, <2>2 DEF MovesTo
  <2> QED
    BY <1>2, <2>2, <2>3
<1>4. CASE Decide
  <2>1. PICK t : For = t
    OBVIOUS
  <2>2. ~Backwards(w[For], Event(bar))
    BY <1>0, <1>4, NotBackwards DEF Decide
  <2>3. PICK u : Found(t) /\ Done(t, sim[t], u) /\ DecidedTo(t, Event(Last.bar), u)
    BY <1>0, <1>4, <2>1, <2>2, DecideLedgers
  <2>4. MovesTo(t, sim[t], u)
    BY <1>4, <2>3 DEF MovesTo
  <2> QED
    BY <1>2, <2>3, <2>4
<1>5. CASE Reconcile
  <2>1. PICK t : For = t
    OBVIOUS
  <2>2. Found(t) /\ Done(t, sim[t], Reconciled(w[t], sim[t]))
    BY <1>0, <1>5, <2>1, ReconcileLedgers
  <2>3. MovesTo(t, sim[t], Reconciled(w[t], sim[t]))
    BY <1>5 DEF MovesTo
  <2> QED
    BY <1>2, <2>2, <2>3
<1>6. CASE Dispatch
  <2>1. CASE Pending(w[For]) = {}
    BY <1>6, <2>1 DEF Dispatch, Moves, ledgers
  <2>2. CASE Pending(w[For]) # {}
    <3>1. PICK t : For = t
      OBVIOUS
    <3>2. PICK x : Submit(sim[t], w[t].intents[FirstPending(t)].req, FALSE) = x
      OBVIOUS
    <3>3. Found(t) /\ sim' = [sim EXCEPT ![t] = x] /\ w' = w
      BY <1>0, <1>6, <2>2, <3>1, <3>2, SubmitLedgers
    <3>5. x.bars = sim[t].bars /\ x.fills = sim[t].fills /\ x.lots = sim[t].lots
      <4>1. CASE Known(sim[t], w[t].intents[FirstPending(t)].req.id)
        BY <3>2, <4>1 DEF Submit
      <4>2. CASE ~Known(sim[t], w[t].intents[FirstPending(t)].req.id)
        <5>1. sim[t] \in SimLedger
          BY <1>0, <3>3 DEF Found
        <5> QED
          BY <3>2, <4>2, <5>1 DEF Submit, SimLedger
      <4> QED
        BY <4>1, <4>2
    <3>6. MovesTo(t, x, w[t])
      BY <1>6, <3>5 DEF MovesTo
    <3> QED
      BY <1>1, <3>3, <3>6
  <2> QED
    BY <2>1, <2>2
<1>7. CASE Acknowledge
  <2>1. PICK t : For = t
    OBVIOUS
  <2>2. PICK u : Acknowledged(w[t], FirstPending(t), sim[t]) = u
    OBVIOUS
  <2>3. Found(t) /\ Done(t, sim[t], u)
    BY <1>0, <1>7, <2>1, <2>2, AcknowledgeLedgers
  <2>4. u.bars = w[t].bars /\ u.fills = w[t].fills
    BY <2>2 DEF Acknowledged, WithIntents
  <2>5. MovesTo(t, sim[t], u)
    BY <1>7, <2>4 DEF MovesTo
  <2> QED
    BY <1>2, <2>3, <2>5
<1>8. CASE CancelEntries
  <2>1. PICK t : For = t
    OBVIOUS
  <2>2. PICK x : EntriesCancelled(sim[t]) = x
    OBVIOUS
  <2>3. Found(t) /\ Done(t, x, w[t])
    BY <1>0, <1>8, <2>1, <2>2, CancelLedgers
  <2>4. x.bars = sim[t].bars /\ x.fills = sim[t].fills /\ x.lots = sim[t].lots
    BY <2>2 DEF EntriesCancelled
  <2>5. MovesTo(t, x, w[t])
    BY <1>8, <2>4 DEF MovesTo
  <2> QED
    BY <1>2, <2>3, <2>5
<1>9. CASE HaltEntries
  <2>1. PICK t : For = t
    OBVIOUS
  <2>2. PICK u : Found(t) /\ Done(t, sim[t], u) /\ u.bars = w[t].bars /\ u.fills = w[t].fills
    BY <1>0, <1>9, <2>1, HaltLedgers
  <2>3. MovesTo(t, sim[t], u)
    BY <1>9, <2>2 DEF MovesTo
  <2> QED
    BY <1>2, <2>2, <2>3
<1>10. CASE ~(\/ Advance \/ Decide \/ Reconcile \/ Dispatch \/ Acknowledge
              \/ CancelEntries \/ HaltEntries)
  <2>1. UNCHANGED ledgers
    BY <1>10 DEF Next, Process, Environment, MarkHard, RaiseNow, Raise, BeginApply, CheckContract,
                 CheckFlat, Exclude, Pin, BeginStep, CountOpportunity, FinishApply, Resume, Started,
                 Restart, BeginClose, CloseDay, Receive, ReceiveInvalid, ReceiveUnmapped, Crash,
                 Connect, Disconnect, PassMinute
  <2> QED
    BY <2>1 DEF Moves
<1> QED
  BY <1>3, <1>4, <1>5, <1>6, <1>7, <1>8, <1>9, <1>10

(* Bars are never taken back.                                              *)
LEMMA BarsGrow ==
    ASSUME Service, Next
    PROVE  \A s \in Scenario : sim[s].bars \subseteq sim'[s].bars /\ w[s].bars \subseteq w'[s].bars
<1>1. CASE UNCHANGED ledgers
  BY <1>1 DEF ledgers
<1>2. ASSUME NEW t, NEW x, NEW u, Moved(t, x, u)
      PROVE  \A s \in Scenario : sim[s].bars \subseteq sim'[s].bars /\ w[s].bars \subseteq w'[s].bars
  <2>1. sim[t].bars \subseteq x.bars /\ w[t].bars \subseteq u.bars
    <3>1. Advance => sim[t].bars \subseteq x.bars /\ w[t].bars \subseteq u.bars
      BY <1>2 DEF Moved, MovesTo, AdvancedTo, Advances, DecidedTo, Reconciled
    <3>2. Decide /\ x = sim[t] /\ DecidedTo(t, Event(Last.bar), u) =>
             sim[t].bars \subseteq x.bars /\ w[t].bars \subseteq u.bars
      BY DEF DecidedTo
    <3>3. Reconciled(w[t], sim[t]).bars = w[t].bars
      BY DEF Reconciled
    <3> QED
      BY <1>2, <3>1, <3>2, <3>3 DEF Moved, MovesTo
  <2> QED
    BY <1>2, <2>1 DEF Moved
<1> QED
  BY <1>1, <1>2, ServiceMoves DEF Moves

(***************************************************************************)
(* Whole opportunities                                                     *)
(***************************************************************************)
(* Received bars are told apart by their minutes.                          *)
LEMMA ContractAtIs ==
    ASSUME NEW r, NEW n \in Nat, DOMAIN r = 1..n, \A j \in DOMAIN r : r[j].bar.ts \in Nat,
           \A i, j \in DOMAIN r : i < j => r[i].bar.ts < r[j].bar.ts,
           NEW i \in DOMAIN r
    PROVE  r[CHOOSE j \in DOMAIN r : r[j].bar.ts = r[i].bar.ts].bar.contract = r[i].bar.contract
<1>1. ASSUME NEW j \in DOMAIN r, j # i
      PROVE  r[j].bar.ts # r[i].bar.ts
  <2>1. i < j \/ j < i
    BY <1>1
  <2>2. r[i].bar.ts < r[j].bar.ts \/ r[j].bar.ts < r[i].bar.ts
    BY <2>1
  <2> QED
    BY <2>2
<1>2. (CHOOSE j \in DOMAIN r : r[j].bar.ts = r[i].bar.ts) = i
  BY <1>1
<1> QED
  BY <1>2

LEMMA ReceiptFields ==
    ASSUME Control
    PROVE  /\ DOMAIN receipts = 1..Len(receipts) /\ Len(receipts) \in Nat
           /\ \A i \in DOMAIN receipts : receipts[i] \in Receipt /\ receipts[i].bar.ts \in Nat
           /\ \A i \in DOMAIN receipts : ContractAt(receipts[i].bar.ts) = receipts[i].bar.contract
<1>1. receipts \in Seq(Receipt)
  BY DEF Control, ControlTyped
<1>2. /\ DOMAIN receipts = 1..Len(receipts) /\ Len(receipts) \in Nat
      /\ \A i \in DOMAIN receipts : receipts[i] \in Receipt
  BY <1>1, LenProperties
<1>3. \A i \in DOMAIN receipts : receipts[i].bar.ts \in Nat
  BY <1>2 DEF Receipt, MarketBar
<1>4. \A i \in DOMAIN receipts : ContractAt(receipts[i].bar.ts) = receipts[i].bar.contract
  BY <1>2, <1>3, ContractAtIs DEF Control, ReceiptsInOrder, ContractAt
<1> QED
  BY <1>2, <1>3, <1>4

LEMMA ReceiptFieldsNext ==
    ASSUME Control'
    PROVE  \A i \in DOMAIN receipts' : \A ts : ts = receipts'[i].bar.ts =>
              receipts'[CHOOSE j \in DOMAIN receipts' : receipts'[j].bar.ts = ts].bar.contract
                 = receipts'[i].bar.contract
<1>1. PICK r : r = receipts'
  OBVIOUS
<1>2. r \in Seq(Receipt)
  BY <1>1 DEF Control, ControlTyped
<1>3. /\ DOMAIN r = 1..Len(r) /\ Len(r) \in Nat
      /\ \A i \in DOMAIN r : r[i] \in Receipt
  BY <1>2, LenProperties
<1>4. \A i \in DOMAIN r : r[i].bar.ts \in Nat
  BY <1>3 DEF Receipt, MarketBar
<1>5. \A i, j \in DOMAIN r : i < j => r[i].bar.ts < r[j].bar.ts
  BY <1>1 DEF Control, ReceiptsInOrder
<1>6. \A i \in DOMAIN r :
         r[CHOOSE j \in DOMAIN r : r[j].bar.ts = r[i].bar.ts].bar.contract = r[i].bar.contract
  BY <1>3, <1>4, <1>5, ContractAtIs
<1> QED
  BY <1>1, <1>6

(* The bars of a day's opening are as many as its minutes only if there is *)
(* one for each.                                                           *)
LEMMA OpeningCovered ==
    ASSUME Control, NEW day \in Nat, Cardinality(Opening(day)) = OpeningBars
    PROVE  \A ts \in (day * Stride)..(day * Stride + OpeningBars - 1) :
              \E i \in Opening(day) : receipts[i].bar.ts = ts
<1>1. /\ OpeningBars \in Nat \ {0} /\ day * Stride \in Nat
      /\ DOMAIN receipts = 1..Len(receipts) /\ Len(receipts) \in Nat
  <2>1. OpeningBars \in Nat \ {0} /\ Stride \in Nat
    BY SessionAssumption
  <2>2. day * Stride \in Nat
    BY <2>1
  <2> QED
    BY <2>1, <2>2, LenProperties DEF Control, ControlTyped
<1>2. PICK a : a = day * Stride
  OBVIOUS
<1> DEFINE I == a..(a + OpeningBars - 1)
           O == Opening(day)
           f == [i \in O |-> receipts[i].bar.ts]
           T == {f[i] : i \in O}
<1>3. /\ O \subseteq DOMAIN receipts /\ \A i \in O : receipts[i].bar.ts \in I
      /\ \A i, j \in O : receipts[i].bar.ts = receipts[j].bar.ts => i = j
  <2>1. \A i \in DOMAIN receipts : receipts[i].bar.ts \in Nat
    BY ReceiptFields
  <2>2. \A i, j \in DOMAIN receipts : receipts[i].bar.ts = receipts[j].bar.ts => i = j
    <3> SUFFICES ASSUME NEW i \in DOMAIN receipts, NEW j \in DOMAIN receipts, i # j
                 PROVE  receipts[i].bar.ts # receipts[j].bar.ts
      OBVIOUS
    <3>1. i < j \/ j < i
      BY <1>1
    <3>2. receipts[i].bar.ts < receipts[j].bar.ts \/ receipts[j].bar.ts < receipts[i].bar.ts
      BY <3>1 DEF Control, ReceiptsInOrder
    <3> QED
      BY <2>1, <3>2
  <2>3. \A i \in O : i \in DOMAIN receipts /\ a <= receipts[i].bar.ts
                     /\ receipts[i].bar.ts < a + OpeningBars
    BY <1>2 DEF Opening
  <2>4. ASSUME NEW i \in O PROVE receipts[i].bar.ts \in I
    <3>1. receipts[i].bar.ts \in Nat /\ a \in Nat
      BY <1>1, <1>2, <2>1, <2>3
    <3> QED
      BY <1>1, <2>3, <3>1
  <2> QED
    BY <2>2, <2>3, <2>4
<1>4. IsFiniteSet(O)
  <2>1. IsFiniteSet(1..Len(receipts))
    BY <1>1, FS_Interval
  <2>2. O \in SUBSET (1..Len(receipts))
    BY <1>1, <1>3
  <2> HIDE DEF O
  <2> QED
    BY <2>1, <2>2, FS_Subset
<1>5. IsFiniteSet(I) /\ Cardinality(I) = OpeningBars
  <2>1. /\ a \in Int /\ a + OpeningBars - 1 \in Int /\ ~(a > a + OpeningBars - 1)
        /\ (a + OpeningBars - 1) - a + 1 = OpeningBars
    BY <1>1, <1>2
  <2> QED
    BY <2>1, FS_Interval
<1>6. T \subseteq I
  BY <1>3
<1>7. Cardinality(T) = Cardinality(O)
  <2>1. f \in Bijection(O, T)
    <3>1. f \in [O -> T] /\ DOMAIN f = O /\ \A i \in O : f[i] = receipts[i].bar.ts
      OBVIOUS
    <3>2. \A i, j \in O : f[i] = f[j] => i = j
      BY <1>3, <3>1
    <3>3. \A y \in T : \E i \in O : f[i] = y
      OBVIOUS
    <3> HIDE DEF f, T, O
    <3>4. f \in Injection(O, T)
      BY <3>1, <3>2, SMT DEF Injection, IsInjective
    <3>5. f \in Surjection(O, T)
      BY <3>1, <3>3, Zenon DEF Surjection
    <3> QED
      BY <3>4, <3>5 DEF Bijection
  <2>2. ExistsBijection(O, T)
    BY <2>1 DEF ExistsBijection
  <2> QED
    BY <1>4, <2>2, FS_Bijection
<1>8. T = I
  <2> HIDE DEF T, I, O
  <2> QED
    BY <1>5, <1>6, <1>7, FS_Subset DEF O
<1>9. \A ts \in I : \E i \in O : receipts[i].bar.ts = ts
  BY <1>8
<1> QED
  BY <1>2, <1>9

\* An opportunity is complete in the ledgers, and its bars are received ones.
Complete(day) ==
    \A ts \in (day * Stride)..(day * Stride + OpeningBars - 1) :
        \A s \in Scenario :
            /\ [ts |-> ts, volume |-> TRUE] \in sim[s].bars \cap w[s].bars
            /\ ContractAt(ts) = ContractAt(day * Stride)

LEMMA ReceiptsKeep ==
    ASSUME Service, [Next]_vars
    PROVE  \A i \in DOMAIN receipts : i \in DOMAIN receipts' /\ receipts'[i].bar = receipts[i].bar
<1>1. CASE Receive
  BY <1>1, ReceiveControl DEF Service
<1>2. CASE Exclude \/ FinishApply
  <2>1. /\ Last'.bar = Last.bar /\ Len(receipts') = Len(receipts) /\ DOMAIN receipts' = DOMAIN receipts
        /\ \A i \in DOMAIN receipts : i # Len(receipts) => receipts'[i] = receipts[i]
    BY <1>2, SettleControl DEF Service
  <2> QED
    BY <2>1 DEF Last
<1>3. CASE ~Receive /\ ~Exclude /\ ~FinishApply
  <2>1. receipts' = receipts
    BY <1>3 DEF Next, Process, Environment, Reconcile, Dispatch, Acknowledge, MarkHard, CancelEntries,
       HaltEntries, RaiseNow, Raise, BeginApply, CheckContract, CheckFlat, Pin, Advance, BeginStep,
       Decide, CountOpportunity, Resume, Started, Restart, BeginClose, CloseDay, ReceiveInvalid,
       ReceiveUnmapped, Crash, Connect, Disconnect, PassMinute, tables, vars
  <2> QED
    BY <2>1
<1> QED
  BY <1>1, <1>2, <1>3

(* A complete opportunity stays complete.                                  *)
LEMMA CompleteStays ==
    ASSUME Service, [Next]_vars, NEW day \in Nat, Complete(day)
    PROVE  Complete(day)'
<1>1. Control /\ Control' /\ Ledgers
  BY ServiceNext DEF Service
<1>2. \A s \in Scenario : sim[s].bars \subseteq sim'[s].bars /\ w[s].bars \subseteq w'[s].bars
  <2>1. CASE Next
    BY <2>1, BarsGrow
  <2>2. CASE UNCHANGED vars
    BY <2>2 DEF vars
  <2> QED
    BY <2>1, <2>2
<1>3. /\ day * Stride \in Nat /\ OpeningBars \in Nat \ {0}
      /\ day * Stride \in (day * Stride)..(day * Stride + OpeningBars - 1)
  <2>1. OpeningBars \in Nat \ {0} /\ Stride \in Nat
    BY SessionAssumption
  <2>2. day * Stride \in Nat
    BY <2>1
  <2> QED
    BY <2>1, <2>2
<1>4. ASSUME NEW ts \in (day * Stride)..(day * Stride + OpeningBars - 1)
      PROVE  ContractAt(ts)' = ContractAt(ts)
  <2>1. [ts |-> ts, volume |-> TRUE] \in sim["baseline"].bars
    BY <1>4 DEF Complete, Scenario
  <2>2. sim["baseline"].bars \subseteq Received
    BY <1>1 DEF Ledgers, InStep, Received, Scenario
  <2>3. PICK i \in DOMAIN receipts : Event(receipts[i].bar) = [ts |-> ts, volume |-> TRUE]
    BY <2>1, <2>2 DEF Received
  <2>4. receipts[i].bar.ts = ts
    BY <2>3 DEF Event
  <2>5. i \in DOMAIN receipts' /\ receipts'[i].bar = receipts[i].bar
    BY ReceiptsKeep
  <2>6. ContractAt(ts) = receipts[i].bar.contract
    BY <1>1, <2>4, ReceiptFields
  <2>7. receipts'[CHOOSE j \in DOMAIN receipts' : receipts'[j].bar.ts = ts].bar.contract
           = receipts'[i].bar.contract
    BY <1>1, <2>4, <2>5, ReceiptFieldsNext
  <2>8. ContractAt(ts)' = receipts'[i].bar.contract
    BY <2>7 DEF ContractAt
  <2> QED
    BY <2>5, <2>6, <2>8
<1>5. ContractAt(day * Stride)' = ContractAt(day * Stride)
  BY <1>3, <1>4
<1> QED
  BY <1>2, <1>4, <1>5 DEF Complete

(* When the opening is complete, every minute of it is in all ledgers: what *)
(* was applied both have traded, and the bar in hand both have processed.   *)
LEMMA OpeningProcessed ==
    ASSUME Service, Doing("opportunity"), NEW day \in Nat, CompleteOpening(day)
    PROVE  Complete(day)
<1>1. Control /\ Ledgers /\ Processed
  BY DEF Service
<1>2. /\ agenda # <<>> /\ agenda[1].do = "opportunity"
      /\ agenda \in Seq(Agenda) /\ InOrder(agenda)
  BY <1>1, HeadIs DEF Doing, Control, ControlTyped
<1>3. ~Behind(agenda, ApplyOps \ {"applied"})
  BY <1>2, BehindHead
<1>4. Queued(ApplyOps) /\ Queued(TradeOps) /\ Queued({"opportunity", "applied"})
  BY <1>1, <1>2, HasBehind DEF ApplyOps, TradeOps
<1>5. Taking
  BY <1>1, <1>4 DEF Control, ReceiptQueued, Taking
<1>6. \A s \in Scenario : ~QueuedFor({"advance", "step", "decide"}, s)
  <2>1. ~Queued({"advance", "step", "decide"})
    <3>1. agenda[1].do \notin {"advance", "step", "decide"}
      BY <1>2
    <3>2. ~Behind(agenda, {"advance", "step", "decide"})
      BY <1>3 DEF Behind, ApplyOps, TradeOps
    <3> QED
      BY <1>1, <1>2, <3>1, <3>2, HasBehind
  <2> QED
    BY <2>1 DEF Queued, Has, QueuedFor, HasFor
<1>7. \A s \in Scenario : w[s].bars \subseteq sim[s].bars
  BY <1>1 DEF Ledgers, Agree, Observes
<1>8. \A s \in Scenario : TradedBars \cup {Event(Last.bar)} \subseteq w[s].bars
  BY <1>1, <1>4, <1>5, <1>6 DEF Processed
<1>9. /\ Cardinality(Opening(day)) = OpeningBars
      /\ \A i, j \in Opening(day) : receipts[i].bar.contract = receipts[j].bar.contract
      /\ \A i \in Opening(day) : receipts[i].disposition = "accepted" /\ receipts[i].bar.volume
  BY DEF CompleteOpening
<1>10. /\ day * Stride \in Nat /\ OpeningBars \in Nat \ {0}
       /\ day * Stride \in (day * Stride)..(day * Stride + OpeningBars - 1)
  <2>1. OpeningBars \in Nat \ {0} /\ Stride \in Nat
    BY SessionAssumption
  <2>2. day * Stride \in Nat
    BY <2>1
  <2> QED
    BY <2>1, <2>2
<1>11. PICK first \in Opening(day) : receipts[first].bar.ts = day * Stride
  BY <1>1, <1>9, <1>10, OpeningCovered
<1>12. ASSUME NEW ts \in (day * Stride)..(day * Stride + OpeningBars - 1)
       PROVE  /\ \A s \in Scenario : [ts |-> ts, volume |-> TRUE] \in sim[s].bars \cap w[s].bars
              /\ ContractAt(ts) = ContractAt(day * Stride)
  <2>1. PICK i \in Opening(day) : receipts[i].bar.ts = ts
    BY <1>1, <1>9, OpeningCovered
  <2>2. i \in DOMAIN receipts /\ first \in DOMAIN receipts
    BY <1>11, <2>1 DEF Opening
  <2>3. Event(receipts[i].bar) = [ts |-> ts, volume |-> TRUE]
    <3>1. receipts[i].bar.volume \in BOOLEAN
      BY <1>1, <2>2, ReceiptFields DEF Receipt, MarketBar
    <3>2. receipts[i].bar.volume = TRUE
      BY <1>9, <2>1, <3>1
    <3> QED
      BY <2>1, <3>2 DEF Event
  <2>4. Event(receipts[i].bar) \in TradedBars \cup {Event(Last.bar)}
    <3>1. CASE receipts[i].applied
      <4>1. i \in Traded
        BY <1>9, <2>1, <2>2, <3>1 DEF Traded
      <4> QED
        BY <4>1 DEF TradedBars
    <3>2. CASE ~receipts[i].applied
      <4>1. i = Len(receipts)
        BY <1>1, <2>2, <3>2 DEF Control, ReceiptsInOrder
      <4> QED
        BY <4>1 DEF Last
    <3> QED
      BY <3>1, <3>2
  <2>5. \A s \in Scenario : [ts |-> ts, volume |-> TRUE] \in sim[s].bars \cap w[s].bars
    BY <1>7, <1>8, <2>3, <2>4
  <2>6. /\ ContractAt(ts) = receipts[i].bar.contract
        /\ ContractAt(day * Stride) = receipts[first].bar.contract
    BY <1>1, <1>11, <2>1, <2>2, ReceiptFields
  <2> QED
    BY <1>9, <1>11, <2>1, <2>5, <2>6
<1> QED
  BY <1>12 DEF Complete

\* Every opportunity that was counted as complete is complete.
Whole == \A o \in opportunities : o.eligible => Complete(o.day)

(* An opportunity counted as complete was complete for both scenarios: the *)
(* whole opening of its day is in all four ledgers, on one contract, and   *)
(* stays there, although the receipt it is counted with is not yet applied *)
(* (continuous.py _apply).                                                 *)
THEOREM OpportunitiesComplete == Spec => []CompleteOpportunity
<1>1. Init => Whole
  BY DEF Init, Whole
<1>2. Service /\ Whole /\ [Next]_vars => Whole'
  <2> SUFFICES ASSUME Service, Whole, [Next]_vars
               PROVE  Whole'
    OBVIOUS
  <2>1. \A o \in opportunities' : o \in opportunities \/
           (/\ Doing("opportunity") /\ o.day \in Nat /\ (o.eligible => CompleteOpening(o.day)))
    <3>1. CASE CountOpportunity
      <4>1. Doing("opportunity") /\ Unapplied # {}
        <5>1. Queued(ApplyOps)
          BY <3>1, HeadIs DEF CountOpportunity, Service, Queued, ApplyOps, TradeOps
        <5> QED
          BY <3>1, <5>1 DEF CountOpportunity, Service, Control, ReceiptQueued
      <4>2. bar.ts \in Nat
        BY <4>1, CurrentLast DEF Service
      <4>3. DayOf(bar.ts) \in Nat
        BY <4>2, SessionAssumption DEF DayOf
      <4>4. \A o \in opportunities' : o \in opportunities
               \/ o = [day |-> DayOf(bar.ts), eligible |-> CompleteOpening(DayOf(bar.ts))]
        BY <3>1 DEF CountOpportunity
      <4> QED
        BY <4>1, <4>3, <4>4
    <3>2. CASE ~CountOpportunity
      BY <3>2 DEF Next, Process, Environment, Reconcile, Dispatch, Acknowledge, MarkHard, CancelEntries,
         HaltEntries, RaiseNow, Raise, BeginApply, CheckContract, CheckFlat, Exclude, Pin, Advance,
         BeginStep, Decide, FinishApply, Resume, Started, Restart, BeginClose, CloseDay, Receive,
         ReceiveInvalid, ReceiveUnmapped, Crash, Connect, Disconnect, PassMinute, tables, vars
    <3> QED
      BY <3>1, <3>2
  <2>2. ASSUME NEW o \in opportunities', o.eligible
        PROVE  o.day \in Nat /\ Complete(o.day)
    <3>1. CASE o \in opportunities
      BY <2>2, <3>1 DEF Whole, Service, Control, ControlTyped
    <3>2. CASE o \notin opportunities
      BY <2>1, <2>2, <3>2, OpeningProcessed
    <3> QED
      BY <3>1, <3>2
  <2>3. ASSUME NEW o \in opportunities', o.eligible
        PROVE  Complete(o.day)'
    BY <2>2, <2>3, CompleteStays
  <2> QED
    BY <2>3 DEF Whole
<1>3. Whole => CompleteOpportunity
  BY DEF Whole, Complete, CompleteOpportunity
<1> QED
  BY <1>1, <1>2, <1>3, ServiceStays, PTL DEF Spec

(***************************************************************************)
(* What a hard halt freezes                                                *)
(***************************************************************************)
\* Unless they are about to be reconciled, a worker has seen its broker's fills.
Synchronized ==
    \A s \in Scenario : phase \in {"starting", "running"} =>
        w[s].fills = sim[s].fills \/ Due(agenda, s)

\* A day is not closed while a receipt is being applied.
ClosesAlone == Queued({"close"}) => phase = "running" /\ ~Queued(ApplyOps)

\* The check for working orders comes when nothing is held and entries are cancelled.
FlatDue ==
    \A f \in DOMAIN agenda : agenda[f].do = "flat" => \A s \in Scenario :
        /\ sim[s].lots = {}
        /\ Before(agenda, f, s) \/ (NoEntry(sim[s]) /\ NoneDispatched(agenda, f, s))

\* The last receipt is a roll that meets inventory or a working exit.
Stuck == /\ contract # "none" /\ contract # Last.bar.contract
         /\ \E s \in Scenario : sim[s].lots # {} \/ Exiting(sim[s])

HardStuck == (hard \/ Queued(Alerts)) /\ Taking => Stuck

Trading   == Queued(Trades) => ~hard /\ ~Queued(Alerts)

PinFlat   == Queued({"pin"}) /\ contract # "none" /\ contract # Last.bar.contract
             => \A s \in Scenario : sim[s].lots = {}

Frozen == /\ Synchronized /\ FlatDue
          /\ Shaped(agenda) /\ ClosesAlone /\ HardStuck /\ Trading /\ PinFlat

LEMMA HeadSynced ==
    ASSUME Control, Synchronized, NEW do, Doing(do), NEW s \in Scenario,
           do \in Lead => do = "step" /\ For # s
    PROVE  w[s].fills = sim[s].fills
<1>1. /\ 1 \in DOMAIN agenda /\ agenda[1].do = do /\ phase \in {"starting", "running"}
      /\ agenda[1] = Head(agenda) /\ agenda \in Seq(Agenda)
  BY HeadIs
<1>2. ASSUME Due(agenda, s) PROVE FALSE
  <2>1. PICK i \in DOMAIN agenda :
           /\ agenda[i] = [do |-> "reconcile", for |-> s]
           /\ \A j \in DOMAIN agenda : j < i =>
                 \/ agenda[j].do \in {"reconcile", "dispatch", "acknowledge"}
                 \/ agenda[j] = [do |-> "step", for |-> s]
    BY <1>2 DEF Due
  <2>2. CASE i = 1
    BY <1>1, <2>1, <2>2 DEF Lead
  <2>3. CASE i # 1
    <3>1. 1 < i
      BY <1>1, <2>3, LenProperties
    <3>2. \/ agenda[1].do \in {"reconcile", "dispatch", "acknowledge"}
          \/ agenda[1] = [do |-> "step", for |-> s]
      BY <1>1, <2>1, <3>1
    <3> QED
      BY <1>1, <3>2 DEF Lead, For
  <2> QED
    BY <2>2, <2>3
<1> QED
  BY <1>1, <1>2 DEF Synchronized

LEMMA IdleSynced ==
    ASSUME Synchronized, agenda = <<>>, NEW s \in Scenario
    PROVE  phase \in {"starting", "running"} => w[s].fills = sim[s].fills
<1>1. DOMAIN agenda = {}
  OBVIOUS
<1> QED
  BY <1>1 DEF Synchronized, Due

(* A step of one scenario.                                                 *)
LEMMA DoneSynchronized ==
    ASSUME Control, Ledgers, Synchronized, agenda # <<>>, NEW t \in Scenario, agenda[1].for = t,
           NEW x, NEW u, NEW ops \in Seq(Agenda), Then(ops), phase' = phase,
           sim' = [sim EXCEPT ![t] = x], w' = [w EXCEPT ![t] = u] \/ (w' = w /\ u = w[t]),
           \A m \in DOMAIN ops : ops[m].do \in {"reconcile", "dispatch", "acknowledge"},
           \/ u.fills = x.fills
           \/ agenda[1].do # "reconcile" /\ u.fills = w[t].fills /\ x.fills = sim[t].fills
           \/ Due(agenda', t)
    PROVE  Synchronized'
<1>1. PICK q : ops \o Tail(agenda) = q
  OBVIOUS
<1>2. agenda' = q /\ Spliced(agenda, ops, q)
  <2>1. agenda \in Seq(Agenda)
    BY DEF Control, ControlTyped
  <2> QED
    BY <1>1, <2>1, Replaced DEF Then
<1>3. /\ sim'[t] = x /\ w'[t] = u
      /\ \A s \in Scenario \ {t} : sim'[s] = sim[s] /\ w'[s] = w[s]
  BY DEF Ledgers
<1>4. ASSUME NEW s \in Scenario, agenda[1] # [do |-> "reconcile", for |-> s], Due(agenda, s)
      PROVE  Due(agenda', s)
  BY <1>2, <1>4, DueStays
<1>5. ASSUME NEW s \in Scenario, phase' \in {"starting", "running"}
      PROVE  w'[s].fills = sim'[s].fills \/ Due(agenda', s)
  <2>1. w[s].fills = sim[s].fills \/ Due(agenda, s)
    BY <1>5 DEF Synchronized
  <2>2. CASE s # t
    <3>1. agenda[1] # [do |-> "reconcile", for |-> s]
      BY <2>2
    <3> QED
      BY <1>3, <1>4, <2>1, <2>2, <3>1
  <2>3. CASE s = t
    <3>1. agenda[1].do # "reconcile" => agenda[1] # [do |-> "reconcile", for |-> s]
      OBVIOUS
    <3> QED
      BY <1>3, <1>4, <2>1, <2>3, <3>1
  <2> QED
    BY <2>2, <2>3
<1>6. Due(agenda, t)' = Due(agenda', t)
  BY DEF Due
<1> QED
  BY <1>5 DEF Synchronized, Due

(* Steps that leave the ledgers alone.                                     *)
LEMMA QuietSynchronized ==
    ASSUME Control, Synchronized, UNCHANGED ledgers,
           \/ phase' = "down"
           \/ agenda' = agenda /\ phase' = phase
           \/ agenda = <<>> /\ phase = "running"
           \/ \E do : Doing(do) /\ do \notin Lead
           \/ \A s \in Scenario : Due(agenda', s)
    PROVE  Synchronized'
<1>1. ASSUME NEW s \in Scenario, phase' \in {"starting", "running"}
      PROVE  w'[s].fills = sim'[s].fills \/ Due(agenda', s)
  <2>1. sim' = sim /\ w' = w
    BY DEF ledgers
  <2>2. CASE agenda' = agenda /\ phase' = phase
    BY <1>1, <2>1, <2>2 DEF Synchronized
  <2>3. CASE agenda = <<>> /\ phase = "running"
    BY <2>1, <2>3, IdleSynced
  <2>4. ASSUME NEW do, Doing(do), do \notin Lead
        PROVE  w[s].fills = sim[s].fills
    BY <2>4, HeadSynced
  <2> QED
    BY <1>1, <2>1, <2>2, <2>3, <2>4
<1> QED
  BY <1>1 DEF Synchronized, Due

LEMMA AdvancedDue ==
    ASSUME Control, Shaped(agenda), agenda # <<>>, agenda[1].do = "advance", NEW t, agenda[1].for = t,
           Then(<<>>)
    PROVE  Due(agenda', t)
<1>1. PICK q : <<>> \o Tail(agenda) = q
  OBVIOUS
<1>2. agenda' = q /\ Spliced(agenda, <<>>, q)
  <2>1. agenda \in Seq(Agenda) /\ <<>> \in Seq(Agenda)
    BY DEF Control, ControlTyped
  <2> QED
    BY <1>1, <2>1, Replaced DEF Then
<1>3. Len(<<>>) = 0 /\ 1 \in DOMAIN agenda /\ DOMAIN q = 1..Len(q) /\ Len(q) \in Nat
  BY <1>2 DEF Spliced
<1>4. 2 \in DOMAIN agenda /\ agenda[2] = [do |-> "step", for |-> t]
  <2>1. 1 + 1 = 2
    OBVIOUS
  <2> QED
    BY <1>3, <2>1 DEF Shaped
<1>5. 3 \in DOMAIN agenda /\ agenda[3] = [do |-> "reconcile", for |-> t]
  <2>1. 2 + 1 = 3 /\ agenda[2].do = "step" /\ agenda[2].for = t
    BY <1>4
  <2> QED
    BY <1>4, <2>1 DEF Shaped
<1>6. 1 \in DOMAIN q /\ q[1] = agenda[2] /\ 2 \in DOMAIN q /\ q[2] = agenda[3]
  <2>1. PICK e : <<>> = e
    OBVIOUS
  <2>2. /\ Len(e) = 0
        /\ \A j \in DOMAIN agenda : j # 1 => /\ j - 1 + Len(e) \in DOMAIN q
                                            /\ q[j - 1 + Len(e)] = agenda[j]
    <3>1. Spliced(agenda, e, q)
      BY <1>2, <2>1
    <3> QED
      BY <1>3, <2>1, <3>1 DEF Spliced
  <2>3. /\ 2 - 1 + Len(e) \in DOMAIN q /\ q[2 - 1 + Len(e)] = agenda[2]
        /\ 3 - 1 + Len(e) \in DOMAIN q /\ q[3 - 1 + Len(e)] = agenda[3]
    BY <1>4, <1>5, <2>2
  <2>4. 2 - 1 + Len(e) = 1 /\ 3 - 1 + Len(e) = 2
    BY <2>2
  <2> QED
    BY <2>3, <2>4
<1>7. \A j \in DOMAIN q : j < 2 => q[j] = [do |-> "step", for |-> t]
  BY <1>3, <1>4, <1>6
<1>8. Due(q, t)
  BY <1>5, <1>6, <1>7 DEF Due
<1> QED
  BY <1>2, <1>8 DEF Due

LEMMA SynchronizedNext ==
    ASSUME Service, Synchronized, Shaped(agenda), Next
    PROVE  Synchronized'
<1>0. Control /\ Ledgers /\ Processed
  BY DEF Service
<1>1. Synchronized <=> Synchronized
  OBVIOUS
<1>e. /\ <<>> \in Seq(Agenda) /\ DOMAIN <<>> = {}
  OBVIOUS
<1>2. ASSUME NEW t, NEW x, NEW u, Found(t), Done(t, x, u),
             \/ u.fills = x.fills
             \/ agenda[1].do # "reconcile" /\ u.fills = w[t].fills /\ x.fills = sim[t].fills
             \/ Due(agenda', t)
      PROVE  Synchronized'
  BY <1>0, <1>2, <1>e, DoneSynchronized, Zenon DEF Found, Done
<1>3. CASE Advance
  <2>1. PICK t : For = t
    OBVIOUS
  <2>2. PICK x : Found(t) /\ Done(t, x, w[t])
    BY <1>0, <1>3, <2>1, AdvanceLedgers
  <2>3. Due(agenda', t)
    <3>1. Doing("advance")
      BY <1>3 DEF Advance
    <3>2. agenda[1].do = "advance"
      BY <1>0, <3>1, HeadIs
    <3> QED
      BY <1>0, <2>2, <3>2, AdvancedDue DEF Found, Done
  <2> QED
    BY <1>2, <2>2, <2>3
<1>4. CASE Decide
  <2>1. PICK t : For = t
    OBVIOUS
  <2>2. ~Backwards(w[For], Event(bar))
    BY <1>0, <1>4, NotBackwards DEF Decide
  <2>3. PICK u : Found(t) /\ Done(t, sim[t], u) /\ DecidedTo(t, Event(Last.bar), u)
    BY <1>0, <1>4, <2>1, <2>2, DecideLedgers
  <2>4. u.fills = w[t].fills /\ agenda[1].do # "reconcile"
    <3>1. Doing("decide")
      BY <1>4 DEF Decide
    <3>2. agenda[1].do = "decide"
      BY <1>0, <3>1, HeadIs
    <3> QED
      BY <2>3, <3>2 DEF DecidedTo
  <2> QED
    BY <1>2, <2>3, <2>4
<1>5. CASE Reconcile
  <2>1. PICK t : For = t
    OBVIOUS
  <2>2. PICK u : Reconciled(w[t], sim[t]) = u
    OBVIOUS
  <2>3. Found(t) /\ Done(t, sim[t], u)
    BY <1>0, <1>5, <2>1, <2>2, ReconcileLedgers
  <2>4. u.fills = sim[t].fills
    BY <2>2, <2>3, ReconciledAgree DEF Found
  <2> QED
    BY <1>2, <2>3, <2>4
<1>6. CASE Dispatch
  <2>1. PICK t : For = t
    OBVIOUS
  <2>d. Doing("dispatch")
    BY <1>6 DEF Dispatch
  <2>2. CASE Pending(w[For]) = {}
    <3>1. Found(t) /\ Done(t, sim[t], w[t])
      BY <1>0, <1>6, <2>1, <2>2, DispatchedLedgers
    <3>2. agenda[1].do # "reconcile"
      BY <1>0, <2>d, HeadIs
    <3> QED
      BY <1>2, <3>1, <3>2
  <2>3. CASE Pending(w[For]) # {}
    <3>1. PICK x : Submit(sim[t], w[t].intents[FirstPending(t)].req, FALSE) = x
      OBVIOUS
    <3>2. /\ Found(t) /\ sim' = [sim EXCEPT ![t] = x] /\ w' = w
          /\ ~Refused(sim[t], w[t].intents[FirstPending(t)].req)
      BY <1>0, <1>6, <2>3, <2>1, <3>1, SubmitLedgers
    <3>3. x.fills = sim[t].fills
      <4>1. CASE Known(sim[t], w[t].intents[FirstPending(t)].req.id)
        BY <3>1, <4>1 DEF Submit
      <4>2. CASE ~Known(sim[t], w[t].intents[FirstPending(t)].req.id)
        BY <3>1, <3>2, <4>2 DEF Submit, SimLedger, Found
      <4> QED
        BY <4>1, <4>2
    <3>4. /\ agenda' = DoFor("acknowledge", t) \o agenda /\ phase' = phase
      BY <1>6, <2>1, <2>3, <3>2 DEF Dispatch
    <3>5. /\ t \in Scenario /\ agenda[1] = [do |-> "dispatch", for |-> t] /\ agenda # <<>>
          /\ Head(agenda) = agenda[1] /\ agenda \in Seq(Agenda)
      BY <1>0, <2>d, <2>1, <3>2, HeadIs, HeadFor DEF Found
    <3> DEFINE Q == <<[do |-> "acknowledge", for |-> t], [do |-> "dispatch", for |-> t]>>
    <3>6. /\ [do |-> "acknowledge", for |-> t] \in Agenda /\ [do |-> "dispatch", for |-> t] \in Agenda
      BY <3>5 DEF Agenda
    <3>7. /\ Q \in Seq(Agenda) /\ DOMAIN Q = {1, 2} /\ Q[1] = [do |-> "acknowledge", for |-> t]
          /\ Q[2] = [do |-> "dispatch", for |-> t]
      BY <3>6
    <3>8. Then(Q)
      BY <3>4, <3>5, <3>6 DEF Then, DoFor
    <3> HIDE DEF Q
    <3>9. \A m \in DOMAIN Q : Q[m].do \in {"reconcile", "dispatch", "acknowledge"}
      BY <3>7
    <3>10. agenda[1].do # "reconcile" /\ agenda[1].for = t
      BY <3>5
    <3> QED
      BY <1>0, <3>2, <3>3, <3>4, <3>5, <3>7, <3>8, <3>9, <3>10, DoneSynchronized, Zenon DEF Found
  <2> QED
    BY <2>2, <2>3
<1>7. CASE Acknowledge
  <2>1. PICK t : For = t
    OBVIOUS
  <2>2. PICK u : Acknowledged(w[t], FirstPending(t), sim[t]) = u
    OBVIOUS
  <2>3. Found(t) /\ Done(t, sim[t], u)
    BY <1>0, <1>7, <2>1, <2>2, AcknowledgeLedgers
  <2>4. u.fills = w[t].fills
    BY <2>2 DEF Acknowledged, WithIntents
  <2>5. agenda[1].do # "reconcile"
    <3>1. Doing("acknowledge")
      BY <1>7 DEF Acknowledge
    <3> QED
      BY <1>0, <3>1, HeadIs
  <2> QED
    BY <1>2, <2>3, <2>4, <2>5
<1>8. CASE CancelEntries
  <2>1. PICK t : For = t
    OBVIOUS
  <2>2. PICK x : EntriesCancelled(sim[t]) = x
    OBVIOUS
  <2>3. Found(t) /\ Done(t, x, w[t])
    BY <1>0, <1>8, <2>1, <2>2, CancelLedgers
  <2>4. x.fills = sim[t].fills
    BY <2>2 DEF EntriesCancelled
  <2>5. agenda[1].do # "reconcile"
    <3>1. Doing("cancel")
      BY <1>8 DEF CancelEntries
    <3> QED
      BY <1>0, <3>1, HeadIs
  <2> QED
    BY <1>2, <2>3, <2>4, <2>5
<1>9. CASE HaltEntries
  <2>1. PICK t : For = t
    OBVIOUS
  <2>2. PICK u : Found(t) /\ Done(t, sim[t], u) /\ u.fills = w[t].fills
    BY <1>0, <1>9, <2>1, HaltLedgers
  <2>3. agenda[1].do # "reconcile"
    <3>1. Doing("halt")
      BY <1>9 DEF HaltEntries
    <3> QED
      BY <1>0, <3>1, HeadIs
  <2> QED
    BY <1>2, <2>2, <2>3
<1>10. CASE BeginStep
  <2>1. PICK t : For = t
    OBVIOUS
  <2>2. /\ Found(t) /\ agenda[1] = [do |-> "step", for |-> t] /\ agenda[1].do = "step"
        /\ phase \in {"starting", "running"}
    <3>1. Doing("step")
      BY <1>10 DEF BeginStep
    <3>2. For \in Scenario /\ agenda[1] = [do |-> "step", for |-> For]
      BY <1>0, <3>1, HeadFor, Zenon
    <3>3. agenda # <<>> /\ phase \in {"starting", "running"}
      BY <1>0, <3>1, HeadIs
    <3>4. /\ sim[For] \in SimLedger /\ w[For] \in WorkerLedger /\ Agree(sim[For], w[For])
          /\ sim[For].bars \subseteq Received
      BY <1>0, <3>2 DEF Ledgers, InStep, Received
    <3>5. [sim EXCEPT ![For] = sim[For]] = sim /\ [w EXCEPT ![For] = w[For]] = w
      BY <1>0, <3>2 DEF Ledgers
    <3> QED
      BY <2>1, <3>2, <3>3, <3>4, <3>5 DEF Found
  <2>3. \A s \in Scenario : s # t => w[s].fills = sim[s].fills
    <3>1. Doing("step")
      BY <1>10 DEF BeginStep
    <3> QED
      BY <1>0, <2>1, <3>1, HeadSynced DEF Lead
  <2>4. UNCHANGED ledgers /\ phase' = phase
    BY <1>10 DEF BeginStep
  <2>5. CASE Event(bar) \in w[For].bars
    <3>1. Then(<<>>)
      BY <1>10, <2>5 DEF BeginStep
    <3>2. sim' = [sim EXCEPT ![t] = sim[t]] /\ w' = w /\ t \in Scenario
      BY <2>2, <2>4 DEF ledgers, Found
    <3> QED
      BY <1>0, <1>e, <2>2, <2>4, <3>1, <3>2, DoneSynchronized DEF Found
  <2>6. CASE Event(bar) \notin w[For].bars
    <3> DEFINE ops == <<[do |-> "reconcile", for |-> t], [do |-> "decide", for |-> t],
                        [do |-> "dispatch", for |-> t]>>
    <3>0. t \in Scenario /\ agenda # <<>>
      BY <2>2 DEF Found
    <3>1. /\ [do |-> "reconcile", for |-> t] \in Agenda /\ [do |-> "decide", for |-> t] \in Agenda
          /\ [do |-> "dispatch", for |-> t] \in Agenda
      BY <3>0 DEF Agenda
    <3>2. /\ ops \in Seq(Agenda) /\ DOMAIN ops = {1, 2, 3}
          /\ ops[1] = [do |-> "reconcile", for |-> t]
      BY <3>1
    <3>3. ops = DoFor("reconcile", t) \o DoFor("decide", t) \o DoFor("dispatch", t)
      BY DEF DoFor
    <3>4. agenda' = ops \o Tail(agenda)
      BY <1>10, <2>1, <2>6, <3>3 DEF BeginStep, Then
    <3> HIDE DEF ops
    <3>5. PICK q : ops \o Tail(agenda) = q
      OBVIOUS
    <3>6. agenda' = q /\ Spliced(agenda, ops, q)
      <4>1. agenda \in Seq(Agenda)
        BY <1>0 DEF Control, ControlTyped
      <4> QED
        BY <3>0, <3>2, <3>4, <3>5, <4>1, Replaced
    <3>7. 1 \in DOMAIN q /\ q[1] = [do |-> "reconcile", for |-> t] /\ DOMAIN q = 1..Len(q)
      BY <3>2, <3>6 DEF Spliced
    <3>8. Due(q, t)
      BY <3>7 DEF Due
    <3>9. \A s \in Scenario : w'[s].fills = sim'[s].fills \/ Due(agenda', s)
      BY <2>3, <2>4, <3>6, <3>8 DEF ledgers
    <3> QED
      BY <3>9 DEF Synchronized, Due
  <2> QED
    BY <2>5, <2>6
<1>11. CASE Restart
  <2> DEFINE Q == <<[do |-> "reconcile", for |-> "baseline"], [do |-> "dispatch", for |-> "baseline"],
                    [do |-> "reconcile", for |-> "worse_costs"],
                    [do |-> "dispatch", for |-> "worse_costs"], [do |-> "resume"],
                    [do |-> "reconcile", for |-> "baseline"],
                    [do |-> "reconcile", for |-> "worse_costs"], [do |-> "started"]>>
  <2>1. Q = Startup
    BY DEF Startup, Each, Family, Recover, ReconcileOf, Do, DoFor
  <2>2. /\ Len(Q) = 8 /\ DOMAIN Q = 1..8
        /\ Q[1] = [do |-> "reconcile", for |-> "baseline"] /\ Q[2].do = "dispatch"
        /\ Q[3] = [do |-> "reconcile", for |-> "worse_costs"]
    OBVIOUS
  <2>3. agenda' = Q
    BY <1>11, <2>1 DEF Restart
  <2>4. PICK q : Q = q
    OBVIOUS
  <2>5. /\ agenda' = q /\ DOMAIN q = 1..8
        /\ q[1] = [do |-> "reconcile", for |-> "baseline"] /\ q[2].do = "dispatch"
        /\ q[3] = [do |-> "reconcile", for |-> "worse_costs"]
    BY <2>2, <2>3, <2>4
  <2> HIDE DEF Q
  <2>6. Due(q, "baseline")
    BY <2>5 DEF Due
  <2>7. Due(q, "worse_costs")
    <3>1. \A j \in DOMAIN q : j < 3 => j = 1 \/ j = 2
      BY <2>5
    <3>2. \A j \in DOMAIN q : j < 3 => q[j].do \in {"reconcile", "dispatch", "acknowledge"}
      BY <2>5, <3>1
    <3> QED
      BY <2>5, <3>2 DEF Due
  <2>8. \A s \in Scenario : Due(agenda', s)
    BY <2>5, <2>6, <2>7 DEF Scenario
  <2>9. UNCHANGED ledgers
    BY <1>11 DEF Restart
  <2> QED
    BY <1>0, <2>8, <2>9, QuietSynchronized
<1>12. CASE \/ MarkHard \/ RaiseNow \/ BeginApply \/ CheckContract \/ CheckFlat \/ Exclude \/ Pin
            \/ CountOpportunity \/ FinishApply \/ Resume \/ Started \/ CloseDay
  <2>1. /\ UNCHANGED ledgers
        /\ \/ Doing("hard_halt") \/ Doing("raise") \/ Doing("apply") \/ Doing("contract")
           \/ Doing("flat") \/ Doing("exclude") \/ Doing("pin") \/ Doing("opportunity")
           \/ Doing("applied") \/ Doing("resume") \/ Doing("started") \/ Doing("close")
    BY <1>12 DEF MarkHard, RaiseNow, Raise, BeginApply, CheckContract, CheckFlat, Exclude, Pin,
         CountOpportunity, FinishApply, Resume, Started, CloseDay
  <2>2. \E do : Doing(do) /\ do \notin Lead
    BY <2>1 DEF Lead
  <2> QED
    BY <1>0, <2>1, <2>2, QuietSynchronized
<1>13. CASE Crash
  BY <1>0, <1>13, QuietSynchronized DEF Crash
<1>14. CASE Connect \/ PassMinute
  BY <1>0, <1>14, QuietSynchronized DEF Connect, PassMinute
<1>15. CASE BeginClose \/ Receive \/ ReceiveInvalid \/ ReceiveUnmapped \/ Disconnect
  <2>1. UNCHANGED ledgers /\ agenda = <<>> /\ phase = "running"
    BY <1>15 DEF BeginClose, CloseOwed, Receive, ReceiveInvalid, ReceiveUnmapped, Disconnect, Idle
  <2> QED
    BY <1>0, <2>1, QuietSynchronized
<1> QED
  BY <1>3, <1>4, <1>5, <1>6, <1>7, <1>8, <1>9, <1>10, <1>11, <1>12, <1>13, <1>14, <1>15
     DEF Next, Process, Environment

\* What a step that replaces the head by ops must leave alone.
Freezes(ops) ==
    /\ receipts' = receipts /\ phase' = phase
    /\ Shaped(ops) /\ ~Has(ops, {"close"})
    /\ Has(ops, ApplyOps) => agenda[1].do \in ApplyOps \cup {"resume"}
    /\ hard' => hard \/ Queued(Alerts)
    /\ Has(ops, Trades) => ~hard /\ ~Queued(Alerts)
    /\ Has(ops, Alerts) => ~Has(ops, Trades) /\ ~Queued(Trades) /\ (Taking => Stuck)
    /\ Stuck /\ ~Queued(Trades) => Stuck'
    /\ contract' = contract \/ contract' = Last.bar.contract
    /\ Has(ops, {"pin"}) /\ contract' # "none" /\ contract' # Last.bar.contract
          => \A s \in Scenario : sim[s].lots = {}
    /\ Queued({"pin"})' => \A s \in Scenario : sim'[s].lots = sim[s].lots

(* The parts that do not depend on the place of an entry.                  *)
LEMMA ThenFreezes ==
    ASSUME Control, Frozen, agenda # <<>>, NEW ops \in Seq(Agenda), Then(ops), Freezes(ops)
    PROVE  Shaped(agenda)' /\ ClosesAlone' /\ HardStuck' /\ Trading' /\ PinFlat'
<1>1. Replaces(ops)
  BY ThenSteps
<1>2. /\ \A some : Queued(some)' <=> Has(ops, some) \/ Behind(agenda, some)
      /\ \A some : Queued(some) <=> agenda[1].do \in some \/ Behind(agenda, some)
  BY <1>1 DEF Replaces
<1>3. Last' = Last /\ Taking' = Taking
  BY DEF Freezes, Last, Taking, Unapplied
<1>4. Shaped(agenda)'
  <2>1. PICK q : ops \o Tail(agenda) = q
    OBVIOUS
  <2>2. agenda' = q /\ Spliced(agenda, ops, q)
    <3>1. agenda \in Seq(Agenda)
      BY DEF Control, ControlTyped
    <3> QED
      BY <2>1, <3>1, Replaced DEF Then
  <2>3. Shaped(q)
    BY <2>2, ShapedStays DEF Frozen, Freezes
  <2> QED
    BY <2>2, <2>3 DEF Shaped
<1>5. ClosesAlone'
  <2> SUFFICES ASSUME Queued({"close"})'
               PROVE  phase' = "running" /\ ~Queued(ApplyOps)'
    BY DEF ClosesAlone
  <2>1. Queued({"close"})
    BY <1>2 DEF Freezes
  <2>2. phase = "running" /\ ~Queued(ApplyOps)
    BY <2>1 DEF Frozen, ClosesAlone
  <2>3. ~Queued({"resume"})
    <3>1. ~Queued({"resume", "started"})
      BY <2>2 DEF Control
    <3> QED
      BY <3>1 DEF Queued, Has
  <2>4. ~Has(ops, ApplyOps)
    <3>1. agenda[1].do \notin ApplyOps
      BY <1>2, <2>2
    <3>2. agenda[1].do \notin {"resume"}
      BY <1>2, <2>3
    <3> QED
      BY <3>1, <3>2 DEF Freezes
  <2> QED
    BY <1>2, <2>2, <2>4 DEF Freezes
<1>6. HardStuck'
  <2> SUFFICES ASSUME hard' \/ Queued(Alerts)', Taking
               PROVE  Stuck'
    BY <1>3 DEF HardStuck
  <2>1. CASE hard \/ Queued(Alerts)
    <3>1. Stuck /\ ~Queued(Trades)
      BY <2>1 DEF Frozen, HardStuck, Trading
    <3> QED
      BY <3>1 DEF Freezes
  <2>2. CASE ~(hard \/ Queued(Alerts))
    <3>1. Has(ops, Alerts)
      BY <1>2, <2>2 DEF Freezes
    <3> QED
      BY <3>1 DEF Freezes
  <2> QED
    BY <2>1, <2>2
<1>7. Trading'
  <2> SUFFICES ASSUME Queued(Trades)'
               PROVE  ~hard' /\ ~Queued(Alerts)'
    BY DEF Trading
  <2>1. ~hard /\ ~Queued(Alerts)
    BY <1>2 DEF Freezes, Frozen, Trading
  <2>2. ~Has(ops, Alerts)
    BY <1>2 DEF Freezes
  <2> QED
    BY <1>2, <2>1, <2>2 DEF Freezes
<1>8. PinFlat'
  <2> SUFFICES ASSUME Queued({"pin"})', contract' # "none", contract' # Last.bar.contract,
                      NEW s \in Scenario
               PROVE  sim'[s].lots = {}
    BY <1>3 DEF PinFlat
  <2>1. contract' = contract /\ sim'[s].lots = sim[s].lots
    BY DEF Freezes
  <2>2. CASE Has(ops, {"pin"})
    BY <2>1, <2>2 DEF Freezes
  <2>3. CASE Behind(agenda, {"pin"})
    BY <1>2, <2>1, <2>3 DEF Frozen, PinFlat
  <2> QED
    BY <1>2, <2>2, <2>3
<1> QED
  BY <1>4, <1>5, <1>6, <1>7, <1>8

\* What a step must leave alone ahead of the check for working orders.
KeepsFlat(ops) ==
    /\ Has(ops, {"flat"}) =>
          /\ Softly(ops, "flat") /\ DOMAIN ops = 1..11
          /\ \A s \in Scenario : sim'[s].lots = {}
    /\ Behind(agenda, {"flat"}) => \A s \in Scenario :
          /\ sim'[s].lots = sim[s].lots
          /\ agenda[1] = [do |-> "cancel", for |-> s] => NoEntry(sim'[s])
          /\ NoEntry(sim[s]) /\ agenda[1] # [do |-> "dispatch", for |-> s] => NoEntry(sim'[s])
          /\ agenda[1] # [do |-> "dispatch", for |-> s] =>
                \A m \in DOMAIN ops : ops[m] # [do |-> "dispatch", for |-> s]

LEMMA ThenFlat ==
    ASSUME Control, FlatDue, agenda # <<>>, NEW ops \in Seq(Agenda), Then(ops), KeepsFlat(ops)
    PROVE  FlatDue'
<1>1. PICK q : ops \o Tail(agenda) = q
  OBVIOUS
<1>2. agenda' = q /\ Spliced(agenda, ops, q)
  <2>1. agenda \in Seq(Agenda)
    BY DEF Control, ControlTyped
  <2> QED
    BY <1>1, <2>1, Replaced DEF Then
<1>3. /\ DOMAIN q = 1..Len(q) /\ Len(q) \in Nat /\ Len(ops) \in Nat
      /\ \A i \in DOMAIN ops : i \in DOMAIN q /\ q[i] = ops[i]
      /\ \A i \in DOMAIN q : i \notin DOMAIN ops =>
            i + 1 - Len(ops) \in DOMAIN agenda /\ i + 1 - Len(ops) # 1 /\ q[i] = agenda[i + 1 - Len(ops)]
      /\ DOMAIN ops = 1..Len(ops) /\ DOMAIN agenda = 1..Len(agenda) /\ Len(agenda) \in Nat
  BY <1>2 DEF Spliced
<1>4. ASSUME NEW f \in DOMAIN q, q[f].do = "flat", NEW s \in Scenario
      PROVE  /\ sim'[s].lots = {}
             /\ Before(q, f, s) \/ (NoEntry(sim'[s]) /\ NoneDispatched(q, f, s))
  <2>1. CASE f \in DOMAIN ops
    <3>1. Has(ops, {"flat"}) /\ ops[f].do = "flat"
      BY <1>3, <1>4, <2>1 DEF Has
    <3>2. sim'[s].lots = {} /\ Softly(ops, "flat") /\ DOMAIN ops = 1..11
      BY <3>1 DEF KeepsFlat
    <3>3. f = 11 /\ Before(ops, 11, s)
      <4>1. /\ \A i \in DOMAIN ops : ops[i].do = "flat" => i = 11
            /\ \A r \in Scenario : Before(ops, 11, r)
        BY <3>2, Zenon DEF Softly
      <4>2. f = 11
        BY <2>1, <3>1, <4>1
      <4>3. Before(ops, 11, s)
        BY <4>1, Zenon
      <4> QED
        BY <4>2, <4>3, Zenon
    <3>4. \A j \in DOMAIN q : j < 11 => j \in DOMAIN ops
      <4>1. \A j \in DOMAIN q : j \in Nat /\ 1 <= j
        BY <1>3
      <4>2. DOMAIN ops = 1..11
        BY <3>2
      <4> QED
        BY <4>1, <4>2
    <3>5. Before(q, 11, s)
      <4>1. PICK i \in DOMAIN ops :
               /\ i < 11 /\ ops[i] = [do |-> "cancel", for |-> s]
               /\ \A j \in DOMAIN ops : j < 11 /\ ops[j] = [do |-> "dispatch", for |-> s] => j < i
        BY <3>3 DEF Before
      <4>2. i \in DOMAIN q /\ i < 11 /\ q[i] = [do |-> "cancel", for |-> s]
        BY <1>3, <4>1
      <4>3. \A j \in DOMAIN q : j < 11 /\ q[j] = [do |-> "dispatch", for |-> s] => j < i
        BY <1>3, <3>4, <4>1
      <4> QED
        BY <4>2, <4>3 DEF Before
    <3> QED
      BY <3>2, <3>3, <3>5
  <2>2. CASE f \notin DOMAIN ops
    <3>1. PICK g : g = f + 1 - Len(ops)
      OBVIOUS
    <3>2. /\ g \in DOMAIN agenda /\ g # 1 /\ agenda[g].do = "flat" /\ f = g - 1 + Len(ops)
          /\ 1 < g
      BY <1>3, <1>4, <2>2, <3>1
    <3>3. Behind(agenda, {"flat"})
      BY <3>2 DEF Behind
    <3>4. sim'[s].lots = {}
      BY <3>2, <3>3 DEF FlatDue, KeepsFlat
    <3>5. CASE agenda[1] = [do |-> "cancel", for |-> s]
      <4>1. NoEntry(sim'[s])
        BY <3>3, <3>5 DEF KeepsFlat
      <4>2. \A m \in DOMAIN ops : ops[m] # [do |-> "dispatch", for |-> s]
        <5>1. agenda[1] # [do |-> "dispatch", for |-> s]
          BY <3>5
        <5> QED
          BY <3>3, <5>1 DEF KeepsFlat
      <4>3. CASE \A j \in DOMAIN agenda : j # 1 /\ j < g => agenda[j] # [do |-> "dispatch", for |-> s]
        BY <1>2, <3>2, <3>4, <4>1, <4>2, <4>3, NoneStays
      <4>4. CASE ~\A j \in DOMAIN agenda : j # 1 /\ j < g => agenda[j] # [do |-> "dispatch", for |-> s]
        <5>1. PICK j \in DOMAIN agenda : j # 1 /\ j < g /\ agenda[j] = [do |-> "dispatch", for |-> s]
          BY <4>4
        <5>2. Before(agenda, g, s)
          BY <3>2, <5>1 DEF FlatDue, NoneDispatched
        <5>3. PICK i \in DOMAIN agenda :
                /\ i < g /\ agenda[i] = [do |-> "cancel", for |-> s]
                /\ \A k \in DOMAIN agenda : k < g /\ agenda[k] = [do |-> "dispatch", for |-> s] => k < i
          BY <5>2 DEF Before
        <5>4. i # 1
          BY <1>3, <5>1, <5>3
        <5>5. Before(q, g - 1 + Len(ops), s)
          BY <1>2, <3>2, <5>3, <5>4, BeforeStays
        <5> QED
          BY <3>2, <3>4, <5>5
      <4> QED
        BY <4>3, <4>4
    <3>6. CASE agenda[1] # [do |-> "cancel", for |-> s]
      <4>1. CASE Before(agenda, g, s)
        <5>1. PICK i \in DOMAIN agenda :
                /\ i < g /\ agenda[i] = [do |-> "cancel", for |-> s]
                /\ \A k \in DOMAIN agenda : k < g /\ agenda[k] = [do |-> "dispatch", for |-> s] => k < i
          BY <4>1 DEF Before
        <5>2. i # 1
          BY <3>6, <5>1
        <5>3. Before(q, g - 1 + Len(ops), s)
          BY <1>2, <3>2, <5>1, <5>2, BeforeStays
        <5> QED
          BY <3>2, <3>4, <5>3
      <4>2. CASE ~Before(agenda, g, s)
        <5>1. NoEntry(sim[s]) /\ NoneDispatched(agenda, g, s)
          BY <3>2, <4>2 DEF FlatDue
        <5>2. agenda[1] # [do |-> "dispatch", for |-> s]
          BY <1>3, <3>2, <5>1 DEF NoneDispatched
        <5>3. NoEntry(sim'[s]) /\ \A m \in DOMAIN ops : ops[m] # [do |-> "dispatch", for |-> s]
          BY <3>3, <5>1, <5>2 DEF KeepsFlat
        <5>4. \A j \in DOMAIN agenda : j # 1 /\ j < g => agenda[j] # [do |-> "dispatch", for |-> s]
          BY <5>1 DEF NoneDispatched
        <5>5. NoneDispatched(q, g - 1 + Len(ops), s)
          BY <1>2, <3>2, <5>3, <5>4, NoneStays
        <5> QED
          BY <3>2, <3>4, <5>3, <5>5
      <4> QED
        BY <4>1, <4>2
    <3> QED
      BY <3>5, <3>6
  <2> QED
    BY <2>1, <2>2
<1> QED
  BY <1>2, <1>4 DEF FlatDue, Before, NoneDispatched, NoEntry, ActiveOrders

\* The parts that the place of an entry decides.
Rest == FlatDue /\ Shaped(agenda) /\ ClosesAlone /\ HardStuck /\ Trading /\ PinFlat

\* What a step that moves no inventory leaves of a scenario.
Keeps(s) ==
    /\ sim'[s].lots = sim[s].lots /\ (Exiting(sim[s]) => Exiting(sim'[s]))
    /\ agenda[1] = [do |-> "cancel", for |-> s] => NoEntry(sim'[s])
    /\ NoEntry(sim[s]) /\ agenda[1] # [do |-> "dispatch", for |-> s] => NoEntry(sim'[s])

LEMMA SameKeeps ==
    ASSUME sim' = sim, agenda[1].do # "cancel", NEW s \in Scenario
    PROVE  Keeps(s)
BY DEF Keeps

LEMMA StuckStays ==
    ASSUME receipts' = receipts, contract' = contract, \A s \in Scenario : Keeps(s), Stuck
    PROVE  Stuck'
<1>1. Last' = Last
  BY DEF Last
<1>2. PICK s \in Scenario : sim[s].lots # {} \/ Exiting(sim[s])
  BY DEF Stuck
<1>3. sim'[s].lots # {} \/ Exiting(sim'[s])
  BY <1>2 DEF Keeps
<1>4. sim[s].lots' = sim'[s].lots /\ (Exiting(sim[s])' <=> Exiting(sim'[s]))
  BY DEF Exiting, ActiveOrders
<1> QED
  BY <1>1, <1>2, <1>3, <1>4 DEF Stuck

(* Steps that move no inventory and begin no trading and no halt.          *)
LEMMA QuietRest ==
    ASSUME Control, Frozen, agenda # <<>>, NEW ops \in Seq(Agenda), Then(ops),
           receipts' = receipts, phase' = phase, contract' = contract,
           hard' = hard \/ agenda[1].do = "hard_halt",
           ~Has(ops, Trades \cup Alerts \cup {"close", "flat"}),
           Has(ops, ApplyOps) => agenda[1].do \in ApplyOps \cup {"resume"},
           \A s \in Scenario : Keeps(s),
           Behind(agenda, {"flat"}) => \A s \in Scenario :
               agenda[1] # [do |-> "dispatch", for |-> s] =>
                   \A m \in DOMAIN ops : ops[m] # [do |-> "dispatch", for |-> s]
    PROVE  Rest'
<1>1. /\ ~Has(ops, Trades) /\ ~Has(ops, Alerts) /\ ~Has(ops, {"close"}) /\ ~Has(ops, {"flat"})
      /\ ~Has(ops, {"pin"}) /\ ~Has(ops, {"advance", "step"})
  BY DEF Has, Trades
<1>2. hard' => hard \/ Queued(Alerts)
  <2>1. agenda[1].do = "hard_halt" => Queued(Alerts)
    <3>1. Queued(Alerts) <=> agenda[1].do \in Alerts \/ Behind(agenda, Alerts)
      BY HasBehind
    <3> QED
      BY <3>1 DEF Alerts
  <2> QED
    BY <2>1
<1>3. Freezes(ops)
  <2>1. Shaped(ops)
    BY <1>1, NoSteps
  <2>2. Stuck => Stuck'
    BY StuckStays
  <2>3. \A s \in Scenario : sim'[s].lots = sim[s].lots
    BY DEF Keeps
  <2> QED
    BY <1>1, <1>2, <2>1, <2>2, <2>3 DEF Freezes
<1>4. KeepsFlat(ops)
  BY <1>1 DEF KeepsFlat, Keeps
<1>5. FlatDue'
  BY <1>4, ThenFlat DEF Frozen
<1> QED
  BY <1>3, <1>5, ThenFreezes DEF Rest

(* A step of one scenario.                                                 *)
LEMMA DoneRest ==
    ASSUME Control, Ledgers, Frozen, NEW t, NEW x, NEW u, Found(t), Done(t, x, u), contract' = contract,
           hard' = hard, x.lots = sim[t].lots, Exiting(sim[t]) => Exiting(x),
           agenda[1].do = "cancel" => NoEntry(x),
           NoEntry(sim[t]) /\ agenda[1].do # "dispatch" => NoEntry(x)
    PROVE  Rest'
<1>1. PICK ops : ops = <<>>
  OBVIOUS
<1>2. ops \in Seq(Agenda) /\ DOMAIN ops = {} /\ \A some : ~Has(ops, some)
  BY <1>1, EmptyAgenda
<1>3. /\ Then(ops) /\ phase' = phase /\ receipts' = receipts
      /\ sim' = [sim EXCEPT ![t] = x] /\ agenda # <<>> /\ t \in Scenario /\ agenda[1].for = t
  BY <1>1 DEF Done, Found
<1>4. sim'[t] = x /\ \A s \in Scenario \ {t} : sim'[s] = sim[s]
  BY <1>3 DEF Ledgers
<1>5. ASSUME NEW s \in Scenario
      PROVE  Keeps(s)
  <2>1. CASE s = t
    <3>1. /\ agenda[1] = [do |-> "cancel", for |-> s] => agenda[1].do = "cancel"
      OBVIOUS
    <3>2. agenda[1].do = "dispatch" /\ NoEntry(sim[t]) => NoEntry(x) \/ agenda[1].do = "dispatch"
      OBVIOUS
    <3>3. /\ sim'[s].lots = sim[s].lots /\ (Exiting(sim[s]) => Exiting(sim'[s]))
          /\ agenda[1] = [do |-> "cancel", for |-> s] => NoEntry(sim'[s])
      BY <1>4, <2>1, <3>1
    <3>4. agenda[1].do = "dispatch" => agenda[1] = [do |-> "dispatch", for |-> t]
      <4>1. CASE agenda[1].do = "dispatch"
        <5>1. Doing("dispatch")
          <6>1. agenda \in Seq(Agenda)
            BY DEF Control, ControlTyped
          <6>2. Head(agenda) = agenda[1]
            BY <1>3, <6>1
          <6> QED
            BY <1>3, <4>1, <6>2 DEF Doing
        <5> QED
          BY <1>3, <5>1, HeadFor
      <4> QED
        BY <4>1
    <3> QED
      BY <1>4, <2>1, <3>3, <3>4 DEF Keeps
  <2>2. CASE s # t
    <3>1. agenda[1] # [do |-> "cancel", for |-> s]
      BY <1>3, <2>2
    <3> QED
      BY <1>4, <2>2, <3>1 DEF Keeps
  <2> QED
    BY <2>1, <2>2
<1> QED
  BY <1>2, <1>3, <1>5, QuietRest

LEMMA ScenarioStepsRest ==
    ASSUME Service, Frozen,
           \/ Reconcile \/ Acknowledge \/ CancelEntries \/ HaltEntries \/ Decide
           \/ Dispatch /\ Pending(w[For]) = {}
    PROVE  Rest'
<1>0. Control /\ Ledgers /\ Processed
  BY DEF Service
<1>1. PICK t : For = t
  OBVIOUS
<1>2. ASSUME NEW u, Found(t), Done(t, sim[t], u), contract' = contract, hard' = hard,
             agenda[1].do # "cancel"
      PROVE  Rest'
  BY <1>0, <1>2, DoneRest
<1>3. CASE Reconcile
  <2>1. PICK u : Reconciled(w[t], sim[t]) = u
    OBVIOUS
  <2>2. Found(t) /\ Done(t, sim[t], u)
    BY <1>0, <1>3, <1>1, <2>1, ReconcileLedgers
  <2>3. contract' = contract /\ hard' = hard
    BY <1>0, <1>3, ReconcileLedgers DEF Reconcile, tables
  <2>4. agenda[1].do # "cancel"
    <3>1. Doing("reconcile")
      BY <1>3 DEF Reconcile
    <3> QED
      BY <1>0, <3>1, HeadIs
  <2> QED
    BY <1>2, <2>2, <2>3, <2>4
<1>4. CASE Acknowledge
  <2>1. PICK u : Acknowledged(w[t], FirstPending(t), sim[t]) = u
    OBVIOUS
  <2>2. Found(t) /\ Done(t, sim[t], u)
    BY <1>0, <1>4, <1>1, <2>1, AcknowledgeLedgers
  <2>3. Doing("acknowledge") /\ contract' = contract /\ hard' = hard
    BY <1>4 DEF Acknowledge, tables
  <2>4. agenda[1].do # "cancel"
    BY <1>0, <2>3, HeadIs
  <2> QED
    BY <1>2, <2>2, <2>3, <2>4
<1>5. CASE HaltEntries
  <2>1. PICK u : Found(t) /\ Done(t, sim[t], u)
    BY <1>0, <1>5, <1>1, HaltLedgers
  <2>3. Doing("halt") /\ contract' = contract /\ hard' = hard
    BY <1>5 DEF HaltEntries, tables
  <2>4. agenda[1].do # "cancel"
    BY <1>0, <2>3, HeadIs
  <2> QED
    BY <1>2, <2>1, <2>3, <2>4
<1>6. CASE Decide
  <2>0. ~Backwards(w[For], Event(bar))
    BY <1>0, <1>6, NotBackwards DEF Decide
  <2>1. PICK u : Found(t) /\ Done(t, sim[t], u) /\ DecidedTo(t, Event(Last.bar), u)
    BY <1>0, <1>6, <1>1, <2>0, DecideLedgers
  <2>3. Doing("decide") /\ contract' = contract /\ hard' = hard
    BY <1>6, <2>0 DEF Decide, tables
  <2>4. agenda[1].do # "cancel"
    BY <1>0, <2>3, HeadIs
  <2> QED
    BY <1>2, <2>1, <2>3, <2>4
<1>7. CASE Dispatch /\ Pending(w[For]) = {}
  <2>1. Found(t) /\ Done(t, sim[t], w[t])
    BY <1>0, <1>7, <1>1, DispatchedLedgers
  <2>3. Doing("dispatch") /\ contract' = contract /\ hard' = hard
    BY <1>7 DEF Dispatch, tables
  <2>4. agenda[1].do # "cancel"
    BY <1>0, <2>3, HeadIs
  <2> QED
    BY <1>2, <2>1, <2>3, <2>4
<1>8. CASE CancelEntries
  <2>1. PICK x : EntriesCancelled(sim[t]) = x
    OBVIOUS
  <2>2. Found(t) /\ Done(t, x, w[t])
    BY <1>0, <1>8, <1>1, <2>1, CancelLedgers
  <2>3. contract' = contract /\ hard' = hard
    BY <1>8 DEF CancelEntries, tables
  <2>4. /\ x.lots = sim[t].lots /\ DOMAIN x.orders = DOMAIN sim[t].orders
        /\ \A k \in DOMAIN x.orders :
              /\ x.orders[k] = sim[t].orders[k] \/ x.orders[k].state = "cancelled"
              /\ x.orders[k].req = sim[t].orders[k].req
              /\ k \in ActiveOrders(sim[t]) /\ sim[t].orders[k].req.id.kind = "entry"
                    => x.orders[k].state = "cancelled"
              /\ sim[t].orders[k].req.id.kind # "entry" => x.orders[k] = sim[t].orders[k]
    <3>1. \A o, f : Became(o, "cancelled", f).state = "cancelled" /\ Became(o, "cancelled", f).req = o.req
      BY DEF Became
    <3> QED
      BY <2>1, <3>1 DEF EntriesCancelled
  <2>5. NoEntry(x)
    BY <2>4 DEF NoEntry, ActiveOrders, Active
  <2>6. Exiting(sim[t]) => Exiting(x)
    BY <2>4 DEF Exiting, ActiveOrders, Active
  <2> QED
    BY <1>0, <2>2, <2>3, <2>4, <2>5, <2>6, DoneRest
<1> QED
  BY <1>3, <1>4, <1>5, <1>6, <1>7, <1>8

(* An order is submitted.                                                  *)
LEMMA SubmitRest ==
    ASSUME Service, Frozen, Dispatch, Pending(w[For]) # {}
    PROVE  Rest'
<1>0. Control /\ Ledgers
  BY DEF Service
<1>1. PICK t : For = t
  OBVIOUS
<1>2. PICK x : Submit(sim[t], w[t].intents[FirstPending(t)].req, FALSE) = x
  OBVIOUS
<1>3. /\ Found(t) /\ sim' = [sim EXCEPT ![t] = x] /\ w' = w
      /\ ~Refused(sim[t], w[t].intents[FirstPending(t)].req)
  BY <1>0, <1>1, <1>2, SubmitLedgers
<1>4. x.lots = sim[t].lots /\ (Exiting(sim[t]) => Exiting(x))
  <2>1. CASE Known(sim[t], w[t].intents[FirstPending(t)].req.id)
    BY <1>2, <2>1 DEF Submit
  <2>2. CASE ~Known(sim[t], w[t].intents[FirstPending(t)].req.id)
    <3>1. sim[t] \in SimLedger
      BY <1>3 DEF Found
    <3>2. /\ x.lots = sim[t].lots /\ \E o : x.orders = Append(sim[t].orders, o)
          /\ sim[t].orders \in Seq(Order)
      BY <1>2, <1>3, <2>2, <3>1 DEF Submit, SimLedger
    <3>3. \A k \in DOMAIN sim[t].orders : k \in DOMAIN x.orders /\ x.orders[k] = sim[t].orders[k]
      BY <3>2
    <3>4. Exiting(sim[t]) => Exiting(x)
      BY <3>3 DEF Exiting, ActiveOrders
    <3> QED
      BY <3>2, <3>4
  <2> QED
    BY <2>1, <2>2
<1>5. /\ agenda' = DoFor("acknowledge", t) \o agenda /\ phase' = phase /\ receipts' = receipts
      /\ contract' = contract /\ hard' = hard /\ Doing("dispatch")
  BY <1>1, <1>3 DEF Dispatch, tables
<1>6. /\ t \in Scenario /\ agenda[1] = [do |-> "dispatch", for |-> t] /\ agenda # <<>>
      /\ Head(agenda) = agenda[1] /\ agenda \in Seq(Agenda)
  BY <1>0, <1>1, <1>5, HeadIs, HeadFor
<1> DEFINE Q == <<[do |-> "acknowledge", for |-> t], [do |-> "dispatch", for |-> t]>>
<1>7. /\ [do |-> "acknowledge", for |-> t] \in Agenda /\ [do |-> "dispatch", for |-> t] \in Agenda
  BY <1>6 DEF Agenda
<1>8. /\ Q \in Seq(Agenda) /\ DOMAIN Q = {1, 2} /\ Q[1] = [do |-> "acknowledge", for |-> t]
      /\ Q[2] = [do |-> "dispatch", for |-> t]
  BY <1>7
<1>9. Then(Q)
  BY <1>5, <1>6, <1>7 DEF Then, DoFor
<1> HIDE DEF Q
<1>10. /\ ~Has(Q, Trades \cup Alerts \cup {"close", "flat"}) /\ ~Has(Q, ApplyOps)
  BY <1>8 DEF Has, Trades, Alerts, ApplyOps, TradeOps
<1>11. ASSUME NEW s \in Scenario
       PROVE  /\ Keeps(s)
              /\ agenda[1] # [do |-> "dispatch", for |-> s] =>
                   \A m \in DOMAIN Q : Q[m] # [do |-> "dispatch", for |-> s]
  <2>1. sim'[t] = x /\ \A r \in Scenario \ {t} : sim'[r] = sim[r]
    BY <1>0, <1>3, <1>6 DEF Ledgers
  <2>2. agenda[1] # [do |-> "cancel", for |-> s] /\ (agenda[1] = [do |-> "dispatch", for |-> s] <=> s = t)
    BY <1>6
  <2>3. Keeps(s)
    BY <1>4, <2>1, <2>2 DEF Keeps
  <2>4. s # t => \A m \in DOMAIN Q : Q[m] # [do |-> "dispatch", for |-> s]
    BY <1>8
  <2> QED
    BY <2>2, <2>3, <2>4
<1> QED
  BY <1>0, <1>5, <1>6, <1>8, <1>9, <1>10, <1>11, QuietRest

(* The broker advances.                                                    *)
LEMMA AdvanceRest ==
    ASSUME Service, Frozen, Advance
    PROVE  Rest'
<1>0. Control /\ Ledgers
  BY DEF Service
<1>1. Doing("advance") /\ Then(<<>>) /\ UNCHANGED <<tables, phase>>
  BY DEF Advance
<1>2. agenda # <<>> /\ agenda[1].do = "advance"
  BY <1>0, <1>1, HeadIs
<1>3. PICK ops : ops = <<>>
  OBVIOUS
<1>4. ops \in Seq(Agenda) /\ DOMAIN ops = {} /\ (\A some : ~Has(ops, some)) /\ Then(ops)
  BY <1>1, <1>3, EmptyAgenda
<1>5. ~Behind(agenda, {"flat"})
  <2>1. ~Behind(agenda, FirstOps \cup HaltOps)
    BY <1>0, <1>2, BehindHead DEF Control, ControlTyped
  <2> QED
    BY <2>1 DEF Behind, FirstOps
<1>6. ~Queued({"pin"})'
  <2>1. Replaces(ops)
    BY <1>0, <1>2, <1>4, ThenSteps
  <2>2. ~Queued({"pin"})
    BY <1>0, <1>2, AtStep DEF Steps
  <2> QED
    BY <1>4, <2>1, <2>2 DEF Replaces
<1>7. Queued(Trades)
  <2>1. "advance" \in Trades
    BY DEF Trades
  <2> QED
    BY <1>0, <1>1, <2>1, HeadIs DEF Queued
<1>8. Freezes(ops)
  <2>1. Shaped(ops)
    BY <1>4, NoSteps
  <2> QED
    BY <1>1, <1>4, <1>6, <1>7, <2>1 DEF Freezes, tables
<1>9. KeepsFlat(ops)
  BY <1>4, <1>5 DEF KeepsFlat
<1>10. FlatDue'
  BY <1>0, <1>2, <1>4, <1>9, ThenFlat DEF Frozen
<1> QED
  BY <1>0, <1>2, <1>4, <1>8, <1>10, ThenFreezes DEF Rest

LEMMA StillRest ==
    ASSUME UNCHANGED ledgers, agenda[1].do # "cancel"
    PROVE  \A s \in Scenario : Keeps(s)
BY SameKeeps DEF ledgers

(* A first step of a receipt gives way to its next.                        *)
LEMMA FirstRest ==
    ASSUME Control, Frozen, Doing("apply") \/ Doing("contract") \/ Doing("flat"),
           NEW ops \in Seq(Agenda), Then(ops), UNCHANGED <<ledgers, tables, phase>>,
           ~Has(ops, {"close", "advance", "step", "decide"}),
           Has(ops, Alerts) => ~Has(ops, {"pin"}) /\ (Taking => Stuck),
           Has(ops, {"pin"}) => ~hard /\ ~Queued(Alerts),
           Has(ops, {"pin"}) /\ contract # "none" /\ contract # Last.bar.contract
              => \A s \in Scenario : sim[s].lots = {},
           Has(ops, {"flat"}) => /\ Softly(ops, "flat") /\ DOMAIN ops = 1..11
                                 /\ \A s \in Scenario : sim[s].lots = {}
    PROVE  Rest'
<1>1. /\ agenda # <<>> /\ agenda[1].do \in {"apply", "contract", "flat"}
      /\ agenda[1].do \in FirstOps /\ agenda[1].do \in ApplyOps /\ agenda[1].do # "cancel"
  BY HeadIs DEF FirstOps, ApplyOps, TradeOps
<1>2. ~Behind(agenda, ApplyOps)
  <2>1. ~Behind(agenda, ApplyOps \cup HaltOps \cup {"raise"})
    BY <1>1, BehindHead DEF Control, ControlTyped
  <2> QED
    BY <2>1 DEF Behind
<1>3. ~Behind(agenda, {"flat"}) /\ ~Behind(agenda, Trades)
  BY <1>2 DEF Behind, ApplyOps, TradeOps, Trades
<1>4. ~Queued(Trades)
  <2>1. agenda[1].do \notin Trades
    BY <1>1 DEF Trades
  <2> QED
    BY <1>1, <1>3, <2>1, HasBehind
<1>5. \A s \in Scenario : Keeps(s) /\ sim'[s].lots = sim[s].lots
  BY <1>1, StillRest DEF ledgers
<1>6. /\ receipts' = receipts /\ contract' = contract /\ hard' = hard /\ phase' = phase
  BY DEF tables
<1>7. Stuck => Stuck'
  BY <1>5, <1>6, StuckStays
<1>8. /\ ~Has(ops, {"close"}) /\ ~Has(ops, {"advance", "step"})
      /\ Has(ops, Trades) => Has(ops, {"pin"})
  BY DEF Has, Trades
<1>9. Freezes(ops)
  <2>1. Shaped(ops)
    BY <1>8, NoSteps
  <2> QED
    BY <1>1, <1>4, <1>5, <1>6, <1>7, <1>8, <2>1 DEF Freezes
<1>10. KeepsFlat(ops)
  BY <1>3, <1>5 DEF KeepsFlat
<1>11. FlatDue'
  BY <1>1, <1>10, ThenFlat DEF Frozen
<1> QED
  BY <1>1, <1>9, <1>11, ThenFreezes DEF Rest

LEMMA BeginApplyRest ==
    ASSUME Service, Frozen, BeginApply
    PROVE  Rest'
<1>0. Control /\ ControlTyped /\ DayOf(now) \in Nat
  BY DayNat DEF Service, Control, ControlTyped
<1>1. Doing("apply") /\ UNCHANGED <<ledgers, tables, phase>>
  BY DEF BeginApply
<1>2. ReceivedDay \in Nat
  <2>1. Queued(ApplyOps)
    BY <1>0, <1>1, HeadIs DEF Queued, ApplyOps
  <2> QED
    BY <1>0, <2>1, InHand
<1>3. PICK x \in {"contract", "applied"}, day \in Nat :
        Then(HaltDay(day, FALSE) \o Do(x)) \/ Then(Do(x))
  <2>1. PICK c : Do("contract") = c
    OBVIOUS
  <2>2. <<>> \o c = c
    <3>1. c \in Seq(Agenda)
      BY <2>1, Alone
    <3> QED
      BY <3>1
  <2>3. \/ Then(HaltDay(ReceivedDay, FALSE) \o Do("contract")) \/ Then(Do("contract"))
        \/ Then(HaltDay(DayOf(now), FALSE) \o Do("applied")) \/ Then(Do("applied"))
    <3>1. CASE receipts[Current].disposition = "accepted"
      <4>1. CASE MissingEvent
        BY <3>1, <4>1 DEF BeginApply
      <4>2. CASE ~MissingEvent
        <5>1. Then(<<>> \o c)
          BY <2>1, <3>1, <4>2 DEF BeginApply
        <5> QED
          BY <2>1, <2>2, <5>1
      <4> QED
        BY <4>1, <4>2
    <3>2. CASE receipts[Current].disposition # "accepted"
      BY <3>2 DEF BeginApply
    <3> QED
      BY <3>1, <3>2
  <2> QED
    BY <1>0, <1>2, <2>3
<1>4. CASE Then(Do(x))
  <2>1. PICK ops : Do(x) = ops
    OBVIOUS
  <2>2. ops \in Seq(Agenda) /\ \A some : Has(ops, some) => x \in some
    BY <2>1, Alone
  <2>3. /\ ~Has(ops, {"close", "advance", "step", "decide"}) /\ ~Has(ops, Alerts)
        /\ ~Has(ops, {"pin"}) /\ ~Has(ops, {"flat"})
    BY <2>2 DEF Alerts
  <2>4. Then(ops)
    BY <1>4, <2>1
  <2> QED
    BY <1>0, <1>1, <2>2, <2>3, <2>4, FirstRest
<1>5. CASE Then(HaltDay(day, FALSE) \o Do(x))
  <2>1. PICK ops : HaltDay(day, FALSE) \o Do(x) = ops
    OBVIOUS
  <2>2. ops \in Seq(Agenda) /\ Softly(ops, x)
    BY <2>1, SoftThen
  <2>3. /\ ~Has(ops, {"close", "advance", "step", "decide"}) /\ ~Has(ops, Alerts)
        /\ ~Has(ops, {"pin"}) /\ ~Has(ops, {"flat"})
    BY <2>2, SoftlyHas
  <2>4. Then(ops)
    BY <1>5, <2>1
  <2> QED
    BY <1>0, <1>1, <2>2, <2>3, <2>4, FirstRest
<1> QED
  BY <1>3, <1>4, <1>5

LEMMA CheckContractRest ==
    ASSUME Service, Frozen, CheckContract
    PROVE  Rest'
<1>0. Control /\ Ledgers
  BY DEF Service
<1>1. Doing("contract") /\ UNCHANGED <<ledgers, tables, phase>>
  BY DEF CheckContract
<1>2. /\ Queued(ApplyOps) /\ Queued(TradeOps)
  BY <1>0, <1>1, HeadIs DEF Queued, ApplyOps, TradeOps
<1>3. bar = Last.bar /\ ReceivedDay \in Nat /\ Taking
  <2>1. Last.disposition = "accepted"
    BY <1>0, <1>2 DEF Control, ReceiptQueued
  <2> QED
    BY <1>0, <1>2, <2>1, InHand DEF Taking
<1>4. \A s \in Scenario : Position(w[s].fills) = 0 <=> sim[s].lots = {}
  <2> SUFFICES ASSUME NEW s \in Scenario
               PROVE  Position(w[s].fills) = 0 <=> sim[s].lots = {}
    OBVIOUS
  <2>1. w[s].fills = sim[s].fills
    BY <1>0, <1>1, HeadSynced DEF Frozen, Lead
  <2>2. Agree(sim[s], w[s])
    BY <1>0 DEF Ledgers
  <2> QED
    BY <2>1, <2>2, HoldsPosition
<1>5. CASE ~Rolls
  <2>1. PICK ops : Do("pin") = ops
    OBVIOUS
  <2>2. ops \in Seq(Agenda) /\ \A some : Has(ops, some) => "pin" \in some
    BY <2>1, Alone
  <2>3. /\ ~Has(ops, {"close", "advance", "step", "decide"}) /\ ~Has(ops, Alerts) /\ ~Has(ops, {"flat"})
    BY <2>2 DEF Alerts
  <2>4. Then(ops)
    BY <1>5, <2>1 DEF CheckContract
  <2>5. ~Stuck /\ ~(contract # "none" /\ contract # Last.bar.contract)
    BY <1>3, <1>5 DEF Stuck, Rolls
  <2>6. ~hard /\ ~Queued(Alerts)
    BY <1>3, <2>5 DEF Frozen, HardStuck
  <2> QED
    BY <1>0, <1>1, <2>2, <2>3, <2>4, <2>5, <2>6, FirstRest
<1>6. CASE Rolls /\ AnyPosition
  <2>1. PICK ops : HaltDay(ReceivedDay, TRUE) \o Do("exclude") = ops
    OBVIOUS
  <2>2. /\ ops \in Seq(Agenda) /\ ~Has(ops, {"close", "advance", "step", "decide"})
        /\ ~Has(ops, {"pin"}) /\ ~Has(ops, {"flat"})
    BY <1>3, <2>1, HardThen
  <2>3. Then(ops)
    BY <1>6, <2>1 DEF CheckContract
  <2>4. Stuck
    BY <1>3, <1>4, <1>6 DEF Stuck, Rolls, AnyPosition
  <2> QED
    BY <1>0, <1>1, <2>2, <2>3, <2>4, FirstRest
<1>7. CASE Rolls /\ ~AnyPosition
  <2>1. PICK ops : HaltDay(ReceivedDay, FALSE) \o Do("flat") = ops
    OBVIOUS
  <2>2. ops \in Seq(Agenda) /\ Softly(ops, "flat") /\ DOMAIN ops = 1..11
    BY <1>3, <2>1, SoftThen
  <2>3. /\ ~Has(ops, {"close", "advance", "step", "decide"}) /\ ~Has(ops, Alerts)
        /\ ~Has(ops, {"pin"})
    BY <2>2, SoftlyHas
  <2>4. Then(ops)
    BY <1>7, <2>1 DEF CheckContract
  <2>5. \A s \in Scenario : sim[s].lots = {}
    BY <1>4, <1>7 DEF AnyPosition
  <2> QED
    BY <1>0, <1>1, <2>2, <2>3, <2>4, <2>5, FirstRest
<1> QED
  BY <1>5, <1>6, <1>7

LEMMA CheckFlatRest ==
    ASSUME Service, Frozen, CheckFlat
    PROVE  Rest'
<1>0. Control /\ Ledgers /\ Untouched
  BY DEF Service
<1>1. Doing("flat") /\ UNCHANGED <<ledgers, tables, phase>>
  BY DEF CheckFlat
<1>2. /\ Queued(ApplyOps) /\ Queued(TradeOps) /\ Queued({"flat", "exclude"})
  BY <1>0, <1>1, HeadIs DEF Queued, ApplyOps, TradeOps
<1>3. /\ bar = Last.bar /\ ReceivedDay \in Nat /\ Taking
      /\ contract # "none" /\ contract # Last.bar.contract
  <2>1. Last.disposition = "accepted"
    BY <1>0, <1>2 DEF Control, ReceiptQueued
  <2> QED
    BY <1>0, <1>2, <2>1, InHand DEF Taking, Untouched
<1>4. \A s \in Scenario : sim[s].lots = {} /\ NoEntry(sim[s])
  <2>1. 1 \in DOMAIN agenda /\ agenda[1].do = "flat" /\ agenda \in Seq(Agenda)
    BY <1>0, <1>1, HeadIs
  <2>2. \A i \in DOMAIN agenda : ~(i < 1)
    BY <2>1, LenProperties
  <2>3. \A s : ~Before(agenda, 1, s)
    BY <2>2 DEF Before
  <2> QED
    BY <2>1, <2>3 DEF Frozen, FlatDue
<1>5. CASE OrdersLive
  <2>1. PICK ops : HaltDay(ReceivedDay, TRUE) \o Do("raise") = ops
    OBVIOUS
  <2>2. /\ ops \in Seq(Agenda) /\ ~Has(ops, {"close", "advance", "step", "decide"})
        /\ ~Has(ops, {"pin"}) /\ ~Has(ops, {"flat"})
    BY <1>3, <2>1, HardThen
  <2>3. Then(ops)
    BY <1>5, <2>1 DEF CheckFlat
  <2>4. Stuck
    <3>1. PICK s \in Scenario : ActiveOrders(sim[s]) # {}
      BY <1>5 DEF OrdersLive
    <3>2. PICK k \in ActiveOrders(sim[s]) : TRUE
      BY <3>1
    <3>3. sim[s].orders[k].req.id.kind = "exit"
      <4>1. k \in DOMAIN sim[s].orders /\ sim[s] \in SimLedger
        BY <1>0, <3>2 DEF ActiveOrders, Ledgers
      <4>2. sim[s].orders[k].req.id.kind \in Kind
        BY <4>1, LedgerFields DEF Order, Request, Id
      <4>3. sim[s].orders[k].req.id.kind # "entry"
        BY <1>4, <3>2 DEF NoEntry
      <4> QED
        BY <4>2, <4>3 DEF Kind
    <3>4. Exiting(sim[s])
      BY <3>2, <3>3 DEF Exiting
    <3> QED
      BY <1>3, <3>4 DEF Stuck
  <2> QED
    BY <1>0, <1>1, <2>2, <2>3, <2>4, FirstRest
<1>6. CASE ~OrdersLive
  <2>1. PICK ops : Do("pin") = ops
    OBVIOUS
  <2>2. ops \in Seq(Agenda) /\ \A some : Has(ops, some) => "pin" \in some
    BY <2>1, Alone
  <2>3. /\ ~Has(ops, {"close", "advance", "step", "decide"}) /\ ~Has(ops, Alerts) /\ ~Has(ops, {"flat"})
    BY <2>2 DEF Alerts
  <2>4. Then(ops)
    BY <1>6, <2>1 DEF CheckFlat
  <2>5. ~Stuck
    BY <1>4, <1>6 DEF Stuck, OrdersLive, Exiting
  <2>6. ~hard /\ ~Queued(Alerts)
    BY <1>3, <2>5 DEF Frozen, HardStuck
  <2> QED
    BY <1>0, <1>1, <1>4, <2>2, <2>3, <2>4, <2>6, FirstRest
<1> QED
  BY <1>5, <1>6

LEMMA PinRest ==
    ASSUME Service, Frozen, Pin
    PROVE  Rest'
<1>0. Control
  BY DEF Service
<1>1. /\ Doing("pin") /\ UNCHANGED ledgers /\ phase' = phase /\ receipts' = receipts /\ hard' = hard
      /\ contract' = bar.contract /\ Then(PinOps)
  BY DEF Pin, PinOps, tables
<1>2. agenda # <<>> /\ agenda[1].do = "pin"
  BY <1>0, <1>1, HeadIs
<1>3. bar = Last.bar
  <2>1. Queued(ApplyOps)
    BY <1>0, <1>1, HeadIs DEF Queued, ApplyOps, TradeOps
  <2> QED
    BY <1>0, <2>1, InHand
<1>4. PICK q : PinOps = q
  OBVIOUS
<1>5. /\ q \in Seq(Agenda) /\ Then(q)
      /\ Shaped(q) /\ ~Has(q, {"close"}) /\ ~Has(q, Alerts) /\ ~Has(q, {"pin"}) /\ ~Has(q, {"flat"})
  <2>1. /\ q \in Seq(Agenda) /\ Then(q) /\ DOMAIN q = 1..8
        /\ q[1] = [do |-> "advance", for |-> "baseline"]
        /\ q[2] = [do |-> "step", for |-> "baseline"]
        /\ q[3] = [do |-> "reconcile", for |-> "baseline"]
        /\ q[4] = [do |-> "advance", for |-> "worse_costs"]
        /\ q[5] = [do |-> "step", for |-> "worse_costs"]
        /\ q[6] = [do |-> "reconcile", for |-> "worse_costs"]
        /\ q[7] = [do |-> "opportunity"] /\ q[8] = [do |-> "applied"]
    BY <1>1, <1>4, PinSteps
  <2> QED
    BY <2>1, PinShaped
<1>6. Queued(Trades) /\ agenda[1].do \in ApplyOps
  <2>1. "pin" \in Trades /\ "pin" \in ApplyOps
    BY DEF Trades, ApplyOps, TradeOps
  <2> QED
    BY <1>0, <1>1, <1>2, <2>1, HeadIs DEF Queued
<1>7. ~hard /\ ~Queued(Alerts)
  BY <1>6 DEF Frozen, Trading
<1>8. Freezes(q)
  BY <1>1, <1>3, <1>5, <1>6, <1>7 DEF Freezes, ledgers
<1>9. ~Behind(agenda, {"flat"})
  <2>1. ~Behind(agenda, ApplyOps \cup HaltOps \cup {"raise"})
    BY <1>0, <1>2, BehindHead DEF Control, ControlTyped, FirstOps
  <2> QED
    BY <2>1 DEF Behind, ApplyOps, TradeOps
<1>10. KeepsFlat(q)
  BY <1>5, <1>9 DEF KeepsFlat
<1>11. FlatDue'
  BY <1>0, <1>2, <1>5, <1>10, ThenFlat DEF Frozen
<1> QED
  BY <1>0, <1>2, <1>5, <1>8, <1>11, ThenFreezes DEF Rest

LEMMA BeginStepRest ==
    ASSUME Service, Frozen, BeginStep
    PROVE  Rest'
<1>0. Control
  BY DEF Service
<1>1. /\ Doing("step") /\ UNCHANGED <<ledgers, tables, phase>>
  BY DEF BeginStep
<1>2. PICK t : For = t
  OBVIOUS
<1>3. /\ t \in Scenario /\ agenda # <<>> /\ agenda[1].do = "step" /\ agenda[1].for = t
  BY <1>0, <1>1, <1>2, HeadFor, HeadIs
<1> DEFINE Q == <<[do |-> "reconcile", for |-> t], [do |-> "decide", for |-> t],
                  [do |-> "dispatch", for |-> t]>>
<1>4. PICK ops : /\ ops \in Seq(Agenda) /\ Then(ops)
                 /\ \A i \in DOMAIN ops : ops[i].do \in {"reconcile", "decide", "dispatch"}
  <2>1. Q = DoFor("reconcile", t) \o DoFor("decide", t) \o DoFor("dispatch", t)
    BY DEF DoFor
  <2>2. Q \in Seq(Agenda) /\ \A i \in DOMAIN Q : Q[i].do \in {"reconcile", "decide", "dispatch"}
    <3>1. /\ [do |-> "reconcile", for |-> t] \in Agenda /\ [do |-> "decide", for |-> t] \in Agenda
          /\ [do |-> "dispatch", for |-> t] \in Agenda
      BY <1>3 DEF Agenda
    <3> QED
      BY <3>1
  <2>3. Then(IF Event(bar) \in w[t].bars THEN <<>> ELSE Q)
    BY <1>2, <2>1 DEF BeginStep
  <2> HIDE DEF Q
  <2>4. Then(<<>>) \/ Then(Q)
    BY <2>3
  <2>5. <<>> \in Seq(Agenda) /\ DOMAIN <<>> = {}
    OBVIOUS
  <2> QED
    BY <2>2, <2>4, <2>5
<1>5. /\ ~Has(ops, {"advance", "step"}) /\ ~Has(ops, {"close"}) /\ ~Has(ops, Alerts)
      /\ ~Has(ops, {"pin"}) /\ ~Has(ops, {"flat"})
  BY <1>4 DEF Has, Alerts
<1>6. Queued(Trades) /\ agenda[1].do \in ApplyOps
  <2>1. "step" \in Trades /\ "step" \in ApplyOps
    BY DEF Trades, ApplyOps, TradeOps
  <2> QED
    BY <1>0, <1>1, <1>3, <2>1, HeadIs DEF Queued
<1>7. ~hard /\ ~Queued(Alerts)
  BY <1>6 DEF Frozen, Trading
<1>8. Freezes(ops)
  <2>1. Shaped(ops)
    BY <1>5, NoSteps
  <2> QED
    BY <1>1, <1>5, <1>6, <1>7, <2>1 DEF Freezes, ledgers, tables
<1>9. ~Behind(agenda, {"flat"})
  <2>1. ~Behind(agenda, FirstOps \cup HaltOps)
    BY <1>0, <1>3, BehindHead DEF Control, ControlTyped
  <2> QED
    BY <2>1 DEF Behind, FirstOps
<1>10. KeepsFlat(ops)
  BY <1>5, <1>9 DEF KeepsFlat
<1>11. FlatDue'
  BY <1>0, <1>3, <1>4, <1>10, ThenFlat DEF Frozen
<1> QED
  BY <1>0, <1>3, <1>4, <1>8, <1>11, ThenFreezes DEF Rest

LEMMA PlainStepsRest ==
    ASSUME Service, Frozen, MarkHard \/ CountOpportunity \/ Resume
    PROVE  Rest'
<1>0. Control
  BY DEF Service
<1>1. /\ Doing("hard_halt") \/ Doing("opportunity") \/ Doing("resume")
      /\ UNCHANGED ledgers /\ phase' = phase /\ receipts' = receipts /\ contract' = contract
  BY DEF MarkHard, CountOpportunity, Resume, tables
<1>2. agenda # <<>> /\ agenda[1].do \in {"hard_halt", "opportunity", "resume"}
  BY <1>0, <1>1, HeadIs
<1>3. hard' = hard \/ agenda[1].do = "hard_halt"
  BY <1>0, HeadIs DEF MarkHard, CountOpportunity, Resume, tables
<1>4. \A s \in Scenario : Keeps(s)
  BY <1>1, <1>2, StillRest
<1> DEFINE Q == <<[do |-> "apply"], [do |-> "resume"]>>
<1>5. PICK ops : /\ ops \in Seq(Agenda) /\ Then(ops)
                 /\ \A i \in DOMAIN ops : ops[i].do \in {"apply", "resume"} /\ agenda[1].do = "resume"
  <2>1. Q = Do("apply") \o Do("resume")
    BY DEF Do
  <2>2. Q \in Seq(Agenda) /\ \A i \in DOMAIN Q : Q[i].do \in {"apply", "resume"}
    <3>1. [do |-> "apply"] \in Agenda /\ [do |-> "resume"] \in Agenda
      BY DEF Agenda
    <3> QED
      BY <3>1
  <2>3. Then(<<>>) \/ (Then(Q) /\ Doing("resume"))
    BY <2>1 DEF Resume, MarkHard, CountOpportunity
  <2> HIDE DEF Q
  <2>4. <<>> \in Seq(Agenda) /\ DOMAIN <<>> = {}
    OBVIOUS
  <2>5. Doing("resume") => agenda[1].do = "resume"
    BY <1>0, HeadIs
  <2> QED
    BY <2>2, <2>3, <2>4, <2>5
<1>6. /\ ~Has(ops, Trades \cup Alerts \cup {"close", "flat"})
      /\ Has(ops, ApplyOps) => agenda[1].do = "resume"
      /\ \A s : \A m \in DOMAIN ops : ops[m] # [do |-> "dispatch", for |-> s]
  <2>1. \A m \in DOMAIN ops : \A s : ops[m] # [do |-> "dispatch", for |-> s]
    BY <1>5
  <2> QED
    BY <1>5, <2>1 DEF Has, Trades, Alerts
<1> QED
  BY <1>0, <1>1, <1>2, <1>3, <1>4, <1>5, <1>6, QuietRest

LEMMA CloseDayRest ==
    ASSUME Service, Frozen, CloseDay
    PROVE  Rest'
<1>0. Control /\ DayOf(now) \in Nat
  BY DayNat DEF Service, Control, ControlTyped
<1>1. /\ Doing("close") /\ UNCHANGED ledgers /\ phase' = phase /\ receipts' = receipts
      /\ contract' = contract /\ hard' = hard
  BY DEF CloseDay
<1>2. agenda # <<>> /\ agenda[1].do = "close" /\ Queued({"close"})
  BY <1>0, <1>1, HeadIs DEF Queued
<1>3. phase = "running" /\ ~Queued(ApplyOps)
  BY <1>2 DEF Frozen, ClosesAlone
<1>4. ~Queued(Trades) /\ ~Queued({"flat"})
  BY <1>3 DEF Queued, Has, Trades, ApplyOps, TradeOps
<1>5. Taking => Stuck
  <2> SUFFICES ASSUME Taking PROVE Stuck
    OBVIOUS
  <2>1. Queued(ApplyOps \cup {"raise"}) \/ hard \/ Doing("hard_halt")
    BY <1>0, <1>3 DEF Control, ReceiptQueued, Taking
  <2>2. Queued(ApplyOps \cup {"raise"}) => Queued(Alerts)
    BY <1>3 DEF Queued, Has, Alerts
  <2>3. ~Doing("hard_halt")
    BY <1>0, <1>2, HeadIs
  <2> QED
    BY <2>1, <2>2, <2>3 DEF Frozen, HardStuck
<1>6. PICK ops : /\ ops \in Seq(Agenda) /\ Then(ops)
                 /\ \A some : Has(ops, some) => some \cap PlainOps # {}
  <2>1. Then(<<>>) \/ Then(HaltDay(DayOf(now), TRUE))
    BY DEF CloseDay
  <2>2. PICK q : HaltDay(DayOf(now), TRUE) = q
    OBVIOUS
  <2>3. q \in Seq(Agenda) /\ \A some : Has(q, some) => some \cap PlainOps # {}
    <3>1. Plain(q)
      BY <1>0, <2>2, HaltDayShape
    <3> QED
      BY <3>1, PlainInOrder
  <2> QED
    BY <2>1, <2>2, <2>3, EmptyAgenda
<1>7. /\ ~Has(ops, {"advance", "step"}) /\ ~Has(ops, {"close"}) /\ ~Has(ops, {"pin"})
      /\ ~Has(ops, {"flat"}) /\ ~Has(ops, Trades) /\ ~Has(ops, ApplyOps)
  <2>1. /\ {"advance", "step"} \cap PlainOps = {} /\ {"close"} \cap PlainOps = {}
        /\ {"pin"} \cap PlainOps = {} /\ {"flat"} \cap PlainOps = {}
        /\ Trades \cap PlainOps = {} /\ ApplyOps \cap PlainOps = {}
    BY DEF PlainOps, HaltOps, Trades, ApplyOps, TradeOps
  <2> QED
    BY <1>6, <2>1
<1>8. \A s \in Scenario : Keeps(s)
  BY <1>1, <1>2, StillRest
<1>9. Freezes(ops)
  <2>1. Shaped(ops)
    BY <1>7, NoSteps
  <2>2. Stuck => Stuck'
    BY <1>1, <1>8, StuckStays
  <2>3. \A s \in Scenario : sim'[s].lots = sim[s].lots
    BY <1>8 DEF Keeps
  <2>4. Has(ops, Alerts) => ~Has(ops, Trades) /\ ~Queued(Trades) /\ (Taking => Stuck)
    BY <1>4, <1>5, <1>7
  <2>5. Queued({"pin"})' => \A s \in Scenario : sim'[s].lots = sim[s].lots
    BY <2>3
  <2>6. Has(ops, {"pin"}) => FALSE
    BY <1>7
  <2> QED
    BY <1>1, <1>7, <2>1, <2>2, <2>4, <2>5, <2>6, Zenon DEF Freezes
<1>10. KeepsFlat(ops)
  <2>1. ~Behind(agenda, {"flat"})
    BY <1>0, <1>2, <1>4, HasBehind
  <2> QED
    BY <1>7, <2>1 DEF KeepsFlat
<1>11. FlatDue'
  BY <1>0, <1>2, <1>6, <1>10, ThenFlat DEF Frozen
<1> QED
  BY <1>0, <1>2, <1>6, <1>9, <1>11, ThenFreezes DEF Rest

(* Nothing of a receipt is queued.                                         *)
LEMMA ClearedRest ==
    ASSUME ~Queued(ApplyOps)', Queued({"close"})' => phase' = "running", HardStuck'
    PROVE  Rest'
<1>1. \A some : some \subseteq ApplyOps => ~Queued(some)'
  BY DEF Queued, Has
<1>2. /\ {"flat"} \subseteq ApplyOps /\ {"pin"} \subseteq ApplyOps /\ Trades \subseteq ApplyOps
      /\ {"advance", "step"} \subseteq ApplyOps
  BY DEF ApplyOps, TradeOps, Trades
<1>3. ~Queued({"flat"})' /\ ~Queued({"pin"})' /\ ~Queued(Trades)' /\ ~Queued({"advance", "step"})'
  BY <1>1, <1>2
<1>4. FlatDue'
  BY <1>3 DEF FlatDue, Queued, Has
<1>5. Shaped(agenda)'
  BY <1>3 DEF Shaped, Queued, Has
<1>6. ClosesAlone' /\ Trading' /\ PinFlat'
  BY <1>3 DEF ClosesAlone, Trading, PinFlat
<1> QED
  BY <1>4, <1>5, <1>6 DEF Rest

LEMMA SettleRest ==
    ASSUME Service, Frozen, Exclude \/ FinishApply
    PROVE  Rest'
<1>0. Control
  BY DEF Service
<1>1. Unapplied' = {} /\ ~Queued(ApplyOps)'
  BY <1>0, SettleControl
<1>2. HardStuck'
  BY <1>1 DEF HardStuck, Taking
<1>3. Queued({"close"})' => phase' = "running"
  <2>1. PICK ops : ops = <<>>
    OBVIOUS
  <2>2. /\ Then(ops) /\ ops \in Seq(Agenda) /\ (\A some : ~Has(ops, some)) /\ phase' = phase
        /\ Doing("exclude") \/ Doing("applied")
    BY <2>1, EmptyAgenda DEF Exclude, FinishApply
  <2>3. agenda # <<>>
    BY <1>0, <2>2, HeadIs
  <2>4. Replaces(ops)
    BY <1>0, <2>2, <2>3, ThenSteps
  <2>5. Queued({"close"})' => Queued({"close"})
    BY <2>2, <2>4 DEF Replaces
  <2> QED
    BY <2>2, <2>5 DEF Frozen, ClosesAlone
<1> QED
  BY <1>1, <1>2, <1>3, ClearedRest

\* Nothing of the tables or of the ledgers changes, and nothing is in hand that is not stuck.
LEMMA StuckRest ==
    ASSUME UNCHANGED <<ledgers, tables>>, ~Queued(ApplyOps)', Queued({"close"})' => phase' = "running",
           (hard \/ Queued(Alerts)') /\ Taking => Stuck
    PROVE  Rest'
<1>1. sim' = sim /\ receipts' = receipts /\ contract' = contract /\ hard' = hard
  BY DEF ledgers, tables
<1>2. Last' = Last /\ Taking' = Taking
  BY <1>1 DEF Last, Taking, Unapplied
<1>3. Stuck' <=> Stuck
  BY <1>1, <1>2 DEF Stuck, Exiting, ActiveOrders
<1>4. HardStuck'
  BY <1>1, <1>2, <1>3 DEF HardStuck
<1> QED
  BY <1>4, ClearedRest

LEMMA ResetRest ==
    ASSUME Service, Frozen, Reset
    PROVE  Rest'
<1>0. Control /\ DayOf(now) \in Nat
  BY DayNat DEF Service, Control, ControlTyped
<1>1. ~Queued(ApplyOps)'
  <2>1. ~Queued(Begun)'
    BY <1>0, ResetsControl
  <2> QED
    BY <2>1 DEF Queued, Has, Begun
<1>2. UNCHANGED <<ledgers, tables>>
  BY DEF Reset, Started, Crash, Connect, Disconnect, BeginClose, ReceiveInvalid, ReceiveUnmapped,
         PassMinute
<1>3. hard /\ Taking => Stuck
  BY DEF Frozen, HardStuck
<1>4. CASE Started
  <2>1. PICK q : HaltDay(DayOf(now), FALSE) = q
    OBVIOUS
  <2>2. /\ \A i \in DOMAIN q : q[i].do \in {"reconcile", "dispatch", "cancel", "halt"}
        /\ agenda' = q /\ phase' = "running"
    BY <1>0, <1>4, <2>1, SoftHalt DEF Started
  <2>3. ~Queued(Alerts)'
    BY <2>2 DEF Queued, Has, Alerts
  <2> QED
    BY <1>1, <1>2, <1>3, <2>2, <2>3, StuckRest
<1>5. CASE agenda' = <<>>
  <2>1. ~Queued(Alerts)' /\ ~Queued({"close"})'
    BY <1>5 DEF Queued, Has
  <2> QED
    BY <1>1, <1>2, <1>3, <2>1, StuckRest
<1>6. CASE Idle /\ phase' = phase
  <2>1. Taking => Stuck
    BY <1>0, <1>3, <1>6, IdleControl DEF Idle, Taking
  <2>2. phase' = "running"
    BY <1>6 DEF Idle
  <2> QED
    BY <1>1, <1>2, <2>1, <2>2, StuckRest
<1>7. CASE Crash \/ PassMinute
  <2>1. agenda' = <<>>
    BY <1>7 DEF Crash, PassMinute
  <2> QED
    BY <1>5, <2>1
<1>8. CASE \/ Connect \/ Disconnect \/ BeginClose \/ ReceiveInvalid \/ ReceiveUnmapped
  <2>1. Idle /\ phase' = phase
    BY <1>8 DEF Connect, Disconnect, BeginClose, ReceiveInvalid, ReceiveUnmapped, CloseOwed
  <2> QED
    BY <1>6, <2>1
<1> QED
  BY <1>4, <1>7, <1>8 DEF Reset

LEMMA RestartRest ==
    ASSUME Service, Frozen, Restart
    PROVE  Rest'
<1>0. Control
  BY DEF Service
<1>1. /\ UNCHANGED <<ledgers, tables>>
      /\ \A some : Queued(some)' => some \cap {"reconcile", "dispatch", "resume", "started"} # {}
  BY <1>0, RestartControl DEF Restart
<1>2. ~Queued(ApplyOps)' /\ ~Queued(Alerts)' /\ ~Queued({"close"})'
  <2>1. /\ ApplyOps \cap {"reconcile", "dispatch", "resume", "started"} = {}
        /\ Alerts \cap {"reconcile", "dispatch", "resume", "started"} = {}
        /\ {"close"} \cap {"reconcile", "dispatch", "resume", "started"} = {}
    BY DEF ApplyOps, TradeOps, Alerts
  <2> QED
    BY <1>1, <2>1
<1>3. hard /\ Taking => Stuck
  BY DEF Frozen, HardStuck
<1> QED
  BY <1>1, <1>2, <1>3, StuckRest

LEMMA RaiseRest ==
    ASSUME Service, Frozen, RaiseNow
    PROVE  Rest'
<1>0. Control /\ DayOf(now) \in Nat
  BY DayNat DEF Service, Control, ControlTyped
<1>1. Doing("raise") /\ UNCHANGED <<ledgers, tables>> /\ phase \in {"starting", "running"}
  BY <1>0, HeadIs DEF RaiseNow, Raise
<1>2. Taking => Stuck
  <2>1. Queued(Alerts)
    BY <1>0, <1>1, HeadIs DEF Queued, Alerts
  <2> QED
    BY <2>1 DEF Frozen, HardStuck
<1>3. CASE phase = "starting"
  <2>1. agenda' = <<>>
    BY <1>3 DEF RaiseNow, Raise
  <2>2. ~Queued(ApplyOps)' /\ ~Queued({"close"})'
    BY <2>1 DEF Queued, Has
  <2> QED
    BY <1>1, <1>2, <2>2, StuckRest
<1>4. CASE phase # "starting"
  <2>1. PICK p : HaltDay(DayOf(now), TRUE) = p
    OBVIOUS
  <2>2. PICK r : HaltDay(DayOf(now), FALSE) = r
    OBVIOUS
  <2>3. agenda' = p \o r /\ phase' = phase
    BY <1>4, <2>1, <2>2 DEF RaiseNow, Raise
  <2>4. Plain(p) /\ Plain(r)
    BY <1>0, <2>1, <2>2, HaltDayShape
  <2>5. Plain(p \o r)
    BY <2>4, PlainConcat
  <2>6. ~Queued(ApplyOps)'
    <3>1. ~Has(p \o r, ApplyOps)
      <4>1. ApplyOps \cap PlainOps = {}
        BY DEF ApplyOps, TradeOps, PlainOps, HaltOps
      <4> QED
        BY <2>5, <4>1, PlainInOrder
    <3> QED
      BY <2>3, <3>1 DEF Queued
  <2> QED
    BY <1>1, <1>2, <1>4, <2>3, <2>6, StuckRest
<1> QED
  BY <1>3, <1>4

LEMMA ReceiveRest ==
    ASSUME Service, Frozen, Receive
    PROVE  Rest'
<1>0. Control
  BY DEF Service
<1>1. /\ hard' = hard /\ agenda' = Do("apply") /\ phase' = "running"
      /\ Last'.disposition = DispositionOf(Last'.bar)
  BY <1>0, ReceiveControl DEF Receive, Idle
<1>2. PICK q : Do("apply") = q
  OBVIOUS
<1>3. agenda' = q /\ DOMAIN q = {1} /\ q[1].do = "apply"
  <2> DEFINE t == <<[do |-> "apply"]>>
  <2>1. DOMAIN t = {1} /\ t[1].do = "apply"
    OBVIOUS
  <2> QED
    BY <1>1, <1>2, <2>1 DEF Do
<1>4. \A some : Queued(some)' => "apply" \in some
  BY <1>3 DEF Queued, Has
<1>5. Taking' => ~hard
  <2>1. \A b : hard => DispositionOf(b) # "accepted"
    BY DEF DispositionOf
  <2> QED
    BY <1>1, <2>1 DEF Taking
<1>6. ~Queued(Alerts)' /\ ~Queued({"flat"})' /\ ~Queued({"pin"})' /\ ~Queued(Trades)'
      /\ ~Queued({"close"})' /\ ~Queued({"advance", "step"})'
  BY <1>4 DEF Alerts, Trades
<1>7. HardStuck'
  BY <1>1, <1>5, <1>6 DEF HardStuck
<1>8. FlatDue'
  BY <1>6 DEF FlatDue, Queued, Has
<1>9. Shaped(agenda)'
  BY <1>6 DEF Shaped, Queued, Has
<1>10. ClosesAlone' /\ Trading' /\ PinFlat'
  BY <1>6 DEF ClosesAlone, Trading, PinFlat
<1> QED
  BY <1>7, <1>8, <1>9, <1>10 DEF Rest

(* Only a decision adds intents.                                           *)
LEMMA SameLength ==
    ASSUME Control, Ledgers, Reconcile \/ Acknowledge \/ HaltEntries \/ CancelEntries \/ Dispatch,
           NEW s \in Scenario
    PROVE  Len(w'[s].intents) = Len(w[s].intents)
<1>1. ASSUME NEW t, NEW u, Found(t), w' = [w EXCEPT ![t] = u], Len(u.intents) = Len(w[t].intents)
      PROVE  Len(w'[s].intents) = Len(w[s].intents)
  BY <1>1 DEF Ledgers
<1>2. PICK t : For = t
  OBVIOUS
<1>3. CASE Reconcile
  <2>1. PICK u : Reconciled(w[t], sim[t]) = u
    OBVIOUS
  <2>2. Found(t) /\ Done(t, sim[t], u)
    BY <1>2, <1>3, <2>1, ReconcileLedgers
  <2>3. SameIntents(w[t], u)
    BY <2>1, <2>2, ReconciledAgree DEF Found
  <2> QED
    BY <1>1, <2>2, <2>3 DEF Done, SameIntents
<1>4. CASE Acknowledge
  <2>1. PICK u : Acknowledged(w[t], FirstPending(t), sim[t]) = u
    OBVIOUS
  <2>2. Found(t) /\ Done(t, sim[t], u)
    BY <1>2, <1>4, <2>1, AcknowledgeLedgers
  <2>3. Len(u.intents) = Len(w[t].intents)
    <3>1. u.intents = [w[t].intents EXCEPT ![FirstPending(t)] = Answered(w[t].intents[FirstPending(t)], sim[t])]
      BY <2>1 DEF Acknowledged, WithIntents
    <3>2. w[t].intents \in Seq(Intent)
      BY <2>2 DEF Found, WorkerLedger
    <3>3. u \in WorkerLedger
      <4>1. Ledgers' /\ w'[t] = u /\ t \in Scenario
        BY <1>4, <2>2, AcknowledgeLedgers DEF Done, Found, Ledgers
      <4> QED
        BY <4>1 DEF Ledgers
    <3>4. u.intents \in Seq(Intent) /\ DOMAIN u.intents = DOMAIN w[t].intents
      BY <3>1, <3>3 DEF WorkerLedger
    <3> QED
      BY <3>2, <3>4, LenProperties
  <2> QED
    BY <1>1, <2>2, <2>3 DEF Done
<1>5. CASE HaltEntries
  <2>1. PICK u : Found(t) /\ Done(t, sim[t], u) /\ u.intents = w[t].intents
    BY <1>2, <1>5, HaltLedgers
  <2> QED
    BY <1>1, <2>1 DEF Done
<1>6. CASE CancelEntries \/ Dispatch
  <2>1. w' = w
    BY <1>6, DispatchedLedgers, SubmitLedgers DEF CancelEntries, Dispatch
  <2> QED
    BY <2>1
<1> QED
  BY <1>3, <1>4, <1>5, <1>6

LEMMA FrozenInit == Init => Frozen
<1> SUFFICES ASSUME Init PROVE Frozen
  OBVIOUS
<1>1. agenda = <<>> /\ receipts = <<>> /\ hard = FALSE /\ phase = "running"
  BY DEF Init
<1>2. DOMAIN agenda = {} /\ DOMAIN receipts = {}
  BY <1>1
<1>3. \A some : ~Queued(some)
  BY <1>2 DEF Queued, Has
<1>4. Synchronized
  BY DEF Init, Synchronized, EmptySim, EmptyWorker
<1> QED
  BY <1>1, <1>2, <1>3, <1>4 DEF Frozen, FlatDue, Shaped, ClosesAlone, HardStuck, Trading, PinFlat

LEMMA FrozenNext == Service /\ Frozen /\ [Next]_vars => Frozen'
<1> SUFFICES ASSUME Service, Frozen, [Next]_vars PROVE Frozen'
  OBVIOUS
<1>1. CASE UNCHANGED vars
  <2>1. UNCHANGED <<sim, w, receipts, contract, hard, phase, agenda>>
    BY <1>1 DEF vars
  <2>2. Last' = Last /\ Taking' = Taking /\ \A some : Queued(some)' <=> Queued(some)
    BY <2>1 DEF Last, Taking, Unapplied, Queued
  <2>3. Synchronized' /\ FlatDue' /\ Shaped(agenda)'
    BY <2>1 DEF Frozen, Synchronized, FlatDue, Shaped, Due, Before, NoneDispatched, NoEntry, ActiveOrders
  <2>4. Stuck' <=> Stuck
    BY <2>1, <2>2 DEF Stuck, Exiting, ActiveOrders
  <2>5. ClosesAlone' /\ HardStuck' /\ Trading' /\ PinFlat'
    BY <2>1, <2>2, <2>4 DEF Frozen, ClosesAlone, HardStuck, Trading, PinFlat
  <2> QED
    BY <2>3, <2>5 DEF Frozen
<1>2. CASE Next
  <2>1. Synchronized'
    BY <1>2, SynchronizedNext DEF Frozen
  <2>2. Rest'
    <3>1. CASE \/ Reconcile \/ Acknowledge \/ CancelEntries \/ HaltEntries \/ Decide \/ Dispatch
               \/ Advance
      BY <3>1, ScenarioStepsRest, SubmitRest, AdvanceRest
    <3>2. CASE \/ Pin \/ BeginStep \/ MarkHard \/ CountOpportunity \/ Resume \/ CloseDay
      BY <3>2, PinRest, BeginStepRest, PlainStepsRest, CloseDayRest
    <3>3. CASE BeginApply \/ CheckContract \/ CheckFlat \/ Exclude \/ FinishApply
      BY <3>3, BeginApplyRest, CheckContractRest, CheckFlatRest, SettleRest
    <3>4. CASE Reset \/ Restart \/ RaiseNow \/ Receive
      BY <3>4, ResetRest, RestartRest, RaiseRest, ReceiveRest
    <3> QED
      BY <1>2, <3>1, <3>2, <3>3, <3>4 DEF Next, Process, Environment, Reset
  <2> QED
    BY <2>1, <2>2 DEF Frozen, Rest
<1> QED
  BY <1>1, <1>2

(* A run that is halted for review is frozen: while hard_halt is set no    *)
(* broker sees another bar and no worker adds an intent, over crashes,     *)
(* restarts and resumed receipts (continuous.py receive, _apply, halt_day).*)
THEOREM HardHaltStays == Spec => HardHaltFreezes
<1>1. Init => Service /\ Frozen
  BY ServiceInit, FrozenInit
<1>2. Service /\ Frozen /\ [Next]_vars => Service' /\ Frozen'
  BY ServiceNext, FrozenNext
<1>3. Service /\ Frozen /\ [Next]_vars =>
        [hard => \A s \in Scenario : sim'[s].bars = sim[s].bars
                                     /\ Len(w'[s].intents) = Len(w[s].intents)]_vars
  <2> SUFFICES ASSUME Service, Frozen, [Next]_vars, hard, NEW s \in Scenario
               PROVE  sim'[s].bars = sim[s].bars /\ Len(w'[s].intents) = Len(w[s].intents)
    BY Zenon
  <2>0. Control /\ Ledgers
    BY DEF Service
  <2>1. ~Queued(Trades)
    BY DEF Frozen, Trading
  <2>2. ~Advance /\ ~Decide
    <3>1. ~Doing("advance") /\ ~Doing("decide")
      BY <2>0, <2>1, HeadIs DEF Queued, Trades
    <3> QED
      BY <3>1 DEF Advance, Decide
  <2>3. CASE UNCHANGED ledgers
    BY <2>3 DEF ledgers
  <2>4. CASE Next
    <3>1. CASE Reconcile \/ Acknowledge \/ HaltEntries \/ CancelEntries \/ Dispatch
      <4>1. sim'[s].bars = sim[s].bars
        <5>1. ASSUME NEW t, NEW x, NEW u, Moved(t, x, u)
              PROVE  sim'[s].bars = sim[s].bars
          <6>1. x.bars = sim[t].bars
            BY <2>2, <5>1 DEF Moved, MovesTo
          <6> QED
            BY <5>1, <6>1 DEF Moved
        <5> QED
          BY <2>3, <2>4, <5>1, ServiceMoves DEF Moves
      <4>2. Len(w'[s].intents) = Len(w[s].intents)
        BY <2>0, <3>1, SameLength
      <4> QED
        BY <4>1, <4>2
    <3>2. CASE ~(Reconcile \/ Acknowledge \/ HaltEntries \/ CancelEntries \/ Dispatch)
      <4>1. UNCHANGED ledgers
        BY <2>2, <2>4, <3>2 DEF Next, Process, Environment, MarkHard, RaiseNow, Raise, BeginApply,
             CheckContract, CheckFlat, Exclude, Pin, BeginStep, CountOpportunity, FinishApply, Resume,
             Started, Restart, BeginClose, CloseDay, Receive, ReceiveInvalid, ReceiveUnmapped, Crash,
             Connect, Disconnect, PassMinute
      <4> QED
        BY <2>3, <4>1
    <3> QED
      BY <3>1, <3>2
  <2>5. CASE UNCHANGED vars
    BY <2>3, <2>5 DEF vars, ledgers
  <2> QED
    BY <2>4, <2>5
<1> QED
  BY <1>1, <1>2, <1>3, PTL DEF Spec, HardHaltFreezes

Held ==
    \A s \in Scenario :
        /\ Carries(sim[s])
        /\ contract = "none" => sim[s].bars = {}
        /\ \A i \in DOMAIN sim[s].fills : \E b \in sim[s].bars : b.ts = sim[s].fills[i].ts
        /\ \A i \in DOMAIN sim[s].fills :
              Trailing(sim[s].fills, i) => ContractAt(sim[s].fills[i].ts) = contract

(* The contract of a minute that was received does not change.             *)
LEMMA ContractStays ==
    ASSUME Service, [Next]_vars, NEW ts, \E b \in Received : b.ts = ts
    PROVE  ContractAt(ts)' = ContractAt(ts)
<1>1. Control /\ Control'
  BY ServiceNext DEF Service
<1>2. PICK i \in DOMAIN receipts : receipts[i].bar.ts = ts
  BY DEF Received, Event
<1>3. i \in DOMAIN receipts' /\ receipts'[i].bar = receipts[i].bar
  BY ReceiptsKeep
<1>4. ContractAt(ts) = receipts[i].bar.contract
  BY <1>1, <1>2, ReceiptFields
<1>5. receipts'[CHOOSE j \in DOMAIN receipts' : receipts'[j].bar.ts = ts].bar.contract
         = receipts'[i].bar.contract
  BY <1>1, <1>2, <1>3, ReceiptFieldsNext
<1>6. ContractAt(ts)' = receipts'[i].bar.contract
  BY <1>5 DEF ContractAt
<1> QED
  BY <1>3, <1>4, <1>6

(* The active contract changes only when a bar is pinned to its contract.  *)
LEMMA ContractPinned ==
    ASSUME [Next]_vars
    PROVE  contract' = contract \/ Pin
BY DEF Next, Process, Environment, Reconcile, Dispatch, Acknowledge, MarkHard, CancelEntries,
       HaltEntries, RaiseNow, Raise, BeginApply, CheckContract, CheckFlat, Exclude, Advance, BeginStep,
       Decide, CountOpportunity, FinishApply, Resume, Started, Restart, BeginClose, CloseDay, Receive,
       ReceiveInvalid, ReceiveUnmapped, Crash, Connect, Disconnect, PassMinute, tables, vars

(* A step of the running call that fills a bar fills it on the active      *)
(* contract.                                                               *)
LEMMA MovedFills ==
    ASSUME Service, NEW t, NEW x, NEW u, Moved(t, x, u)
    PROVE  /\ sim[t] \in SimLedger /\ x \in SimLedger
           /\ (Carries(sim[t]) => Carries(x)) /\ sim[t].bars \subseteq x.bars
           /\ Adds(sim[t].fills, x.fills, Last.bar.ts)
           /\ \/ x.fills = sim[t].fills /\ x.bars = sim[t].bars
              \/ /\ Advance /\ x.bars = sim[t].bars \cup {Event(Last.bar)}
                 /\ contract = Last.bar.contract /\ contract # "none"
                 /\ Event(Last.bar) \in Received
<1>0. Control /\ Untouched
  BY DEF Service
<1>1. sim[t] \in SimLedger /\ x \in SimLedger
  BY DEF Moved, Found, Agree
<1>2. /\ Len(sim[t].fills) \in Nat /\ Len(x.fills) \in Nat
      /\ DOMAIN sim[t].fills = 1..Len(sim[t].fills) /\ DOMAIN x.fills = 1..Len(x.fills)
  BY <1>1, LedgerFields
<1>3. CASE x.fills = sim[t].fills /\ x.bars = sim[t].bars /\ x.lots = sim[t].lots
  BY <1>1, <1>2, <1>3 DEF Adds, Carries
<1>4. CASE Advance /\ Advances(sim[t], w[t], Event(Last.bar), x)
  <2>1. Doing("advance")
    BY <1>4 DEF Advance
  <2>2. /\ agenda # <<>> /\ agenda[1].do = "advance" /\ Queued({"advance"})
        /\ Queued({"pin", "advance", "step", "decide", "opportunity"}) /\ Queued(ApplyOps)
    BY <1>0, <2>1, HeadIs DEF Queued, ApplyOps, TradeOps
  <2>3. ~Queued({"pin"})
    BY <1>0, <2>2, AtStep DEF Steps
  <2>4. contract = Last.bar.contract
    BY <1>0, <2>2, <2>3 DEF Untouched
  <2>5. Last.bar.contract \in Contracts /\ receipts # <<>>
    BY <1>0, <2>2, InHand DEF Unapplied
  <2>6. Event(Last.bar) \in Received
    BY <1>0, <2>5, LatestReceived
  <2>7. contract # "none"
    BY <2>4, <2>5, ContinuousAssumption
  <2>8. /\ x.bars = sim[t].bars \cup {Event(Last.bar)} /\ Extends(sim[t], x)
        /\ Carries(sim[t]) => Carries(x)
        /\ \A k \in DOMAIN x.fills \ DOMAIN sim[t].fills : x.fills[k].ts = Event(Last.bar).ts
    BY <1>4 DEF Advances, Follows
  <2>9. Adds(sim[t].fills, x.fills, Last.bar.ts)
    BY <1>2, <2>8 DEF Adds, Extends, Event
  <2> QED
    BY <1>1, <1>4, <2>4, <2>6, <2>7, <2>8, <2>9
<1> QED
  <2>1. MovesTo(t, x, u)
    BY DEF Moved
  <2> QED
    BY <1>3, <1>4, <2>1 DEF MovesTo, AdvancedTo

LEMMA HeldInit == Init => Held /\ LotsStayOnContract
BY DEF Init, Held, LotsStayOnContract, EmptySim, Carries, Scenario

\* What a step does to the fills of a scenario, whether it is the one that
\* moves or not.
Filled(s) ==
    /\ sim[s] \in SimLedger /\ sim'[s] \in SimLedger
    /\ (Carries(sim[s]) => Carries(sim'[s])) /\ sim[s].bars \subseteq sim'[s].bars
    /\ Adds(sim[s].fills, sim'[s].fills, Last.bar.ts)
    /\ \/ sim'[s].fills = sim[s].fills /\ sim'[s].bars = sim[s].bars
       \/ /\ Advance /\ sim'[s].bars = sim[s].bars \cup {Event(Last.bar)}
          /\ contract = Last.bar.contract /\ contract # "none"
          /\ Event(Last.bar) \in Received

LEMMA StepFills ==
    ASSUME Service, [Next]_vars, NEW s \in Scenario
    PROVE  Filled(s)
<1>1. ASSUME sim'[s] = sim[s]
      PROVE  Filled(s)
  <2>1. sim[s] \in SimLedger
    BY DEF Service, Ledgers
  <2>2. Len(sim[s].fills) \in Nat /\ DOMAIN sim[s].fills = 1..Len(sim[s].fills)
    BY <2>1, LedgerFields
  <2>3. Adds(sim[s].fills, sim[s].fills, Last.bar.ts)
    BY <2>2 DEF Adds
  <2> QED
    BY <1>1, <2>1, <2>3 DEF Filled
<1>2. ASSUME NEW t, NEW x, NEW u, Moved(t, x, u)
      PROVE  Filled(s)
  <2>1. CASE s = t
    <3>1. sim'[t] = x
      BY <1>2 DEF Moved
    <3> QED
      BY <1>2, <2>1, <3>1, MovedFills DEF Filled
  <2>2. CASE s # t
    BY <1>1, <1>2, <2>2 DEF Moved
  <2> QED
    BY <2>1, <2>2
<1>3. CASE UNCHANGED ledgers
  BY <1>1, <1>3 DEF ledgers
<1>4. CASE Next
  BY <1>2, <1>3, <1>4, ServiceMoves DEF Moves
<1>5. CASE UNCHANGED vars
  BY <1>3, <1>5 DEF vars, ledgers
<1> QED
  BY <1>4, <1>5

ContractIn(r, ts) == r[CHOOSE i \in DOMAIN r : r[i].bar.ts = ts].bar.contract

HeldBy(r, db, c) ==
    /\ Carries(db)
    /\ c = "none" => db.bars = {}
    /\ \A i \in DOMAIN db.fills : \E b \in db.bars : b.ts = db.fills[i].ts
    /\ \A i \in DOMAIN db.fills : Trailing(db.fills, i) => ContractIn(r, db.fills[i].ts) = c
    /\ \A i, j \in DOMAIN db.fills :
          Closes(db.fills, i, j) => ContractIn(r, db.fills[i].ts) = ContractIn(r, db.fills[j].ts)

LEMMA HeldIs == /\ Held /\ LotsStayOnContract <=> \A s \in Scenario : HeldBy(receipts, sim[s], contract)
                /\ Held' /\ LotsStayOnContract'
                      <=> \A s \in Scenario : HeldBy(receipts', sim'[s], contract')
BY DEF Held, LotsStayOnContract, HeldBy, ContractIn, ContractAt, Closes

LEMMA HeldNext ==
    ASSUME Service, Frozen, Held, LotsStayOnContract, [Next]_vars
    PROVE  Held' /\ LotsStayOnContract'
<1>0. Control /\ Ledgers /\ Control'
  BY ServiceNext DEF Service
<1> SUFFICES ASSUME NEW s \in Scenario
             PROVE  HeldBy(receipts', sim'[s], contract')
  BY HeldIs
<1>1. HeldBy(receipts, sim[s], contract) /\ Filled(s)
  BY HeldIs, StepFills
<1>2. PICK db, x, c : sim[s] = db /\ sim'[s] = x /\ contract = c
  OBVIOUS
<1>3. /\ db \in SimLedger /\ x \in SimLedger /\ db.bars \subseteq x.bars
      /\ Carries(x) /\ Adds(db.fills, x.fills, Last.bar.ts)
      /\ \/ x.fills = db.fills /\ x.bars = db.bars
         \/ /\ Advance /\ x.bars = db.bars \cup {Event(Last.bar)}
            /\ c = Last.bar.contract /\ c # "none" /\ Event(Last.bar) \in Received
  BY <1>1, <1>2 DEF Filled, HeldBy
<1>4. \A b \in Received : ContractIn(receipts', b.ts) = ContractIn(receipts, b.ts)
  <2>1. ASSUME NEW b \in Received, NEW ts, ts = b.ts
        PROVE  ContractIn(receipts', ts) = ContractIn(receipts, ts)
    <3>1. ContractAt(ts)' = ContractAt(ts)
      BY <2>1, ContractStays
    <3> QED
      BY <3>1 DEF ContractAt, ContractIn
  <2> QED
    BY <2>1
<1>5. \A b \in db.bars : b \in Received
  BY <1>0, <1>2 DEF Ledgers, InStep, Received
<1> DEFINE at == [ts \in Nat |-> ContractIn(receipts', ts)]
<1>6. \A i \in DOMAIN x.fills : x.fills[i].ts \in Nat
  BY <1>3, LedgerFields DEF Fill
<1>7. \A i \in DOMAIN x.fills : at[x.fills[i].ts] = ContractIn(receipts', x.fills[i].ts)
  BY <1>6
<1>8. \A i \in DOMAIN db.fills : i \in DOMAIN x.fills /\ x.fills[i] = db.fills[i]
  BY <1>3 DEF Adds
<1>9. \A i \in DOMAIN db.fills : at[db.fills[i].ts] = ContractIn(receipts, db.fills[i].ts)
  BY <1>1, <1>2, <1>4, <1>5, <1>7, <1>8 DEF HeldBy
<1>10. /\ \A i \in DOMAIN db.fills : Trailing(db.fills, i) => at[db.fills[i].ts] = c
       /\ \A i, j \in DOMAIN db.fills :
             Closes(db.fills, i, j) => at[db.fills[i].ts] = at[db.fills[j].ts]
  BY <1>1, <1>2, <1>9 DEF HeldBy
<1>11. CASE contract' = contract
  <2>1. x.fills # db.fills => at[Last.bar.ts] = c
    <3> SUFFICES ASSUME x.fills # db.fills
                 PROVE  at[Last.bar.ts] = c
      OBVIOUS
    <3>1. Last.bar.contract = c /\ receipts # <<>> /\ Last.bar.ts \in Nat /\ Event(Last.bar) \in Received
      <4>1. receipts # <<>>
        BY <1>3 DEF Received
      <4> QED
        BY <1>0, <1>3, <4>1, LatestReceived
    <3>2. Len(receipts) \in DOMAIN receipts
      BY <1>0, <3>1, LatestReceived
    <3>3. ContractAt(receipts[Len(receipts)].bar.ts) = receipts[Len(receipts)].bar.contract
      BY <1>0, <3>2, ReceiptFields
    <3>4. ContractIn(receipts, Last.bar.ts) = c
      BY <3>1, <3>3 DEF ContractAt, ContractIn, Last
    <3>5. Event(Last.bar).ts = Last.bar.ts
      BY DEF Event
    <3> QED
      BY <1>4, <3>1, <3>4, <3>5
  <2>2. /\ \A i \in DOMAIN x.fills : Trailing(x.fills, i) => at[x.fills[i].ts] = c
        /\ \A i, j \in DOMAIN x.fills :
              Closes(x.fills, i, j) => at[x.fills[i].ts] = at[x.fills[j].ts]
    <3> HIDE DEF at
    <3> QED
      BY <1>3, <1>10, <2>1, ClosesGrow
  <2>3. \A i \in DOMAIN x.fills : \E b \in x.bars : b.ts = x.fills[i].ts
    <3>1. \A i \in DOMAIN db.fills : \E b \in x.bars : b.ts = db.fills[i].ts
      BY <1>1, <1>2, <1>3 DEF HeldBy
    <3>2. CASE x.fills = db.fills
      BY <3>1, <3>2
    <3>3. CASE x.fills # db.fills
      <4>1. Event(Last.bar) \in x.bars /\ Event(Last.bar).ts = Last.bar.ts
        BY <1>3, <3>3 DEF Event
      <4> QED
        BY <1>3, <1>8, <3>1, <4>1 DEF Adds
    <3> QED
      BY <3>2, <3>3
  <2>4. c = "none" => x.bars = {}
    BY <1>1, <1>2, <1>3 DEF HeldBy
  <2>5. contract' = c
    BY <1>2, <1>11
  <2> HIDE DEF at
  <2> QED
    BY <1>2, <1>3, <1>7, <2>2, <2>3, <2>4, <2>5 DEF HeldBy
<1>12. CASE Pin /\ contract' # contract
  <2>1. Doing("pin") /\ UNCHANGED ledgers /\ contract' = bar.contract /\ receipts' = receipts
    BY <1>12 DEF Pin
  <2>2. Queued({"pin"}) /\ Queued(ApplyOps)
    BY <1>0, <2>1, HeadIs DEF Queued, ApplyOps, TradeOps
  <2>3. contract' = Last.bar.contract /\ Last.bar.contract \in Contracts
    BY <1>0, <2>1, <2>2, InHand
  <2>4. contract' # "none"
    BY <2>3, ContinuousAssumption
  <2>5. x = db
    BY <1>2, <2>1 DEF ledgers
  <2>6. \A i \in DOMAIN db.fills : ~Trailing(db.fills, i)
    <3>1. CASE contract = "none"
      BY <1>1, <1>2, <3>1 DEF HeldBy
    <3>2. CASE contract # "none"
      <4>1. db.lots = {}
        BY <1>2, <1>12, <2>2, <2>3, <3>2 DEF Frozen, PinFlat
      <4>2. Len(db.fills) \in Nat /\ DOMAIN db.fills = 1..Len(db.fills)
        BY <1>3, LedgerFields
      <4>3. db.fills # <<>> => db.fills[Len(db.fills)].reason # "entry"
        BY <1>3, <2>5, <4>1 DEF Carries
      <4> SUFFICES ASSUME NEW i \in DOMAIN db.fills
                   PROVE  ~Trailing(db.fills, i)
        OBVIOUS
      <4>4. Len(db.fills) \in DOMAIN db.fills /\ Len(db.fills) >= i /\ db.fills # <<>>
        BY <4>2
      <4> QED
        BY <4>3, <4>4 DEF Trailing
    <3> QED
      BY <3>1, <3>2
  <2> HIDE DEF at
  <2> QED
    BY <1>1, <1>2, <1>3, <2>1, <2>4, <2>5, <2>6 DEF HeldBy
<1> QED
  BY <1>11, <1>12, ContractPinned

(* A lot is closed on the contract it was opened on, for every number of   *)
(* contracts and over every outage, roll and restart: a lot that is still  *)
(* open was filled on the active contract, and a roll pins another one     *)
(* only without inventory (continuous.py _apply).                          *)
THEOREM LotsStay == Spec => []LotsStayOnContract
<1> DEFINE Inv == Service /\ Frozen /\ Held /\ LotsStayOnContract
<1>1. Init => Inv
  BY ServiceInit, FrozenInit, HeldInit
<1>2. Inv /\ [Next]_vars => Inv'
  BY ServiceNext, FrozenNext, HeldNext
<1>3. Inv => LotsStayOnContract
  OBVIOUS
<1> QED
  BY <1>1, <1>2, <1>3, PTL DEF Spec

(***************************************************************************)
(* Live entries                                                            *)
(***************************************************************************)
LiveEntries(s) == {k \in DOMAIN w[s].intents : Live(sim[s], w[s], k)}

\* Entry k of scenario s was live before the step.
Inherits(s, k) ==
    /\ k \in DOMAIN w[s].intents /\ w'[s].intents[k].req = w[s].intents[k].req
    /\ Live(sim[s], w[s], k)
    /\ k \notin DOMAIN sim'[s].orders => k \notin DOMAIN sim[s].orders

\* Entry k of scenario s is decided by the step, on the bar in hand.
Decides(s, k) ==
    /\ Decide /\ agenda[1].for = s /\ sim'[s] = sim[s] /\ k \notin DOMAIN sim[s].orders
    /\ w'[s].intents[k].req.submitted = Last.bar.ts + 1
    /\ w'[s].intents[k].req.id.day = DayOf(Last.bar.ts)
    /\ DayOf(Last.bar.ts) \notin w'[s].halted /\ ~w'[s].riskHalted

SameHalts(s) == w'[s].halted = w[s].halted /\ w'[s].riskHalted = w[s].riskHalted

DecidesHalts(s) ==
    /\ Decide /\ agenda[1].for = s
    /\ \E risk \in Risks :
          /\ risk # "none" => Breachable(w[s])
          /\ w'[s].halted = Observed(w[s], Event(Last.bar), risk).halted
          /\ w'[s].riskHalted = Observed(w[s], Event(Last.bar), risk).riskHalted

AdvancesBar(s) ==
    /\ Advance /\ agenda[1].for = s /\ w'[s] = w[s] /\ Event(Last.bar) \notin sim[s].bars
    /\ Advances(sim[s], w[s], Event(Last.bar), sim'[s])

\* What a step does to the entries of a scenario.
EntrySteps(s) ==
    /\ Extends(sim[s], sim'[s])
    /\ Unfilled(sim[s]) => Unfilled(sim'[s])
    /\ (sim'[s].bars = sim[s].bars /\ sim'[s].fills = sim[s].fills) \/ AdvancesBar(s)
    /\ \A k \in LiveEntries(s)' : Inherits(s, k) \/ Decides(s, k)
    /\ SameHalts(s) \/ (HaltEntries /\ agenda[1].for = s) \/ DecidesHalts(s)
    /\ CancelEntries /\ agenda[1].for = s =>
          \A k \in LiveEntries(s)' : k \in DOMAIN sim'[s].orders => FALSE
    /\ Dispatch /\ agenda[1].for = s /\ Pending(w[s]) = {} =>
          \A k \in LiveEntries(s)' : k \in DOMAIN sim'[s].orders
    /\ Unfilled(sim[s]) /\ Leaving(sim[s], w[s]) => Leaving(sim'[s], w'[s])

(* No bar is later than the one in hand.                                   *)
LEMMA NothingLater ==
    ASSUME Control, Ledgers, NEW do \in ApplyOps, Doing(do), NEW b, Event(Last.bar) = b,
           NEW s \in Scenario
    PROVE  b \in Bar /\ \A e \in sim[s].bars : e.ts \in Nat /\ e.ts <= b.ts
<1>1. Queued(ApplyOps)
  BY HeadIs DEF Queued
<1>2. Unapplied # {} /\ bar = Last.bar /\ Event(bar) \in Bar
  BY <1>1, InHand
<1>3. receipts # <<>> /\ b.ts = Last.bar.ts
  BY <1>2 DEF Unapplied, Event
<1>4. \A e \in sim[s].bars : e \in Received
  BY DEF Ledgers, InStep, Received
<1> QED
  BY <1>2, <1>3, <1>4, LatestReceived

(* The halts a decided bar records, whatever it asks for.                  *)
LEMMA DecidedHalts ==
    ASSUME NEW v, NEW b, NEW impulse, NEW risk, NEW u, ForwardDecided(v, b, impulse, risk, now) = u
    PROVE  /\ u.halted = Observed(v, b, risk).halted
           /\ u.riskHalted = Observed(v, b, risk).riskHalted
<1>1. PICK o : Observed(v, b, risk) = o
  OBVIOUS
<1>2. \A kind, side, n, x : Intend(o, kind, side, n, b, now) = x
                               => x.halted = o.halted /\ x.riskHalted = o.riskHalted
  BY DEF Intend, WithIntents
<1> QED
  BY <1>1, <1>2 DEF ForwardDecided

LEMMA KeptLive ==
    ASSUME NEW t, NEW x, NEW u, sim'[t] = x, w'[t] = u, Agree(sim[t], w[t]), Agree(x, u),
           SameIntents(w[t], u), Extends(sim[t], x), sim[t].bars \subseteq x.bars
    PROVE  \A k \in LiveEntries(t)' : Inherits(t, k)
<1>1. /\ sim[t] \in SimLedger /\ x \in SimLedger /\ w[t] \in WorkerLedger /\ u \in WorkerLedger
  BY DEF Agree
<1>2. DOMAIN u.intents = DOMAIN w[t].intents /\ DOMAIN sim[t].orders \subseteq DOMAIN x.orders
  <2>1. /\ DOMAIN u.intents = 1..Len(u.intents) /\ DOMAIN w[t].intents = 1..Len(w[t].intents)
    BY <1>1, WorkerFields
  <2>2. /\ DOMAIN sim[t].orders = 1..Len(sim[t].orders) /\ DOMAIN x.orders = 1..Len(x.orders)
        /\ Len(x.orders) \in Nat /\ Len(sim[t].orders) \in Nat
    BY <1>1, LedgerFields
  <2> QED
    BY <2>1, <2>2 DEF SameIntents, Extends
<1> SUFFICES ASSUME NEW k \in DOMAIN u.intents, Live(x, u, k)
             PROVE  Inherits(t, k)
  BY DEF LiveEntries
<1>3. u.intents[k].req = w[t].intents[k].req
  BY <1>2 DEF SameIntents
<1>4. Live(x, w[t], k)
  BY <1>3 DEF Live
<1>5. Live(sim[t], w[t], k)
  BY <1>1, <1>4, LiveShrinks
<1> QED
  BY <1>2, <1>3, <1>5 DEF Inherits

(* Every step leaves the entries of every scenario as EntrySteps says.     *)
LEMMA EntryMoves ==
    ASSUME Service, Next, NEW s \in Scenario
    PROVE  EntrySteps(s)
<1>0. /\ Control /\ Ledgers /\ Processed /\ Untouched /\ Ledgers'
      /\ sim \in [Scenario -> SimLedger] /\ w \in [Scenario -> WorkerLedger]
      /\ \A t \in Scenario : Agree(sim[t], w[t]) /\ Agree(sim'[t], w'[t])
  <2>1. Ledgers'
    BY ServiceSteps DEF Service
  <2> QED
    BY <2>1 DEF Service, Ledgers
<1>1. ASSUME NEW r \in Scenario, sim'[r] = sim[r], w'[r] = w[r], agenda[1].for # r \/ UNCHANGED ledgers,
             CancelEntries => agenda[1].for # r, Dispatch => agenda[1].for # r
      PROVE  EntrySteps(r)
  <2>1. SameIntents(w[r], w[r]) /\ Extends(sim[r], sim[r])
    BY <1>0, <1>1, ExtendsReflexive DEF SameIntents
  <2>2. \A k \in LiveEntries(r)' : Inherits(r, k)
    BY <1>0, <1>1, <2>1, KeptLive
  <2> QED
    BY <1>1, <2>1, <2>2 DEF EntrySteps, SameHalts
<1> DEFINE Acts == Advance \/ Decide \/ Reconcile \/ Dispatch \/ Acknowledge \/ CancelEntries \/ HaltEntries
<1>2. CASE ~Acts
  <2>1. UNCHANGED ledgers
    BY <1>2 DEF Next, Process, Environment, MarkHard, RaiseNow, Raise, BeginApply, CheckContract,
                 CheckFlat, Exclude, Pin, BeginStep, CountOpportunity, FinishApply, Resume, Started,
                 Restart, BeginClose, CloseDay, Receive, ReceiveInvalid, ReceiveUnmapped, Crash,
                 Connect, Disconnect, PassMinute
  <2>2. sim' = sim /\ w' = w
    BY <2>1 DEF ledgers
  <2> QED
    BY <1>1, <1>2, <2>1, <2>2
<1>3. ASSUME NEW t, NEW x, NEW u, Found(t), sim' = [sim EXCEPT ![t] = x],
             w' = [w EXCEPT ![t] = u] \/ (w' = w /\ u = w[t]),
             sim'[t] = x /\ w'[t] = u => EntrySteps(t)
      PROVE  EntrySteps(s)
  <2>1. t \in Scenario /\ agenda[1].for = t
    BY <1>3 DEF Found
  <2>2. sim'[t] = x /\ w'[t] = u
    BY <1>0, <1>3, <2>1
  <2>3. CASE s = t
    BY <1>3, <2>2, <2>3
  <2>4. CASE s # t
    <3>1. sim'[s] = sim[s] /\ w'[s] = w[s]
      BY <1>0, <1>3, <2>1, <2>4
    <3> QED
      BY <1>1, <2>1, <2>4, <3>1
  <2> QED
    BY <2>3, <2>4
<1>4. ASSUME NEW t, NEW x, NEW u, Found(t), Done(t, x, u),
             sim'[t] = x /\ w'[t] = u => EntrySteps(t)
      PROVE  EntrySteps(s)
  BY <1>3, <1>4 DEF Done
<1>5. ASSUME NEW t, NEW x, NEW u, Found(t), sim'[t] = x, w'[t] = u,
             SameIntents(w[t], u), Extends(sim[t], x), sim[t].bars \subseteq x.bars
      PROVE  \A k \in LiveEntries(t)' : Inherits(t, k)
  <2>1. Agree(sim[t], w[t]) /\ Agree(x, u)
    BY <1>0, <1>5 DEF Found
  <2> QED
    BY <1>5, <2>1, KeptLive
<1>6. /\ Advance => Doing("advance") /\ (Decide => Doing("decide")) /\ (Reconcile => Doing("reconcile"))
      /\ (Dispatch => Doing("dispatch")) /\ (Acknowledge => Doing("acknowledge"))
      /\ (CancelEntries => Doing("cancel")) /\ (HaltEntries => Doing("halt"))
  BY DEF Advance, Decide, Reconcile, Dispatch, Acknowledge, CancelEntries, HaltEntries
<1>7. CASE Advance
  <2>0. Doing("advance")
    BY <1>7 DEF Advance
  <2>1. PICK t : For = t
    OBVIOUS
  <2>2. PICK x : Found(t) /\ Done(t, x, w[t]) /\ AdvancedTo(t, Event(Last.bar), x)
    BY <1>0, <1>7, <2>1, AdvanceLedgers
  <2>3. ~CancelEntries /\ ~Dispatch
    BY <2>0 DEF CancelEntries, Dispatch, Doing
  <2>4. sim[t] \in SimLedger /\ t \in Scenario /\ agenda[1].for = t
    BY <2>2 DEF Found
  <2>5. SameIntents(w[t], w[t])
    BY DEF SameIntents
  <2>7. PICK b : Event(Last.bar) = b
    OBVIOUS
  <2>8. b \in Bar /\ \A e \in sim[t].bars : e.ts <= b.ts
    BY <1>0, <2>0, <2>4, <2>7, NothingLater DEF ApplyOps, TradeOps
  <2>6. ASSUME sim'[t] = x, w'[t] = w[t]
        PROVE  EntrySteps(t)
    <3>1. CASE x = sim[t]
      <4>1. Extends(sim[t], x) /\ sim[t].bars \subseteq x.bars
        BY <2>4, <3>1, ExtendsReflexive
      <4>2. \A k \in LiveEntries(t)' : Inherits(t, k)
        BY <1>5, <2>2, <2>5, <2>6, <4>1
      <4> QED
        BY <2>3, <2>6, <3>1, <4>1, <4>2 DEF EntrySteps, SameHalts
    <3>2. CASE Advances(sim[t], w[t], Event(Last.bar), x) /\ Event(Last.bar) \notin sim[t].bars
      <4>1. Extends(sim[t], x) /\ sim[t].bars \subseteq x.bars /\ (Unfilled(sim[t]) => Unfilled(x))
        BY <3>2 DEF Advances, Follows
      <4>2. \A k \in LiveEntries(t)' : Inherits(t, k)
        BY <1>5, <2>2, <2>5, <2>6, <4>1
      <4>3. AdvancesBar(t)
        BY <1>7, <2>4, <2>6, <3>2 DEF AdvancesBar
      <4>4. Leaving(sim[t], w[t]) => Leaving(x, w[t])
        <5>1. PICK db, v : sim[t] = db /\ w[t] = v
          OBVIOUS
        <5>2. Agree(db, v) /\ Agree(x, v) /\ Advances(db, v, b, x) /\ \A e \in db.bars : e.ts <= b.ts
          BY <1>0, <2>4, <2>6, <2>7, <2>8, <3>2, <5>1
        <5>3. Leaving(db, v) => Leaving(x, v)
          BY <2>8, <5>2, AdvanceLeaving
        <5> QED
          BY <5>1, <5>3
      <4> QED
        BY <2>3, <2>6, <4>1, <4>2, <4>3, <4>4 DEF EntrySteps, SameHalts
    <3> QED
      BY <2>2, <3>1, <3>2 DEF AdvancedTo
  <2> QED
    BY <1>4, <2>2, <2>6
<1>8. CASE Reconcile \/ Acknowledge
  <2>0. Doing("reconcile") \/ Doing("acknowledge")
    BY <1>8 DEF Reconcile, Acknowledge
  <2>1. PICK t : For = t
    OBVIOUS
  <2>3. ~CancelEntries /\ ~Dispatch
    BY <2>0 DEF CancelEntries, Dispatch, Doing
  <2>2. PICK u : /\ Found(t) /\ Done(t, sim[t], u) /\ SameIntents(w[t], u)
                 /\ u.halted = w[t].halted /\ u.riskHalted = w[t].riskHalted
                 /\ \A k \in DOMAIN w[t].intents : \/ u.intents[k] = w[t].intents[k]
                                                   \/ u.intents[k] = Answered(w[t].intents[k], sim[t])
    <3>1. CASE Reconcile
      <4>1. Found(t) /\ Done(t, sim[t], Reconciled(w[t], sim[t])) /\ t \in Scenario
        BY <1>0, <2>1, <3>1, ReconcileLedgers DEF Found
      <4>2. PICK u : Reconciled(w[t], sim[t]) = u
        OBVIOUS
      <4>3. /\ SameIntents(w[t], u) /\ u.halted = w[t].halted /\ u.riskHalted = w[t].riskHalted
            /\ \A k \in DOMAIN w[t].intents : u.intents[k] = Answered(w[t].intents[k], sim[t])
        BY <1>0, <4>1, <4>2, ReconciledAgree
      <4> QED
        BY <4>1, <4>2, <4>3
    <3>2. CASE Acknowledge
      <4>1. /\ Found(t) /\ Done(t, sim[t], Acknowledged(w[t], FirstPending(t), sim[t])) /\ t \in Scenario
            /\ FirstPending(t) \in DOMAIN w[t].intents
        BY <1>0, <2>1, <3>2, AcknowledgeLedgers DEF Found, Pending
      <4>2. PICK u : Acknowledged(w[t], FirstPending(t), sim[t]) = u
        OBVIOUS
      <4>3. PICK i : FirstPending(t) = i
        OBVIOUS
      <4>4. i \in DOMAIN w[t].intents /\ Acknowledged(w[t], i, sim[t]) = u
        BY <4>1, <4>2, <4>3
      <4>5. /\ SameIntents(w[t], u) /\ u.halted = w[t].halted /\ u.riskHalted = w[t].riskHalted
            /\ u.intents[i] = Answered(w[t].intents[i], sim[t])
            /\ \A k \in DOMAIN w[t].intents \ {i} : u.intents[k] = w[t].intents[k]
        BY <1>0, <4>1, <4>4, AcknowledgedAgree
      <4> QED
        BY <4>1, <4>2, <4>5
    <3> QED
      BY <1>8, <3>1, <3>2
  <2>4. ASSUME sim'[t] = sim[t], w'[t] = u
        PROVE  EntrySteps(t)
    <3>1. Extends(sim[t], sim[t])
      BY <2>2, ExtendsReflexive DEF Found
    <3>2. \A k \in LiveEntries(t)' : Inherits(t, k)
      BY <1>5, <2>2, <2>4, <3>1
    <3>3. Leaving(sim[t], w[t]) => Leaving(sim[t], u)
      <4>1. t \in Scenario /\ Agree(sim[t], w[t]) /\ Agree(sim[t], u)
        BY <1>0, <2>2, <2>4 DEF Found
      <4> QED
        BY <2>2, <4>1, AnswerLeaving
    <3> QED
      BY <2>2, <2>3, <2>4, <3>1, <3>2, <3>3 DEF EntrySteps, SameHalts
  <2> QED
    BY <1>4, <2>2, <2>4
<1>9. CASE Dispatch
  <2>0. Doing("dispatch")
    BY <1>9 DEF Dispatch
  <2>1. PICK t : For = t
    OBVIOUS
  <2>2. ~CancelEntries
    BY <2>0 DEF CancelEntries, Doing
  <2>3. SameIntents(w[t], w[t])
    BY DEF SameIntents
  <2>4. CASE Pending(w[t]) = {}
    <3>1. Found(t) /\ Done(t, sim[t], w[t]) /\ t \in Scenario
      BY <1>0, <1>9, <2>1, <2>4, DispatchedLedgers DEF Found
    <3>2. ASSUME sim'[t] = sim[t], w'[t] = w[t]
          PROVE  EntrySteps(t)
      <4>1. Extends(sim[t], sim[t])
        BY <3>1, ExtendsReflexive DEF Found
      <4>2. \A k \in LiveEntries(t)' : Inherits(t, k)
        BY <1>5, <2>3, <3>1, <3>2, <4>1
      <4>3. \A k \in DOMAIN w[t].intents : k \in DOMAIN sim[t].orders
        BY <1>0, <2>4, <3>1 DEF Pending, Agree, Ordered
      <4>4. \A k \in LiveEntries(t)' : k \in DOMAIN sim'[t].orders
        BY <3>2, <4>3 DEF LiveEntries
      <4> QED
        BY <2>2, <3>2, <4>1, <4>2, <4>4 DEF EntrySteps, SameHalts
    <3> QED
      BY <1>4, <3>1, <3>2
  <2>5. CASE Pending(w[t]) # {}
    <3>1. PICK x : Submit(sim[t], w[t].intents[FirstPending(t)].req, FALSE) = x
      OBVIOUS
    <3>2. /\ Found(t) /\ sim' = [sim EXCEPT ![t] = x] /\ w' = w /\ FirstPending(t) \in Pending(w[t])
          /\ t \in Scenario /\ sim[t] \in SimLedger
      BY <1>0, <1>9, <2>1, <2>5, <3>1, SubmitLedgers DEF Found
    <3>3. /\ Extends(sim[t], x) /\ x.bars = sim[t].bars /\ x.fills = sim[t].fills
          /\ Leaving(sim[t], w[t]) => Leaving(x, w[t])
      <4>1. \A j \in Pending(w[t]) : FirstPending(t) <= j
        <5>1. Pending(w[t]) \subseteq Nat
          <6>1. w[t] \in WorkerLedger
            BY <3>2 DEF Found
          <6>2. DOMAIN w[t].intents = 1..Len(w[t].intents) /\ Len(w[t].intents) \in Nat
            BY <6>1, WorkerFields
          <6> QED
            BY <6>2 DEF Pending
        <5>2. \E i \in Pending(w[t]) : \A j \in Pending(w[t]) : i <= j
          BY <2>5, <5>1, LeastNat
        <5> QED
          BY <5>2 DEF FirstPending
      <4>2. Takes(sim[t], w[t], FirstPending(t), x)
        BY <1>0, <3>1, <3>2, <4>1, SubmittedAgree
      <4>3. Leaving(sim[t], w[t]) => Leaving(x, w[t])
        BY <1>0, <3>1, <3>2, <4>1, SubmitLeaving
      <4> QED
        BY <4>2, <4>3 DEF Takes
    <3>4. Unfilled(sim[t]) => Unfilled(x)
      BY <3>1, <3>2, SubmitUnfilled
    <3>5. ASSUME sim'[t] = x, w'[t] = w[t]
          PROVE  EntrySteps(t)
      <4>1. \A k \in LiveEntries(t)' : Inherits(t, k)
        BY <1>5, <2>3, <3>2, <3>3, <3>5
      <4> QED
        BY <2>2, <2>5, <3>3, <3>4, <3>5, <4>1 DEF EntrySteps, SameHalts
    <3> QED
      BY <1>3, <3>2, <3>5
  <2> QED
    BY <2>4, <2>5
<1>10. CASE CancelEntries
  <2>0. Doing("cancel")
    BY <1>10 DEF CancelEntries
  <2>1. PICK t : For = t
    OBVIOUS
  <2>2. PICK x : EntriesCancelled(sim[t]) = x
    OBVIOUS
  <2>3. Found(t) /\ Done(t, x, w[t]) /\ t \in Scenario
    BY <1>0, <1>10, <2>1, <2>2, CancelLedgers DEF Found
  <2>4. ~Dispatch
    BY <2>0 DEF Dispatch, Doing
  <2>5. /\ Extends(sim[t], x) /\ x.bars = sim[t].bars /\ x.fills = sim[t].fills
        /\ \A k \in DOMAIN w[t].intents : Live(x, w[t], k) => k \notin DOMAIN x.orders
        /\ Leaving(sim[t], w[t]) => Leaving(x, w[t])
    <3>1. Agree(sim[t], w[t])
      BY <2>3 DEF Found
    <3>3. Leaving(sim[t], w[t]) => Leaving(x, w[t])
      BY <2>2, <3>1, CancelLeaving
    <3>2. /\ Agree(x, w[t]) /\ Extends(sim[t], x)
          /\ x.bars = sim[t].bars /\ x.fills = sim[t].fills /\ x.lots = sim[t].lots
          /\ DOMAIN x.orders = DOMAIN sim[t].orders
          /\ \A k \in DOMAIN w[t].intents : Live(x, w[t], k) => k \notin DOMAIN x.orders
      BY <2>2, <3>1, CancelledAgree, Zenon
    <3> QED
      BY <3>2, <3>3
  <2>6. Unfilled(sim[t]) => Unfilled(x)
    BY <2>2, CancelUnfilled
  <2>7. SameIntents(w[t], w[t])
    BY DEF SameIntents
  <2>8. ASSUME sim'[t] = x, w'[t] = w[t]
        PROVE  EntrySteps(t)
    <3>1. \A k \in LiveEntries(t)' : Inherits(t, k)
      BY <1>5, <2>3, <2>5, <2>7, <2>8
    <3>2. \A k \in LiveEntries(t)' : k \in DOMAIN sim'[t].orders => FALSE
      BY <2>5, <2>8 DEF LiveEntries
    <3> QED
      BY <2>4, <2>5, <2>6, <2>8, <3>1, <3>2 DEF EntrySteps, SameHalts
  <2> QED
    BY <1>4, <2>3, <2>8
<1>11. CASE HaltEntries
  <2>0. Doing("halt")
    BY <1>11 DEF HaltEntries
  <2>1. PICK t : For = t
    OBVIOUS
  <2>2. ~Dispatch /\ ~CancelEntries
    BY <2>0 DEF Dispatch, CancelEntries, Doing
  <2>3. PICK u : /\ Found(t) /\ Done(t, sim[t], u) /\ u.intents = w[t].intents
                 /\ w[t].halted \subseteq u.halted
    BY <1>0, <1>11, <2>1, HaltLedgers
  <2>4. SameIntents(w[t], u) /\ Extends(sim[t], sim[t]) /\ agenda[1].for = t
    BY <2>3, ExtendsReflexive DEF SameIntents, Found
  <2>5. ASSUME sim'[t] = sim[t], w'[t] = u
        PROVE  EntrySteps(t)
    <3>1. \A k \in LiveEntries(t)' : Inherits(t, k)
      BY <1>5, <2>3, <2>4, <2>5
    <3>2. Leaving(sim[t], w[t]) => Leaving(sim[t], u)
      <4>1. t \in Scenario /\ Agree(sim[t], w[t]) /\ Agree(sim[t], u)
        BY <1>0, <2>3, <2>5 DEF Found
      <4> QED
        BY <2>3, <2>4, <4>1, AnswerLeaving
    <3> QED
      BY <1>11, <2>2, <2>4, <2>5, <3>1, <3>2 DEF EntrySteps
  <2> QED
    BY <1>4, <2>3, <2>5
<1>12. CASE Decide
  <2>0. Doing("decide")
    BY <1>12 DEF Decide
  <2>1. PICK t, b : For = t /\ Event(Last.bar) = b
    OBVIOUS
  <2>2. ~Backwards(w[For], Event(bar)) /\ ~Dispatch /\ ~CancelEntries
    BY <1>0, <1>12, <2>0, NotBackwards DEF Decide, Dispatch, CancelEntries, Doing
  <2>3. PICK u : Found(t) /\ Done(t, sim[t], u) /\ DecidedTo(t, b, u)
    BY <1>0, <1>12, <2>1, <2>2, DecideLedgers
  <2>4. /\ agenda[1].for = t /\ t \in Scenario /\ sim[t] \in SimLedger /\ w[t] \in WorkerLedger
        /\ b \in Bar /\ b.ts = Last.bar.ts /\ now \in Nat
    BY <1>0, <2>0, <2>1, <2>3, DecideReady DEF Found, Event, Control, ControlTyped
  <2>5. ASSUME sim'[t] = sim[t], w'[t] = u
        PROVE  EntrySteps(t)
    <3>1. DecidesHalts(t)
      <4>1. PICK risk \in Risks : /\ risk # "none" => Breachable(w[t])
                                  /\ u = ForwardDecided(w[t], b, bar.impulse, risk, now)
        BY <2>3 DEF DecidedTo
      <4>2. /\ u.halted = Observed(w[t], b, risk).halted
            /\ u.riskHalted = Observed(w[t], b, risk).riskHalted
        BY <4>1, DecidedHalts
      <4> QED
        BY <1>12, <2>1, <2>4, <2>5, <4>1, <4>2 DEF DecidesHalts
    <3>2. \A k \in LiveEntries(t)' : Inherits(t, k) \/ Decides(t, k)
      <4>1. CASE u.intents = w[t].intents
        <5>1. SameIntents(w[t], u) /\ Extends(sim[t], sim[t])
          BY <2>4, <4>1, ExtendsReflexive DEF SameIntents
        <5> QED
          BY <1>5, <2>3, <2>5, <5>1
      <4>2. CASE Intends(w[t], u, b, now)
        <5>0. PICK kind \in Kind, side \in Side, n \in Nat \ {0} :
                 /\ u.intents = Append(w[t].intents,
                                       [req   |-> RequestOn(w[t], b, kind, side, n, now),
                                        state |-> "pending"])
                 /\ kind = "entry" => DayOf(b.ts) \notin u.halted /\ ~u.riskHalted
          BY <4>2 DEF Intends
        <5>1. PICK req :
                 /\ RequestOn(w[t], b, kind, side, n, now) = req
                 /\ u.intents = Append(w[t].intents, [req |-> req, state |-> "pending"])
                 /\ kind = "entry" => DayOf(b.ts) \notin u.halted /\ ~u.riskHalted
          BY <5>0
        <5>2. req.submitted = b.ts + 1 /\ req.id.day = DayOf(b.ts) /\ req.id.kind = kind
          BY <2>4, <5>1, RequestShape
        <5>3. /\ Len(w[t].intents) \in Nat /\ DOMAIN w[t].intents = 1..Len(w[t].intents)
              /\ w[t].intents \in Seq(Intent)
          BY <2>4, WorkerFields
        <5>4. /\ DOMAIN u.intents = 1..(Len(w[t].intents) + 1)
              /\ u.intents[Len(w[t].intents) + 1].req = req
              /\ \A k \in DOMAIN w[t].intents : u.intents[k] = w[t].intents[k]
          <6>1. PICK e : [req |-> req, state |-> "pending"] = e
            OBVIOUS
          <6>2. u.intents = Append(w[t].intents, e) /\ e.req = req
            BY <5>1, <6>1
          <6> QED
            BY <5>3, <6>2
        <5>5. \A k \in DOMAIN sim[t].orders : k \in DOMAIN w[t].intents
          BY <1>0, <2>4 DEF Agree, Ordered
        <5> SUFFICES ASSUME NEW k \in DOMAIN u.intents, Live(sim[t], u, k)
                     PROVE  Inherits(t, k) \/ Decides(t, k)
          BY <2>5 DEF LiveEntries
        <5>6. CASE k \in DOMAIN w[t].intents
          <6>1. Live(sim[t], w[t], k) /\ u.intents[k].req = w[t].intents[k].req
            BY <5>4, <5>6 DEF Live
          <6> QED
            BY <2>5, <5>6, <6>1 DEF Inherits
        <5>7. CASE k \notin DOMAIN w[t].intents
          <6>1. k = Len(w[t].intents) + 1 /\ k \notin DOMAIN sim[t].orders
            BY <5>3, <5>4, <5>5, <5>7
          <6>2. kind = "entry"
            BY <5>2, <5>4, <6>1 DEF Live, Fresh
          <6> QED
            BY <1>12, <2>4, <2>5, <5>1, <5>2, <5>4, <6>1, <6>2 DEF Decides
        <5> QED
          BY <5>6, <5>7
      <4> QED
        BY <2>3, <4>1, <4>2 DEF DecidedTo
    <3>3. Extends(sim[t], sim[t])
      BY <2>4, ExtendsReflexive
    <3>4. Unfilled(sim[t]) /\ Leaving(sim[t], w[t]) => Leaving(sim[t], u)
      <4>1. PICK db, v : sim[t] = db /\ w[t] = v
        OBVIOUS
      <4>2. PICK risk \in Risks : ForwardDecided(v, b, bar.impulse, risk, now) = u
        BY <2>3, <4>1 DEF DecidedTo
      <4>3. /\ Agree(db, v) /\ Agree(db, u) /\ b \in db.bars /\ v.fills = db.fills
            /\ bar \in MarketBar
        BY <1>0, <2>0, <2>1, <2>4, <2>5, <4>1, DecideReady
      <4>4. bar.impulse \in {-1, 0, 1} /\ risk \in Risk
        BY <4>2, <4>3, ContinuousAssumption DEF MarketBar
      <4>5. \A c \in v.bars : c.ts < b.ts
        <5>1. ~Backwards(v, b) /\ \A c \in v.bars : c.ts \in Nat /\ b.ts \in Nat
          BY <2>3, <2>4, <4>1, WorkerFields DEF DecidedTo, Bar
        <5> QED
          BY <5>1 DEF Backwards
      <4>6. Unfilled(db) /\ Leaving(db, v) => Leaving(db, u)
        BY <2>4, <4>2, <4>3, <4>4, <4>5, DecideLeaving
      <4> QED
        BY <4>1, <4>6
    <3> QED
      BY <2>2, <2>5, <3>1, <3>2, <3>3, <3>4 DEF EntrySteps
  <2> QED
    BY <1>4, <2>3, <2>5
<1> QED
  BY <1>2, <1>7, <1>8, <1>9, <1>10, <1>11, <1>12

\* The bar in hand is of another contract than the active one.
Rolling == contract # "none" /\ contract # Last.bar.contract

Barrier(op, s) == Stops(op, s, Rolling, MissingEvent)

Barred ==
    \A s \in Scenario : \A k \in LiveEntries(s) : \A f \in DOMAIN agenda :
        Barrier(agenda[f], s) => Ahead(agenda, f, s, k \notin DOMAIN sim[s].orders)

Unstarted == \A s \in Scenario : Unfilled(sim[s])

NoFillsSince ==
    \A s \in Scenario : \A k \in LiveEntries(s) : \A i \in DOMAIN sim[s].fills :
        sim[s].fills[i].ts < w[s].intents[k].req.submitted

Unhalted ==
    \A s \in Scenario : \A k \in LiveEntries(s) :
        w[s].intents[k].req.id.day \notin w[s].halted /\ ~w[s].riskHalted

Chained ==
    \A s \in Scenario : \A k \in LiveEntries(s) : \A c \in sim[s].bars :
        \A ts \in (w[s].intents[k].req.submitted - 1)..c.ts :
            TradedAt(ts) /\ ContractAt(ts) = contract

Guarded == Barred /\ Unstarted /\ NoFillsSince /\ Unhalted /\ Chained

LEMMA AheadFirst ==
    ASSUME Control, Barred, agenda # <<>>, NEW s \in Scenario, Barrier(agenda[1], s)
    PROVE  LiveEntries(s) = {}
<1>1. 1 \in DOMAIN agenda /\ DOMAIN agenda = 1..Len(agenda) /\ Len(agenda) \in Nat
  BY DEF Control, ControlTyped
<1>2. \A submit : ~Ahead(agenda, 1, s, submit)
  BY <1>1 DEF Ahead
<1> QED
  BY <1>1, <1>2 DEF Barred

LEMMA GuardedInit == Init => Guarded
BY DEF Init, Guarded, Barred, Unstarted, NoFillsSince, Unhalted, Chained, LiveEntries, EmptySim,
       EmptyWorker, Unfilled, ActiveOrders

(* The bars a worker and its broker have when a bar is about to be decided *)
(* or to be traded are the traded ones, and all of them are earlier.       *)
LEMMA TradedBefore ==
    ASSUME Service, NEW s \in Scenario, Queued(ApplyOps), Last.disposition = "accepted",
           QueuedFor({"decide"}, s) \/ Event(Last.bar) \notin sim[s].bars
    PROVE  /\ w[s].bars = TradedBars
           /\ Event(Last.bar) \notin sim[s].bars => sim[s].bars = TradedBars
           /\ Current = Len(receipts) /\ bar = Last.bar
           /\ \A i \in Traded : /\ i \in DOMAIN receipts /\ i < Current /\ receipts[i].bar.ts < Last.bar.ts
                                /\ receipts[i].bar.ts \in Nat
           /\ Last.bar.ts \in Nat
<1>0. Control /\ Ledgers /\ Processed
  BY DEF Service
<1>1. /\ Unapplied # {} /\ Current = Len(receipts) /\ bar = Last.bar /\ Last.bar.ts \in Nat
  BY <1>0, InHand
<1>2. /\ Unapplied = {Len(receipts)} /\ Len(receipts) \in DOMAIN receipts
      /\ DOMAIN receipts = 1..Len(receipts) /\ Len(receipts) \in Nat
  BY <1>0, <1>1, CurrentLast
<1>3. Agree(sim[s], w[s])
  BY <1>0 DEF Ledgers
<1>4. w[s].bars \subseteq sim[s].bars
  BY <1>3 DEF Agree, Observes
<1>5. /\ TradedBars \subseteq w[s].bars
      /\ sim[s].bars \subseteq TradedBars \cup {Event(Last.bar)}
  BY <1>0, <1>1 DEF Processed, Taking
<1>6. Event(Last.bar) \notin w[s].bars
  BY <1>0, <1>4 DEF Processed
<1>7. ASSUME NEW i \in Traded
      PROVE  /\ i \in DOMAIN receipts /\ i < Current /\ receipts[i].bar.ts < Last.bar.ts
             /\ receipts[i].bar.ts \in Nat
  <2>1. i \in DOMAIN receipts /\ receipts[i].applied
    BY DEF Traded
  <2>2. i # Len(receipts)
    BY <1>2, <2>1 DEF Unapplied
  <2>3. receipts[i].bar.ts \in Nat
    BY <1>0, <2>1, ReceiptFields
  <2>4. i < Len(receipts)
    BY <1>2, <2>1, <2>2
  <2>5. receipts[i].bar.ts < Last.bar.ts
    BY <1>0, <1>2, <2>1, <2>4 DEF Control, ReceiptsInOrder, Last
  <2> QED
    BY <1>1, <2>1, <2>3, <2>4, <2>5
<1> QED
  BY <1>1, <1>4, <1>5, <1>6, <1>7

(* The worker sees a gap exactly when a minute of the receipts is missing. *)
LEMMA GapIsMissing ==
    ASSUME Service, Doing("decide")
    PROVE  Gap(w[For], Event(Last.bar)) <=> MissingEvent
<1>0. Control
  BY DEF Service
<1>1. /\ Queued(ApplyOps) /\ QueuedFor({"decide"}, For) /\ Last.disposition = "accepted"
      /\ For \in Scenario
  <2>1. agenda # <<>> /\ 1 \in DOMAIN agenda /\ agenda[1].do = "decide" /\ Queued(ApplyOps)
    BY <1>0, HeadIs DEF Queued, ApplyOps, TradeOps
  <2>2. For \in Scenario /\ For = agenda[1].for
    BY <1>0, HeadFor
  <2>3. QueuedFor({"decide"}, For)
    BY <2>1, <2>2 DEF QueuedFor, HasFor
  <2>4. Last.disposition = "accepted"
    BY <1>0, <2>1, AtStep DEF Steps, Taking
  <2> QED
    BY <2>1, <2>2, <2>3, <2>4
<1>2. /\ w[For].bars = TradedBars /\ Current = Len(receipts) /\ bar = Last.bar
      /\ \A i \in Traded : /\ i \in DOMAIN receipts /\ i < Current /\ receipts[i].bar.ts < Last.bar.ts
                           /\ receipts[i].bar.ts \in Nat
      /\ Last.bar.ts \in Nat
  BY <1>1, TradedBefore
<1>3. \A i, j \in DOMAIN receipts : i < j => receipts[i].bar.ts < receipts[j].bar.ts
  BY <1>0 DEF Control, ReceiptsInOrder
<1>4. \A i, j \in Traded : j <= i <=> receipts[j].bar.ts <= receipts[i].bar.ts
  <2>1. DOMAIN receipts = 1..Len(receipts) /\ Len(receipts) \in Nat
    BY <1>0, ReceiptFields
  <2> QED
    BY <1>2, <1>3, <2>1
<1>5. Gap(w[For], Event(Last.bar)) <=>
        \E i \in Traded : /\ \A j \in Traded : j <= i
                          /\ DayOf(receipts[i].bar.ts) = DayOf(Last.bar.ts)
                          /\ Last.bar.ts - receipts[i].bar.ts # 1
  <2> DEFINE P(i) == /\ \A j \in Traded : j <= i
                     /\ DayOf(receipts[i].bar.ts) = DayOf(Last.bar.ts)
                     /\ Last.bar.ts - receipts[i].bar.ts # 1
             G(b) == /\ \A c \in TradedBars : c.ts <= b.ts
                     /\ DayOf(b.ts) = DayOf(Last.bar.ts)
                     /\ Last.bar.ts - b.ts # 1
  <2>1. Gap(w[For], Event(Last.bar)) <=> \E b \in TradedBars : G(b)
    BY <1>2 DEF Gap, Event
  <2>2. \A i \in Traded : Event(receipts[i].bar).ts = receipts[i].bar.ts
    BY DEF Event
  <2>3. \A i \in Traded : (\A c \in TradedBars : c.ts <= receipts[i].bar.ts)
                            <=> (\A j \in Traded : receipts[j].bar.ts <= receipts[i].bar.ts)
    BY <2>2 DEF TradedBars
  <2>4. \A i \in Traded : P(i) <=> G(Event(receipts[i].bar))
    BY <1>4, <2>2, <2>3
  <2> HIDE DEF P, G
  <2>5. (\E b \in TradedBars : G(b)) <=> \E i \in Traded : G(Event(receipts[i].bar))
    BY DEF TradedBars
  <2>6. (\E b \in TradedBars : G(b)) <=> \E i \in Traded : P(i)
    BY <2>4, <2>5
  <2> USE DEF P
  <2> QED
    BY <2>1, <2>6
<1> QED
  BY <1>2, <1>5 DEF MissingEvent

(* No fill of a scenario is later than the decision of an entry that is    *)
(* still live.                                                             *)
LEMMA NoFillsNext ==
    ASSUME Service, Held, Guarded, Next
    PROVE  NoFillsSince'
<1>0. Control /\ Ledgers
  BY DEF Service
<1> SUFFICES ASSUME NEW s \in Scenario, NEW k \in LiveEntries(s)', NEW i \in DOMAIN sim'[s].fills
             PROVE  sim'[s].fills[i].ts < w'[s].intents[k].req.submitted
  BY DEF NoFillsSince
<1>1. EntrySteps(s)
  BY EntryMoves
<1>2. sim'[s].fills = sim[s].fills
  <2>1. CASE AdvancesBar(s)
    <3>1. Unfilled(sim[s]) /\ Advances(sim[s], w[s], Event(Last.bar), sim'[s]) /\ w'[s] = w[s]
      BY <2>1 DEF AdvancesBar, Guarded, Unstarted
    <3>2. k \in DOMAIN w[s].intents /\ Live(sim'[s], w[s], k)
      BY <3>1 DEF LiveEntries
    <3> QED
      BY <3>1, <3>2 DEF Advances
  <2> QED
    BY <1>1, <2>1 DEF EntrySteps
<1>3. CASE Inherits(s, k)
  <2>1. k \in LiveEntries(s) /\ w'[s].intents[k].req = w[s].intents[k].req
    BY <1>3 DEF Inherits, LiveEntries
  <2> QED
    BY <1>2, <2>1 DEF Guarded, NoFillsSince
<1>4. CASE Decides(s, k)
  <2>1. Doing("decide") /\ w'[s].intents[k].req.submitted = Last.bar.ts + 1
    BY <1>4 DEF Decides, Decide
  <2>2. receipts # <<>>
    BY <1>0, <2>1, DecideReady
  <2>3. PICK b \in sim[s].bars : b.ts = sim[s].fills[i].ts
    BY <1>2 DEF Held
  <2>4. b \in Received
    BY <1>0, <2>3 DEF Ledgers, InStep, Received
  <2>5. b.ts <= Last.bar.ts /\ b.ts \in Nat /\ Last.bar.ts \in Nat
    BY <1>0, <2>2, <2>4, LatestReceived
  <2> QED
    BY <1>2, <2>1, <2>3, <2>5
<1> QED
  BY <1>1, <1>3, <1>4 DEF EntrySteps

(* A loss limit cannot be met in a scenario with a live entry.             *)
LEMMA NotBreachable ==
    ASSUME Service, Guarded, Doing("decide"), NEW k \in LiveEntries(For)
    PROVE  ~Breachable(w[For])
<1>0. Control /\ Ledgers
  BY DEF Service
<1>1. PICK s : For = s
  OBVIOUS
<1>2. s \in Scenario /\ Agree(sim[s], w[s]) /\ w[s].fills = sim[s].fills
  BY <1>0, <1>1, DecideReady DEF Found
<1>3. k \in DOMAIN w[s].intents /\ Live(sim[s], w[s], k) /\ k \in LiveEntries(s)
  BY <1>1 DEF LiveEntries
<1>4. PICK req : w[s].intents[k].req = req
  OBVIOUS
<1>5. /\ Unfilled(sim[s]) => sim[s].lots = {}
      /\ \E b \in w[s].bars : b.ts \in Nat /\ req.submitted = b.ts + 1
  BY <1>2, <1>3, <1>4, LiveShape
<1>6. sim[s].lots = {}
  BY <1>2, <1>5 DEF Guarded, Unstarted
<1>7. Position(w[s].fills) = 0
  BY <1>2, <1>6, HoldsPosition
<1>8. ~w[s].riskHalted
  BY <1>2, <1>3 DEF Guarded, Unhalted
<1>9. ASSUME NEW i \in DOMAIN w[s].fills, \A b \in w[s].bars : b.ts < w[s].fills[i].ts
      PROVE  FALSE
  <2>1. w[s].fills[i].ts < req.submitted
    BY <1>2, <1>3, <1>4, <1>9 DEF Guarded, NoFillsSince
  <2>2. w[s].fills[i].ts \in Nat
    <3>1. w[s] \in WorkerLedger
      BY <1>2 DEF Agree
    <3>2. w[s].fills[i] \in Fill
      BY <1>9, <3>1, WorkerFields
    <3> QED
      BY <3>2 DEF Fill
  <2> QED
    BY <1>5, <1>9, <2>1, <2>2
<1> QED
  BY <1>1, <1>7, <1>8, <1>9 DEF Breachable

(* A halt finds no live entry: its day is never a halted one, nor is its   *)
(* scenario halted for review.                                             *)
LEMMA UnhaltedNext ==
    ASSUME Service, Guarded, Next
    PROVE  Unhalted'
<1>0. Control /\ Ledgers /\ Barred
  BY DEF Service, Guarded
<1> SUFFICES ASSUME NEW s \in Scenario, NEW k \in LiveEntries(s)'
             PROVE  w'[s].intents[k].req.id.day \notin w'[s].halted /\ ~w'[s].riskHalted
  BY DEF Unhalted
<1>1. EntrySteps(s)
  BY EntryMoves
<1>2. CASE Inherits(s, k)
  <2>1. k \in LiveEntries(s) /\ w'[s].intents[k].req = w[s].intents[k].req
    BY <1>2 DEF Inherits, LiveEntries
  <2>2. w[s].intents[k].req.id.day \notin w[s].halted /\ ~w[s].riskHalted
    BY <2>1 DEF Guarded, Unhalted
  <2>3. CASE SameHalts(s)
    BY <2>1, <2>2, <2>3 DEF SameHalts
  <2>4. CASE HaltEntries /\ agenda[1].for = s
    <3>1. agenda # <<>> /\ agenda[1].do = "halt"
      BY <1>0, <2>4, HeadIs DEF HaltEntries
    <3>2. Barrier(agenda[1], s)
      BY <2>4, <3>1 DEF Barrier, Stops
    <3> QED
      BY <1>0, <2>1, <3>1, <3>2, AheadFirst
  <2>5. CASE DecidesHalts(s)
    <3>1. Doing("decide")
      BY <2>5 DEF DecidesHalts, Decide
    <3>2. agenda # <<>> /\ agenda[1].do = "decide" /\ For = s
      BY <1>0, <2>5, <3>1, HeadIs, HeadFor DEF DecidesHalts
    <3>3. ~MissingEvent
      <4>1. MissingEvent => Barrier(agenda[1], s)
        BY <2>5, <3>2 DEF Barrier, Stops, Steps, DecidesHalts
      <4> QED
        BY <1>0, <2>1, <3>2, <4>1, AheadFirst
    <3>4. ~Gap(w[s], Event(Last.bar))
      BY <3>1, <3>2, <3>3, GapIsMissing
    <3>5. ~Breachable(w[s])
      BY <2>1, <3>1, <3>2, NotBreachable
    <3>6. /\ w'[s].halted = Observed(w[s], Event(Last.bar), "none").halted
          /\ w'[s].riskHalted = Observed(w[s], Event(Last.bar), "none").riskHalted
      BY <2>5, <3>5 DEF DecidesHalts
    <3>7. w'[s].halted = w[s].halted \cup {} /\ w'[s].riskHalted = (w[s].riskHalted \/ FALSE)
      BY <3>4, <3>6 DEF Observed
    <3> QED
      BY <2>1, <2>2, <3>7
  <2> QED
    BY <1>1, <2>3, <2>4, <2>5 DEF EntrySteps
<1>3. CASE Decides(s, k)
  BY <1>3 DEF Decides
<1> QED
  BY <1>1, <1>2, <1>3 DEF EntrySteps

LEMMA UnstartedNext ==
    ASSUME Service, Guarded, Next
    PROVE  Unstarted'
BY EntryMoves DEF EntrySteps, Guarded, Unstarted

(* A live entry whose life covers the bar that is traded: the bar is of    *)
(* the day of the decision, no minute is missing since the decision, and   *)
(* all of it is on the active contract.                                    *)
Covers(req) ==
    /\ DayOf(Last.bar.ts) = req.id.day
    /\ \A ts \in (req.submitted - 1)..Last.bar.ts : TradedAt(ts) /\ ContractAt(ts) = contract

LEMMA NextMinute ==
    ASSUME Service, Guarded, Next, NEW s \in Scenario, AdvancesBar(s),
           NEW k \in LiveEntries(s), NEW req, w[s].intents[k].req = req,
           Last.bar.ts < req.expires
    PROVE  Covers(req)
<1>0. Control /\ Ledgers /\ Barred
  BY DEF Service, Guarded
<1>1. Doing("advance") /\ agenda[1].for = s /\ Event(Last.bar) \notin sim[s].bars
  BY DEF AdvancesBar, Advance
<1>2. agenda # <<>> /\ agenda[1].do = "advance" /\ Queued(ApplyOps)
  BY <1>0, <1>1, HeadIs DEF Queued, ApplyOps, TradeOps
<1>3. Last.disposition = "accepted" /\ Unapplied # {}
  BY <1>0, <1>2, AtStep DEF Taking, Steps
<1>4. ~MissingEvent
  <2>1. MissingEvent => Barrier(agenda[1], s)
    BY <1>1, <1>2 DEF Barrier, Stops, Steps
  <2> QED
    BY <1>0, <1>2, <2>1, AheadFirst
<1>5. /\ sim[s].bars = TradedBars /\ Current = Len(receipts) /\ bar = Last.bar
      /\ \A i \in Traded : /\ i \in DOMAIN receipts /\ i < Current /\ receipts[i].bar.ts < Last.bar.ts
                           /\ receipts[i].bar.ts \in Nat
      /\ Last.bar.ts \in Nat
  BY <1>1, <1>2, <1>3, TradedBefore
<1>6. k \in DOMAIN w[s].intents /\ Live(sim[s], w[s], k) /\ Agree(sim[s], w[s])
  BY <1>0 DEF LiveEntries, Ledgers
<1>7. /\ req.submitted \in Nat /\ req.eligible \in Nat /\ req.expires \in Nat
      /\ req.submitted + Latency <= req.eligible /\ req.expires = req.eligible + EntryLife
      /\ Minute(req.submitted - 1) = OpeningBars - 1
      /\ \E b \in w[s].bars : /\ b \in sim[s].bars /\ b.ts \in Nat /\ req.submitted = b.ts + 1
                              /\ req.id.day = DayOf(b.ts)
  BY <1>6, LiveShape
<1>8. PICK p \in Traded : req.submitted = receipts[p].bar.ts + 1 /\ req.id.day = DayOf(receipts[p].bar.ts)
  <2>1. PICK b \in TradedBars : req.submitted = b.ts + 1 /\ req.id.day = DayOf(b.ts)
    BY <1>5, <1>7
  <2>2. PICK p \in Traded : b = Event(receipts[p].bar)
    BY DEF TradedBars
  <2> QED
    BY <2>1, <2>2 DEF Event
<1>9. PICK a : receipts[p].bar.ts = a
  OBVIOUS
<1>10. a \in Nat /\ a < Last.bar.ts /\ Minute(a) = OpeningBars - 1 /\ req.submitted = a + 1
  <2>1. a \in Nat /\ a < Last.bar.ts /\ req.submitted = a + 1
    BY <1>5, <1>8, <1>9
  <2>2. req.submitted - 1 = a
    BY <2>1
  <2> QED
    BY <1>7, <2>1, <2>2
<1>11. Latency \in Nat /\ EntryLife \in Nat
  BY SessionAssumption
<1>12. receipts # <<>>
  BY <1>5, <1>8
<1>13. Len(receipts) \in DOMAIN receipts /\ Last.bar.ts = LastTs
  BY <1>0, <1>12, LatestReceived
<1>14. req.eligible = req.submitted + Latency
  <2>1. req.submitted + Latency < req.eligible => req.submitted = LastTs + 1
    BY <1>0, <1>6 DEF Ledgers, LateCancelled
  <2>2. Last.bar.ts \in Nat /\ LastTs = Last.bar.ts
    BY <1>5, <1>13
  <2>3. req.submitted # LastTs + 1
    BY <1>10, <2>2
  <2> QED
    BY <1>7, <1>11, <2>1, <2>3
<1>15. DayOf(Last.bar.ts) = DayOf(a)
  <2>1. Last.bar.ts < a + 1 + Latency + EntryLife
    BY <1>5, <1>7, <1>10, <1>11, <1>14
  <2> QED
    BY <1>5, <1>10, <2>1, EntryDay
<1>16. PICK m \in Traded : \A i \in Traded : i <= m
  <2>1. DOMAIN receipts = 1..Len(receipts) /\ Len(receipts) \in Nat
    BY <1>0, ReceiptFields
  <2>2. Traded \subseteq 1..Len(receipts)
    BY <1>5, <2>1
  <2> QED
    BY <1>8, <2>1, <2>2, GreatestNat
<1>17. PICK c : receipts[m].bar.ts = c
  OBVIOUS
<1>18. c \in Nat /\ c < Last.bar.ts /\ a <= c
  <2>1. a <= c
    <3>1. DOMAIN receipts = 1..Len(receipts) /\ Len(receipts) \in Nat
      BY <1>0, ReceiptFields
    <3>2. p = m \/ p < m
      BY <1>5, <1>8, <1>16, <3>1
    <3> QED
      BY <1>0, <1>5, <1>8, <1>9, <1>10, <1>16, <1>17, <3>2 DEF Control, ReceiptsInOrder
  <2> QED
    BY <1>5, <1>16, <1>17, <2>1
<1>19. DayOf(c) = DayOf(Last.bar.ts)
  <2>1. DayOf(a) <= DayOf(c)
    BY <1>10, <1>18, DayMonotone
  <2>2. DayOf(c) <= DayOf(Last.bar.ts)
    <3>1. PICK z \in Nat : Last.bar.ts = z
      BY <1>5
    <3>2. c <= z
      BY <1>18, <3>1
    <3> QED
      BY <1>18, <3>1, <3>2, DayMonotone
  <2>3. DayOf(a) \in Nat /\ DayOf(c) \in Nat
    BY <1>10, <1>18, DayNat
  <2> QED
    BY <1>15, <2>1, <2>2, <2>3
<1>20. Last.bar.ts = c + 1
  <2>1. Last.bar.ts - c = 1
    BY <1>4, <1>5, <1>16, <1>17, <1>19 DEF MissingEvent
  <2> QED
    BY <1>5, <1>18, <2>1
<1>21. contract = Last.bar.contract
  <2>1. Filled(s) /\ sim'[s].bars = sim[s].bars \cup {Event(Last.bar)}
    BY StepFills DEF AdvancesBar, Advances
  <2> QED
    BY <1>1, <2>1 DEF Filled
<1>22. ASSUME NEW ts \in (req.submitted - 1)..Last.bar.ts
       PROVE  TradedAt(ts) /\ ContractAt(ts) = contract
  <2>1. CASE ts <= c
    <3>1. Event(receipts[m].bar) \in sim[s].bars /\ Event(receipts[m].bar).ts = c
      BY <1>5, <1>16, <1>17 DEF TradedBars, Event
    <3>2. ts \in (req.submitted - 1)..Event(receipts[m].bar).ts
      BY <1>10, <1>18, <1>22, <2>1, <3>1
    <3>3. \A e \in sim[s].bars : \A x \in (w[s].intents[k].req.submitted - 1)..e.ts :
             TradedAt(x) /\ ContractAt(x) = contract
      BY <1>0 DEF Guarded, Chained
    <3> QED
      BY <3>1, <3>2, <3>3
  <2>2. CASE ~(ts <= c)
    <3>1. ts = Last.bar.ts
      BY <1>5, <1>10, <1>18, <1>20, <1>22, <2>2
    <3>2. TradedAt(ts)
      BY <1>3, <1>13, <3>1 DEF TradedAt, Last
    <3>3. ContractAt(receipts[Len(receipts)].bar.ts) = receipts[Len(receipts)].bar.contract
      BY <1>0, <1>13, ReceiptFields
    <3> QED
      BY <1>21, <3>1, <3>2, <3>3 DEF Last
  <2> QED
    BY <2>1, <2>2
<1> QED
  BY <1>8, <1>9, <1>15, <1>22 DEF Covers

(***************************************************************************)
(* Every step that no live entry survives has a cancel ahead of it         *)
(***************************************************************************)
LEMMA BarredThen ==
    ASSUME Control, Barred, agenda # <<>>, NEW ops \in Seq(Agenda), Then(ops),
           NEW s \in Scenario, NEW k \in LiveEntries(s),
           NEW submit \in BOOLEAN, submit => k \notin DOMAIN sim[s].orders,
           NEW rolls, NEW missing,
           \A j \in DOMAIN agenda : j # 1 /\ Stops(agenda[j], s, rolls, missing) => Barrier(agenda[j], s),
           \A m \in DOMAIN ops : Stops(ops[m], s, rolls, missing) => Ahead(ops, m, s, TRUE),
           agenda[1] = [do |-> "cancel", for |-> s] => submit,
           submit /\ agenda[1] = [do |-> "dispatch", for |-> s] =>
               \E m \in DOMAIN ops : ops[m] = [do |-> "dispatch", for |-> s]
    PROVE  \A f \in DOMAIN agenda' : Stops(agenda'[f], s, rolls, missing) => Ahead(agenda', f, s, submit)
<1>1. PICK q : agenda' = q
  OBVIOUS
<1>2. agenda \in Seq(Agenda) /\ ops \o Tail(agenda) = q
  BY <1>1 DEF Control, ControlTyped, Then
<1>3. Spliced(agenda, ops, q)
  BY <1>2, Replaced
<1> SUFFICES ASSUME NEW f \in DOMAIN q, Stops(q[f], s, rolls, missing)
             PROVE  Ahead(q, f, s, submit)
  BY <1>1
<1>4. CASE f \in DOMAIN ops
  <2>1. q[f] = ops[f] /\ \A i \in DOMAIN ops : i \in DOMAIN q /\ q[i] = ops[i]
    BY <1>3, <1>4 DEF Spliced
  <2>2. Ahead(ops, f, s, TRUE)
    BY <1>4, <2>1
  <2> QED
    BY <2>1, <2>2 DEF Ahead
<1>5. CASE f \notin DOMAIN ops
  <2>1. PICK j \in DOMAIN agenda : j # 1 /\ q[f] = agenda[j] /\ f = j - 1 + Len(ops)
    <3>1. /\ f + 1 - Len(ops) \in DOMAIN agenda /\ f + 1 - Len(ops) # 1
          /\ q[f] = agenda[f + 1 - Len(ops)]
      BY <1>3, <1>5 DEF Spliced
    <3>2. f \in Int /\ Len(ops) \in Int
      BY <1>3 DEF Spliced
    <3>3. f = (f + 1 - Len(ops)) - 1 + Len(ops)
      BY <3>2
    <3> QED
      BY <3>1, <3>3
  <2>2. Barrier(agenda[j], s)
    BY <2>1
  <2>3. Ahead(agenda, j, s, k \notin DOMAIN sim[s].orders)
    BY <2>2 DEF Barred
  <2>4. Ahead(agenda, j, s, submit)
    BY <2>3, AheadWeak
  <2>5. Ahead(q, j - 1 + Len(ops), s, submit)
    BY <1>3, <2>1, <2>4, AheadStays
  <2> QED
    BY <2>1, <2>5
<1> QED
  BY <1>4, <1>5

(* A call that starts, and one that an exception or a crash ends.          *)
LEMMA StartsShielded ==
    ASSUME Control, Reset \/ Restart \/ Receive \/ (Raise /\ agenda # <<>>)
    PROVE  Shielded(agenda')
<1>0. now \in Nat /\ DayOf(now) \in Nat
  BY DayNat DEF Control, ControlTyped
<1>1. CASE agenda' = <<>>
  BY <1>1, NothingStops
<1>2. ASSUME NEW hardly \in BOOLEAN, agenda' = HaltDay(DayOf(now), hardly)
      PROVE  Shielded(agenda')
  BY <1>0, <1>2, HaltShielded
<1>3. CASE Crash \/ PassMinute \/ Connect
  <2>1. agenda' = <<>>
    BY <1>3 DEF Crash, PassMinute, Connect, Idle
  <2> QED
    BY <1>1, <2>1
<1>4. CASE Started \/ Disconnect \/ ReceiveUnmapped
  BY <1>2, <1>4 DEF Started, Disconnect, ReceiveUnmapped
<1>5. CASE ReceiveInvalid
  BY <1>0, <1>5, HaltThenShielded DEF ReceiveInvalid
<1>6. CASE BeginClose \/ Restart \/ Receive
  <2>1. ~Has(agenda', {"halt", "flat", "pin", "contract"} \cup Steps)
    <3>1. CASE BeginClose
      <4> DEFINE Q == <<[do |-> "reconcile", for |-> "baseline"],
                        [do |-> "reconcile", for |-> "worse_costs"], [do |-> "close"]>>
      <4>1. Q = Each(ReconcileOf) \o Do("close")
        BY DEF Each, Family, ReconcileOf, Do, DoFor
      <4>2. agenda' = Q
        BY <3>1, <4>1 DEF BeginClose
      <4>3. ~Has(Q, {"halt", "flat", "pin", "contract"} \cup Steps)
        BY DEF Has, Steps
      <4> QED
        BY <4>2, <4>3
    <3>2. CASE Restart
      <4>1. /\ \A some : Queued(some)' => some \cap {"reconcile", "dispatch", "resume", "started"} # {}
        BY <3>2, RestartControl
      <4>2. ~Queued({"halt", "flat", "pin", "contract"} \cup Steps)'
        BY <4>1 DEF Steps
      <4> QED
        BY <4>2 DEF Queued
    <3>3. CASE Receive
      <4>1. agenda' = <<[do |-> "apply"]>>
        BY <3>3 DEF Receive, Do
      <4> QED
        BY <4>1 DEF Has, Steps
    <3> QED
      BY <1>6, <3>1, <3>2, <3>3
  <2> QED
    BY <2>1, NothingStops DEF Has
<1>7. CASE Raise /\ agenda # <<>>
  <2>1. agenda' = <<>> \/ agenda' = HaltDay(DayOf(now), TRUE) \o HaltDay(DayOf(now), FALSE)
    BY <1>7 DEF Raise
  <2> QED
    BY <1>0, <1>1, <2>1, HaltsShielded
<1> QED
  BY <1>3, <1>4, <1>5, <1>6, <1>7 DEF Reset

LEMMA BarredNext ==
    ASSUME Service, Guarded, Next
    PROVE  Barred'
<1>0. Control /\ Ledgers /\ Barred /\ Untouched /\ Control'
  BY ControlNext DEF Service, Guarded
<1> SUFFICES ASSUME NEW s \in Scenario, NEW k \in LiveEntries(s)', NEW f \in DOMAIN agenda',
                    Stops(agenda'[f], s, Rolling', MissingEvent')
             PROVE  Ahead(agenda', f, s, k \notin DOMAIN sim'[s].orders)
  BY DEF Barred, Barrier
<1> DEFINE submit == k \notin DOMAIN sim'[s].orders
<1>1. EntrySteps(s) /\ submit \in BOOLEAN
  BY EntryMoves
<1>2. CASE Shielded(agenda')
  <2>1. Ahead(agenda', f, s, TRUE)
    BY <1>2 DEF Shielded
  <2> QED
    BY <2>1, AheadWeak
<1>3. Inherits(s, k) => k \in LiveEntries(s) /\ LiveEntries(s) # {}
  BY DEF Inherits, LiveEntries
<1>4. ASSUME NEW do, Doing(do)
      PROVE  /\ agenda # <<>> /\ agenda \in Seq(Agenda) /\ InOrder(agenda) /\ 1 \in DOMAIN agenda
             /\ agenda[1].do = do
             /\ do # "decide" => Inherits(s, k)
             /\ Inherits(s, k) => ~Barrier(agenda[1], s)
  <2>1. /\ agenda # <<>> /\ agenda \in Seq(Agenda) /\ InOrder(agenda) /\ 1 \in DOMAIN agenda
        /\ agenda[1].do = do
    BY <1>0, <1>4, HeadIs
  <2>2. do # "decide" => Inherits(s, k)
    <3>1. Decides(s, k) => do = "decide"
      BY <1>4 DEF Decides, Decide, Doing
    <3> QED
      BY <1>1, <3>1 DEF EntrySteps
  <2>3. Inherits(s, k) => ~Barrier(agenda[1], s)
    BY <1>0, <1>3, <2>1, AheadFirst
  <2> QED
    BY <2>1, <2>2, <2>3
<1>5. ASSUME NEW do, Doing(do), Inherits(s, k), NEW ops \in Seq(Agenda), Then(ops),
             do = "cancel" => CancelEntries,
             do = "dispatch" => Dispatch /\ \/ Pending(w[agenda[1].for]) = {}
                                            \/ \E m \in DOMAIN ops : ops[m] = agenda[1],
             \A j \in DOMAIN agenda : j # 1 /\ Stops(agenda[j], s, Rolling', MissingEvent')
                                         => Barrier(agenda[j], s),
             \A m \in DOMAIN ops : Stops(ops[m], s, Rolling', MissingEvent') => Ahead(ops, m, s, TRUE)
      PROVE  Ahead(agenda', f, s, submit)
  <2>1. agenda # <<>> /\ agenda[1].do = do
    BY <1>4, <1>5
  <2>2. k \in LiveEntries(s) /\ (submit => k \notin DOMAIN sim[s].orders)
    BY <1>3, <1>5 DEF Inherits
  <2>3. agenda[1] = [do |-> "cancel", for |-> s] => submit
    <3>1. agenda[1] = [do |-> "cancel", for |-> s] => CancelEntries /\ agenda[1].for = s
      BY <1>5, <2>1
    <3> QED
      BY <1>1, <3>1 DEF EntrySteps
  <2>4. submit /\ agenda[1] = [do |-> "dispatch", for |-> s] =>
            \E m \in DOMAIN ops : ops[m] = [do |-> "dispatch", for |-> s]
    <3> SUFFICES ASSUME submit, agenda[1] = [do |-> "dispatch", for |-> s]
                 PROVE  \E m \in DOMAIN ops : ops[m] = [do |-> "dispatch", for |-> s]
      OBVIOUS
    <3>1. Dispatch /\ agenda[1].for = s
      BY <1>5, <2>1
    <3>2. Pending(w[s]) # {}
      BY <1>1, <3>1 DEF EntrySteps
    <3> QED
      BY <1>5, <2>1, <3>1, <3>2
  <2> HIDE DEF submit
  <2>5. \A g \in DOMAIN agenda' :
           Stops(agenda'[g], s, Rolling', MissingEvent') => Ahead(agenda', g, s, submit)
    BY <1>0, <1>1, <1>5, <2>1, <2>2, <2>3, <2>4, BarredThen
  <2> QED
    BY <2>5
<1>6. receipts' = receipts => (MissingEvent' <=> MissingEvent) /\ Last' = Last
  BY DEF MissingEvent, Traded, Current, Unapplied, bar, Last
<1>7. UNCHANGED <<receipts, contract>> => (Rolling' <=> Rolling)
  BY <1>6 DEF Rolling
<1>8. UNCHANGED <<receipts, contract>> =>
         \A op : Stops(op, s, Rolling', MissingEvent') => Barrier(op, s)
  BY <1>6, <1>7 DEF Barrier, Stops
<1>9. <<>> \in Seq(Agenda) /\ \A m \in DOMAIN <<>> : FALSE
  OBVIOUS
<1>10. CASE Reset \/ Restart \/ Receive \/ (Raise /\ agenda # <<>>)
  BY <1>0, <1>2, <1>10, StartsShielded
<1>11. ASSUME NEW do, Doing(do), UNCHANGED <<receipts, contract>>, Then(<<>>), do # "decide",
              do = "cancel" => CancelEntries,
              do = "dispatch" => Dispatch /\ Pending(w[agenda[1].for]) = {}
       PROVE  Ahead(agenda', f, s, submit)
  <2>1. Inherits(s, k)
    BY <1>4, <1>11
  <2> HIDE DEF submit
  <2> QED
    BY <1>5, <1>8, <1>9, <1>11, <2>1
<1>12. CASE Reconcile
  <2>1. CASE ReconcileError(w[For], sim[For]) = "none"
    <3>1. Doing("reconcile") /\ Then(<<>>) /\ UNCHANGED <<receipts, contract>>
      BY <1>12, <2>1 DEF Reconcile, tables
    <3> QED
      BY <1>11, <3>1
  <2>2. CASE ReconcileError(w[For], sim[For]) # "none"
    BY <1>10, <1>12, <2>2 DEF Reconcile, Doing
  <2> QED
    BY <2>1, <2>2
<1>13. CASE Dispatch
  <2>1. Doing("dispatch") /\ UNCHANGED <<receipts, contract>>
    BY <1>13 DEF Dispatch, tables
  <2>2. agenda[1] = [do |-> "dispatch", for |-> For] /\ For = agenda[1].for
    BY <1>0, <2>1, HeadFor
  <2>3. CASE Pending(w[For]) = {}
    <3>1. Then(<<>>)
      BY <1>13, <2>3 DEF Dispatch
    <3> QED
      BY <1>11, <1>13, <2>1, <2>2, <2>3, <3>1
  <2>4. CASE Pending(w[For]) # {} /\ Refused(sim[For], w[For].intents[FirstPending(For)].req)
    BY <1>10, <1>13, <2>4 DEF Dispatch, Doing
  <2>5. CASE Pending(w[For]) # {} /\ ~Refused(sim[For], w[For].intents[FirstPending(For)].req)
    <3>1. agenda' = DoFor("acknowledge", For) \o agenda
      BY <1>13, <2>5 DEF Dispatch
    <3>2. PICK t : For = t
      OBVIOUS
    <3>3. /\ agenda \in Seq(Agenda) /\ agenda # <<>> /\ Inherits(s, k)
          /\ t \in Scenario /\ agenda[1] = [do |-> "dispatch", for |-> t]
      BY <1>0, <1>4, <2>1, <2>2, <3>2, HeadFor
    <3> DEFINE Q == <<[do |-> "acknowledge", for |-> t], [do |-> "dispatch", for |-> t]>>
    <3>4. /\ [do |-> "acknowledge", for |-> t] \in Agenda /\ [do |-> "dispatch", for |-> t] \in Agenda
      BY <3>3 DEF Agenda
    <3>5. /\ Q \in Seq(Agenda) /\ DOMAIN Q = {1, 2} /\ Q[1] = [do |-> "acknowledge", for |-> t]
          /\ Q[2] = [do |-> "dispatch", for |-> t]
      BY <3>4
    <3>6. Then(Q)
      <4>1. agenda' = <<[do |-> "acknowledge", for |-> t]>> \o agenda
        BY <3>1, <3>2 DEF DoFor
      <4> QED
        BY <3>3, <3>4, <4>1 DEF Then
    <3> HIDE DEF Q
    <3>7. \A m \in DOMAIN Q : ~Stops(Q[m], s, Rolling', MissingEvent')
      BY <3>5 DEF Stops, Steps
    <3>8. \E m \in DOMAIN Q : Q[m] = agenda[1]
      BY <3>3, <3>5
    <3>9. /\ \A j \in DOMAIN agenda : j # 1 /\ Stops(agenda[j], s, Rolling', MissingEvent')
                                      => Barrier(agenda[j], s)
          /\ \A m \in DOMAIN Q : Stops(Q[m], s, Rolling', MissingEvent') => Ahead(Q, m, s, TRUE)
      BY <1>8, <2>1, <3>7
    <3>10. /\ "dispatch" = "cancel" => CancelEntries
           /\ "dispatch" = "dispatch" => Dispatch /\ \/ Pending(w[agenda[1].for]) = {}
                                                     \/ \E m \in DOMAIN Q : Q[m] = agenda[1]
      BY <1>13, <3>8
    <3>11. Q \in Seq(Agenda) /\ Inherits(s, k)
      BY <3>3, <3>5
    <3>12. Ahead(agenda', f, s, submit)
      <4> HIDE DEF submit
      <4> QED
        BY <1>5, <2>1, <3>6, <3>9, <3>10, <3>11, Zenon
    <3> QED
      BY <3>12
  <2> QED
    BY <2>3, <2>4, <2>5
<1>14. CASE Acknowledge \/ MarkHard \/ CancelEntries \/ HaltEntries \/ Advance \/ CountOpportunity
  <2>1. PICK do : /\ Doing(do) /\ do \notin {"decide", "dispatch"} /\ Then(<<>>)
                  /\ UNCHANGED <<receipts, contract>> /\ (do = "cancel" => CancelEntries)
    BY <1>14 DEF Acknowledge, MarkHard, CancelEntries, HaltEntries, Advance, CountOpportunity, tables
  <2> QED
    BY <1>11, <2>1
<1>15. CASE BeginApply \/ CheckContract \/ CheckFlat
  <2>1. PICK do \in {"apply", "contract", "flat"} : Doing(do) /\ UNCHANGED <<receipts, contract>>
    BY <1>15 DEF BeginApply, CheckContract, CheckFlat, tables
  <2>2. agenda[1].do = do /\ Inherits(s, k) /\ ~Barrier(agenda[1], s) /\ Queued(ApplyOps)
    BY <1>0, <1>4, <2>1, HeadIs DEF ApplyOps, TradeOps, Queued
  <2>3. bar = Last.bar /\ ReceivedDay \in Nat /\ DayOf(now) \in Nat
    BY <1>0, <2>2, InHand, DayNat DEF Control, ControlTyped
  <2>4. do # "flat" /\ (do = "contract" => ~MissingEvent)
    BY <2>2 DEF Barrier, Stops
  <2>5. ASSUME NEW ops \in Seq(Agenda), Then(ops),
               \A m \in DOMAIN ops : Barrier(ops[m], s) => Ahead(ops, m, s, TRUE)
        PROVE  Ahead(agenda', f, s, submit)
    <3>1. /\ \A j \in DOMAIN agenda : j # 1 /\ Stops(agenda[j], s, Rolling', MissingEvent')
                                       => Barrier(agenda[j], s)
          /\ \A m \in DOMAIN ops : Stops(ops[m], s, Rolling', MissingEvent') => Ahead(ops, m, s, TRUE)
      BY <1>8, <2>1, <2>5
    <3> HIDE DEF submit
    <3> QED
      BY <1>5, <2>1, <2>2, <2>5, <3>1
  <2>6. ASSUME NEW day \in Nat, NEW hardly \in BOOLEAN,
               NEW x \in {"contract", "applied", "flat", "exclude", "raise"},
               Then(HaltDay(day, hardly) \o Do(x))
        PROVE  Ahead(agenda', f, s, submit)
    <3>1. PICK ops : HaltDay(day, hardly) \o Do(x) = ops
      OBVIOUS
    <3>2. ops \in Seq(Agenda) /\ Shielded(ops)
      BY <3>1, HaltThenShielded
    <3>3. \A m \in DOMAIN ops : Barrier(ops[m], s) => Ahead(ops, m, s, TRUE)
      BY <3>2 DEF Shielded, Barrier
    <3>4. Then(ops)
      BY <2>6, <3>1
    <3> HIDE DEF submit
    <3> QED
      BY <2>5, <3>2, <3>3, <3>4
  <2>7. ASSUME NEW x \in {"contract", "applied", "pin"}, Then(Do(x)),
               x = "pin" => ~Rolling, x # "applied" => ~MissingEvent
        PROVE  Ahead(agenda', f, s, submit)
    <3>1. PICK ops : Do(x) = ops
      OBVIOUS
    <3>2. ops \in Seq(Agenda) /\ \A some : Has(ops, some) => x \in some
      BY <3>1, Alone
    <3>3. \A m \in DOMAIN ops : ops[m].do = x
      <4>1. ASSUME NEW m \in DOMAIN ops
            PROVE  ops[m].do = x
        <5>1. Has(ops, {ops[m].do})
          BY DEF Has
        <5> QED
          BY <3>2, <5>1
      <4> QED
        BY <4>1
    <3>4. \A m \in DOMAIN ops : ~Barrier(ops[m], s)
      BY <2>7, <3>3 DEF Barrier, Stops, Steps
    <3>5. Then(ops)
      BY <2>7, <3>1
    <3> HIDE DEF submit
    <3> QED
      BY <2>5, <3>2, <3>4, <3>5
  <2>8. CASE BeginApply
    <3>1. \/ MissingEvent /\ Then(HaltDay(ReceivedDay, FALSE) \o Do("contract"))
          \/ ~MissingEvent /\ Then(Do("contract"))
          \/ Then(HaltDay(DayOf(now), FALSE) \o Do("applied")) \/ Then(Do("applied"))
      <4>1. CASE receipts[Current].disposition = "accepted"
        <5>1. CASE MissingEvent
          BY <2>8, <4>1, <5>1 DEF BeginApply
        <5>2. CASE ~MissingEvent
          <6>1. PICK c : Do("contract") = c
            OBVIOUS
          <6>2. Then(<<>> \o c)
            BY <2>8, <4>1, <5>2, <6>1 DEF BeginApply
          <6>3. c \in Seq(Agenda)
            BY <6>1, Alone
          <6>4. <<>> \o c = c
            BY <6>3
          <6> QED
            BY <5>2, <6>1, <6>2, <6>4
        <5> QED
          BY <5>1, <5>2
      <4>2. CASE receipts[Current].disposition # "accepted"
        BY <2>8, <4>2 DEF BeginApply
      <4> QED
        BY <4>1, <4>2
    <3> QED
      BY <2>3, <2>6, <2>7, <3>1
  <2>9. CASE CheckContract
    <3>1. ~MissingEvent
      BY <1>0, <2>2, <2>4, <2>9, HeadIs DEF CheckContract
    <3>2. Rolls <=> Rolling
      BY <2>3 DEF Rolls, Rolling
    <3>3. \/ ~Rolls /\ Then(Do("pin"))
          \/ \E hardly \in BOOLEAN, x \in {"exclude", "flat"} : Then(HaltDay(ReceivedDay, hardly) \o Do(x))
      BY <2>9 DEF CheckContract
    <3> QED
      BY <2>3, <2>6, <2>7, <3>1, <3>2, <3>3
  <2>10. CASE CheckFlat
    BY <1>0, <2>2, <2>4, <2>10, HeadIs DEF CheckFlat
  <2> QED
    BY <1>15, <2>8, <2>9, <2>10
<1>16. ASSUME NEW do, Doing(do), do \notin {"cancel", "dispatch", "decide"}, UNCHANGED <<receipts, contract>>,
              NEW ops \in Seq(Agenda), Then(ops),
              \A m \in DOMAIN ops : Barrier(ops[m], s) => Ahead(ops, m, s, TRUE)
       PROVE  Ahead(agenda', f, s, submit)
  <2>1. /\ \A j \in DOMAIN agenda : j # 1 /\ Stops(agenda[j], s, Rolling', MissingEvent')
                                     => Barrier(agenda[j], s)
        /\ \A m \in DOMAIN ops : Stops(ops[m], s, Rolling', MissingEvent') => Ahead(ops, m, s, TRUE)
    BY <1>8, <1>16
  <2>2. Inherits(s, k)
    BY <1>4, <1>16
  <2> HIDE DEF submit
  <2> QED
    BY <1>5, <1>16, <2>1, <2>2
<1>17. CASE BeginStep
  <2>1. Doing("step") /\ UNCHANGED <<receipts, contract>>
    BY <1>17 DEF BeginStep, tables
  <2>2. PICK t : For = t
    OBVIOUS
  <2>3. t \in Scenario /\ agenda[1] = [do |-> "step", for |-> t]
    BY <1>0, <2>1, <2>2, HeadFor
  <2>4. t = s => ~MissingEvent
    <3>1. ~Barrier(agenda[1], s)
      BY <1>4, <2>1
    <3> QED
      BY <2>3, <3>1 DEF Barrier, Stops, Steps
  <2> DEFINE Q == <<[do |-> "reconcile", for |-> t], [do |-> "decide", for |-> t],
                    [do |-> "dispatch", for |-> t]>>
  <2>5. Q = DoFor("reconcile", t) \o DoFor("decide", t) \o DoFor("dispatch", t)
    BY DEF DoFor
  <2>6. /\ Q \in Seq(Agenda)
        /\ \A m \in DOMAIN Q : Q[m].do \in {"reconcile", "decide", "dispatch"} /\ Q[m].for = t
    <3>1. /\ [do |-> "reconcile", for |-> t] \in Agenda /\ [do |-> "decide", for |-> t] \in Agenda
          /\ [do |-> "dispatch", for |-> t] \in Agenda
      BY <2>3 DEF Agenda
    <3> QED
      BY <3>1
  <2>7. Then(IF Event(bar) \in w[t].bars THEN <<>> ELSE Q)
    BY <1>17, <2>2, <2>5 DEF BeginStep
  <2> HIDE DEF Q
  <2>8. Then(<<>>) \/ Then(Q)
    BY <2>7
  <2>9. \A m \in DOMAIN Q : ~Barrier(Q[m], s)
    BY <2>4, <2>6 DEF Barrier, Stops, Steps
  <2>10. CASE Then(Q)
    BY <1>16, <2>1, <2>6, <2>9, <2>10
  <2>11. CASE Then(<<>>)
    BY <1>11, <2>1, <2>11
  <2> QED
    BY <2>8, <2>10, <2>11
<1>18. CASE Resume
  <2>1. Doing("resume") /\ UNCHANGED <<receipts, contract>>
    BY <1>18 DEF Resume, tables
  <2> DEFINE Q == <<[do |-> "apply"], [do |-> "resume"]>>
  <2>2. Q = Do("apply") \o Do("resume")
    BY DEF Do
  <2>3. Q \in Seq(Agenda) /\ \A m \in DOMAIN Q : Q[m].do \in {"apply", "resume"}
    <3>1. [do |-> "apply"] \in Agenda /\ [do |-> "resume"] \in Agenda
      BY DEF Agenda
    <3> QED
      BY <3>1
  <2>4. Then(<<>>) \/ Then(Q)
    BY <1>18, <2>2 DEF Resume
  <2> HIDE DEF Q
  <2>5. \A m \in DOMAIN Q : ~Barrier(Q[m], s)
    BY <2>3 DEF Barrier, Stops, Steps
  <2>6. CASE Then(Q)
    BY <1>16, <2>1, <2>3, <2>5, <2>6
  <2>7. CASE Then(<<>>)
    BY <1>11, <2>1, <2>7
  <2> QED
    BY <2>4, <2>6, <2>7
<1>19. CASE CloseDay
  <2>1. Doing("close") /\ UNCHANGED <<receipts, contract>>
    BY <1>19 DEF CloseDay
  <2>2. DayOf(now) \in Nat
    BY <1>0, DayNat DEF Control, ControlTyped
  <2>3. PICK ops : HaltDay(DayOf(now), TRUE) = ops
    OBVIOUS
  <2>4. ops \in Seq(Agenda) /\ Shielded(ops)
    BY <2>2, <2>3, HaltShielded, HaltDayShape DEF Plain
  <2>5. \A m \in DOMAIN ops : Barrier(ops[m], s) => Ahead(ops, m, s, TRUE)
    BY <2>4 DEF Shielded, Barrier
  <2>6. Then(<<>>) \/ Then(ops)
    BY <1>19, <2>3 DEF CloseDay
  <2>7. CASE Then(ops)
    BY <1>16, <2>1, <2>4, <2>5, <2>7
  <2>8. CASE Then(<<>>)
    BY <1>11, <2>1, <2>8
  <2> QED
    BY <2>6, <2>7, <2>8
<1>20. CASE Pin
  <2>1. Doing("pin") /\ receipts' = receipts /\ contract' = bar.contract /\ Then(PinOps)
    BY <1>20 DEF Pin, PinOps
  <2>2. /\ agenda[1].do = "pin" /\ Inherits(s, k) /\ ~Barrier(agenda[1], s) /\ Queued(ApplyOps)
    BY <1>0, <1>4, <2>1, HeadIs DEF ApplyOps, TradeOps, Queued
  <2>3. ~MissingEvent /\ ~MissingEvent'
    BY <1>6, <2>1, <2>2 DEF Barrier, Stops
  <2>4. bar = Last.bar
    BY <1>0, <2>2, InHand
  <2>5. ~Rolling'
    BY <1>6, <2>1, <2>4 DEF Rolling
  <2>6. PICK ops : PinOps = ops
    OBVIOUS
  <2>7. ops \in Seq(Agenda) /\ \A m \in DOMAIN ops : ops[m].do \in Steps \cup {"reconcile", "opportunity", "applied"}
    <3>1. /\ ops \in Seq(Agenda) /\ DOMAIN ops = 1..8
          /\ ops[1].do = "advance" /\ ops[2].do = "step" /\ ops[3].do = "reconcile"
          /\ ops[4].do = "advance" /\ ops[5].do = "step" /\ ops[6].do = "reconcile"
          /\ ops[7].do = "opportunity" /\ ops[8].do = "applied"
      BY <2>6, PinSteps
    <3>2. \A m \in DOMAIN ops : m \in {1, 2, 3, 4, 5, 6, 7, 8}
      BY <3>1
    <3> QED
      BY <3>1, <3>2 DEF Steps
  <2>8. \A m \in DOMAIN ops : Stops(ops[m], s, Rolling', MissingEvent') => Ahead(ops, m, s, TRUE)
    BY <2>3, <2>7 DEF Stops, Steps
  <2>9. \A j \in DOMAIN agenda : j # 1 /\ Stops(agenda[j], s, Rolling', MissingEvent')
                                  => Barrier(agenda[j], s)
    BY <2>3, <2>5 DEF Barrier, Stops
  <2>10. Then(ops)
    BY <2>1, <2>6
  <2>11. Ahead(agenda', f, s, submit)
    <3> HIDE DEF submit
    <3> QED
      BY <1>5, <2>1, <2>2, <2>7, <2>8, <2>9, <2>10
  <2> QED
    BY <2>11
<1>21. CASE Exclude \/ FinishApply
  <2>1. PICK do \in {"exclude", "applied"} : Doing(do) /\ Then(<<>>)
    BY <1>21 DEF Exclude, FinishApply
  <2>2. Inherits(s, k) /\ agenda # <<>> /\ agenda \in Seq(Agenda)
    BY <1>4, <2>1
  <2>3. ~Queued(ApplyOps)'
    BY <1>0, <1>21, SettleControl
  <2>4. \A j \in DOMAIN agenda : j # 1 /\ Stops(agenda[j], s, Rolling', MissingEvent')
                                  => Barrier(agenda[j], s)
    <3>1. ~Behind(agenda, ApplyOps)
      <4>1. PICK q : agenda' = q
        OBVIOUS
      <4>2. <<>> \o Tail(agenda) = q
        BY <2>1, <4>1 DEF Then
      <4>3. Has(q, ApplyOps) <=> Has(<<>>, ApplyOps) \/ Behind(agenda, ApplyOps)
        BY <1>9, <2>2, <4>2, ReplacedHas
      <4> QED
        BY <2>3, <4>1, <4>3 DEF Queued
    <3>2. \A j \in DOMAIN agenda : j # 1 => agenda[j].do \notin {"flat", "pin", "contract"} \cup Steps
      BY <3>1 DEF Behind, ApplyOps, TradeOps, Steps
    <3> QED
      BY <3>2 DEF Stops, Barrier
  <2>5. Ahead(agenda', f, s, submit)
    <3> HIDE DEF submit
    <3> QED
      BY <1>5, <1>9, <2>1, <2>2, <2>4
  <2> QED
    BY <2>5
<1>22. CASE Decide
  <2>1. Doing("decide")
    BY <1>22 DEF Decide
  <2>2. CASE Backwards(w[For], Event(bar))
    BY <1>10, <1>22, <2>2 DEF Decide, Doing
  <2>3. CASE ~Backwards(w[For], Event(bar))
    <3>1. /\ Then(<<>>) /\ UNCHANGED <<receipts, contract>>
          /\ \E risk \in Risks :
                w' = [w EXCEPT ![For] = ForwardDecided(w[For], Event(bar), bar.impulse, risk, now)]
      BY <1>22, <2>3 DEF Decide, tables
    <3>2. CASE Inherits(s, k)
      <4>1. \A j \in DOMAIN agenda : j # 1 /\ Stops(agenda[j], s, Rolling', MissingEvent')
                                     => Barrier(agenda[j], s)
        BY <1>8, <3>1
      <4>2. /\ "decide" = "cancel" => CancelEntries
            /\ "decide" = "dispatch" => Dispatch /\ \/ Pending(w[agenda[1].for]) = {}
                                                    \/ \E m \in DOMAIN <<>> : <<>>[m] = agenda[1]
            /\ \A m \in DOMAIN <<>> : Stops(<<>>[m], s, Rolling', MissingEvent') => Ahead(<<>>, m, s, TRUE)
        BY <1>9
      <4>3. Ahead(agenda', f, s, submit)
        <5> HIDE DEF submit
        <5> QED
          BY <1>5, <1>9, <2>1, <3>1, <3>2, <4>1, <4>2, Zenon
      <4> QED
        BY <4>3
    <3>3. CASE Decides(s, k)
      <4>1. agenda \in Seq(Agenda) /\ agenda # <<>> /\ InOrder(agenda) /\ agenda[1].do = "decide" /\ For = s
        BY <1>0, <1>4, <2>1, <3>3, HeadFor DEF Decides
      <4>2. ~MissingEvent
        <5>1. PICK risk \in Risks :
                w' = [w EXCEPT ![s] = ForwardDecided(w[s], Event(bar), bar.impulse, risk, now)]
          BY <3>1, <4>1
        <5>2. w'[s] = ForwardDecided(w[s], Event(bar), bar.impulse, risk, now)
          BY <1>0, <5>1 DEF Ledgers
        <5>3. w'[s].halted = Observed(w[s], Event(bar), risk).halted
          BY <5>2, DecidedHalts
        <5>4. Queued(ApplyOps)
          BY <1>0, <2>1, HeadIs DEF Queued, ApplyOps, TradeOps
        <5>5. bar = Last.bar
          BY <1>0, <5>4, InHand
        <5>6. Gap(w[s], Event(bar)) => DayOf(Last.bar.ts) \in w'[s].halted
          BY <5>3, <5>5 DEF Observed, Event
        <5>7. DayOf(Last.bar.ts) \notin w'[s].halted
          BY <3>3 DEF Decides
        <5> QED
          BY <2>1, <4>1, <5>5, <5>6, <5>7, GapIsMissing
      <4>3. ~Behind(agenda, FirstOps \cup HaltOps)
        BY <4>1, BehindHead
      <4>4. \A j \in DOMAIN agenda : j # 1 => ~Stops(agenda[j], s, Rolling', MissingEvent')
        BY <1>6, <3>1, <4>2, <4>3 DEF Behind, FirstOps, HaltOps, Stops
      <4>5. \E j \in DOMAIN agenda : j # 1 /\ agenda'[f] = agenda[j]
        <5>1. PICK q : agenda' = q
          OBVIOUS
        <5>2. <<>> \o Tail(agenda) = q
          BY <3>1, <5>1 DEF Then
        <5>3. PICK e : <<>> = e
          OBVIOUS
        <5>4. e \in Seq(Agenda) /\ f \notin DOMAIN e /\ e \o Tail(agenda) = q
          BY <1>9, <5>2, <5>3
        <5>5. Spliced(agenda, e, q)
          BY <4>1, <5>4, Replaced
        <5>6. f \in DOMAIN q /\ f \notin DOMAIN e
          BY <5>1, <5>4
        <5>7. /\ f + 1 - Len(e) \in DOMAIN agenda /\ f + 1 - Len(e) # 1
              /\ q[f] = agenda[f + 1 - Len(e)]
          BY <5>5, <5>6 DEF Spliced
        <5> QED
          BY <5>1, <5>7
      <4> QED
        BY <4>4, <4>5
    <3> QED
      BY <1>1, <3>2, <3>3 DEF EntrySteps
  <2> QED
    BY <2>2, <2>3
<1>23. CASE RaiseNow
  BY <1>10, <1>23 DEF RaiseNow, Doing
<1> QED
  BY <1>10, <1>12, <1>13, <1>14, <1>15, <1>17, <1>18, <1>19, <1>20, <1>21, <1>22, <1>23
     DEF Next, Process, Environment, Reset

(* A minute that was traded up to a bar some broker has stays traded, on   *)
(* its contract: only the bar in hand can still be excluded.               *)
LEMMA TradedStays ==
    ASSUME Service, Next, NEW s \in Scenario, NEW c \in sim[s].bars, NEW ts, ts <= c.ts, TradedAt(ts)
    PROVE  TradedAt(ts)' /\ ContractAt(ts)' = ContractAt(ts)
<1>0. Control /\ Processed /\ Untouched
  BY DEF Service
<1>1. PICK i \in DOMAIN receipts : receipts[i].bar.ts = ts /\ receipts[i].disposition = "accepted"
  BY DEF TradedAt
<1>2. ContractAt(ts)' = ContractAt(ts)
  <2>1. \E b \in Received : b.ts = ts
    <3>1. Event(receipts[i].bar) \in Received /\ Event(receipts[i].bar).ts = ts
      BY <1>1 DEF Received, Event
    <3> QED
      BY <3>1
  <2>2. [Next]_vars
    OBVIOUS
  <2> QED
    BY <2>1, <2>2, ContractStays
<1>3. DOMAIN receipts = 1..Len(receipts) /\ Len(receipts) \in Nat
  BY <1>0, ReceiptFields
<1>4. CASE receipts' = receipts
  BY <1>1, <1>2, <1>4 DEF TradedAt
<1>5. CASE Receive
  <2>1. i \in DOMAIN receipts' /\ receipts'[i] = receipts[i]
    BY <1>0, <1>5, ReceiveControl
  <2> QED
    BY <1>1, <1>2, <2>1 DEF TradedAt
<1>6. CASE Exclude \/ FinishApply
  <2>1. /\ DOMAIN receipts' = DOMAIN receipts /\ Len(receipts') = Len(receipts)
        /\ Last'.bar = Last.bar
        /\ Last'.disposition = (IF Exclude THEN "roll_with_exposure" ELSE Last.disposition)
        /\ \A j \in DOMAIN receipts : j # Len(receipts) => receipts'[j] = receipts[j]
    BY <1>0, <1>6, SettleControl
  <2>2. CASE i # Len(receipts)
    BY <1>1, <1>2, <2>1, <2>2 DEF TradedAt
  <2>3. CASE i = Len(receipts) /\ ~Exclude
    <3>1. receipts'[i].bar = receipts[i].bar /\ receipts'[i].disposition = receipts[i].disposition
      BY <2>1, <2>3 DEF Last
    <3> QED
      BY <1>1, <1>2, <2>1, <3>1 DEF TradedAt
  <2>4. CASE i = Len(receipts) /\ Exclude
    <3>1. Doing("exclude")
      BY <2>4 DEF Exclude
    <3>2. Queued({"flat", "exclude"}) /\ Queued(TradeOps) /\ Queued(ApplyOps)
      BY <1>0, <3>1, HeadIs DEF Queued, TradeOps, ApplyOps
    <3>3. contract # Last.bar.contract
      BY <1>0, <3>2 DEF Untouched
    <3>4. Taking
      BY <1>0, <3>2 DEF Control, ReceiptQueued, Taking
    <3>5. Event(Last.bar) \notin sim[s].bars
      BY <1>0, <3>3, <3>4 DEF Untouched
    <3>6. c \in TradedBars
      BY <1>0, <3>5 DEF Processed
    <3>7. PICK j \in Traded : c = Event(receipts[j].bar)
      BY <3>6 DEF TradedBars
    <3>8. Unapplied = {Len(receipts)}
      BY <1>0, <3>4, CurrentLast DEF Taking
    <3>9. j \in DOMAIN receipts /\ j < i
      BY <1>3, <2>4, <3>7, <3>8 DEF Traded, Unapplied
    <3>10. receipts[j].bar.ts < receipts[i].bar.ts
      BY <1>0, <1>1, <3>9 DEF Control, ReceiptsInOrder
    <3>11. c.ts < ts /\ c.ts \in Nat /\ ts \in Nat
      BY <1>0, <1>1, <3>7, <3>9, <3>10, ReceiptFields DEF Event
    <3> QED
      BY <3>11
  <2> QED
    BY <2>2, <2>3, <2>4
<1>7. receipts' = receipts \/ Receive \/ Exclude \/ FinishApply
  BY DEF Next, Process, Environment, Reconcile, Dispatch, Acknowledge, MarkHard, CancelEntries,
         HaltEntries, RaiseNow, Raise, BeginApply, CheckContract, CheckFlat, Pin, Advance, BeginStep,
         Decide, CountOpportunity, Resume, Started, Restart, BeginClose, CloseDay,
         ReceiveInvalid, ReceiveUnmapped, Crash, Connect, Disconnect, PassMinute, tables
<1> QED
  BY <1>2, <1>4, <1>5, <1>6, <1>7

(* A live entry whose bar the broker does not yet have is at the head.     *)
LEMMA CoversAll ==
    ASSUME Service, Guarded, Next, NEW s \in Scenario, AdvancesBar(s), NEW k \in LiveEntries(s)'
    PROVE  Inherits(s, k) /\ Covers(w[s].intents[k].req)
<1>0. Control /\ Ledgers
  BY DEF Service
<1>1. /\ Doing("advance") /\ w'[s] = w[s] /\ Advances(sim[s], w[s], Event(Last.bar), sim'[s])
  BY DEF AdvancesBar, Advance
<1>2. Inherits(s, k)
  <2>1. ~Decides(s, k)
    BY <1>1 DEF Decides, Decide, Doing
  <2> QED
    BY <2>1, EntryMoves DEF EntrySteps
<1>3. PICK req : w[s].intents[k].req = req
  OBVIOUS
<1>4. k \in LiveEntries(s) /\ Live(sim'[s], w[s], k)
  BY <1>1, <1>2 DEF Inherits, LiveEntries
<1>5. Event(Last.bar) \in sim'[s].bars
  BY <1>1 DEF Advances
<1>6. Last.bar.ts < req.expires
  BY <1>3, <1>4, <1>5 DEF Live, Fresh, Event
<1>7. Covers(req)
  BY <1>3, <1>4, <1>6, NextMinute
<1> QED
  BY <1>2, <1>3, <1>7

LEMMA ChainedNext ==
    ASSUME Service, Held, Guarded, Next
    PROVE  Chained'
<1>0. Control /\ Ledgers /\ Untouched /\ Barred
  BY DEF Service, Guarded
<1> SUFFICES ASSUME NEW s \in Scenario, NEW k \in LiveEntries(s)', NEW c \in sim'[s].bars,
                    NEW ts \in (w'[s].intents[k].req.submitted - 1)..c.ts
             PROVE  TradedAt(ts)' /\ ContractAt(ts)' = contract'
  BY DEF Chained
<1>1. EntrySteps(s)
  BY EntryMoves
<1>2. CASE AdvancesBar(s)
  <2>1. Inherits(s, k) /\ Covers(w[s].intents[k].req)
    BY <1>2, CoversAll
  <2>2. /\ Doing("advance") /\ receipts' = receipts /\ contract' = contract
        /\ sim'[s].bars = sim[s].bars \cup {Event(Last.bar)}
    BY <1>2 DEF AdvancesBar, Advance, Advances, tables
  <2>3. Queued(ApplyOps)
    BY <1>0, <2>2, HeadIs DEF Queued, ApplyOps, TradeOps
  <2>4. receipts # <<>>
    BY <1>0, <2>3, InHand DEF Unapplied
  <2>5. c \in Received
    <3>1. Event(Last.bar) \in Received
      BY <1>0, <2>4, LatestReceived
    <3> QED
      BY <1>0, <2>2, <3>1 DEF Ledgers, InStep, Received
  <2>6. c.ts <= Last.bar.ts /\ c.ts \in Nat /\ Last.bar.ts \in Nat
    BY <1>0, <2>4, <2>5, LatestReceived
  <2>7. w'[s].intents[k].req = w[s].intents[k].req
    BY <2>1 DEF Inherits
  <2>8. PICK a : w[s].intents[k].req.submitted - 1 = a
    OBVIOUS
  <2>9. ts \in a..Last.bar.ts
    <3>1. ts \in a..c.ts
      BY <2>7, <2>8
    <3>2. ts \in Int /\ a <= ts /\ ts <= c.ts
      BY <3>1
    <3>3. ts <= Last.bar.ts
      BY <2>6, <3>2
    <3> QED
      BY <2>6, <3>1, <3>3
  <2>10. TradedAt(ts) /\ ContractAt(ts) = contract
    BY <2>1, <2>8, <2>9 DEF Covers
  <2> QED
    BY <2>2, <2>10 DEF TradedAt, ContractAt
<1>3. CASE sim'[s].bars = sim[s].bars /\ Inherits(s, k)
  <2>1. k \in LiveEntries(s) /\ w'[s].intents[k].req = w[s].intents[k].req /\ c \in sim[s].bars
    BY <1>3 DEF Inherits, LiveEntries
  <2>2. TradedAt(ts) /\ ContractAt(ts) = contract /\ ts <= c.ts
    BY <2>1 DEF Guarded, Chained
  <2>3. TradedAt(ts)' /\ ContractAt(ts)' = ContractAt(ts)
    BY <2>1, <2>2, TradedStays
  <2>4. contract' = contract
    <3> SUFFICES ASSUME Pin, contract' # contract
                 PROVE  FALSE
      BY ContractPinned
    <3>1. Doing("pin") /\ contract' = bar.contract
      BY DEF Pin
    <3>2. agenda # <<>> /\ agenda[1].do = "pin" /\ Queued(ApplyOps)
      BY <1>0, <3>1, HeadIs DEF Queued, ApplyOps, TradeOps
    <3>3. bar = Last.bar
      BY <1>0, <3>2, InHand
    <3>4. contract # "none"
      BY <2>1 DEF Held
    <3>5. Barrier(agenda[1], s)
      BY <3>1, <3>2, <3>3, <3>4 DEF Barrier, Stops, Rolling
    <3> QED
      BY <1>0, <2>1, <3>2, <3>5, AheadFirst
  <2> QED
    BY <2>2, <2>3, <2>4
<1>4. CASE sim'[s].bars = sim[s].bars /\ Decides(s, k)
  <2>1. /\ Doing("decide") /\ Decide /\ c \in sim[s].bars
        /\ w'[s].intents[k].req.submitted = Last.bar.ts + 1
    BY <1>4 DEF Decides, Decide
  <2>2. receipts # <<>> /\ Last.disposition = "accepted" /\ Last.bar.ts = LastTs
    BY <1>0, <2>1, DecideReady
  <2>3. c.ts <= Last.bar.ts /\ c.ts \in Nat /\ Last.bar.ts \in Nat /\ Len(receipts) \in DOMAIN receipts
    <3>1. c \in Received
      BY <1>0, <2>1 DEF Ledgers, InStep, Received
    <3> QED
      BY <1>0, <2>2, <3>1, LatestReceived
  <2>4. ts = Last.bar.ts
    <3>1. w'[s].intents[k].req.submitted - 1 = Last.bar.ts
      BY <2>1, <2>3
    <3> QED
      BY <2>3, <3>1
  <2>5. TradedAt(ts)
    BY <2>2, <2>3, <2>4 DEF TradedAt, Last
  <2>6. ContractAt(receipts[Len(receipts)].bar.ts) = receipts[Len(receipts)].bar.contract
    BY <1>0, <2>3, ReceiptFields
  <2>7. ContractAt(ts) = Last.bar.contract
    BY <2>4, <2>6 DEF Last
  <2>8. contract = Last.bar.contract
    <3>1. agenda # <<>> /\ agenda[1].do = "decide"
      BY <1>0, <2>1, HeadIs
    <3>2. ~Queued({"pin"}) /\ Queued({"pin", "advance", "step", "decide", "opportunity"})
      BY <1>0, <2>1, <3>1, AtStep, HeadIs DEF Steps, Queued
    <3> QED
      BY <1>0, <3>2 DEF Untouched
  <2>9. UNCHANGED <<receipts, contract>>
    BY <2>1 DEF Decide, Raise, tables
  <2> QED
    BY <2>5, <2>7, <2>8, <2>9 DEF TradedAt, ContractAt
<1> QED
  BY <1>1, <1>2, <1>3, <1>4 DEF EntrySteps

(* The strengthening is inductive.                                         *)
LEMMA GuardedNext == Service /\ Held /\ Guarded /\ [Next]_vars => Guarded'
<1> SUFFICES ASSUME Service, Held, Guarded, [Next]_vars
             PROVE  Guarded'
  OBVIOUS
<1>1. CASE Next
  BY <1>1, BarredNext, UnstartedNext, NoFillsNext, UnhaltedNext, ChainedNext DEF Guarded
<1>2. CASE UNCHANGED vars
  <2>1. UNCHANGED <<sim, w, receipts, contract, agenda>>
    BY <1>2 DEF vars
  <2>2. \A s \in Scenario : LiveEntries(s)' = LiveEntries(s)
    BY <2>1 DEF LiveEntries
  <2>3. (MissingEvent' <=> MissingEvent) /\ Last' = Last
    BY <2>1 DEF MissingEvent, Traded, Current, Unapplied, bar, Last
  <2>4. Rolling' <=> Rolling
    BY <2>1, <2>3 DEF Rolling
  <2>5. Barred'
    BY <2>1, <2>2, <2>3, <2>4 DEF Guarded, Barred, Barrier
  <2>6. Unstarted'
    BY <2>1 DEF Guarded, Unstarted
  <2>7. NoFillsSince' /\ Unhalted'
    BY <2>1, <2>2 DEF Guarded, NoFillsSince, Unhalted
  <2>8. Chained'
    BY <2>1, <2>2 DEF Guarded, Chained, TradedAt, ContractAt
  <2> QED
    BY <2>5, <2>6, <2>7, <2>8 DEF Guarded
<1> QED
  BY <1>1, <1>2

(* Whatever fills an entry is the bar in hand, and it covers the entry.    *)
LEMMA NewEntryFill ==
    ASSUME Service, Guarded, Next, NEW s \in Scenario,
           NEW i \in EntryFills(sim'[s]), i \notin EntryFills(sim[s])
    PROVE  /\ AdvancesBar(s) /\ sim'[s].fills[i].ts = Last.bar.ts
           /\ \E k \in LiveEntries(s) : /\ w[s].intents[k].req.id = sim'[s].fills[i].order
                                        /\ Covers(w[s].intents[k].req)
<1>0. Control /\ Ledgers /\ EntrySteps(s)
  BY EntryMoves DEF Service
<1>1. AdvancesBar(s)
  BY <1>0 DEF EntrySteps, EntryFills
<1>2. /\ Agree(sim[s], w[s]) /\ Advances(sim[s], w[s], Event(Last.bar), sim'[s])
      /\ Doing("advance")
  BY <1>0, <1>1 DEF Ledgers, AdvancesBar, Advance
<1>3. /\ i \in DOMAIN sim'[s].fills /\ sim'[s].fills[i].reason = "entry"
      /\ i \notin DOMAIN sim[s].fills
  BY <1>0 DEF EntryFills, EntrySteps, Extends
<1>4. receipts # <<>>
  <2>1. Queued(ApplyOps)
    BY <1>0, <1>2, HeadIs DEF Queued, ApplyOps, TradeOps
  <2> QED
    BY <1>0, <2>1, InHand DEF Unapplied
<1>5. PICK b : Event(Last.bar) = b
  OBVIOUS
<1>6. b.ts = Last.bar.ts /\ b.ts \in Nat /\ \A e \in sim[s].bars : e.ts \in Nat /\ e.ts <= b.ts
  <2>1. b.ts = Last.bar.ts
    BY <1>5 DEF Event
  <2>2. \A e \in sim[s].bars : e \in Received
    BY <1>0 DEF Ledgers, InStep, Received
  <2> QED
    BY <1>0, <1>4, <2>1, <2>2, LatestReceived
<1>7. PICK x : sim'[s] = x
  OBVIOUS
<1>8. /\ x.fills[i].ts = b.ts
      /\ \E k \in DOMAIN w[s].intents : /\ Live(sim[s], w[s], k) /\ b.ts < w[s].intents[k].req.expires
                                        /\ w[s].intents[k].req.id = x.fills[i].order
  BY <1>2, <1>3, <1>5, <1>6, <1>7, AdvanceEntry
<1>9. PICK k \in LiveEntries(s) : /\ b.ts < w[s].intents[k].req.expires
                                  /\ w[s].intents[k].req.id = x.fills[i].order
  BY <1>8 DEF LiveEntries
<1>10. Covers(w[s].intents[k].req)
  <2>1. PICK req : w[s].intents[k].req = req
    OBVIOUS
  <2>2. Last.bar.ts < req.expires
    BY <1>6, <1>9, <2>1
  <2> QED
    BY <1>1, <2>1, <2>2, NextMinute
<1> QED
  BY <1>1, <1>6, <1>7, <1>8, <1>9, <1>10

(* A halt holds: no scenario fills an entry on a day it halted, nor after  *)
(* its risk halt, for every number of bars and over every interruption of  *)
(* halt_day and of _apply: the halt is in the service's hands while an     *)
(* entry may still be live, and nothing that fills runs before it          *)
(* (continuous.py halt_day, _apply).                                       *)
THEOREM HaltedDaysFillNothing == Spec => NoEntryOnHaltedDay
<1> DEFINE Inv == Service /\ Frozen /\ Held /\ LotsStayOnContract /\ Guarded
           Act == \A s \in Scenario : \A i \in EntryFills(sim'[s]) \ EntryFills(sim[s]) :
                     DayOf(sim'[s].fills[i].ts) \notin w[s].halted /\ ~w[s].riskHalted
<1>1. Init => Inv
  BY ServiceInit, FrozenInit, HeldInit, GuardedInit
<1>2. Inv /\ [Next]_vars => Inv'
  BY ServiceNext, FrozenNext, HeldNext, GuardedNext
<1>3. Inv /\ [Next]_vars => [Act]_sim
  <2> SUFFICES ASSUME Inv, [Next]_vars, sim' # sim, NEW s \in Scenario,
                      NEW i \in EntryFills(sim'[s]), i \notin EntryFills(sim[s])
               PROVE  DayOf(sim'[s].fills[i].ts) \notin w[s].halted /\ ~w[s].riskHalted
    OBVIOUS
  <2>1. Next /\ Service /\ Guarded
    BY DEF vars, ledgers
  <2>2. PICK k \in LiveEntries(s) : Covers(w[s].intents[k].req)
    BY <2>1, NewEntryFill
  <2>3. sim'[s].fills[i].ts = Last.bar.ts
    BY <2>1, NewEntryFill
  <2> QED
    BY <2>1, <2>2, <2>3 DEF Guarded, Unhalted, Covers
<1> QED
  BY <1>1, <1>2, <1>3, PTL DEF Spec, NoEntryOnHaltedDay

(* The decision of an entry is read from the one intent with its identity. *)
LEMMA DecisionIs ==
    ASSUME NEW db, NEW v, Agree(db, v), NEW j \in DOMAIN v.intents, NEW id, v.intents[j].req.id = id
    PROVE  Decision(v, id) = v.intents[j].req.submitted - 1
<1>1. \A k \in DOMAIN v.intents : v.intents[k].req.id = id => k = j
  BY DEF Agree, Ordered
<1>2. (CHOOSE k \in DOMAIN v.intents : v.intents[k].req.id = id) = j
  BY <1>1
<1> QED
  BY <1>2 DEF Decision

(* A broker's orders keep their requests, and so does the decision.        *)
LEMMA DecisionStays ==
    ASSUME NEW db, NEW v, NEW x, NEW u, Agree(db, v), Agree(x, u), Extends(db, x),
           NEW id, Known(db, id)
    PROVE  Decision(u, id) = Decision(v, id)
<1>1. PICK j \in DOMAIN db.orders : db.orders[j].req.id = id
  BY DEF Known
<1>2. j \in DOMAIN x.orders /\ x.orders[j].req = db.orders[j].req
  <2>1. /\ DOMAIN db.orders = 1..Len(db.orders) /\ DOMAIN x.orders = 1..Len(x.orders)
        /\ Len(x.orders) \in Nat /\ Len(db.orders) \in Nat
    BY LedgerFields DEF Agree
  <2> QED
    BY <2>1 DEF Extends
<1>3. j \in DOMAIN v.intents /\ v.intents[j].req = db.orders[j].req
  BY DEF Agree, Ordered
<1>4. j \in DOMAIN u.intents /\ u.intents[j].req = x.orders[j].req
  BY <1>2 DEF Agree, Ordered
<1>5. Decision(v, id) = v.intents[j].req.submitted - 1
  BY <1>1, <1>3, DecisionIs
<1>6. Decision(u, id) = u.intents[j].req.submitted - 1
  BY <1>1, <1>2, <1>4, DecisionIs
<1> QED
  BY <1>2, <1>3, <1>4, <1>5, <1>6

LEMMA NoGapInit == Init => NoEntryAcrossGap
BY DEF Init, NoEntryAcrossGap, EntryFills, EmptySim, Scenario

(* The minutes between an entry's decision and its fill stay traded, on    *)
(* one contract.                                                           *)
LEMMA NoGapNext ==
    ASSUME Service, Held, Guarded, NoEntryAcrossGap, [Next]_vars
    PROVE  NoEntryAcrossGap'
<1>0. Control /\ Ledgers
  BY DEF Service
<1>1. CASE UNCHANGED vars
  <2>1. UNCHANGED <<sim, w, receipts>>
    BY <1>1 DEF vars
  <2> QED
    BY <2>1 DEF NoEntryAcrossGap, TradedAt, ContractAt
<1>2. CASE Next
  <2> SUFFICES ASSUME NEW s \in Scenario, NEW i \in EntryFills(sim'[s]), NEW f, NEW a,
                      sim'[s].fills[i] = f, Decision(w'[s], f.order) = a, NEW ts \in a..f.ts
               PROVE  TradedAt(ts)' /\ ContractAt(ts)' = ContractAt(a)'
    BY DEF NoEntryAcrossGap
  <2>0. /\ Agree(sim[s], w[s]) /\ EntrySteps(s)
        /\ Agree(sim'[s], w'[s])
    <3>1. Ledgers'
      BY <1>2, ServiceSteps DEF Service
    <3>2. EntrySteps(s)
      BY <1>2, EntryMoves
    <3> QED
      BY <1>0, <3>1, <3>2 DEF Ledgers
  <2>1. CASE i \in EntryFills(sim[s])
    <3>1. i \in DOMAIN sim[s].fills /\ sim[s].fills[i] = f
      BY <2>0, <2>1 DEF EntryFills, EntrySteps, Extends
    <3>2. Known(sim[s], f.order)
      BY <2>0, <3>1 DEF Agree, Sound
    <3>3. Extends(sim[s], sim'[s])
      BY <2>0 DEF EntrySteps
    <3>4. Decision(w[s], f.order) = a
      BY <2>0, <3>2, <3>3, DecisionStays
    <3>5. \A t \in a..f.ts : TradedAt(t) /\ ContractAt(t) = ContractAt(a)
      BY <2>1, <3>1, <3>4 DEF NoEntryAcrossGap
    <3>6. PICK c \in sim[s].bars : c.ts = f.ts
      BY <3>1 DEF Held
    <3>7. \A t \in a..f.ts : TradedAt(t)' /\ ContractAt(t)' = ContractAt(t)
      <4> SUFFICES ASSUME NEW t \in a..f.ts
                   PROVE  TradedAt(t)' /\ ContractAt(t)' = ContractAt(t)
        OBVIOUS
      <4>1. t <= c.ts /\ TradedAt(t)
        BY <3>5, <3>6
      <4> QED
        BY <1>2, <4>1, TradedStays
    <3>8. a \in a..f.ts
      <4>1. \E j \in DOMAIN w[s].intents : w[s].intents[j].req.id = f.order
        BY <2>0, <3>2 DEF Agree, Ordered, Known
      <4>2. PICK j \in DOMAIN w[s].intents : w[s].intents[j].req.id = f.order
        BY <4>1
      <4>3. a = w[s].intents[j].req.submitted - 1
        BY <2>0, <3>4, <4>2, DecisionIs
      <4>4. w[s].intents[j].req.submitted \in Nat
        BY <2>0, <4>2, WorkerFields DEF Agree, Intent, Request
      <4>5. a \in Int /\ f.ts \in Nat /\ ts \in Int
        <5>1. sim[s].fills[i] \in Fill
          BY <2>0, <3>1, LedgerFields DEF Agree
        <5> QED
          BY <3>1, <4>3, <4>4, <5>1 DEF Fill
      <4> QED
        BY <4>5
    <3>9. ContractAt(a)' = ContractAt(a)
      BY <3>7, <3>8
    <3> QED
      BY <3>5, <3>7, <3>9
  <2>2. CASE i \notin EntryFills(sim[s])
    <3>1. AdvancesBar(s) /\ f.ts = Last.bar.ts
      BY <1>2, <2>2, NewEntryFill
    <3>2. PICK k \in LiveEntries(s) : /\ w[s].intents[k].req.id = f.order
                                      /\ Covers(w[s].intents[k].req)
      BY <1>2, <2>2, NewEntryFill
    <3>3. k \in DOMAIN w[s].intents /\ w'[s] = w[s]
      BY <3>1, <3>2 DEF LiveEntries, AdvancesBar
    <3>4. a = w[s].intents[k].req.submitted - 1
      BY <2>0, <3>2, <3>3, DecisionIs
    <3>5. \A t \in a..f.ts : TradedAt(t) /\ ContractAt(t) = contract
      BY <3>1, <3>2, <3>4 DEF Covers
    <3>6. a \in a..f.ts
      <4>1. w[s].intents[k].req.submitted \in Nat
        BY <2>0, <3>3, WorkerFields DEF Agree, Intent, Request
      <4>2. sim'[s].fills[i] \in Fill
        BY <2>0, LedgerFields DEF Agree, EntryFills
      <4>3. a \in Int /\ f.ts \in Nat
        BY <3>4, <4>1, <4>2 DEF Fill
      <4> QED
        BY <4>3
    <3>7. receipts' = receipts
      BY <3>1 DEF AdvancesBar, Advance, tables
    <3> QED
      BY <3>5, <3>6, <3>7 DEF TradedAt, ContractAt
  <2> QED
    BY <2>1, <2>2
<1> QED
  BY <1>1, <1>2

(* No entry is filled across a gap or a roll, for every number of bars and *)
(* over every outage, crash and restart: an entry that is live when a      *)
(* minute is missing or another contract's bar arrives is cancelled before *)
(* the bar reaches its broker (continuous.py _apply, halt_day).            *)
THEOREM EntriesNeverCrossGap == Spec => []NoEntryAcrossGap
<1> DEFINE Inv == Service /\ Frozen /\ Held /\ LotsStayOnContract /\ Guarded /\ NoEntryAcrossGap
<1>1. Init => Inv
  BY ServiceInit, FrozenInit, HeldInit, GuardedInit, NoGapInit
<1>2. Inv /\ [Next]_vars => Inv'
  BY ServiceNext, FrozenNext, HeldNext, GuardedNext, NoGapNext
<1>3. Inv => NoEntryAcrossGap
  OBVIOUS
<1> QED
  BY <1>1, <1>2, <1>3, PTL DEF Spec

(***************************************************************************)
(* Exits                                                                   *)
(***************************************************************************)
Exits == \A s \in Scenario : Leaving(sim[s], w[s])

LEMMA ExitsInit == Init => Exits
BY EmptyLeaving DEF Init, Exits, Scenario

(* The exits of every scenario stay as they should.                        *)
LEMMA ExitsNext == Service /\ Guarded /\ Exits /\ [Next]_vars => Exits'
<1> SUFFICES ASSUME Service, Guarded, Exits, [Next]_vars
             PROVE  Exits'
  OBVIOUS
<1>1. CASE Next
  <2> SUFFICES ASSUME NEW s \in Scenario
               PROVE  Leaving(sim'[s], w'[s])
    BY DEF Exits
  <2>1. EntrySteps(s)
    BY <1>1, EntryMoves
  <2>2. Unfilled(sim[s]) /\ Leaving(sim[s], w[s])
    BY DEF Guarded, Unstarted, Exits
  <2> QED
    BY <2>1, <2>2 DEF EntrySteps
<1>2. CASE UNCHANGED vars
  BY <1>2 DEF vars, Exits
<1> QED
  BY <1>1, <1>2

(* Only the decision changes a worker while it is due.                     *)
LEMMA DecisionDue ==
    ASSUME Service, Next, Doing("decide"), w' # w, NEW t, For = t
    PROVE  /\ Found(t) /\ bar = Last.bar
           /\ \E u : w'[t] = u /\ DecidedTo(t, Event(Last.bar), u)
<1>1. Decide
  <2>1. CASE ~(Advance \/ Decide \/ Reconcile \/ Dispatch \/ Acknowledge \/ CancelEntries \/ HaltEntries)
    <3>1. UNCHANGED ledgers
      BY <2>1 DEF Next, Process, Environment, MarkHard, RaiseNow, Raise, BeginApply, CheckContract,
                   CheckFlat, Exclude, Pin, BeginStep, CountOpportunity, FinishApply, Resume, Started,
                   Restart, BeginClose, CloseDay, Receive, ReceiveInvalid, ReceiveUnmapped, Crash,
                   Connect, Disconnect, PassMinute
    <3> QED
      BY <3>1 DEF ledgers
  <2>2. ~(Advance \/ Reconcile \/ Dispatch \/ Acknowledge \/ CancelEntries \/ HaltEntries)
    BY DEF Advance, Reconcile, Dispatch, Acknowledge, CancelEntries, HaltEntries, Doing
  <2> QED
    BY <2>1, <2>2
<1>2. Control /\ Ledgers /\ Processed
  BY DEF Service
<1>3. ~Backwards(w[For], Event(bar))
  BY <1>2, NotBackwards
<1>4. PICK u : Found(t) /\ bar = Last.bar /\ Done(t, sim[t], u) /\ DecidedTo(t, Event(Last.bar), u)
  BY <1>1, <1>2, <1>3, DecideLedgers
<1>5. w'[t] = u
  <2>1. w \in [Scenario -> WorkerLedger] /\ t \in Scenario
    BY <1>2, <1>4 DEF Ledgers, Found
  <2> QED
    BY <1>4, <2>1 DEF Done
<1> QED
  BY <1>4, <1>5

(* The time exit is retried, for every number of bars, over every crash    *)
(* and restart and however often exits expire or are cancelled: a decision *)
(* from the exit minute on that finds inventory leaves an exit of that day *)
(* which is not over, because an exit that has filled has taken all the    *)
(* inventory with it (continuous.py ForwardWorker._intent).                *)
THEOREM ExitsRetried == Spec => ExitRetried
<1> DEFINE Inv == Service /\ Frozen /\ Held /\ LotsStayOnContract /\ Guarded /\ Exits
           Act(s, b) ==
              /\ Doing("decide") /\ For = s /\ b \in w'[s].bars
              /\ Minute(b.ts) >= ExitMinute /\ Position(w[s].fills) # 0
              => \E i \in DOMAIN w'[s].intents :
                    /\ w'[s].intents[i].req.id.day = DayOf(b.ts)
                    /\ w'[s].intents[i].req.id.kind = "exit"
                    /\ w'[s].intents[i].state \notin Final
<1>1. Init => Inv
  BY ServiceInit, FrozenInit, HeldInit, GuardedInit, ExitsInit
<1>2. Inv /\ [Next]_vars => Inv'
  BY ServiceNext, FrozenNext, HeldNext, GuardedNext, ExitsNext
<1>3. Inv /\ [Next]_vars => [\A s \in Scenario : Act(s, Event(bar))]_w
  <2> SUFFICES ASSUME Inv, [Next]_vars, w' # w, NEW s \in Scenario, NEW b, Event(bar) = b,
                      Doing("decide"), For = s, Minute(b.ts) >= ExitMinute, Position(w[s].fills) # 0
               PROVE  \E i \in DOMAIN w'[s].intents :
                         /\ w'[s].intents[i].req.id.day = DayOf(b.ts)
                         /\ w'[s].intents[i].req.id.kind = "exit"
                         /\ w'[s].intents[i].state \notin Final
    OBVIOUS
  <2>1. Next /\ Service /\ Control /\ Ledgers /\ Exits
    BY DEF vars, ledgers, Service
  <2>2. PICK u : /\ Found(s) /\ bar = Last.bar /\ w'[s] = u /\ DecidedTo(s, Event(Last.bar), u)
    BY <2>1, DecisionDue
  <2>3. PICK db, v : sim[s] = db /\ w[s] = v
    OBVIOUS
  <2>4. Event(Last.bar) = b
    BY <2>2
  <2>5. /\ Agree(db, v) /\ Leaving(db, v) /\ v.fills = db.fills /\ b \in db.bars /\ bar \in MarketBar
        /\ now \in Nat
    BY <2>1, <2>2, <2>3, <2>4, DecideReady DEF Found, Exits, Control, ControlTyped
  <2>6. \A c \in db.bars : c.ts <= b.ts
    BY <2>1, <2>3, <2>4, NothingLater DEF ApplyOps, TradeOps
  <2>7. PICK risk \in Risks : ForwardDecided(v, b, bar.impulse, risk, now) = u
    BY <2>2, <2>3, <2>4 DEF DecidedTo
  <2>8. bar.impulse \in {-1, 0, 1} /\ risk \in Risk
    BY <2>5, <2>7, ContinuousAssumption DEF MarketBar
  <2>9. \E i \in DOMAIN u.intents : /\ u.intents[i].req.id.day = DayOf(b.ts) /\ IsExit(u, i)
                                    /\ u.intents[i].state \notin Final
    BY <2>3, <2>5, <2>6, <2>7, <2>8, ExitWorks
  <2> QED
    BY <2>2, <2>9 DEF IsExit
<1> QED
  BY <1>1, <1>2, <1>3, PTL DEF Spec, ExitRetried
==============================================================================
