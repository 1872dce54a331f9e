---------------------------- MODULE ContinuousPaper ----------------------------
(***************************************************************************)
(* The continuous paper service (backend/paperlab/continuous.py) and the   *)
(* part of its supervisor that calls it: receipts of live minute bars,     *)
(* applied to a broker and a worker of each scenario, halts, contract      *)
(* rolls, the daily close, crashes and restarts.  The work the running     *)
(* call still has to do is the agenda; each entry is at most one commit,   *)
(* so the process can die between any two commits.  Time is in minutes.    *)
(***************************************************************************)
EXTENDS ForwardWorker, ServiceAgenda

CONSTANTS
    Contracts,    \* the dated contracts the provider can map bars to
    Impulses,     \* signs of the opening move that are explored
    Risks,        \* outcomes of the loss limits that are explored
    Session,      \* minutes of the strategy session (09:30 .. 15:59)
    Horizon,      \* bound: the last minute of wall-clock time
    MaxFaults     \* bound: crashes, outages, changes of contract and missing,
                  \* late or bad bars

ASSUME ContinuousAssumption ==
    /\ "none" \notin Contracts
    /\ Impulses \subseteq {-1, 0, 1} /\ 0 \in Impulses
    /\ Risks \subseteq Risk /\ "none" \in Risks

\* A bar as mapped to its contract; impulse is the sign of the opening move
\* that the close of the bar shows.
MarketBar == [ts : Nat, volume : BOOLEAN, contract : Contracts, impulse : {-1, 0, 1}]

Disposition == {"accepted", "late_bar", "incomplete_or_future_bar", "hard_halted",
                "outside_strategy_session", "roll_with_exposure"}
Receipt == [bar : MarketBar, disposition : Disposition, applied : BOOLEAN]

VARIABLES
    sim,          \* per scenario, the broker's committed ledger
    w,            \* per scenario, the worker's committed ledger
    receipts,     \* the receipts table, in time order
    contract,     \* meta active_contract
    hard,         \* meta hard_halt is set
    audits,       \* the daily_audits table: [day, unresolved]
    opportunities,\* the opportunities table: [day, eligible]
    phase,        \* the process: starting, running, down, or broken at start
    agenda,       \* what the running call has still to do
    feed,         \* the provider's stream is connected
    now,          \* wall-clock minute
    faults        \* faults so far, for the bound

ledgers == <<sim, w>>
tables  == <<receipts, contract, hard, audits, opportunities>>
vars    == <<sim, w, receipts, contract, hard, audits, opportunities,
             phase, agenda, feed, now, faults>>

(***************************************************************************)
(* The agenda                                                              *)
(***************************************************************************)
Doing(op)   == agenda # <<>> /\ Head(agenda).do = op
Then(ops)   == agenda' = ops \o Tail(agenda)
For         == Head(agenda).for

\* Mutant: the ledgers are not recovered before the receipts are resumed.
StartupWithoutRecovery == Do("resume") \o Each(ReconcileOf) \o Do("started")

\* ContinuousPaper.__init__ and the halt run() adds after an interruption;
\* the halt's day is known when it is reached.
Startup == Each(Recover) \o Do("resume") \o Each(ReconcileOf) \o Do("started")

(***************************************************************************)
(* Accounts and receipts                                                   *)
(***************************************************************************)
AnyPosition == \E s \in Scenario : Position(w[s].fills) # 0
OrdersLive  == \E s \in Scenario : ActiveOrders(sim[s]) # {}

Unapplied == {i \in DOMAIN receipts : ~receipts[i].applied}
Current   == CHOOSE i \in Unapplied : \A j \in Unapplied : i <= j
bar       == receipts[Current].bar
Event(b)  == [ts |-> b.ts, volume |-> b.volume]

Traded == {i \in DOMAIN receipts :
             receipts[i].disposition = "accepted" /\ receipts[i].applied}

\* Mutant: a single missing minute is tolerated.
MissingTwoEvents ==
    \E i \in Traded :
        /\ i < Current
        /\ \A j \in Traded : j < Current => j <= i
        /\ DayOf(receipts[i].bar.ts) = DayOf(bar.ts)
        /\ bar.ts - receipts[i].bar.ts > 2

\* The last bar traded before this one is of the same day but not adjacent.
MissingEvent ==
    \E i \in Traded :
        /\ i < Current
        /\ \A j \in Traded : j < Current => j <= i
        /\ DayOf(receipts[i].bar.ts) = DayOf(bar.ts)
        /\ bar.ts - receipts[i].bar.ts # 1

\* An accepted bar was received in the minute after it.
ReceivedDay == DayOf(bar.ts + 1)

Settled(disposition) ==
    receipts' = [receipts EXCEPT ![Current] = [bar |-> bar, disposition |-> disposition,
                                               applied |-> TRUE]]

(***************************************************************************)
(* Init: a registered run whose first process has started.                 *)
(***************************************************************************)
Init ==
    /\ sim = [s \in Scenario |-> EmptySim] /\ w = [s \in Scenario |-> EmptyWorker]
    /\ receipts = <<>> /\ contract = "none" /\ hard = FALSE
    /\ audits = {} /\ opportunities = {}
    /\ phase = "running" /\ agenda = <<>> /\ feed = FALSE
    /\ now = 1 /\ faults = 0

(***************************************************************************)
(* An exception.  run() answers it with a hard halt and a disconnection;   *)
(* raised while the process starts it ends the process.                    *)
(***************************************************************************)
Raise ==
    /\ IF phase = "starting"
       THEN phase' = "broken" /\ agenda' = <<>>
       ELSE /\ agenda' = HaltDay(DayOf(now), TRUE) \o HaltDay(DayOf(now), FALSE)
            /\ UNCHANGED phase
    /\ feed' = FALSE
    /\ UNCHANGED <<ledgers, tables, now, faults>>

(***************************************************************************)
(* One scenario's steps                                                    *)
(***************************************************************************)
Reconcile ==
    /\ Doing("reconcile")
    /\ IF ReconcileError(w[For], sim[For]) # "none"
       THEN Raise
       ELSE /\ w' = [w EXCEPT ![For] = Reconciled(w[For], sim[For])]
            /\ Then(<<>>)
            /\ UNCHANGED <<sim, tables, phase, feed, now, faults>>

FirstPending(s) == CHOOSE i \in Pending(w[s]) : \A j \in Pending(w[s]) : i <= j

\* dispatch goes on until nothing is pending; submit commits, then its answer.
Dispatch ==
    /\ Doing("dispatch")
    /\ IF Pending(w[For]) = {}
       THEN Then(<<>>) /\ UNCHANGED <<sim, phase, feed>>
       ELSE IF Refused(sim[For], w[For].intents[FirstPending(For)].req)
       THEN Raise
       ELSE /\ sim' = [sim EXCEPT ![For] =
                         Submit(sim[For], w[For].intents[FirstPending(For)].req, FALSE)]
            /\ agenda' = DoFor("acknowledge", For) \o agenda
            /\ UNCHANGED <<phase, feed>>
    /\ UNCHANGED <<w, tables, now, faults>>

Acknowledge ==
    /\ Doing("acknowledge")
    /\ w' = [w EXCEPT ![For] = Acknowledged(w[For], FirstPending(For), sim[For])]
    /\ Then(<<>>)
    /\ UNCHANGED <<sim, tables, phase, feed, now, faults>>

(***************************************************************************)
(* halt_day                                                                *)
(***************************************************************************)
MarkHard ==
    /\ Doing("hard_halt")
    /\ hard' = TRUE
    /\ Then(<<>>)
    /\ UNCHANGED <<ledgers, receipts, contract, audits, opportunities,
                   phase, feed, now, faults>>

CancelEntries ==
    /\ Doing("cancel")
    /\ sim' = [sim EXCEPT ![For] = EntriesCancelled(sim[For])]
    /\ Then(<<>>)
    /\ UNCHANGED <<w, tables, phase, feed, now, faults>>

HaltEntries ==
    /\ Doing("halt")
    /\ w' = [w EXCEPT ![For].halted = @ \cup {Head(agenda).day},
                      ![For].riskHalted = @ \/ Head(agenda).hard]
    /\ Then(<<>>)
    /\ UNCHANGED <<sim, tables, phase, feed, now, faults>>

(***************************************************************************)
(* receive: a bar of the minute that just ended, a later or earlier one.   *)
(***************************************************************************)
Idle == phase = "running" /\ agenda = <<>>

LastTs == IF receipts = <<>> THEN -1 ELSE receipts[Len(receipts)].bar.ts

InSession(ts) == Minute(ts) < Session

\* Mutant: bars are traded in a run that is halted for review.
DispositionInHaltedRun(b) ==
    CASE now < b.ts + 1 -> "incomplete_or_future_bar"
      [] now > b.ts + 1 -> "late_bar"
      [] OTHER -> IF ~InSession(b.ts) /\ ~AnyPosition
                  THEN "outside_strategy_session"
                  ELSE "accepted"

DispositionOf(b) ==
    CASE now < b.ts + 1 -> "incomplete_or_future_bar"
      [] now > b.ts + 1 -> "late_bar"
      [] OTHER -> IF hard THEN "hard_halted"
                  ELSE IF ~InSession(b.ts) /\ ~AnyPosition
                  THEN "outside_strategy_session"
                  ELSE "accepted"

\* The bars the market can print: an impulse shows at the end of the opening.
Printed(b) == (b.impulse # 0) => (Minute(b.ts) = OpeningBars - 1)

\* The provider maps the bar to another contract than the last one.
Remapped(b) == receipts # <<>> /\ receipts[Len(receipts)].bar.contract # b.contract

Receive ==
    /\ Idle /\ feed
    /\ \E b \in [ts : {now - 2, now - 1, now}, volume : BOOLEAN,
                 contract : Contracts, impulse : Impulses] :
         /\ b.ts > LastTs /\ Printed(b)
         /\ faults' = faults + (IF b.volume THEN 0 ELSE 1) + (IF b.ts = now - 1 THEN 0 ELSE 1)
                            + (IF Remapped(b) THEN 1 ELSE 0)
         /\ faults' <= MaxFaults
         /\ receipts' = Append(receipts, [bar |-> b, disposition |-> DispositionOf(b),
                                          applied |-> FALSE])
    /\ agenda' = Do("apply")
    /\ UNCHANGED <<ledgers, contract, hard, audits, opportunities, phase, feed, now>>

\* A bar that contradicts its receipt, moves backwards or is malformed.
ReceiveInvalid ==
    /\ Idle /\ feed /\ faults < MaxFaults
    /\ agenda' = HaltDay(DayOf(now), TRUE) \o Do("raise")
    /\ faults' = faults + 1
    /\ UNCHANGED <<ledgers, tables, phase, feed, now>>

\* A bar without a dated mapping leaves no receipt.
ReceiveUnmapped ==
    /\ Idle /\ feed /\ faults < MaxFaults
    /\ agenda' = HaltDay(DayOf(now), FALSE)
    /\ faults' = faults + 1
    /\ UNCHANGED <<ledgers, tables, phase, feed, now>>

RaiseNow == Doing("raise") /\ Raise

(***************************************************************************)
(* _apply                                                                  *)
(***************************************************************************)
BeginApply ==
    /\ Doing("apply")
    /\ Then(CASE receipts[Current].disposition = "accepted" ->
                   (IF MissingEvent THEN HaltDay(ReceivedDay, FALSE) ELSE <<>>)
                   \o Do("contract")
              [] receipts[Current].disposition \in {"late_bar", "incomplete_or_future_bar"} ->
                   HaltDay(DayOf(now), FALSE) \o Do("applied")
              [] OTHER -> Do("applied"))
    /\ UNCHANGED <<ledgers, tables, phase, feed, now, faults>>

Rolls == contract # "none" /\ contract # bar.contract

\* Mutant: the contract of a bar is taken over without looking at exposure.
CheckContractNever ==
    /\ Doing("contract")
    /\ Then(Do("pin"))
    /\ UNCHANGED <<ledgers, tables, phase, feed, now, faults>>

\* The roll halts first, then looks at the orders that are left.
CheckContract ==
    /\ Doing("contract")
    /\ Then(IF ~Rolls THEN Do("pin")
            ELSE IF AnyPosition THEN HaltDay(ReceivedDay, TRUE) \o Do("exclude")
            ELSE HaltDay(ReceivedDay, FALSE) \o Do("flat"))
    /\ UNCHANGED <<ledgers, tables, phase, feed, now, faults>>

CheckFlat ==
    /\ Doing("flat")
    /\ Then(IF OrdersLive THEN HaltDay(ReceivedDay, TRUE) \o Do("raise") ELSE Do("pin"))
    /\ UNCHANGED <<ledgers, tables, phase, feed, now, faults>>

Exclude ==
    /\ Doing("exclude")
    /\ Settled("roll_with_exposure")
    /\ Then(<<>>)
    /\ UNCHANGED <<ledgers, contract, hard, audits, opportunities, phase, feed, now, faults>>

Pin ==
    /\ Doing("pin")
    /\ contract' = bar.contract
    /\ Then(Each(Apply) \o Do("opportunity") \o Do("applied"))
    /\ UNCHANGED <<ledgers, receipts, hard, audits, opportunities, phase, feed, now, faults>>

(***************************************************************************)
(* Simulator.advance of one scenario                                       *)
(***************************************************************************)
Advance ==
    /\ Doing("advance")
    /\ LET b == Event(bar) IN
       IF b \in sim[For].bars THEN UNCHANGED sim
       ELSE LET db == Worked(sim[For], b) IN
            \E lots \in SUBSET (IF b.volume THEN LotNumbers(db) ELSE {}) :
                sim' = [sim EXCEPT ![For] = Stopped(db, lots, b)]
    /\ Then(<<>>)
    /\ UNCHANGED <<w, tables, phase, feed, now, faults>>

(***************************************************************************)
(* ForwardWorker.step: nothing if the bar was processed before a crash.    *)
(***************************************************************************)
BeginStep ==
    /\ Doing("step")
    /\ Then(IF Event(bar) \in w[For].bars THEN <<>>
            ELSE DoFor("reconcile", For) \o DoFor("decide", For) \o DoFor("dispatch", For))
    /\ UNCHANGED <<ledgers, tables, phase, feed, now, faults>>

Decide ==
    /\ Doing("decide")
    /\ IF Backwards(w[For], Event(bar))
       THEN Raise
       ELSE \E risk \in Risks :
              /\ risk # "none" => Breachable(w[For])
              /\ w' = [w EXCEPT ![For] = ForwardDecided(w[For], Event(bar), bar.impulse, risk, now)]
              /\ Then(<<>>)
              /\ UNCHANGED <<sim, tables, phase, feed, now, faults>>

(***************************************************************************)
(* The end of _apply                                                       *)
(***************************************************************************)
Opening(day) == {i \in DOMAIN receipts :
    day * Stride <= receipts[i].bar.ts /\ receipts[i].bar.ts < day * Stride + OpeningBars}

\* Mutant: a day that was halted while its opening arrived still counts.
CompleteThoughHalted(day) ==
    /\ Cardinality(Opening(day)) = OpeningBars
    /\ \A i, j \in Opening(day) : receipts[i].bar.contract = receipts[j].bar.contract
    /\ \A i \in Opening(day) : receipts[i].disposition = "accepted" /\ receipts[i].bar.volume

CompleteOpening(day) ==
    /\ Cardinality(Opening(day)) = OpeningBars
    /\ \A i, j \in Opening(day) : receipts[i].bar.contract = receipts[j].bar.contract
    /\ \A i \in Opening(day) : receipts[i].disposition = "accepted" /\ receipts[i].bar.volume
    /\ \A s \in Scenario : day \notin w[s].halted /\ ~w[s].riskHalted

CountOpportunity ==
    /\ Doing("opportunity")
    /\ LET day == DayOf(bar.ts) IN
       opportunities' =
           IF Minute(bar.ts) = OpeningBars - 1 /\ ~\E o \in opportunities : o.day = day
           THEN opportunities \cup {[day |-> day, eligible |-> CompleteOpening(day)]}
           ELSE opportunities
    /\ Then(<<>>)
    /\ UNCHANGED <<ledgers, receipts, contract, hard, audits, phase, feed, now, faults>>

FinishApply ==
    /\ Doing("applied")
    /\ Settled(receipts[Current].disposition)
    /\ Then(<<>>)
    /\ UNCHANGED <<ledgers, contract, hard, audits, opportunities, phase, feed, now, faults>>

(***************************************************************************)
(* Start: recover both scenarios, finish the receipt, note the start; then *)
(* run() halts the day for the gap.                                        *)
(***************************************************************************)
\* Mutant: the interrupted receipt is left where it is.
ResumeNothing ==
    /\ Doing("resume")
    /\ Then(<<>>)
    /\ UNCHANGED <<ledgers, tables, phase, feed, now, faults>>

Resume ==
    /\ Doing("resume")
    /\ Then(IF Unapplied = {} THEN <<>> ELSE Do("apply") \o Do("resume"))
    /\ UNCHANGED <<ledgers, tables, phase, feed, now, faults>>

\* Mutant: the gap of an interruption is not halted.
StartedWithoutHalt ==
    /\ Doing("started")
    /\ phase' = "running"
    /\ agenda' = <<>>
    /\ UNCHANGED <<ledgers, tables, feed, now, faults>>

Started ==
    /\ Doing("started")
    /\ phase' = "running"
    /\ agenda' = HaltDay(DayOf(now), FALSE)
    /\ UNCHANGED <<ledgers, tables, feed, now, faults>>

Restart ==
    /\ phase \in {"down", "broken"}
    /\ phase' = "starting" /\ agenda' = Startup
    /\ UNCHANGED <<ledgers, tables, feed, now, faults>>

Crash ==
    /\ phase \in {"starting", "running"} /\ faults < MaxFaults
    /\ phase' = "down" /\ agenda' = <<>> /\ feed' = FALSE
    /\ faults' = faults + 1
    /\ UNCHANGED <<ledgers, tables, now>>

(***************************************************************************)
(* The supervisor's other calls                                            *)
(***************************************************************************)
Connect ==
    /\ Idle /\ ~feed /\ ~hard
    /\ feed' = TRUE
    /\ UNCHANGED <<ledgers, tables, phase, agenda, now, faults>>

Disconnect ==
    /\ Idle /\ feed /\ faults < MaxFaults
    /\ feed' = FALSE /\ faults' = faults + 1
    /\ agenda' = HaltDay(DayOf(now), FALSE)
    /\ UNCHANGED <<ledgers, tables, phase, now>>

\* close_day, once a day after the session: both scenarios are reconciled,
\* and the report is committed before an unresolved day is halted.
CloseOwed == Idle /\ ~InSession(now) /\ ~\E a \in audits : a.day = DayOf(now)

BeginClose ==
    /\ CloseOwed
    /\ agenda' = Each(ReconcileOf) \o Do("close")
    /\ UNCHANGED <<ledgers, tables, phase, feed, now, faults>>

CloseDay ==
    /\ Doing("close")
    /\ audits' = audits \cup {[day |-> DayOf(now), unresolved |-> AnyPosition \/ OrdersLive]}
    /\ Then(IF AnyPosition \/ OrdersLive THEN HaltDay(DayOf(now), TRUE) ELSE <<>>)
    /\ UNCHANGED <<ledgers, receipts, contract, hard, opportunities, phase, feed, now, faults>>

\* Time passes while nothing is being processed and the report of the minute
\* has closed the day if it was due; a minute the connected
\* stream owes a bar and does not deliver is a fault.
Owed == Idle /\ feed /\ LastTs < now - 1 /\ (InSession(now - 1) \/ AnyPosition)

PassMinute ==
    /\ agenda = <<>> /\ now < Horizon /\ ~CloseOwed
    /\ now' = now + 1
    /\ faults' = faults + (IF Owed THEN 1 ELSE 0)
    /\ faults' <= MaxFaults
    /\ UNCHANGED <<ledgers, tables, phase, agenda, feed>>

Process ==
    \/ Reconcile \/ Dispatch \/ Acknowledge \/ MarkHard \/ CancelEntries \/ HaltEntries
    \/ RaiseNow \/ BeginApply \/ CheckContract \/ CheckFlat \/ Exclude \/ Pin
    \/ Advance \/ BeginStep \/ Decide \/ CountOpportunity \/ FinishApply
    \/ Resume \/ Started \/ Restart \/ BeginClose \/ CloseDay

Environment ==
    \/ Receive \/ ReceiveInvalid \/ ReceiveUnmapped \/ Crash \/ Connect \/ Disconnect
    \/ PassMinute

Next == Process \/ Environment

Spec == Init /\ [][Next]_vars

\* A roll is met with an exit that works: the run is halted for review and the
\* receipt stays, at this start and at every later one (_apply's ValueError).
StuckRoll == hard /\ Unapplied # {} /\ Rolls /\ OrdersLive /\ ~AnyPosition

(***************************************************************************)
(* Properties                                                              *)
(***************************************************************************)
TypeOK ==
    /\ sim \in [Scenario -> SimLedger] /\ w \in [Scenario -> WorkerLedger]
    /\ receipts \in Seq(Receipt)
    /\ contract \in Contracts \cup {"none"}
    /\ hard \in BOOLEAN
    /\ audits \subseteq [day : Nat, unresolved : BOOLEAN]
    /\ opportunities \subseteq [day : Nat, eligible : BOOLEAN]
    /\ phase \in {"starting", "running", "down", "broken"}
    /\ agenda \in Seq(Agenda)
    /\ feed \in BOOLEAN /\ now \in Nat /\ faults \in Nat

TradedBars == {Event(receipts[i].bar) : i \in Traded}

(* Every scenario consumes the same receipts: whenever the service is not  *)
(* processing, each broker and each worker has seen exactly the accepted   *)
(* receipts marked applied, whatever was interrupted between the scenarios *)
(* (continuous.py __init__, _apply).                                       *)
ScenariosInStep ==
    Idle => \A s \in Scenario : sim[s].bars = TradedBars /\ w[s].bars = TradedBars

EntryFills(db) == {i \in DOMAIN db.fills : db.fills[i].reason = "entry"}
TradedAt(ts)   == \E i \in DOMAIN receipts :
                     receipts[i].bar.ts = ts /\ receipts[i].disposition = "accepted"
ContractAt(ts) == receipts[CHOOSE i \in DOMAIN receipts : receipts[i].bar.ts = ts].bar.contract

Decision(v, id) ==
    v.intents[CHOOSE j \in DOMAIN v.intents : v.intents[j].req.id = id].req.submitted - 1

(* Entries never fill across a gap: between the bar that decided an entry  *)
(* and the bar that fills it no minute is missing and the contract is the  *)
(* same ("Cancel outstanding entry orders before a post-gap market event", *)
(* continuous.py _apply).                                                  *)
NoEntryAcrossGap ==
    \A s \in Scenario : \A i \in EntryFills(sim[s]) :
        LET f     == sim[s].fills[i]
            start == Decision(w[s], f.order)
        IN  \A ts \in start..f.ts : TradedAt(ts) /\ ContractAt(ts) = ContractAt(start)

(* A lot is closed on the contract it was opened on, over outages, rolls   *)
(* and restarts ("never transfer an open lot across contracts").           *)
LotsStayOnContract ==
    \A s \in Scenario : \A i, j \in DOMAIN sim[s].fills :
        /\ sim[s].fills[i].reason = "entry" /\ i < j
        /\ \A k \in (i + 1)..(j - 1) : sim[s].fills[k].reason = "entry"
        /\ sim[s].fills[j].reason # "entry"
        => ContractAt(sim[s].fills[i].ts) = ContractAt(sim[s].fills[j].ts)

(* A halt holds: no entry is filled in a scenario on a day that scenario   *)
(* halted, nor after its risk halt, even if the halt or the bar was        *)
(* interrupted by a crash between its commits (continuous.py halt_day).    *)
NoEntryOnHaltedDay ==
    [][\A s \in Scenario : \A i \in EntryFills(sim'[s]) \ EntryFills(sim[s]) :
          DayOf(sim'[s].fills[i].ts) \notin w[s].halted /\ ~w[s].riskHalted]_sim

(* A halt of the run reaches both scenarios before either trades on: no    *)
(* entry is filled in one scenario on a day on which the other is halted,  *)
(* unless that one traded that day and halted for its own loss; also when  *)
(* the process died between the scenarios (continuous.py halt_day).        *)
HaltReachesBoth ==
    [][\A s, t \in Scenario : \A i \in EntryFills(sim'[s]) \ EntryFills(sim[s]) :
          LET day == DayOf(sim'[s].fills[i].ts) IN
          day \in w[t].halted =>
              \/ Position(w[t].fills) # 0
              \/ \E j \in DOMAIN sim'[t].fills : DayOf(sim'[t].fills[j].ts) = day]_sim

(* A hard halt freezes trading: no broker sees another bar and no worker   *)
(* another intent in a run that is halted for review (continuous.py        *)
(* receive, _apply; scripts/continuous_paper.py run).                      *)
HardHaltFreezes ==
    [][hard => \A s \in Scenario : sim'[s].bars = sim[s].bars
                                   /\ Len(w'[s].intents) = Len(w[s].intents)]_vars

(* The time exit is retried: once the exit minute is decided with          *)
(* inventory, an exit of that day is working, also after earlier ones      *)
(* expired or were cancelled ("Retry a terminal rejected, cancelled or     *)
(* expired reduce-only exit while inventory remains").                     *)
ExitRetried ==
    [][\A s \in Scenario :
          LET b == Event(bar) IN
          /\ Doing("decide") /\ For = s /\ b \in w'[s].bars
          /\ Minute(b.ts) >= ExitMinute /\ Position(w[s].fills) # 0
          => \E i \in DOMAIN w'[s].intents :
                /\ w'[s].intents[i].req.id.day = DayOf(b.ts)
                /\ w'[s].intents[i].req.id.kind = "exit"
                /\ w'[s].intents[i].state \notin Final]_w

(* An opportunity counted as complete was complete for both scenarios: the *)
(* whole opening is in all four ledgers, on one contract (continuous.py    *)
(* _apply).                                                                *)
CompleteOpportunity ==
    \A o \in opportunities : o.eligible =>
        \A ts \in (o.day * Stride)..(o.day * Stride + OpeningBars - 1) :
            \A s \in Scenario :
                /\ [ts |-> ts, volume |-> TRUE] \in sim[s].bars \cap w[s].bars
                /\ ContractAt(ts) = ContractAt(o.day * Stride)

(* An opportunity that counts for the comparison was open to both          *)
(* scenarios: each saw the whole opening on one contract, and when the     *)
(* opening showed a direction each had asked for its entry, or still held  *)
(* a position; whatever was halted meanwhile (continuous.py _apply).       *)
OpportunityTaken ==
    [][\A o \in opportunities' \ opportunities : o.eligible =>
          \A s \in Scenario :
             /\ \A m \in 0..(OpeningBars - 1) :
                   LET ts == o.day * Stride + m IN
                   /\ [ts |-> ts, volume |-> TRUE] \in sim[s].bars \cap w[s].bars
                   /\ ContractAt(ts) = bar.contract
             /\ bar.impulse # 0 => \/ Earlier(w[s], o.day, "entry") # {}
                                   \/ Position(w[s].fills) # 0]_opportunities
=============================================================================
