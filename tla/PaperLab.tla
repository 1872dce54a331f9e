------------------------------- MODULE PaperLab -------------------------------
(***************************************************************************)
(* The process of the paper lab: scripts/paper_milestone.py worker_run     *)
(* driving the broker simulator and the worker over a tape of minute bars. *)
(* Each ledger is a SQLite file of its own, so the state is cut at every   *)
(* commit: the process may crash between any two steps, an uncommitted     *)
(* advance (tx) is lost with it, and the next run starts with recover().   *)
(* The transport between the two may be down from any point of a bar on.   *)
(***************************************************************************)
EXTENDS Worker

CONSTANTS
    Cases,       \* experiment settings, each with the bounds of its tape
    Session,     \* minutes of each session that have a bar
    Horizon,     \* bound on the horizons of the cases
    MaxFaults    \* bound on the faults of the cases

\* quantity, cap and reject are frozen settings.  No bar of the case is at or
\* beyond the minute horizon (a bound); crashes, disconnects, missing and empty
\* bars together are at most faults (a bound).
ASSUME CasesAssumption ==
    Cases \subseteq [quantity : 1..MaxQty, cap : Nat \ {0}, reject : BOOLEAN,
                    horizon : 0..Horizon, faults : 0..MaxFaults]

\* An entry is over by the minute that asks for the time exit (09:49, 10:14).
ASSUME TimeExitAssumption == OpeningBars + Latency + EntryLife <= ExitMinute + 1

VARIABLES
    sim,      \* the committed simulator ledger
    tx,       \* the simulator ledger as its open transaction sees it
    w,        \* the committed worker ledger
    case,     \* the frozen settings of this experiment
    tape,     \* the bars delivered so far, in time order
    cursor,   \* bars of the tape this process has gone through
    pc,       \* where the process is
    mode,     \* the caller of reconcile and dispatch: recover, step or final
    todo,     \* rows the running loop selected and has not reached
    offline,  \* FaultTransport.offline
    error,    \* the exception that ended the run
    faults    \* faults so far, for the bound

vars == <<sim, tx, w, case, tape, cursor, pc, mode, todo, offline, error, faults>>

bar == tape[cursor]

First(S, i) == i \in S /\ \A j \in S : i <= j

TypeOK ==
    /\ sim \in SimLedger /\ tx \in SimLedger /\ w \in WorkerLedger
    /\ case \in Cases
    /\ tape \in Seq(Bar)
    /\ cursor \in 0..Len(tape)
    /\ pc \in {"reconcile", "dispatch", "ack", "scan", "advance",
               "orders", "stops", "decide", "done", "failed"}
    /\ mode \in {"recover", "step", "final"}
    /\ todo \in SUBSET Nat
    /\ offline \in BOOLEAN
    /\ error \in {"none", "order_refused", "moved_backwards", "out_of_order"} \cup Alarm
    /\ faults \in Nat

Init ==
    /\ sim = EmptySim /\ tx = EmptySim /\ w = EmptyWorker
    /\ case \in Cases
    /\ tape = <<>> /\ cursor = 0
    /\ pc = "reconcile" /\ mode = "recover"
    /\ todo = {} /\ offline = FALSE /\ error = "none" /\ faults = 0

Fail(reason) ==
    /\ pc' = "failed" /\ error' = reason /\ tx' = sim /\ todo' = {}
    /\ UNCHANGED <<sim, w, case, tape, cursor, mode, offline, faults>>

(***************************************************************************)
(* Worker.reconcile, called by recover(), by step() and at the end.        *)
(***************************************************************************)
\* The dispatch loop over rows ends when none is left.
Dispatching(rows) == IF rows = {} THEN "scan" ELSE "dispatch"

\* Mutant: recover() goes on without dispatching what was left pending.
RecoversWithoutDispatch == CASE mode = "recover" -> "scan"
                             [] mode = "step"    -> "decide"
                             [] OTHER            -> "done"

AfterReconcile == CASE mode = "recover" -> Dispatching(Pending(Reconciled(w, sim)))
                    [] mode = "step"    -> "decide"
                    [] OTHER            -> "done"

Reconcile ==
    /\ pc = "reconcile" /\ ~offline
    /\ IF ReconcileError(w, sim) # "none"
       THEN Fail(ReconcileError(w, sim))
       ELSE /\ w' = Reconciled(w, sim)
            /\ pc' = AfterReconcile
            /\ todo' = IF mode = "recover" THEN Pending(Reconciled(w, sim)) ELSE {}
            /\ UNCHANGED <<sim, tx, case, tape, cursor, mode, offline, error, faults>>

\* Mutant: step() tries again instead of giving the bar up.
RetriesWhileOffline ==
    /\ pc = "reconcile" /\ offline
    /\ UNCHANGED vars

\* step() gives the bar up: transport_disconnected.
ReconcileDisconnected ==
    /\ pc = "reconcile" /\ offline
    /\ pc' = "scan"
    /\ UNCHANGED <<sim, tx, w, case, tape, cursor, mode, todo, offline, error, faults>>

(***************************************************************************)
(* Worker.dispatch: submit commits in the simulator, then the answer is    *)
(* recorded in the worker.                                                 *)
(***************************************************************************)
SubmitNext ==
    /\ pc = "dispatch" /\ ~offline
    /\ \E i \in todo :
         /\ First(todo, i)
         /\ IF Refused(sim, w.intents[i].req)
            THEN Fail("order_refused")
            ELSE /\ sim' = Submit(sim, w.intents[i].req, case.reject)
                 /\ tx' = sim'
                 /\ pc' = "ack"
                 /\ UNCHANGED <<w, case, tape, cursor, mode, todo, offline, error, faults>>

Acknowledge ==
    /\ pc = "ack"
    /\ \E i \in todo :
         /\ First(todo, i)
         /\ w' = Acknowledged(w, i, sim)
         /\ todo' = todo \ {i}
         /\ pc' = Dispatching(todo')
    /\ UNCHANGED <<sim, tx, case, tape, cursor, mode, offline, error, faults>>

\* step() leaves the rest pending: acknowledgment_unknown.
DispatchDisconnected ==
    /\ pc = "dispatch" /\ offline
    /\ pc' = "scan" /\ todo' = {}
    /\ UNCHANGED <<sim, tx, w, case, tape, cursor, mode, offline, error, faults>>

(***************************************************************************)
(* worker_run's loop over the tape.                                        *)
(***************************************************************************)
NextTs == IF tape = <<>> THEN 0 ELSE tape[Len(tape)].ts + 1

\* The market prints a bar, after any minutes that have none; every minute
\* of a session without one and every bar without volume is a fault.
Missed(ts) == {m \in NextTs..(ts - 1) : Minute(m) < Session}

NewBar ==
    /\ pc = "scan" /\ cursor = Len(tape)
    /\ \E ts \in NextTs..(case.horizon - 1), volume \in BOOLEAN :
         /\ Minute(ts) < Session
         /\ tape' = Append(tape, [ts |-> ts, volume |-> volume])
         /\ faults' = faults + Cardinality(Missed(ts)) + (IF volume THEN 0 ELSE 1)
         /\ faults' <= case.faults
    /\ UNCHANGED <<sim, tx, w, case, cursor, pc, mode, todo, offline, error>>

SkipProcessed ==
    /\ pc = "scan" /\ cursor < Len(tape)
    /\ tape[cursor + 1] \in w.bars
    /\ cursor' = cursor + 1
    /\ UNCHANGED <<sim, tx, w, case, tape, pc, mode, todo, offline, error, faults>>

TakeBar ==
    /\ pc = "scan" /\ cursor < Len(tape)
    /\ tape[cursor + 1] \notin w.bars
    /\ cursor' = cursor + 1
    /\ pc' = "advance" /\ mode' = "step" /\ offline' = FALSE
    /\ UNCHANGED <<sim, tx, w, case, tape, todo, error, faults>>

\* The tape is exhausted: the transport is restored for the last reconcile.
Finish ==
    /\ pc = "scan" /\ cursor = Len(tape)
    /\ \A ts \in NextTs..(case.horizon - 1) : Minute(ts) >= Session
    /\ pc' = "reconcile" /\ mode' = "final" /\ offline' = FALSE
    /\ UNCHANGED <<sim, tx, w, case, tape, cursor, todo, error, faults>>

(***************************************************************************)
(* Simulator.advance                                                       *)
(***************************************************************************)
AdvanceDuplicate ==
    /\ pc = "advance" /\ bar \in sim.bars
    /\ pc' = "reconcile"
    /\ UNCHANGED <<sim, tx, w, case, tape, cursor, mode, todo, offline, error, faults>>

BeginAdvance ==
    /\ pc = "advance" /\ bar \notin sim.bars
    /\ IF \E b \in sim.bars : bar.ts <= b.ts
       THEN Fail("out_of_order")
       ELSE /\ tx' = InsertBar(sim, bar)
            /\ todo' = ActiveOrders(sim)
            /\ pc' = "orders"
            /\ UNCHANGED <<sim, w, case, tape, cursor, mode, offline, error, faults>>

WorkNext ==
    /\ pc = "orders"
    /\ \E i \in todo :
         /\ First(todo, i)
         /\ tx' = WorkOrder(tx, i, bar, case.cap)
         /\ todo' = todo \ {i}
    /\ UNCHANGED <<sim, w, case, tape, cursor, pc, mode, offline, error, faults>>

\* The lots whose stop the bar's range reaches, new ones included.
BeginStops ==
    /\ pc = "orders" /\ todo = {}
    /\ todo' \in SUBSET (IF bar.volume THEN LotNumbers(tx) ELSE {})
    /\ pc' = "stops"
    /\ UNCHANGED <<sim, tx, w, case, tape, cursor, mode, offline, error, faults>>

StopNext ==
    /\ pc = "stops"
    /\ \E l \in todo :
         /\ First(todo, l)
         /\ tx' = StopLot(tx, l, bar)
         /\ todo' = todo \ {l}
    /\ UNCHANGED <<sim, w, case, tape, cursor, pc, mode, offline, error, faults>>

CommitAdvance ==
    /\ pc = "stops" /\ todo = {}
    /\ sim' = tx
    /\ pc' = "reconcile"
    /\ UNCHANGED <<tx, w, case, tape, cursor, mode, todo, offline, error, faults>>

(***************************************************************************)
(* Worker.step's transaction.                                              *)
(***************************************************************************)
Decide ==
    /\ pc = "decide"
    /\ IF Backwards(w, bar)
       THEN Fail("moved_backwards")
       ELSE \E impulse \in {-1, 0, 1}, risk \in Risk :
              /\ risk # "none" => Breachable(w)
              /\ w' = Decided(w, bar, impulse, risk, case.quantity)
              /\ todo' = Pending(w')
              /\ pc' = Dispatching(todo')
              /\ UNCHANGED <<sim, tx, case, tape, cursor, mode, offline, error, faults>>

(***************************************************************************)
(* Faults                                                                  *)
(***************************************************************************)
Disconnect ==
    /\ mode = "step" /\ pc \in {"reconcile", "dispatch"} /\ ~offline
    /\ faults < case.faults
    /\ offline' = TRUE /\ faults' = faults + 1
    /\ UNCHANGED <<sim, tx, w, case, tape, cursor, pc, mode, todo, error>>

\* The process dies and a new one opens the ledgers and begins recover().
Crash ==
    /\ pc \notin {"done", "failed"}
    /\ faults < case.faults
    /\ tx' = sim /\ todo' = {} /\ faults' = faults + 1
    /\ pc' = "reconcile" /\ mode' = "recover" /\ cursor' = 0 /\ offline' = FALSE
    /\ UNCHANGED <<sim, w, case, tape, error>>

Program ==
    \/ Reconcile \/ ReconcileDisconnected
    \/ SubmitNext \/ Acknowledge \/ DispatchDisconnected
    \/ SkipProcessed \/ TakeBar \/ Finish
    \/ AdvanceDuplicate \/ BeginAdvance \/ WorkNext
    \/ BeginStops \/ StopNext \/ CommitAdvance \/ Decide

Next == Program \/ NewBar \/ Disconnect \/ Crash

Spec == Init /\ [][Next]_vars

(***************************************************************************)
(* Safety                                                                  *)
(***************************************************************************)

(* Intents are committed before submission: the broker's orders are the    *)
(* first of the worker's intents, with the very requests the intents hold, *)
(* and an intent that is no longer pending did reach the broker            *)
(* (worker.py dispatch, storage of intents before transport.submit).       *)
IntentFirst ==
    /\ Len(sim.orders) <= Len(w.intents)
    /\ \A i \in DOMAIN sim.orders : sim.orders[i].req = w.intents[i].req
    /\ \A i \in DOMAIN w.intents :
          w.intents[i].state # "pending" => i <= Len(sim.orders)

(* Stable client ids: whatever was retried after a crash or a disconnect,  *)
(* no identity occurs twice in either ledger.                              *)
UniqueIds ==
    /\ \A i, j \in DOMAIN sim.orders :
          sim.orders[i].req.id = sim.orders[j].req.id => i = j
    /\ \A i, j \in DOMAIN w.intents :
          w.intents[i].req.id = w.intents[j].req.id => i = j

(* The reconciliation checks are alarms: in this system none ever goes off *)
(* and the broker never refuses a request or a bar (worker.py reconcile,   *)
(* simulator.py submit and advance).  What can end a run is the worker's   *)
(* refusal to process a bar it gave up during a disconnect, when a         *)
(* restarted process meets that bar on the tape again, after later ones.   *)
OnlyGivenUpBarsFail ==
    pc = "failed" =>
        /\ error = "moved_backwards"
        /\ bar \in sim.bars /\ bar \notin w.bars
        /\ \E b \in w.bars : b.ts > bar.ts

(* The worker decides on reconciled inventory: when step() looks at its    *)
(* account, its fills and order states are the broker's, stops that fired  *)
(* while it was disconnected or down included.                             *)
DecidesOnReconciledInventory ==
    pc = "decide" =>
        /\ w.fills = sim.fills
        /\ Position(w.fills) = SimPosition(sim)
        /\ \A i \in DOMAIN sim.orders : w.intents[i].state = sim.orders[i].state

(* The worker's fills are always the first of the broker's: a crash or a   *)
(* disconnect delays an observation, never loses or invents one.           *)
FillsObservedInOrder ==
    /\ Len(w.fills) <= Len(sim.fills)
    /\ \A i \in DOMAIN w.fills : w.fills[i] = sim.fills[i]

(* Exposure: inventory stays within the frozen quantity and on one side,   *)
(* however stops, partial entries, exits of several days and late          *)
(* deliveries interleave (simulator.py advance, reduce-only exits).        *)
ExposureBounded ==
    /\ Cardinality(sim.lots) <= case.quantity
    /\ \A u, v \in sim.lots : u.side = v.side

(* Once a protective stop closed a lot of an entry, that entry never fills *)
(* again: what is left of it was cancelled in the same transaction.        *)
NoFillAfterStop ==
    \A i, j \in DOMAIN sim.fills :
        /\ sim.fills[i].reason = "stop" /\ i < j
        => ~(sim.fills[j].reason = "entry" /\ sim.fills[j].order = sim.fills[i].order)

(* A day is entered at most once and for at most the frozen quantity, over *)
(* all crashes and retries.                                                *)
EntryUnits(day) == {p \in (1..Len(sim.fills)) \X (1..MaxQty) :
    /\ sim.fills[p[1]].reason = "entry" /\ sim.fills[p[1]].order.day = day
    /\ p[2] <= sim.fills[p[1]].qty}
OneEntryPerDay ==
    \A day \in {DayOf(b.ts) : b \in sim.bars} :
        Cardinality(EntryUnits(day)) <= case.quantity

(* An order is filled only by a bar that opened at least the latency after *)
(* the bar that decided it closed, and never by a bar the worker had seen  *)
(* when it decided (no look-ahead), even if dispatch was delayed.          *)
NoLookAhead ==
    \A f \in {sim.fills[i] : i \in DOMAIN sim.fills} : f.reason # "stop" =>
        \E i \in DOMAIN w.intents :
            /\ w.intents[i].req.id = f.order
            /\ f.ts >= w.intents[i].req.submitted + Latency
            /\ f.ts < w.intents[i].req.expires
            /\ \A b \in w.bars : b.ts + 1 = w.intents[i].req.submitted => b.ts < f.ts

(* Every bar the worker completes, and every recovery, with the transport  *)
(* up leaves no intent undelivered (worker.py recover, step).              *)
NoneLeftBehind == pc = "scan" /\ ~offline => Pending(w) = {}

\* Intent j is an exit asked for at or after the exit minute of its day, and
\* the worker has seen no later day.
TimeExit(v, j) ==
    LET req == v.intents[j].req
    IN  /\ req.id.kind = "exit" /\ Minute(req.submitted - 1) >= ExitMinute
        /\ \A b \in v.bars : DayOf(b.ts) <= req.id.day

\* What exit j has still to fill is no less than the inventory it reduces.
Covers(db, v, j) ==
    /\ Cardinality(db.lots) + FilledOf(db, j) <= v.intents[j].req.qty
    /\ \A u \in db.lots : u.side # v.intents[j].req.side

(* An exit that step() asks for at the exit minute or later is for all the *)
(* inventory there will be that day: entries are over by then, so what is  *)
(* left of the exit never falls behind what is held, over partial fills,   *)
(* stops, crashes, retries and deliveries that come late (worker.py _intent*)
(* and step, simulator.py advance).                                        *)
TimeExitCovers ==
    \A j \in DOMAIN w.intents : TimeExit(w, j) => Covers(sim, w, j)

(***************************************************************************)
(* The order protocol the two ledgers implement                            *)
(***************************************************************************)

\* The identities of the sessions within the horizon.
Ids == [day : {DayOf(ts) : ts \in 0..(Horizon - 1)}, kind : Kind, retry : {0}]

\* What the ledgers say of an identity: the broker's word before the worker's.
Book(db, v, id) ==
    IF Known(db, id)
    THEN LET o == db.orders[CHOOSE i \in DOMAIN db.orders : db.orders[i].req.id = id]
         IN  [status |-> IF o.state \in Active THEN "live" ELSE "over",
              qty |-> o.req.qty, filled |-> o.filled]
    ELSE IF HasIntent(v, id)
    THEN LET t == v.intents[CHOOSE i \in DOMAIN v.intents : v.intents[i].req.id = id]
         IN  [status |-> "intended", qty |-> t.req.qty, filled |-> 0]
    ELSE [status |-> "unknown", qty |-> 0, filled |-> 0]

Protocol == INSTANCE OrderProtocol WITH book <- [id \in Ids |-> Book(sim, w, id)]

(* Both ledgers together implement the exactly-once order protocol.        *)
ImplementsOrderProtocol == Protocol!Spec

(***************************************************************************)
(* Action properties                                                       *)
(***************************************************************************)

\* An exit of the day, on its way to the broker or working there, has held
\* units or more still to fill.
ExitFor(v, day, held) ==
    \E i \in DOMAIN v.intents :
        /\ v.intents[i].req.id.day = day /\ v.intents[i].req.id.kind = "exit"
        /\ v.intents[i].state \in {"pending"} \cup Active
        /\ held <= v.intents[i].req.qty - FilledOf(sim, i)

(* The registered protocol: "At completion of the 10:14 minute, submit a   *)
(* reduce-only time exit for remaining inventory"                          *)
(* (evidence/paper-milestone-protocol.json).  Once the exit minute is      *)
(* decided with inventory, an exit of the day is on its way to the broker  *)
(* or works there, for no less than what is held.                          *)
TimeExitSubmitted ==
    [][/\ pc = "decide" /\ bar \in w'.bars
       /\ Minute(bar.ts) = ExitMinute /\ Position(w.fills) # 0
       => ExitFor(w', DayOf(bar.ts), Size(Position(w.fills)))]_vars

HistoryKept ==
    /\ \A i \in DOMAIN sim.orders :
          sim.orders[i].state \in Final => sim'.orders[i] = sim.orders[i]
    /\ \A i \in DOMAIN sim.fills : sim'.fills[i] = sim.fills[i]
    /\ \A i \in DOMAIN w.intents : w'.intents[i].req = w.intents[i].req
    /\ \A i \in DOMAIN w.fills : w'.fills[i] = w.fills[i]

(* Final orders are final and recorded fills are permanent: no commit and  *)
(* no crash ever revises either ledger's history.                          *)
HistoryIsPermanent == [][HistoryKept]_<<sim, w>>
=============================================================================
