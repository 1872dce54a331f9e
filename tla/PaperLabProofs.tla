----------------------------- MODULE PaperLabProofs -----------------------------
(***************************************************************************)
(* Theorems about PaperLab for all values of its constants: any number of  *)
(* crashes and disconnects, any tape, any latency and lifetimes.           *)
(***************************************************************************)
EXTENDS PaperLab, LedgerProofs

(***************************************************************************)
(* The inductive invariant                                                 *)
(***************************************************************************)

\* The steps on a bar happen inside step(), which has a bar.
OnABar ==
    /\ pc \in {"advance", "orders", "stops", "decide"} => mode = "step"
    /\ mode = "step" => cursor # 0

\* Outside an advance nothing is uncommitted; inside it the transaction has
\* only added to what is committed.
OpenTransaction ==
    /\ pc \notin {"orders", "stops"} => tx = sim
    /\ pc \in {"orders", "stops"} => Follows(sim, tx)

\* The rows a loop has selected and not reached are still what it selected
\* them for; the order that awaits its acknowledgement is at the broker.
RowsToDo ==
    /\ pc = "orders" => todo \subseteq ActiveOrders(tx)
    /\ pc = "stops" => todo \subseteq LotNumbers(tx)
    /\ pc \in {"dispatch", "ack"} => todo = Pending(w)
    /\ pc = "ack" => \A i \in todo : First(todo, i) => i <= Len(sim.orders)

UniqueIntents ==
    \A i, j \in DOMAIN w.intents :
        w.intents[i].req.id = w.intents[j].req.id => i = j

IInv ==
    /\ TypeOK /\ OnABar /\ OpenTransaction /\ RowsToDo
    /\ Sound(sim) /\ IntentFirst /\ UniqueIntents /\ FillsObservedInOrder

(***************************************************************************)
(* What the ledger invariants need of a change of one of the ledgers       *)
(***************************************************************************)

(* A change that keeps both ledgers keeps what relates them.               *)
LEMMA SameLedgers ==
    ASSUME IInv, UNCHANGED <<sim, w>>
    PROVE  (Sound(sim) /\ IntentFirst /\ UniqueIntents /\ FillsObservedInOrder)'
BY DEF IInv, IntentFirst, UniqueIntents, FillsObservedInOrder

(* The least pending intent is the next one the broker lacks, unless the   *)
(* broker already has it.                                                  *)
LEMMA FirstPending ==
    ASSUME IInv, NEW i \in Pending(w), First(Pending(w), i)
    PROVE  /\ i \in DOMAIN w.intents /\ w.intents[i] \in Intent
           /\ Known(sim, w.intents[i].req.id) <=> i <= Len(sim.orders)
           /\ ~Known(sim, w.intents[i].req.id) => i = Len(sim.orders) + 1
<1>1. /\ i \in 1..Len(w.intents) /\ w.intents[i] \in Intent
      /\ Len(w.intents) \in Nat /\ Len(sim.orders) \in Nat
      /\ DOMAIN sim.orders = 1..Len(sim.orders)
      /\ DOMAIN w.intents = 1..Len(w.intents)
  BY WorkerFields, LedgerFields DEF Pending, IInv, TypeOK
<1>2. Known(sim, w.intents[i].req.id) => i <= Len(sim.orders)
  <2>1. ASSUME NEW k \in DOMAIN sim.orders, sim.orders[k].req.id = w.intents[i].req.id
        PROVE  i <= Len(sim.orders)
    BY <1>1, <2>1 DEF IInv, IntentFirst, UniqueIntents
  <2> QED BY <2>1 DEF Known
<1>3. i <= Len(sim.orders) => Known(sim, w.intents[i].req.id)
  BY <1>1 DEF Known, IInv, IntentFirst
<1>4. i <= Len(sim.orders) + 1
  <2>1. CASE i = 1
    BY <1>1, <2>1
  <2>2. CASE i # 1
    <3>1. i - 1 \in DOMAIN w.intents /\ i - 1 \notin Pending(w)
      BY <1>1, <2>2 DEF First
    <3>2. i - 1 <= Len(sim.orders)
      BY <3>1 DEF Pending, IInv, IntentFirst
    <3> QED BY <1>1, <3>2
  <2> QED BY <2>1, <2>2
<1> QED BY <1>1, <1>2, <1>3, <1>4

(* The rest of the tape has a bar for the step that works on one.          *)
LEMMA BarType ==
    ASSUME IInv, mode = "step"
    PROVE  bar \in Bar
BY ElementOfSeq DEF IInv, TypeOK, OnABar, bar

(***************************************************************************)
(* Induction                                                               *)
(***************************************************************************)

LEMMA InitIInv == Init => IInv
<1> SUFFICES ASSUME Init PROVE IInv
  OBVIOUS
<1>1. EmptyWorker \in WorkerLedger
  BY DEF EmptyWorker, WorkerLedger
<1>2. TypeOK
  <2>1. tape \in Seq(Bar) /\ Len(tape) = 0
    BY EmptySeq DEF Init
  <2>2. cursor \in 0..Len(tape) /\ todo \in SUBSET Nat
    BY <2>1 DEF Init
  <2>3. sim \in SimLedger /\ tx \in SimLedger /\ w \in WorkerLedger
    BY <1>1, EmptySimSound DEF Init
  <2> QED BY <2>1, <2>2, <2>3 DEF Init, TypeOK
<1>3. OnABar /\ OpenTransaction /\ RowsToDo
  BY DEF Init, OnABar, OpenTransaction, RowsToDo
<1>4. Sound(sim)
  BY EmptySimSound DEF Init
<1>5. IntentFirst /\ UniqueIntents /\ FillsObservedInOrder
  BY DEF Init, IntentFirst, UniqueIntents, FillsObservedInOrder, EmptySim, EmptyWorker
<1> QED BY <1>2, <1>3, <1>4, <1>5 DEF IInv

(* An exception keeps the ledgers and drops the open transaction.          *)
LEMMA FailKeeps ==
    ASSUME IInv, NEW reason, Fail(reason),
           reason \in {"order_refused", "moved_backwards", "out_of_order"} \cup Alarm
    PROVE  IInv'
<1>1. TypeOK'
  BY DEF IInv, TypeOK, Fail
<1>2. (OnABar /\ OpenTransaction /\ RowsToDo)'
  BY DEF IInv, OnABar, OpenTransaction, RowsToDo, Fail
<1>3. (Sound(sim) /\ IntentFirst /\ UniqueIntents /\ FillsObservedInOrder)'
  BY SameLedgers DEF Fail
<1> QED BY <1>1, <1>2, <1>3 DEF IInv

LEMMA ReconcileKeeps ==
    ASSUME IInv, Reconcile
    PROVE  IInv'
<1>1. CASE ReconcileError(w, sim) # "none"
  <2>1. ReconcileError(w, sim) \in {"none"} \cup Alarm
    BY DEF ReconcileError, Alarm
  <2> QED BY <1>1, <2>1, FailKeeps DEF Reconcile
<1>2. CASE ReconcileError(w, sim) = "none"
  <2>0. /\ w' = Reconciled(w, sim) /\ pc' = AfterReconcile
        /\ todo' = (IF mode = "recover" THEN Pending(w') ELSE {})
        /\ UNCHANGED <<sim, tx, case, tape, cursor, mode, offline, error, faults>>
        /\ pc = "reconcile"
    BY <1>2 DEF Reconcile
  <2>1. /\ w' \in WorkerLedger /\ SameIntents(w, w')
        /\ w'.fills = IF Len(sim.fills) >= Len(w.fills) THEN sim.fills ELSE w.fills
        /\ \A j \in DOMAIN w.intents : w'.intents[j] = Answered(w.intents[j], sim)
    BY <2>0, ReconciledKeeps DEF IInv, TypeOK
  <2>2. pc' \in {"dispatch", "scan", "decide", "done"}
        /\ (pc' = "decide" => mode = "step")
        /\ (pc' = "dispatch" => mode = "recover")
    BY <2>0 DEF AfterReconcile, Dispatching, IInv, TypeOK
  <2>3. todo' \in SUBSET Nat
    BY <2>0, <2>1, WorkerFields DEF Pending
  <2>4. TypeOK'
    BY <2>0, <2>1, <2>2, <2>3 DEF IInv, TypeOK
  <2>5. (OnABar /\ OpenTransaction /\ RowsToDo)'
    BY <2>0, <2>2 DEF IInv, OnABar, OpenTransaction, RowsToDo
  <2>6. IntentFirst'
    <3>1. \A i \in DOMAIN w'.intents : w'.intents[i].state # "pending" => i <= Len(sim.orders)
      <4> SUFFICES ASSUME NEW i \in DOMAIN w'.intents, w'.intents[i].state # "pending"
                   PROVE  i <= Len(sim.orders)
        OBVIOUS
      <4>1. i \in DOMAIN w.intents /\ w.intents[i] \in Intent
        BY <2>1, WorkerFields DEF SameIntents, IInv, TypeOK
      <4>2. CASE ~Known(sim, w.intents[i].req.id)
        BY <2>1, <4>1, <4>2, AnsweredKeeps DEF IInv, TypeOK, IntentFirst
      <4>3. CASE Known(sim, w.intents[i].req.id)
        <5>1. PICK k \in DOMAIN sim.orders : sim.orders[k].req.id = w.intents[i].req.id
          BY <4>3 DEF Known
        <5>2. k \in DOMAIN w.intents /\ k <= Len(sim.orders)
          BY LedgerFields, WorkerFields DEF IInv, TypeOK, IntentFirst
        <5> QED BY <4>1, <5>1, <5>2 DEF IInv, IntentFirst, UniqueIntents
      <4> QED BY <4>2, <4>3
    <3>2. \A i \in DOMAIN sim.orders : i \in DOMAIN w.intents
      BY LedgerFields, WorkerFields DEF IInv, TypeOK, IntentFirst
    <3> QED BY <2>0, <2>1, <3>1, <3>2 DEF IInv, IntentFirst, SameIntents
  <2>7. UniqueIntents'
    <3>1. DOMAIN w'.intents = DOMAIN w.intents
      BY <2>1, WorkerFields DEF SameIntents, IInv, TypeOK
    <3> QED BY <2>1, <3>1 DEF IInv, UniqueIntents, SameIntents
  <2>8. FillsObservedInOrder'
    BY <2>0, <2>1, LedgerFields DEF IInv, TypeOK, FillsObservedInOrder
  <2> QED BY <2>0, <2>4, <2>5, <2>6, <2>7, <2>8 DEF IInv
<1> QED BY <1>1, <1>2

(* Submitting appends the least pending intent to the broker's orders, or  *)
(* finds it there already.                                                 *)
LEMMA SubmitNextKeeps ==
    ASSUME IInv, SubmitNext
    PROVE  IInv'
<1>1. PICK i \in todo :
        /\ First(todo, i)
        /\ IF Refused(sim, w.intents[i].req)
           THEN Fail("order_refused")
           ELSE /\ sim' = Submit(sim, w.intents[i].req, case.reject)
                /\ tx' = sim'
                /\ pc' = "ack"
                /\ UNCHANGED <<w, case, tape, cursor, mode, todo, offline, error, faults>>
  BY DEF SubmitNext
<1>2. CASE Refused(sim, w.intents[i].req)
  BY <1>1, <1>2, FailKeeps
<1>3. CASE ~Refused(sim, w.intents[i].req)
  <2> DEFINE req == w.intents[i].req
  <2>0. /\ sim' = Submit(sim, req, case.reject) /\ tx' = sim' /\ pc' = "ack"
        /\ UNCHANGED <<w, case, tape, cursor, mode, todo, offline, error, faults>>
        /\ pc = "dispatch" /\ todo = Pending(w)
    BY <1>1, <1>3 DEF SubmitNext, IInv, RowsToDo
  <2>1. /\ i \in DOMAIN w.intents /\ req \in Request
        /\ i \in Nat /\ Len(sim.orders) \in Nat
        /\ Known(sim, req.id) <=> i <= Len(sim.orders)
        /\ ~Known(sim, req.id) => i = Len(sim.orders) + 1
    BY <1>1, <2>0, FirstPending, WorkerFields, LedgerFields DEF IInv, TypeOK, Intent
  <2> HIDE DEF req
  <2>2. /\ sim' \in SimLedger /\ Sound(sim') /\ Extends(sim, sim')
        /\ sim'.fills = sim.fills
        /\ i <= Len(sim'.orders) /\ Len(sim.orders) <= Len(sim'.orders)
        /\ \A k \in DOMAIN sim'.orders :
              k \in DOMAIN sim.orders \/ (k = i /\ sim'.orders[k].req = req)
        /\ \A k \in DOMAIN sim.orders : sim'.orders[k] = sim.orders[k]
        /\ Len(sim'.orders) <= Len(w.intents)
    <3>1. CASE Known(sim, req.id)
      <4>1. sim' = sim
        BY <2>0, <3>1 DEF Submit
      <4>2. sim \in SimLedger /\ Sound(sim) /\ Len(sim.orders) <= Len(w.intents)
        BY DEF IInv, TypeOK, IntentFirst
      <4>3. Sound(sim') /\ Extends(sim, sim')
        BY <4>1, <4>2, ExtendsReflexive
      <4>4. i <= Len(sim.orders)
        BY <2>1, <3>1
      <4> HIDE DEF IInv
      <4> QED BY <2>1, <4>1, <4>2, <4>3, <4>4
    <3>2. CASE ~Known(sim, req.id)
      <4>1. /\ sim' \in SimLedger /\ Sound(sim') /\ Extends(sim, sim')
            /\ Len(sim'.orders) = Len(sim.orders) + 1
            /\ sim'.orders[Len(sim'.orders)].req = req
            /\ \A k \in DOMAIN sim.orders : sim'.orders[k] = sim.orders[k]
            /\ sim'.fills = sim.fills
        BY <2>0, <2>1, <3>2, SubmitKeeps DEF IInv, TypeOK
      <4>2. /\ DOMAIN sim'.orders = 1..Len(sim'.orders)
            /\ DOMAIN sim.orders = 1..Len(sim.orders)
            /\ i <= Len(w.intents)
        BY <2>1, <4>1, LedgerFields, WorkerFields DEF IInv, TypeOK
      <4>3. i = Len(sim'.orders) /\ Len(sim'.orders) \in Nat
        BY <2>1, <3>2, <4>1
      <4>4. \A k \in DOMAIN sim'.orders :
               k \in DOMAIN sim.orders \/ (k = i /\ sim'.orders[k].req = req)
        BY <2>1, <4>1, <4>2, <4>3
      <4>5. /\ i <= Len(sim'.orders) /\ Len(sim.orders) <= Len(sim'.orders)
            /\ Len(sim'.orders) <= Len(w.intents)
        BY <2>1, <4>1, <4>2, <4>3
      <4> QED BY <4>1, <4>4, <4>5
    <3> QED BY <3>1, <3>2
  <2>3. TypeOK'
    BY <2>0, <2>2 DEF IInv, TypeOK
  <2>4. (OnABar /\ OpenTransaction)'
    BY <2>0, <2>2 DEF IInv, OnABar, OpenTransaction
  <2>5. RowsToDo'
    <3>1. \A k \in todo : First(todo, k) => k = i
      BY <1>1 DEF First, IInv, TypeOK
    <3> QED BY <2>0, <2>2, <3>1 DEF RowsToDo, First, Pending
  <2>6. IntentFirst'
    <3>1. \A k \in DOMAIN sim'.orders : sim'.orders[k].req = w.intents[k].req
      BY <2>2 DEF IInv, IntentFirst, req
    <3>2. \A k \in DOMAIN w.intents :
             w.intents[k].state # "pending" => k <= Len(sim'.orders)
      BY <2>1, <2>2, LedgerFields, WorkerFields DEF IInv, TypeOK, IntentFirst
    <3> QED BY <2>0, <2>2, <3>1, <3>2 DEF IntentFirst
  <2>7. (UniqueIntents /\ FillsObservedInOrder)'
    BY <2>0, <2>2 DEF IInv, UniqueIntents, FillsObservedInOrder
  <2> QED BY <2>2, <2>3, <2>4, <2>5, <2>6, <2>7 DEF IInv
<1> QED BY <1>2, <1>3

(* The acknowledged intent is at the broker.                               *)
LEMMA AcknowledgeKeeps ==
    ASSUME IInv, Acknowledge
    PROVE  IInv'
<1>1. PICK i \in todo : /\ First(todo, i)
                        /\ w' = Acknowledged(w, i, sim)
                        /\ todo' = todo \ {i}
                        /\ pc' = Dispatching(todo')
  BY DEF Acknowledge
<1>2. /\ UNCHANGED <<sim, tx, case, tape, cursor, mode, offline, error, faults>>
      /\ pc = "ack" /\ todo = Pending(w) /\ i <= Len(sim.orders)
  BY <1>1 DEF Acknowledge, IInv, RowsToDo
<1>3. /\ i \in DOMAIN w.intents /\ w.intents[i] \in Intent
      /\ Known(sim, w.intents[i].req.id)
  BY <1>1, <1>2, FirstPending
<1>4. /\ w' \in WorkerLedger /\ SameIntents(w, w') /\ w'.fills = w.fills
      /\ w'.intents[i].state # "pending"
      /\ \A j \in DOMAIN w.intents \ {i} : w'.intents[j] = w.intents[j]
  BY <1>1, <1>3, AcknowledgedKeeps, AnsweredKeeps DEF IInv, TypeOK
<1>5. DOMAIN w'.intents = DOMAIN w.intents
  BY <1>4, WorkerFields DEF SameIntents, IInv, TypeOK
<1>6. todo' = Pending(w') /\ todo' \in SUBSET Nat
  BY <1>1, <1>2, <1>4, <1>5 DEF Pending, IInv, TypeOK
<1>7. pc' \in {"scan", "dispatch"}
  BY <1>1 DEF Dispatching
<1>8. TypeOK'
  BY <1>2, <1>4, <1>6, <1>7 DEF IInv, TypeOK
<1>9. (OnABar /\ OpenTransaction /\ RowsToDo)'
  BY <1>2, <1>6, <1>7 DEF IInv, OnABar, OpenTransaction, RowsToDo
<1>10. IntentFirst'
  <2>1. \A k \in DOMAIN w.intents :
           w'.intents[k].state # "pending" => k <= Len(sim.orders)
    BY <1>2, <1>4 DEF IInv, IntentFirst
  <2>2. \A k \in DOMAIN sim.orders : k \in DOMAIN w.intents
    BY LedgerFields, WorkerFields DEF IInv, TypeOK, IntentFirst
  <2> QED BY <1>2, <1>4, <1>5, <2>1, <2>2 DEF IInv, IntentFirst, SameIntents
<1>11. UniqueIntents'
  BY <1>4, <1>5 DEF IInv, UniqueIntents, SameIntents
<1>12. (Sound(sim) /\ FillsObservedInOrder)'
  BY <1>2, <1>4 DEF IInv, FillsObservedInOrder
<1> QED BY <1>8, <1>9, <1>10, <1>11, <1>12 DEF IInv

(* The transaction of step() adds at most one intent, behind the others.   *)
LEMMA DecideKeeps ==
    ASSUME IInv, Decide
    PROVE  IInv'
<1>1. CASE Backwards(w, bar)
  BY <1>1, FailKeeps DEF Decide
<1>2. CASE ~Backwards(w, bar)
  <2>1. PICK impulse \in {-1, 0, 1}, risk \in Risk :
          /\ w' = Decided(w, bar, impulse, risk, case.quantity)
          /\ todo' = Pending(w')
          /\ pc' = Dispatching(todo')
          /\ UNCHANGED <<sim, tx, case, tape, cursor, mode, offline, error, faults>>
    BY <1>2 DEF Decide
  <2>2. mode = "step" /\ pc = "decide"
    BY DEF Decide, IInv, OnABar
  <2>3. bar \in Bar /\ case.quantity \in Nat \ {0}
    BY <2>2, BarType, CasesAssumption, MaxQtyAssumption DEF IInv, TypeOK
  <2>0. w \in WorkerLedger
    BY DEF IInv, TypeOK
  <2>4. w' \in WorkerLedger /\ AddsIntent(w, w') /\ w'.fills = w.fills
    BY <2>0, <2>1, <2>3, DecidedKeeps
  <2>5. /\ pc' \in {"scan", "dispatch"} /\ todo' \in SUBSET Nat
        /\ Len(w.intents) <= Len(w'.intents)
        /\ \A j \in DOMAIN w.intents : j \in DOMAIN w'.intents /\ w'.intents[j] = w.intents[j]
    BY <2>1, <2>4, WorkerFields DEF Dispatching, Pending, AddsIntent, IInv, TypeOK
  <2>6. TypeOK'
    BY <2>1, <2>4, <2>5 DEF IInv, TypeOK
  <2>7. (OnABar /\ OpenTransaction /\ RowsToDo)'
    BY <2>1, <2>2, <2>5 DEF IInv, OnABar, OpenTransaction, RowsToDo
  <2>8. IntentFirst'
    <3>1. \A i \in DOMAIN w'.intents :
             w'.intents[i].state # "pending" => i <= Len(sim.orders)
      <4>1. \A i \in DOMAIN w'.intents :
               i \in DOMAIN w.intents \/ w'.intents[i].state = "pending"
        BY <2>4, <2>5, WorkerFields DEF AddsIntent, IInv, TypeOK
      <4> QED BY <2>5, <4>1 DEF IInv, IntentFirst
    <3>2. \A i \in DOMAIN sim.orders : i \in DOMAIN w.intents
      BY LedgerFields, WorkerFields DEF IInv, TypeOK, IntentFirst
    <3>3. Len(sim.orders) <= Len(w'.intents)
      BY <2>4, <2>5, LedgerFields, WorkerFields DEF IInv, TypeOK, IntentFirst
    <3> QED BY <2>1, <2>5, <3>1, <3>2, <3>3 DEF IInv, IntentFirst
  <2>9. UniqueIntents'
    <3>1. CASE w'.intents = w.intents
      BY <3>1 DEF IInv, UniqueIntents
    <3>2. CASE w'.intents # w.intents
      <4>1. /\ Len(w'.intents) = Len(w.intents) + 1
            /\ ~HasIntent(w, w'.intents[Len(w'.intents)].req.id)
        BY <2>4, <3>2 DEF AddsIntent
      <4>2. \A i \in DOMAIN w'.intents : i \in DOMAIN w.intents \/ i = Len(w'.intents)
        BY <2>4, <4>1, WorkerFields DEF IInv, TypeOK
      <4>3. \A i \in DOMAIN w.intents :
               w'.intents[i].req.id # w'.intents[Len(w'.intents)].req.id
        BY <2>5, <4>1 DEF HasIntent
      <4> QED BY <2>5, <4>2, <4>3 DEF IInv, UniqueIntents
    <3> QED BY <3>1, <3>2
  <2>10. (Sound(sim) /\ FillsObservedInOrder)'
    BY <2>1, <2>4 DEF IInv, FillsObservedInOrder
  <2> QED BY <2>6, <2>7, <2>8, <2>9, <2>10 DEF IInv
<1> QED BY <1>1, <1>2

(***************************************************************************)
(* The steps of an advance                                                 *)
(***************************************************************************)

(* Within a transaction what follows is what follows the committed ledger. *)
LEMMA FollowsOn ==
    ASSUME NEW a \in SimLedger, NEW b \in SimLedger, NEW c,
           Follows(a, b), Follows(b, c)
    PROVE  Follows(a, c)
BY ExtendsTransitive DEF Follows

LEMMA BeginAdvanceKeeps ==
    ASSUME IInv, BeginAdvance
    PROVE  IInv'
<1>1. CASE \E b \in sim.bars : bar.ts <= b.ts
  BY <1>1, FailKeeps DEF BeginAdvance
<1>2. CASE ~\E b \in sim.bars : bar.ts <= b.ts
  <2>1. mode = "step" /\ bar \in Bar /\ sim \in SimLedger /\ Sound(sim)
    BY BarType DEF BeginAdvance, IInv, TypeOK, OnABar
  <2>2. Follows(sim, InsertBar(sim, bar)) /\ InsertBar(sim, bar).orders = sim.orders
    BY <2>1, InsertBarKeeps
  <2>3. /\ tx' = InsertBar(sim, bar) /\ todo' = ActiveOrders(sim) /\ pc' = "orders"
        /\ UNCHANGED <<sim, w, case, tape, cursor, mode, offline, error, faults>>
    BY <1>2 DEF BeginAdvance
  <2>4. todo' \in SUBSET Nat /\ todo' = ActiveOrders(tx')
    BY <2>1, <2>2, <2>3, LedgerFields DEF ActiveOrders
  <2>5. TypeOK'
    BY <2>2, <2>3, <2>4 DEF IInv, TypeOK, Follows
  <2>6. (OnABar /\ OpenTransaction /\ RowsToDo)'
    BY <2>1, <2>2, <2>3, <2>4 DEF IInv, OnABar, OpenTransaction, RowsToDo
  <2> QED BY <2>3, <2>5, <2>6, SameLedgers DEF IInv
<1> QED BY <1>1, <1>2

LEMMA WorkNextKeeps ==
    ASSUME IInv, WorkNext
    PROVE  IInv'
<1>1. PICK i \in todo : /\ tx' = WorkOrder(tx, i, bar, case.cap)
                        /\ todo' = todo \ {i}
  BY DEF WorkNext
<1>2. /\ pc = "orders" /\ UNCHANGED <<sim, w, case, tape, cursor, pc, mode, offline, error, faults>>
  BY DEF WorkNext
<1>3. /\ mode = "step" /\ bar \in Bar /\ case.cap \in Nat \ {0}
      /\ tx \in SimLedger /\ Sound(tx) /\ Follows(sim, tx) /\ sim \in SimLedger
      /\ todo \subseteq ActiveOrders(tx) /\ i \in ActiveOrders(tx)
  BY <1>1, <1>2, BarType, CasesAssumption
     DEF IInv, TypeOK, OnABar, OpenTransaction, RowsToDo, Follows
<1>4. /\ Follows(tx, tx')
      /\ \A k \in DOMAIN tx.orders \ {i} : tx'.orders[k] = tx.orders[k]
  BY <1>1, <1>3, WorkOrderFollows
<1>5. Follows(sim, tx') /\ tx' \in SimLedger
  BY <1>3, <1>4, FollowsOn DEF Follows
<1>6. todo' \subseteq ActiveOrders(tx')
  <2>1. DOMAIN tx'.orders = DOMAIN tx.orders
    BY <1>3, <1>4, <1>5, LedgerFields DEF Follows
  <2> QED BY <1>1, <1>3, <1>4, <2>1 DEF ActiveOrders
<1>7. TypeOK'
  BY <1>1, <1>2, <1>5 DEF IInv, TypeOK
<1>8. (OnABar /\ OpenTransaction /\ RowsToDo)'
  BY <1>2, <1>5, <1>6 DEF IInv, OnABar, OpenTransaction, RowsToDo
<1> QED BY <1>2, <1>7, <1>8, SameLedgers DEF IInv

LEMMA BeginStopsKeeps ==
    ASSUME IInv, BeginStops
    PROVE  IInv'
<1>1. /\ todo' \subseteq LotNumbers(tx) /\ pc = "orders" /\ pc' = "stops"
      /\ UNCHANGED <<sim, tx, w, case, tape, cursor, mode, offline, error, faults>>
  BY DEF BeginStops
<1>2. LotNumbers(tx) \subseteq Nat
  BY LedgerFields DEF IInv, TypeOK, LotNumbers, Unit
<1>3. TypeOK'
  BY <1>1, <1>2 DEF IInv, TypeOK
<1>4. (OnABar /\ OpenTransaction /\ RowsToDo)'
  BY <1>1 DEF IInv, OnABar, OpenTransaction, RowsToDo
<1> QED BY <1>1, <1>3, <1>4, SameLedgers DEF IInv

LEMMA StopNextKeeps ==
    ASSUME IInv, StopNext
    PROVE  IInv'
<1>1. PICK l \in todo : tx' = StopLot(tx, l, bar) /\ todo' = todo \ {l}
  BY DEF StopNext
<1>2. /\ pc = "stops" /\ UNCHANGED <<sim, w, case, tape, cursor, pc, mode, offline, error, faults>>
  BY DEF StopNext
<1>3. /\ mode = "step" /\ bar \in Bar
      /\ tx \in SimLedger /\ Sound(tx) /\ Follows(sim, tx) /\ sim \in SimLedger
      /\ todo \subseteq LotNumbers(tx) /\ l \in LotNumbers(tx)
  BY <1>1, <1>2, BarType DEF IInv, TypeOK, OnABar, OpenTransaction, RowsToDo, Follows
<1>4. Follows(tx, tx') /\ LotNumbers(tx') = LotNumbers(tx) \ {l}
  BY <1>1, <1>3, StopLotFollows
<1>5. Follows(sim, tx') /\ tx' \in SimLedger
  BY <1>3, <1>4, FollowsOn DEF Follows
<1>6. TypeOK'
  BY <1>1, <1>2, <1>5 DEF IInv, TypeOK
<1>7. (OnABar /\ OpenTransaction /\ RowsToDo)'
  BY <1>1, <1>2, <1>3, <1>4, <1>5 DEF IInv, OnABar, OpenTransaction, RowsToDo
<1> QED BY <1>2, <1>6, <1>7, SameLedgers DEF IInv

LEMMA CommitAdvanceKeeps ==
    ASSUME IInv, CommitAdvance
    PROVE  IInv'
<1>1. /\ sim' = tx /\ pc = "stops" /\ pc' = "reconcile"
      /\ UNCHANGED <<tx, w, case, tape, cursor, mode, todo, offline, error, faults>>
  BY DEF CommitAdvance
<1>2. /\ sim \in SimLedger /\ tx \in SimLedger /\ Sound(tx) /\ Extends(sim, tx)
      /\ Len(tx.orders) = Len(sim.orders)
  BY <1>1 DEF IInv, TypeOK, OpenTransaction, Follows
<1>3. TypeOK'
  BY <1>1, <1>2 DEF IInv, TypeOK
<1>4. (OnABar /\ OpenTransaction /\ RowsToDo)'
  BY <1>1 DEF IInv, OnABar, OpenTransaction, RowsToDo
<1>5. DOMAIN tx.orders = DOMAIN sim.orders
  BY <1>2, LedgerFields
<1>6. IntentFirst'
  BY <1>1, <1>2, <1>5 DEF IInv, IntentFirst, Extends
<1>7. FillsObservedInOrder'
  <2>1. /\ Len(w.fills) <= Len(sim.fills) /\ Len(sim.fills) <= Len(tx.fills)
        /\ Len(w.fills) \in Nat /\ Len(sim.fills) \in Nat /\ Len(tx.fills) \in Nat
        /\ DOMAIN w.fills = 1..Len(w.fills) /\ DOMAIN sim.fills = 1..Len(sim.fills)
    BY <1>2, LedgerFields, WorkerFields DEF IInv, TypeOK, FillsObservedInOrder, Extends
  <2>2. \A k \in DOMAIN w.fills : w.fills[k] = tx.fills[k]
    BY <1>2, <2>1 DEF IInv, FillsObservedInOrder, Extends
  <2> QED BY <1>1, <2>1, <2>2 DEF FillsObservedInOrder
<1>8. (Sound(sim) /\ UniqueIntents)'
  BY <1>1, <1>2 DEF IInv, UniqueIntents
<1> QED BY <1>3, <1>4, <1>6, <1>7, <1>8 DEF IInv

(***************************************************************************)
(* Invariance                                                              *)
(***************************************************************************)

(* The remaining steps move the process along the tape or interrupt it and *)
(* leave both committed ledgers alone.                                     *)
LEMMA OtherStepsKeep ==
    ASSUME IInv,
           \/ ReconcileDisconnected \/ DispatchDisconnected
           \/ NewBar \/ SkipProcessed \/ TakeBar \/ Finish
           \/ AdvanceDuplicate \/ Disconnect \/ Crash
    PROVE  IInv' /\ UNCHANGED <<sim, w>>
<1> USE DEF IInv, TypeOK, OnABar, OpenTransaction, RowsToDo
<1>1. CASE ReconcileDisconnected
  BY <1>1, SameLedgers DEF ReconcileDisconnected
<1>2. CASE DispatchDisconnected
  BY <1>2, SameLedgers DEF DispatchDisconnected
<1>3. CASE NewBar
  <2>1. PICK ts \in NextTs..(case.horizon - 1), volume \in BOOLEAN :
          /\ tape' = Append(tape, [ts |-> ts, volume |-> volume])
          /\ faults' = faults + Cardinality(Missed(ts)) + (IF volume THEN 0 ELSE 1)
    BY <1>3 DEF NewBar
  <2>2. NextTs \in Nat
    <3>1. CASE tape = <<>>
      BY <3>1 DEF NextTs
    <3>2. CASE tape # <<>>
      <4>1. tape[Len(tape)] \in Bar
        BY <3>2, EmptySeq, ElementOfSeq
      <4> QED BY <3>2, <4>1 DEF NextTs, Bar
    <3> QED BY <3>1, <3>2
  <2>3. ts \in Nat
    BY <2>1, <2>2
  <2>4. tape' \in Seq(Bar) /\ Len(tape') = Len(tape) + 1
    BY <2>1, <2>3, AppendProperties DEF Bar
  <2>5. faults' \in Nat
    <3>1. IsFiniteSet(NextTs..(ts - 1)) /\ Missed(ts) \subseteq NextTs..(ts - 1)
      BY <2>2, <2>3, FS_Interval DEF Missed
    <3>2. Cardinality(Missed(ts)) \in Nat
      BY <3>1, FS_Subset, FS_CardinalityType
    <3> QED BY <2>1, <3>2
  <2>6. TypeOK'
    BY <1>3, <2>4, <2>5, LenProperties DEF NewBar
  <2>7. (OnABar /\ OpenTransaction /\ RowsToDo)'
    BY <1>3 DEF NewBar
  <2> QED BY <1>3, <2>6, <2>7, SameLedgers DEF NewBar
<1>4. CASE SkipProcessed
  BY <1>4, LenProperties, SameLedgers DEF SkipProcessed
<1>5. CASE TakeBar
  <2>0. cursor' \in 0..Len(tape')
    BY <1>5, LenProperties DEF TakeBar
  <2>1. TypeOK'
    BY <1>5, <2>0, Zenon DEF TakeBar
  <2>2. (OnABar /\ OpenTransaction /\ RowsToDo)'
    BY <1>5 DEF TakeBar
  <2> QED BY <1>5, <2>1, <2>2, SameLedgers DEF TakeBar
<1>6. CASE Finish
  BY <1>6, SameLedgers DEF Finish
<1>7. CASE AdvanceDuplicate
  BY <1>7, SameLedgers DEF AdvanceDuplicate
<1>8. CASE Disconnect
  BY <1>8, SameLedgers DEF Disconnect
<1>9. CASE Crash
  <2>1. cursor' \in 0..Len(tape')
    BY <1>9, LenProperties DEF Crash
  <2>2. TypeOK'
    <3>1. faults' \in Nat /\ todo' \in SUBSET Nat
      BY <1>9 DEF Crash
    <3> QED BY <1>9, <2>1, <3>1, Zenon DEF Crash
  <2>3. (OnABar /\ OpenTransaction /\ RowsToDo)'
    BY <1>9 DEF Crash
  <2> QED BY <1>9, <2>2, <2>3, SameLedgers DEF Crash
<1> QED BY <1>1, <1>2, <1>3, <1>4, <1>5, <1>6, <1>7, <1>8, <1>9

(* The invariant is inductive.                                             *)
LEMMA NextIInv == IInv /\ [Next]_vars => IInv'
<1> SUFFICES ASSUME IInv, [Next]_vars PROVE IInv'
  OBVIOUS
<1>1. CASE Program
  BY <1>1, ReconcileKeeps, SubmitNextKeeps, AcknowledgeKeeps, BeginAdvanceKeeps,
     WorkNextKeeps, BeginStopsKeeps, StopNextKeeps, CommitAdvanceKeeps, DecideKeeps,
     OtherStepsKeep DEF Program
<1>2. CASE NewBar \/ Disconnect \/ Crash
  BY <1>2, OtherStepsKeep
<1>3. CASE UNCHANGED vars
  <2>1. (TypeOK /\ OnABar /\ OpenTransaction /\ RowsToDo)'
    BY <1>3 DEF vars, IInv, TypeOK, OnABar, OpenTransaction, RowsToDo, Pending, First
  <2> QED BY <1>3, <2>1, SameLedgers DEF vars, IInv
<1> QED BY <1>1, <1>2, <1>3 DEF Next

(* The inductive invariant holds in every state of every behaviour.        *)
THEOREM Inductive == Spec => []IInv
BY InitIInv, NextIInv, PTL DEF Spec

(* Type correctness of the two ledgers, the open transaction, the tape and *)
(* the control state of the process, for every tape and number of faults.  *)
THEOREM TypeCorrect == Spec => []TypeOK
<1>1. IInv => TypeOK
  BY DEF IInv
<1> QED BY <1>1, Inductive, PTL

(* Intents are committed before submission: the broker's orders are always *)
(* the first of the worker's intents, whatever crashes in between          *)
(* (worker.py dispatch, simulator.py submit).                              *)
THEOREM IntentBeforeSubmission == Spec => []IntentFirst
<1>1. IInv => IntentFirst
  BY DEF IInv
<1> QED BY <1>1, Inductive, PTL

(* Stable client ids: retries after crashes and disconnects never make a   *)
(* second order or a second intent with the same identity.                 *)
THEOREM NoDuplicates == Spec => []UniqueIds
<1>1. IInv => UniqueIds
  <2>1. IInv => \A i \in DOMAIN sim.orders :
                   i \in DOMAIN w.intents /\ sim.orders[i].req = w.intents[i].req
    BY LedgerFields, WorkerFields DEF IInv, TypeOK, IntentFirst
  <2> QED BY <2>1 DEF IInv, UniqueIntents, UniqueIds
<1> QED BY <1>1, Inductive, PTL

(* The worker never invents, loses or reorders a fill: what it has         *)
(* recorded is always the beginning of what the broker has recorded.       *)
THEOREM FillsAreObservedInOrder == Spec => []FillsObservedInOrder
<1>1. IInv => FillsObservedInOrder
  BY DEF IInv
<1> QED BY <1>1, Inductive, PTL

(***************************************************************************)
(* History                                                                 *)
(***************************************************************************)

\* What a step does to the two committed ledgers: the broker's comes after
\* the one it was, new orders are of intents there already and unfilled, and
\* the worker keeps its requests and the fills it observed.
Grows ==
    /\ Extends(sim, sim')
    /\ DOMAIN sim'.orders \subseteq DOMAIN w.intents
    /\ \A k \in DOMAIN sim'.orders \ DOMAIN sim.orders : sim'.orders[k].filled = 0
    /\ \A k \in DOMAIN w.intents :
          k \in DOMAIN w'.intents /\ w'.intents[k].req = w.intents[k].req
    /\ \A k \in DOMAIN w.fills : w'.fills[k] = w.fills[k]

(* The broker moves on with the worker at rest.                            *)
LEMMA BrokerGrows ==
    ASSUME IInv, Extends(sim, sim'), w' = w,
           DOMAIN sim'.orders \subseteq DOMAIN w.intents,
           \A k \in DOMAIN sim'.orders \ DOMAIN sim.orders : sim'.orders[k].filled = 0
    PROVE  Grows
BY DEF Grows

(* The worker moves on with the broker at rest.                            *)
LEMMA WorkerGrows ==
    ASSUME IInv, sim' = sim,
           \A k \in DOMAIN w.intents :
              k \in DOMAIN w'.intents /\ w'.intents[k].req = w.intents[k].req,
           \A k \in DOMAIN w.fills : w'.fills[k] = w.fills[k]
    PROVE  Grows
<1>1. DOMAIN sim.orders \subseteq DOMAIN w.intents
  BY LedgerFields, WorkerFields DEF IInv, TypeOK, IntentFirst
<1>2. Extends(sim, sim')
  BY ExtendsReflexive DEF IInv, TypeOK
<1> QED BY <1>1, <1>2 DEF Grows

LEMMA StepGrows == IInv /\ [Next]_vars => Grows
<1> SUFFICES ASSUME IInv, [Next]_vars PROVE Grows
  OBVIOUS
<1>0. /\ sim \in SimLedger /\ tx \in SimLedger /\ w \in WorkerLedger
      /\ DOMAIN sim.orders \subseteq DOMAIN w.intents
  BY LedgerFields, WorkerFields DEF IInv, TypeOK, IntentFirst
<1>1. ASSUME UNCHANGED <<sim, w>>
      PROVE  Grows
  BY <1>1, WorkerGrows
<1>2. CASE Reconcile
  <2>1. sim' = sim /\ (w' = w \/ w' = Reconciled(w, sim))
    BY <1>2 DEF Reconcile, Fail
  <2>2. CASE w' = Reconciled(w, sim)
    <3>1. /\ SameIntents(w, w') /\ w' \in WorkerLedger
          /\ w'.fills = IF Len(sim.fills) >= Len(w.fills) THEN sim.fills ELSE w.fills
      BY <1>0, <2>2, ReconciledKeeps
    <3>2. \A k \in DOMAIN w.fills : w'.fills[k] = w.fills[k]
      BY <3>1 DEF IInv, FillsObservedInOrder
    <3>3. \A k \in DOMAIN w.intents :
             k \in DOMAIN w'.intents /\ w'.intents[k].req = w.intents[k].req
      BY <1>0, <3>1, WorkerFields DEF SameIntents
    <3> QED BY <2>1, <3>2, <3>3, WorkerGrows
  <2> QED BY <1>1, <2>1, <2>2
<1>3. CASE SubmitNext
  <2>1. PICK i \in todo :
          /\ First(todo, i) /\ w' = w
          /\ sim' = sim \/ sim' = Submit(sim, w.intents[i].req, case.reject)
    BY <1>3 DEF SubmitNext, Fail
  <2>2. i \in Pending(w) /\ First(Pending(w), i)
    BY <1>3, <2>1 DEF SubmitNext, IInv, RowsToDo
  <2> DEFINE req == w.intents[i].req
  <2>3. /\ req \in Request /\ i \in DOMAIN w.intents
        /\ ~Known(sim, req.id) => i = Len(sim.orders) + 1
    BY <2>2, FirstPending DEF Intent
  <2> HIDE DEF req
  <2>4. CASE sim' = sim
    BY <1>1, <2>1, <2>4
  <2>5. CASE sim' # sim
    <3>1. sim' = Submit(sim, req, case.reject) /\ ~Known(sim, req.id)
      BY <2>1, <2>5 DEF Submit, req
    <3>2. /\ Extends(sim, sim') /\ sim' \in SimLedger
          /\ Len(sim'.orders) = Len(sim.orders) + 1
      BY <1>0, <2>3, <3>1, SubmitKeeps DEF IInv
    <3>3. sim'.orders[Len(sim.orders) + 1].filled = 0
      BY <1>0, <3>1, LedgerFields, AppendProperties DEF Submit, SimLedger
    <3>4. /\ DOMAIN sim'.orders = DOMAIN sim.orders \cup {Len(sim.orders) + 1}
      BY <1>0, <3>2, LedgerFields
    <3> QED BY <1>0, <2>1, <2>3, <3>1, <3>2, <3>3, <3>4, BrokerGrows
  <2> QED BY <2>4, <2>5
<1>4. CASE Acknowledge
  <2>1. PICK i \in todo : w' = Acknowledged(w, i, sim) /\ sim' = sim
    BY <1>4 DEF Acknowledge
  <2>2. i \in DOMAIN w.intents
    BY <1>4, <2>1 DEF Acknowledge, IInv, RowsToDo, Pending
  <2>3. SameIntents(w, w') /\ w'.fills = w.fills /\ w' \in WorkerLedger
    BY <1>0, <2>1, <2>2, AcknowledgedKeeps
  <2>4. \A k \in DOMAIN w.intents :
           k \in DOMAIN w'.intents /\ w'.intents[k].req = w.intents[k].req
    BY <1>0, <2>3, WorkerFields DEF SameIntents
  <2> QED BY <2>1, <2>3, <2>4, WorkerGrows
<1>5. CASE CommitAdvance
  <2>1. /\ sim' = tx /\ w' = w /\ Extends(sim, tx)
        /\ Len(tx.orders) = Len(sim.orders)
    BY <1>5 DEF CommitAdvance, IInv, OpenTransaction, Follows
  <2>2. DOMAIN tx.orders = DOMAIN sim.orders
    BY <1>0, <2>1, LedgerFields
  <2> QED BY <1>0, <2>1, <2>2, BrokerGrows
<1>6. CASE Decide
  <2>1. sim' = sim /\ (w' = w \/ \E impulse \in {-1, 0, 1}, risk \in Risk :
          w' = Decided(w, bar, impulse, risk, case.quantity))
    BY <1>6 DEF Decide, Fail
  <2>2. bar \in Bar /\ case.quantity \in Nat \ {0}
    BY <1>6, BarType, CasesAssumption, MaxQtyAssumption DEF Decide, IInv, TypeOK, OnABar
  <2>3. CASE w' # w
    <3>1. AddsIntent(w, w') /\ w'.fills = w.fills /\ w' \in WorkerLedger
      BY <1>0, <2>1, <2>2, <2>3, DecidedKeeps
    <3>2. \A k \in DOMAIN w.intents :
             k \in DOMAIN w'.intents /\ w'.intents[k].req = w.intents[k].req
      BY <1>0, <3>1, WorkerFields DEF AddsIntent
    <3> QED BY <2>1, <3>1, <3>2, WorkerGrows
  <2> QED BY <1>1, <2>1, <2>3
<1>7. CASE BeginAdvance \/ WorkNext \/ BeginStops \/ StopNext
  BY <1>1, <1>7 DEF BeginAdvance, Fail, WorkNext, BeginStops, StopNext
<1>8. CASE \/ ReconcileDisconnected \/ DispatchDisconnected
           \/ NewBar \/ SkipProcessed \/ TakeBar \/ Finish
           \/ AdvanceDuplicate \/ Disconnect \/ Crash
  BY <1>1, <1>8, OtherStepsKeep
<1>9. CASE UNCHANGED vars
  BY <1>1, <1>9 DEF vars
<1> QED BY <1>2, <1>3, <1>4, <1>5, <1>6, <1>7, <1>8, <1>9 DEF Next, Program

LEMMA StepKeepsHistory == IInv /\ [Next]_vars => [HistoryKept]_<<sim, w>>
<1>1. Grows => HistoryKept
  BY DEF Grows, Extends, HistoryKept
<1> QED BY <1>1, StepGrows

(* Neither ledger's history is ever revised: final orders stay as they     *)
(* are, recorded fills and committed requests are permanent, over every    *)
(* commit, crash and restart.                                              *)
THEOREM HistoryPermanent == Spec => HistoryIsPermanent
<1>1. Init => IInv
  BY InitIInv
<1>2. IInv /\ [Next]_vars => IInv'
  BY NextIInv
<1>3. IInv /\ [Next]_vars => [HistoryKept]_<<sim, w>>
  BY StepKeepsHistory
<1> QED BY <1>1, <1>2, <1>3, PTL DEF Spec, HistoryIsPermanent

(***************************************************************************)
(* What step() decides on                                                  *)
(***************************************************************************)

(* The broker's orders are distinct identities.                            *)
LEMMA UniqueOrders ==
    ASSUME IInv, NEW i \in DOMAIN sim.orders
    PROVE  /\ i \in DOMAIN w.intents /\ Known(sim, w.intents[i].req.id)
           /\ BrokerState(sim, w.intents[i].req.id) = sim.orders[i].state
<1>1. \A k \in DOMAIN sim.orders :
         k \in DOMAIN w.intents /\ sim.orders[k].req = w.intents[k].req
  BY LedgerFields, WorkerFields DEF IInv, TypeOK, IntentFirst
<1>2. \A k \in DOMAIN sim.orders : sim.orders[k].req.id = w.intents[i].req.id <=> k = i
  BY <1>1 DEF IInv, UniqueIntents
<1>3. (CHOOSE k \in DOMAIN sim.orders : sim.orders[k].req.id = w.intents[i].req.id) = i
  BY <1>2
<1> QED BY <1>1, <1>2, <1>3 DEF Known, BrokerState

LEMMA ReconcileAgrees ==
    ASSUME IInv, Reconcile, pc' = "decide"
    PROVE  DecidesOnReconciledInventory'
<1>1. /\ ReconcileError(w, sim) = "none"
      /\ w' = Reconciled(w, sim) /\ sim' = sim
  BY DEF Reconcile, Fail
<1>2. /\ w'.fills = IF Len(sim.fills) >= Len(w.fills) THEN sim.fills ELSE w.fills
      /\ \A j \in DOMAIN w.intents : w'.intents[j] = Answered(w.intents[j], sim)
  BY <1>1, ReconciledKeeps DEF IInv, TypeOK
<1>3. w'.fills = sim.fills
  BY <1>2, LedgerFields, WorkerFields DEF IInv, TypeOK, FillsObservedInOrder
<1>4. Position(sim.fills) = SimPosition(sim)
  BY <1>1 DEF ReconcileError
<1>5. \A i \in DOMAIN sim.orders : w'.intents[i].state = sim.orders[i].state
  <2> SUFFICES ASSUME NEW i \in DOMAIN sim.orders
               PROVE  w'.intents[i].state = sim.orders[i].state
    OBVIOUS
  <2>1. /\ i \in DOMAIN w.intents /\ Known(sim, w.intents[i].req.id)
        /\ BrokerState(sim, w.intents[i].req.id) = sim.orders[i].state
    BY UniqueOrders
  <2>2. w'.intents[i] = Answered(w.intents[i], sim)
    BY <1>2, <2>1
  <2>3. Answered(w.intents[i], sim).state = BrokerState(sim, w.intents[i].req.id)
    BY <2>1 DEF Answered
  <2> QED BY <2>1, <2>2, <2>3
<1> QED BY <1>1, <1>3, <1>4, <1>5 DEF DecidesOnReconciledInventory

LEMMA ReconciledInventoryKept ==
    IInv /\ DecidesOnReconciledInventory /\ [Next]_vars => DecidesOnReconciledInventory'
<1> SUFFICES ASSUME IInv, DecidesOnReconciledInventory, [Next]_vars, pc' = "decide"
             PROVE  DecidesOnReconciledInventory'
  BY DEF DecidesOnReconciledInventory
<1>1. CASE Reconcile
  BY <1>1, ReconcileAgrees
<1>2. CASE UNCHANGED vars
  BY <1>2 DEF vars, DecidesOnReconciledInventory
<1>3. ASSUME Program, ~Reconcile
      PROVE  FALSE
  BY <1>3 DEF Program, ReconcileDisconnected, SubmitNext, Acknowledge, Fail,
     DispatchDisconnected, Dispatching, SkipProcessed, TakeBar, Finish,
     AdvanceDuplicate, BeginAdvance, WorkNext, BeginStops, StopNext,
     CommitAdvance, Decide
<1>4. ASSUME NewBar \/ Disconnect \/ Crash
      PROVE  FALSE
  BY <1>4 DEF NewBar, Disconnect, Crash
<1> QED BY <1>1, <1>2, <1>3, <1>4 DEF Next

(* The worker decides on the broker's own inventory: whenever step() looks *)
(* at its account, its fills, its position and its order states are those  *)
(* of the broker, stops that fired during an outage included.              *)
THEOREM ReconciledDecisions == Spec => []DecidesOnReconciledInventory
<1>1. Init => DecidesOnReconciledInventory
  BY DEF Init, DecidesOnReconciledInventory
<1> QED BY <1>1, InitIInv, NextIInv, ReconciledInventoryKept, PTL DEF Spec

(***************************************************************************)
(* The invariant of the books, the tape and the schedule                   *)
(***************************************************************************)

\* The broker has the bars of the tape up to some point, the worker some of
\* those, and the process has gone through the tape no further than the broker.
TapeRead ==
    /\ \A i, j \in DOMAIN tape : i < j => tape[i].ts < tape[j].ts
    /\ w.bars \subseteq sim.bars
    /\ \A b \in sim.bars : \E i \in DOMAIN tape : tape[i] = b
    /\ \A i, j \in DOMAIN tape : i < j /\ tape[j] \in sim.bars => tape[i] \in sim.bars
    /\ \A i \in 1..cursor :
          \/ tape[i] \in sim.bars
          \/ i = cursor /\ pc \in {"advance", "orders", "stops", "failed"}
    /\ pc \in {"orders", "stops"} => /\ tx.bars = sim.bars \cup {bar}
                                     /\ \A b \in sim.bars : b.ts < bar.ts
    /\ \/ pc \in {"advance", "orders", "stops"}
       \/ mode = "step" /\ pc \in {"reconcile", "decide"}
       => bar \notin w.bars

\* Every intent is scheduled by the bar that decided it, entries by the bar
\* that ends an opening window, and within the frozen quantity.
Scheduled(v, quantity) ==
    \A k \in DOMAIN v.intents :
        LET req == v.intents[k].req
        IN  /\ req.id.retry = 0
            /\ req.eligible = req.submitted + Latency
            /\ req.qty <= MaxQty
            /\ \E b \in v.bars :
                  /\ req.submitted = b.ts + 1
                  /\ req.id.day = DayOf(b.ts)
                  /\ req.id.kind = "entry" =>
                        /\ Minute(b.ts) = OpeningBars - 1
                        /\ req.expires = req.eligible + EntryLife
                        /\ req.qty = quantity

\* Both the committed ledger and the open transaction are in order.
LedgersInOrder ==
    /\ Scheduled(w, case.quantity)
    /\ Booked(sim) /\ Booked(tx)
    /\ Exposed(sim, w, case.quantity) /\ Exposed(tx, w, case.quantity)

SInv == /\ IInv /\ DecidesOnReconciledInventory
        /\ TapeRead /\ LedgersInOrder /\ OnlyGivenUpBarsFail

(***************************************************************************)
(* Entries do not overlap                                                  *)
(***************************************************************************)

(* At most one entry is fresh at a time.                                   *)
LEMMA OneFresh ==
    ASSUME NEW v \in WorkerLedger, NEW quantity, Scheduled(v, quantity),
           \A i, j \in DOMAIN v.intents :
              v.intents[i].req.id = v.intents[j].req.id => i = j,
           NEW db, v.bars \subseteq db.bars,
           NEW j \in DOMAIN v.intents, NEW k \in DOMAIN v.intents,
           Fresh(db, v.intents[j].req), Fresh(db, v.intents[k].req)
    PROVE  j = k
<1> DEFINE rj == v.intents[j].req
           rk == v.intents[k].req
<1>1. /\ rj.id \in Id /\ rk.id \in Id
      /\ rj.id.kind = "entry" /\ rk.id.kind = "entry"
      /\ rj.id.retry = 0 /\ rk.id.retry = 0
  BY WorkerFields DEF Fresh, Scheduled, Intent, Request
<1>2. PICK a \in v.bars : /\ rj.submitted = a.ts + 1 /\ rj.id.day = DayOf(a.ts)
                          /\ Minute(a.ts) = OpeningBars - 1
                          /\ rj.expires = a.ts + 1 + Latency + EntryLife
  BY <1>1 DEF Scheduled
<1>3. PICK b \in v.bars : /\ rk.submitted = b.ts + 1 /\ rk.id.day = DayOf(b.ts)
                          /\ Minute(b.ts) = OpeningBars - 1
                          /\ rk.expires = b.ts + 1 + Latency + EntryLife
  BY <1>1 DEF Scheduled
<1>4. /\ a.ts \in Nat /\ b.ts \in Nat /\ DayOf(a.ts) \in Nat /\ DayOf(b.ts) \in Nat
      /\ a.ts < rk.expires /\ b.ts < rj.expires
      /\ b.ts < rk.expires /\ a.ts < rj.expires
      /\ Latency \in Nat /\ EntryLife \in Nat
  BY WorkerFields, DayNat, SessionAssumption DEF Fresh, Bar
<1>5. ~(DayOf(a.ts) < DayOf(b.ts))
  <2> SUFFICES ASSUME DayOf(a.ts) < DayOf(b.ts) PROVE FALSE
    OBVIOUS
  <2>1. a.ts + 1 + Latency + EntryLife <= b.ts
    BY <1>2, <1>3, <1>4, EntryOver
  <2> QED BY <1>2, <1>4, <2>1
<1>6. ~(DayOf(b.ts) < DayOf(a.ts))
  <2> SUFFICES ASSUME DayOf(b.ts) < DayOf(a.ts) PROVE FALSE
    OBVIOUS
  <2>1. b.ts + 1 + Latency + EntryLife <= a.ts
    BY <1>2, <1>3, <1>4, EntryOver
  <2> QED BY <1>3, <1>4, <2>1
<1>7. rj.id.day = rk.id.day
  BY <1>2, <1>3, <1>4, <1>5, <1>6
<1>8. rj.id = rk.id
  BY <1>1, <1>7 DEF Id
<1> QED BY <1>8

(***************************************************************************)
(* What changes of the ledgers keep                                        *)
(***************************************************************************)

LEMMA SameRequestsScheduled ==
    ASSUME NEW v \in WorkerLedger, NEW u \in WorkerLedger, SameIntents(v, u),
           v.bars \subseteq u.bars, NEW quantity, Scheduled(v, quantity)
    PROVE  Scheduled(u, quantity)
<1>1. DOMAIN u.intents = DOMAIN v.intents
  BY WorkerFields DEF SameIntents
<1> QED BY <1>1 DEF Scheduled, SameIntents

\* u has the intents of v and perhaps one that bar b decides, an entry only
\* without inventory.
Commits(v, u, b, quantity) ==
    \E kind \in Kind, side \in Int, n \in {quantity, Size(Position(v.fills))} :
        /\ u.intents = Append(v.intents,
              [req |-> NewRequest([day |-> DayOf(b.ts), kind |-> kind, retry |-> 0],
                                  side, n, b.ts),
               state |-> "pending"])
        /\ kind = "entry" => /\ Minute(b.ts) = OpeningBars - 1 /\ n = quantity
                             /\ Position(v.fills) = 0

(* The one intent a step may add, and why.                                 *)
LEMMA DecidedShape ==
    ASSUME NEW v \in WorkerLedger, NEW b \in Bar, NEW impulse \in Int, NEW risk,
           NEW quantity
    PROVE  LET u == Decided(v, b, impulse, risk, quantity)
           IN  u.intents = v.intents \/ Commits(v, u, b, quantity)
<1> DEFINE o == Observed(v, b, risk)
           pos == Position(o.fills)
           id(kind) == [day |-> DayOf(b.ts), kind |-> kind, retry |-> 0]
           u == Decided(v, b, impulse, risk, quantity)
           side == IF pos > 0 THEN -1 ELSE 1
<1>1. o.intents = v.intents /\ o.fills = v.fills
  BY DEF Observed
<1> HIDE DEF o
<1>2. ASSUME NEW kind, NEW s, NEW n
      PROVE  \/ WithIntent(o, id(kind), s, n, b.ts).intents = v.intents
             \/ WithIntent(o, id(kind), s, n, b.ts).intents
                  = Append(v.intents, [req |-> NewRequest(id(kind), s, n, b.ts),
                                       state |-> "pending"])
  BY <1>1 DEF WithIntent, WithIntents
<1>3. CASE WantsEntry(o, b, impulse)
  <2>1. u = WithIntent(o, id("entry"), impulse, quantity, b.ts)
    BY <1>3 DEF Decided, o
  <2>2. Minute(b.ts) = OpeningBars - 1 /\ Position(v.fills) = 0
    BY <1>1, <1>3 DEF WantsEntry
  <2> HIDE DEF u
  <2>3. \/ u.intents = v.intents
        \/ u.intents = Append(v.intents, [req |-> NewRequest(id("entry"), impulse,
                                                            quantity, b.ts),
                                          state |-> "pending"])
    BY <1>2, <2>1
  <2>4. "entry" \in Kind
    BY DEF Kind
  <2> QED BY <2>2, <2>3, <2>4 DEF u, Commits
<1>4. CASE ~WantsEntry(o, b, impulse) /\ WantsExit(o, b, risk)
  <2>1. u = WithIntent(o, id("exit"), side, Size(pos), b.ts)
    BY <1>4 DEF Decided, o
  <2>2. pos = Position(v.fills) /\ side \in Int
    BY <1>1
  <2> HIDE DEF u, side
  <2>3. \/ u.intents = v.intents
        \/ u.intents = Append(v.intents, [req |-> NewRequest(id("exit"), side, Size(pos), b.ts),
                                          state |-> "pending"])
    BY <1>2, <2>1
  <2>4. "exit" \in Kind /\ "exit" # "entry"
    BY DEF Kind
  <2> QED BY <2>2, <2>3, <2>4 DEF u, Commits
<1>5. CASE ~WantsEntry(o, b, impulse) /\ ~WantsExit(o, b, risk)
  <2>1. u = o
    BY <1>5 DEF Decided, o
  <2> QED BY <1>1, <2>1
<1> QED BY <1>3, <1>4, <1>5

(* What step() commits is scheduled by its bar and within the bounds of    *)
(* the inventory it decided on.                                            *)
LEMMA DecidedSafe ==
    ASSUME NEW v \in WorkerLedger, NEW b \in Bar, NEW impulse \in {-1, 0, 1},
           NEW risk \in Risk, NEW quantity \in 1..MaxQty,
           Scheduled(v, quantity),
           NEW db \in SimLedger, Sound(db), Exposed(db, v, quantity),
           Len(db.orders) <= Len(v.intents), Position(v.fills) = Net(db.lots)
    PROVE  LET u == Decided(v, b, impulse, risk, quantity)
           IN  Scheduled(u, quantity) /\ Exposed(db, u, quantity)
<1> DEFINE u == Decided(v, b, impulse, risk, quantity)
           pos == Position(v.fills)
<1>1. u \in WorkerLedger /\ u.bars = v.bars \cup {b}
  BY DecidedKeeps, MaxQtyAssumption
<1>2. /\ pos = 0 => db.lots = {}
      /\ Size(pos) <= quantity /\ Size(pos) <= MaxQty /\ quantity <= MaxQty
  <2>1. /\ Size(Net(db.lots)) = Cardinality(db.lots)
        /\ Net(db.lots) = 0 => db.lots = {}
    BY LedgerFields, OneSidedNet DEF Exposed, Sound
  <2>2. Cardinality(db.lots) <= quantity /\ Cardinality(db.lots) \in Nat
    BY FS_CardinalityType DEF Exposed, Sound
  <2>3. quantity \in Nat /\ quantity <= MaxQty /\ MaxQty \in Nat
    BY MaxQtyAssumption
  <2> QED BY <2>1, <2>2, <2>3
<1> HIDE DEF u, pos
<1>3. ASSUME u.intents = v.intents
      PROVE  Scheduled(u, quantity) /\ Exposed(db, u, quantity)
  BY <1>1, <1>3 DEF Scheduled, Exposed
<1>4. ASSUME NEW kind \in Kind, NEW side \in Int, NEW n \in {quantity, Size(pos)},
             u.intents = Append(v.intents,
                [req |-> NewRequest([day |-> DayOf(b.ts), kind |-> kind,
                                     retry |-> 0], side, n, b.ts),
                 state |-> "pending"]),
             kind = "entry" => /\ Minute(b.ts) = OpeningBars - 1 /\ n = quantity
                               /\ pos = 0
      PROVE  Scheduled(u, quantity) /\ Exposed(db, u, quantity)
  <2> DEFINE id == [day |-> DayOf(b.ts), kind |-> kind, retry |-> 0]
             req == NewRequest(id, side, n, b.ts)
             m == Len(v.intents) + 1
  <2>1. /\ Len(u.intents) = m /\ u.intents[m].req = req
        /\ \A k \in 1..Len(v.intents) : u.intents[k] = v.intents[k]
        /\ Len(v.intents) \in Nat
    BY <1>4, WorkerFields, AppendProperties
  <2>2. /\ DOMAIN u.intents = DOMAIN v.intents \cup {m}
        /\ DOMAIN v.intents = 1..Len(v.intents)
    BY <1>1, <2>1, WorkerFields
  <2>3. /\ req.id = id /\ req.submitted = b.ts + 1 /\ req.qty = n
        /\ req.eligible = req.submitted + Latency
        /\ kind = "entry" => req.expires = req.eligible + EntryLife
    BY DEF NewRequest
  <2> HIDE DEF req
  <2>4. Scheduled(u, quantity)
    <3>1. ASSUME NEW k \in DOMAIN v.intents
          PROVE  LET r == u.intents[k].req
                 IN  /\ r.id.retry = 0
                     /\ r.eligible = r.submitted + Latency
                     /\ r.qty <= MaxQty
                     /\ \E c \in u.bars :
                           /\ r.submitted = c.ts + 1
                           /\ r.id.day = DayOf(c.ts)
                           /\ r.id.kind = "entry" =>
                                 /\ Minute(c.ts) = OpeningBars - 1
                                 /\ r.expires = r.eligible + EntryLife
                                 /\ r.qty = quantity
      <4>1. u.intents[k] = v.intents[k]
        BY <2>1, <2>2
      <4>2. v.bars \subseteq u.bars
        BY <1>1
      <4> QED BY <4>1, <4>2 DEF Scheduled
    <3>2. LET r == u.intents[m].req
          IN  /\ r.id.retry = 0
              /\ r.eligible = r.submitted + Latency
              /\ r.qty <= MaxQty
              /\ \E c \in u.bars :
                    /\ r.submitted = c.ts + 1
                    /\ r.id.day = DayOf(c.ts)
                    /\ r.id.kind = "entry" =>
                          /\ Minute(c.ts) = OpeningBars - 1
                          /\ r.expires = r.eligible + EntryLife
                          /\ r.qty = quantity
      <4>1. b \in u.bars
        BY <1>1
      <4> QED BY <1>2, <1>4, <2>1, <2>3, <4>1
    <3> QED BY <2>2, <3>1, <3>2 DEF Scheduled
  <2>5. m \notin DOMAIN db.orders
    BY <2>1, LedgerFields
  <2>6. Fresh(db, req) => db.lots = {}
    BY <1>2, <1>4, <2>3 DEF Fresh
  <2>7. Exposed(db, u, quantity)
    BY <2>1, <2>2, <2>5, <2>6 DEF Exposed
  <2> QED BY <2>4, <2>7
<1>5. u.intents = v.intents \/ Commits(v, u, b, quantity)
  <2>1. impulse \in Int
    OBVIOUS
  <2> QED BY <2>1, DecidedShape DEF u
<1>6. ASSUME Commits(v, u, b, quantity)
      PROVE  Scheduled(u, quantity) /\ Exposed(db, u, quantity)
  <2>1. PICK kind \in Kind, side \in Int, n \in {quantity, Size(Position(v.fills))} :
           /\ u.intents = Append(v.intents,
                 [req |-> NewRequest([day |-> DayOf(b.ts), kind |-> kind,
                                      retry |-> 0], side, n, b.ts),
                  state |-> "pending"])
           /\ kind = "entry" => /\ Minute(b.ts) = OpeningBars - 1 /\ n = quantity
                                /\ Position(v.fills) = 0
    BY <1>6, Zenon DEF Commits
  <2>2. n \in {quantity, Size(pos)} /\ (kind = "entry" => pos = 0)
    BY <2>1, Zenon DEF pos
  <2>3. kind = "entry" => Minute(b.ts) = OpeningBars - 1 /\ n = quantity /\ pos = 0
    BY <2>1, <2>2, Zenon
  <2> QED BY <1>4, <2>1, <2>2, <2>3
<1>7. Scheduled(u, quantity) /\ Exposed(db, u, quantity)
  BY <1>3, <1>5, <1>6
<1> QED BY <1>7 DEF u
(***************************************************************************)
(* Each step keeps it                                                      *)
(***************************************************************************)

LEMMA CaseType ==
    ASSUME IInv
    PROVE  /\ case.quantity \in 1..MaxQty /\ case.quantity \in Nat
           /\ case.quantity \in Nat \ {0} /\ case.cap \in Nat \ {0}
BY CasesAssumption, MaxQtyAssumption DEF IInv, TypeOK

LEMMA InitSInv == Init => SInv
<1> SUFFICES ASSUME Init PROVE SInv
  OBVIOUS
<1>1. IInv
  BY InitIInv
<1>2. DecidesOnReconciledInventory /\ OnlyGivenUpBarsFail
  BY DEF Init, DecidesOnReconciledInventory, OnlyGivenUpBarsFail
<1>3. TapeRead
  BY DEF Init, TapeRead, EmptySim, EmptyWorker
<1>4. LedgersInOrder
  <2>1. Cardinality({}) <= case.quantity
    BY <1>1, CaseType, FS_EmptySet
  <2>2. /\ w.intents = <<>> /\ sim.lots = {} /\ tx.lots = {}
        /\ Booked(sim) /\ Booked(tx)
    BY EmptyBooked DEF Init, EmptySim, EmptyWorker
  <2> QED BY <2>1, <2>2 DEF LedgersInOrder, Scheduled, Exposed
<1> QED BY <1>1, <1>2, <1>3, <1>4 DEF SInv

(* The tape is in time order, so a bar is where its minute says.           *)
LEMMA TapeOrder ==
    ASSUME IInv, TapeRead, NEW i \in DOMAIN tape, NEW j \in DOMAIN tape
    PROVE  /\ tape[i] = tape[j] => i = j
           /\ tape[i].ts <= tape[j].ts => i <= j
<1>1. /\ i \in Nat /\ j \in Nat /\ tape[i].ts \in Nat /\ tape[j].ts \in Nat
  <2>1. tape \in Seq(Bar) /\ DOMAIN tape = 1..Len(tape)
    BY LenProperties DEF IInv, TypeOK
  <2>2. tape[i] \in Bar /\ tape[j] \in Bar
    BY <2>1, ElementOfSeq
  <2> QED BY <2>1, <2>2 DEF Bar
<1>2. i < j => tape[i].ts < tape[j].ts
  BY DEF TapeRead
<1>3. j < i => tape[j].ts < tape[i].ts
  BY DEF TapeRead
<1> QED BY <1>1, <1>2, <1>3

(* In this system no check of reconcile ever fails.                        *)
LEMMA ReconcilePasses ==
    ASSUME IInv, Booked(sim)
    PROVE  ReconcileError(w, sim) = "none"
<1>1. /\ \A i \in DOMAIN sim.orders :
            i \in DOMAIN w.intents /\ sim.orders[i].req = w.intents[i].req
      /\ \A i \in DOMAIN w.intents :
            w.intents[i].state # "pending" => i \in DOMAIN sim.orders
  BY LedgerFields, WorkerFields DEF IInv, TypeOK, IntentFirst
<1>2. \A i \in DOMAIN sim.orders : HasIntent(w, sim.orders[i].req.id)
  BY <1>1 DEF HasIntent
<1>3. \A i \in DOMAIN sim.orders, j \in DOMAIN w.intents :
         sim.orders[i].req.id = w.intents[j].req.id => sim.orders[i].req = w.intents[j].req
  BY <1>1 DEF IInv, UniqueIntents
<1>4. \A j \in DOMAIN w.intents :
         w.intents[j].state # "pending" => Known(sim, w.intents[j].req.id)
  BY <1>1 DEF Known
<1>5. \A i \in DOMAIN sim.fills : HasIntent(w, sim.fills[i].order)
  BY <1>2 DEF IInv, Sound, Known
<1>6. \A i \in DOMAIN sim.fills : i \in DOMAIN w.fills => w.fills[i] = sim.fills[i]
  BY DEF IInv, FillsObservedInOrder
<1>7. Position(sim.fills) = SimPosition(sim)
  BY DEF Booked, Balanced
<1> QED BY <1>2, <1>3, <1>4, <1>5, <1>6, <1>7 DEF ReconcileError

(* What keeps the committed ledgers and drops or keeps the transaction.    *)
LEMMA RestInOrder ==
    ASSUME LedgersInOrder, UNCHANGED <<sim, w, case>>, tx' = tx \/ tx' = sim
    PROVE  LedgersInOrder'
<1>1. CASE tx' = tx
  BY <1>1, SMTT(30) DEF LedgersInOrder, Scheduled, Exposed, Fresh
<1>2. CASE tx' = sim
  BY <1>2, SMTT(30) DEF LedgersInOrder, Scheduled, Exposed, Fresh
<1> QED BY <1>1, <1>2

LEMMA RestSafe ==
    ASSUME SInv,
           \/ ReconcileDisconnected \/ DispatchDisconnected
           \/ SkipProcessed \/ TakeBar \/ Finish
           \/ AdvanceDuplicate \/ BeginStops \/ Disconnect \/ Crash
    PROVE  (TapeRead /\ LedgersInOrder /\ OnlyGivenUpBarsFail)'
<1>1. /\ UNCHANGED <<sim, w, case>> /\ (tx' = tx \/ tx' = sim) /\ pc' # "failed"
  BY DEF SInv, IInv, TypeOK, ReconcileDisconnected, DispatchDisconnected, SkipProcessed,
     TakeBar, Finish, AdvanceDuplicate, BeginStops, Disconnect, Crash
<1>2. LedgersInOrder' /\ OnlyGivenUpBarsFail'
  BY <1>1, RestInOrder DEF SInv, OnlyGivenUpBarsFail
<1>3. TapeRead'
  <2> USE <1>1 DEF SInv, IInv, OnABar, TapeRead, bar
  <2>0. cursor \in Nat
    BY LenProperties DEF TypeOK
  <2>1. CASE ReconcileDisconnected
    BY <2>1 DEF ReconcileDisconnected
  <2>2. CASE DispatchDisconnected
    BY <2>2 DEF DispatchDisconnected
  <2>3. CASE SkipProcessed
    BY <2>0, <2>3 DEF SkipProcessed
  <2>4. CASE TakeBar
    BY <2>0, <2>4 DEF TakeBar
  <2>5. CASE Finish
    BY <2>5 DEF Finish
  <2>6. CASE AdvanceDuplicate
    BY <2>6 DEF AdvanceDuplicate
  <2>7. CASE BeginStops
    BY <2>7 DEF BeginStops
  <2>8. CASE Disconnect
    BY <2>8 DEF Disconnect
  <2>9. CASE Crash
    BY <2>9 DEF Crash
  <2> QED BY <2>1, <2>2, <2>3, <2>4, <2>5, <2>6, <2>7, <2>8, <2>9
<1> QED BY <1>2, <1>3

(* A new bar comes after all others, so no ledger has it.                  *)
LEMMA NewBarSafe ==
    ASSUME SInv, NewBar
    PROVE  (TapeRead /\ LedgersInOrder /\ OnlyGivenUpBarsFail)'
<1>1. /\ UNCHANGED <<sim, tx, w, case, cursor, pc, mode>> /\ pc = "scan"
  BY DEF NewBar
<1>2. LedgersInOrder' /\ OnlyGivenUpBarsFail'
  BY <1>1, RestInOrder DEF SInv, OnlyGivenUpBarsFail
<1>3. tape \in Seq(Bar) /\ Len(tape) \in Nat /\ cursor \in 0..Len(tape)
  BY LenProperties DEF SInv, IInv, TypeOK
<1>4. PICK ts \in NextTs..(case.horizon - 1), volume \in BOOLEAN :
         tape' = Append(tape, [ts |-> ts, volume |-> volume])
  BY DEF NewBar
<1>5. /\ DOMAIN tape = 1..Len(tape)
      /\ \A i \in DOMAIN tape : tape[i] \in Bar /\ tape[i].ts \in Nat
  <2>1. \A i \in 1..Len(tape) : tape[i] \in Bar
    BY <1>3, ElementOfSeq
  <2> QED BY <1>3, <2>1, LenProperties DEF Bar
<1>6. NextTs \in Nat /\ \A i \in DOMAIN tape : tape[i].ts < NextTs
  <2>1. CASE tape = <<>>
    BY <1>5, <2>1 DEF NextTs
  <2>2. CASE tape # <<>>
    <3>1. Len(tape) \in DOMAIN tape
      BY <1>3, <1>5, <2>2, EmptySeq
    <3>2. \A i \in DOMAIN tape : tape[i].ts <= tape[Len(tape)].ts
      BY <1>3, <1>5, <3>1 DEF SInv, TapeRead
    <3>3. NextTs = tape[Len(tape)].ts + 1
      BY <2>2 DEF NextTs
    <3> QED BY <1>5, <3>1, <3>2, <3>3
  <2> QED BY <2>1, <2>2
<1> DEFINE n == Len(tape) + 1
<1>7. /\ Len(tape') = n /\ DOMAIN tape' = DOMAIN tape \cup {n}
      /\ n \notin DOMAIN tape
      /\ \A i \in DOMAIN tape : tape'[i] = tape[i] /\ i < n
      /\ tape'[n].ts = ts
  <2>1. tape' \in Seq(Bar)
    BY <1>3, <1>4, <1>6, AppendProperties DEF Bar
  <2> QED BY <1>3, <1>4, <1>5, <2>1, AppendProperties, LenProperties
<1>8. \A i \in DOMAIN tape : tape[i].ts < ts
  BY <1>4, <1>5, <1>6
<1>9. tape'[n] \notin sim.bars
  <2>1. \A b \in sim.bars : b.ts < ts
    BY <1>8 DEF SInv, TapeRead
  <2> QED BY <1>4, <1>6, <1>7, <2>1
<1>10. /\ \A i \in 1..cursor : i \in DOMAIN tape /\ tape[i] \in sim.bars
       /\ pc \notin {"advance", "orders", "stops", "reconcile", "decide"}
  BY <1>1, <1>3, <1>5 DEF SInv, TapeRead
<1>11. \A i, j \in DOMAIN tape' : i < j => tape'[i].ts < tape'[j].ts
  <2>1. \A i, j \in DOMAIN tape : i < j => tape'[i].ts < tape'[j].ts
    BY <1>7 DEF SInv, TapeRead
  <2>2. \A i \in DOMAIN tape : tape'[i].ts < tape'[n].ts /\ ~(n < i)
    BY <1>3, <1>5, <1>7, <1>8
  <2>3. ~(n < n)
    BY <1>3
  <2> HIDE DEF n
  <2> QED BY <1>7, <2>1, <2>2, <2>3
<1>12. \A b \in sim.bars : \E i \in DOMAIN tape' : tape'[i] = b
  BY <1>7 DEF SInv, TapeRead
<1>13. \A i, j \in DOMAIN tape' : i < j /\ tape'[j] \in sim.bars => tape'[i] \in sim.bars
  <2>1. \A i, j \in DOMAIN tape : i < j /\ tape'[j] \in sim.bars => tape'[i] \in sim.bars
    BY <1>7 DEF SInv, TapeRead
  <2>2. \A i \in DOMAIN tape : ~(n < i)
    BY <1>3, <1>5
  <2> HIDE DEF n
  <2> QED BY <1>7, <1>9, <2>1, <2>2
<1>14. TapeRead'
  BY <1>1, <1>7, <1>10, <1>11, <1>12, <1>13 DEF SInv, TapeRead
<1> QED BY <1>2, <1>14

LEMMA AnswersSafe ==
    ASSUME SInv, Reconcile \/ Acknowledge
    PROVE  (TapeRead /\ LedgersInOrder /\ OnlyGivenUpBarsFail)'
<1>1. /\ UNCHANGED <<sim, tx, case, tape, cursor, mode>>
      /\ w' \in WorkerLedger /\ SameIntents(w, w') /\ w'.bars = w.bars
      /\ pc = "reconcile" \/ (pc = "ack" /\ pc' # "decide")
      /\ pc' \in {"dispatch", "scan", "decide", "done"}
  <2>1. CASE Reconcile
    <3>1. /\ pc = "reconcile" /\ w' = Reconciled(w, sim) /\ pc' = AfterReconcile
          /\ UNCHANGED <<sim, tx, case, tape, cursor, mode>>
      BY <2>1, ReconcilePasses DEF Reconcile, SInv, LedgersInOrder
    <3>2. w' \in WorkerLedger /\ SameIntents(w, w') /\ w'.bars = w.bars
      BY <3>1, ReconciledKeeps DEF SInv, IInv, TypeOK
    <3>3. pc' \in {"dispatch", "scan", "decide", "done"}
      BY <3>1 DEF AfterReconcile, Dispatching
    <3> QED BY <3>1, <3>2, <3>3
  <2>2. CASE Acknowledge
    <3>1. PICK i \in todo : w' = Acknowledged(w, i, sim)
      BY <2>2 DEF Acknowledge
    <3>2. /\ i \in DOMAIN w.intents /\ pc = "ack" /\ pc' \in {"dispatch", "scan"}
          /\ UNCHANGED <<sim, tx, case, tape, cursor, mode>>
      BY <2>2, <3>1 DEF Acknowledge, Dispatching, SInv, IInv, RowsToDo, Pending
    <3>3. w' \in WorkerLedger /\ SameIntents(w, w') /\ w'.bars = w.bars
      BY <3>1, <3>2, AcknowledgedKeeps DEF SInv, IInv, TypeOK
    <3> QED BY <3>2, <3>3
  <2> QED BY <2>1, <2>2
<1>2. w \in WorkerLedger
  BY DEF SInv, IInv, TypeOK
<1>3. LedgersInOrder'
  <2>1. Scheduled(w', case.quantity)
    BY <1>1, <1>2, SameRequestsScheduled DEF SInv, LedgersInOrder
  <2>2. Exposed(sim, w', case.quantity) /\ Exposed(tx, w', case.quantity)
    BY <1>1, <1>2, SameRequestsExposed DEF SInv, LedgersInOrder
  <2> QED BY <1>1, <2>1, <2>2 DEF SInv, LedgersInOrder
<1>4. TapeRead'
  BY <1>1 DEF SInv, TapeRead, bar
<1> QED BY <1>1, <1>3, <1>4 DEF OnlyGivenUpBarsFail

LEMMA SubmitSafe ==
    ASSUME SInv, SubmitNext
    PROVE  (TapeRead /\ LedgersInOrder /\ OnlyGivenUpBarsFail)'
<1>1. PICK i \in todo :
        /\ First(todo, i)
        /\ IF Refused(sim, w.intents[i].req)
           THEN Fail("order_refused")
           ELSE /\ sim' = Submit(sim, w.intents[i].req, case.reject)
                /\ tx' = sim' /\ pc' = "ack"
                /\ UNCHANGED <<w, case, tape, cursor, mode, todo, offline, error, faults>>
  BY DEF SubmitNext
<1> DEFINE req == w.intents[i].req
<1>2. /\ i \in DOMAIN w.intents /\ req \in Request
      /\ Known(sim, req.id) <=> i <= Len(sim.orders)
      /\ ~Known(sim, req.id) => i = Len(sim.orders) + 1
      /\ pc = "dispatch" /\ sim \in SimLedger /\ w \in WorkerLedger /\ Sound(sim)
  BY <1>1, FirstPending DEF SubmitNext, SInv, IInv, TypeOK, RowsToDo, Intent
<1>3. req.qty <= MaxQty /\ req.eligible = req.submitted + Latency
  BY <1>2 DEF SInv, LedgersInOrder, Scheduled
<1>4. ~Refused(sim, req)
  <2>1. ~(req.eligible <= req.submitted) /\ ~(req.qty > MaxQty)
    <3>1. req.submitted \in Nat /\ req.qty \in Nat
      BY <1>2 DEF Request
    <3> HIDE DEF req
    <3> QED BY <1>3, <3>1, SessionAssumption, MaxQtyAssumption
  <2>2. \A k \in DOMAIN sim.orders : sim.orders[k].req.id = req.id => sim.orders[k].req = req
    <3>1. \A k \in DOMAIN sim.orders :
             k \in DOMAIN w.intents /\ sim.orders[k].req = w.intents[k].req
      BY <1>2, LedgerFields, WorkerFields DEF SInv, IInv, IntentFirst
    <3> QED BY <1>2, <3>1 DEF SInv, IInv, UniqueIntents
  <2> QED BY <2>1, <2>2 DEF Refused
<1>5. /\ sim' = Submit(sim, req, case.reject) /\ tx' = sim' /\ pc' = "ack"
      /\ UNCHANGED <<w, case, tape, cursor, mode>>
  BY <1>1, <1>4
<1> HIDE DEF req
<1>6. sim'.bars = sim.bars
  BY <1>2, <1>5 DEF Submit, SimLedger
<1>7. TapeRead'
  BY <1>2, <1>5, <1>6 DEF SInv, TapeRead, bar
<1>8. LedgersInOrder'
  <2>1. CASE Known(sim, req.id)
    <3>1. sim' = sim
      BY <1>5, <2>1 DEF Submit
    <3> QED BY <1>5, <3>1 DEF SInv, LedgersInOrder
  <2>2. CASE ~Known(sim, req.id)
    <3>1. Booked(sim')
      BY <1>2, <1>3, <1>5, <2>2, SubmitBooked DEF SInv, LedgersInOrder
    <3>2. Exposed(sim', w, case.quantity)
      <4>1. req.id.kind = "entry" => req.qty = case.quantity
        BY <1>2 DEF SInv, LedgersInOrder, Scheduled, req
      <4> QED BY <1>2, <1>5, <2>2, <4>1, SubmitExposed, CaseType DEF SInv, LedgersInOrder, req
    <3> QED BY <1>5, <3>1, <3>2 DEF SInv, LedgersInOrder
  <2> QED BY <2>1, <2>2
<1> QED BY <1>5, <1>7, <1>8 DEF OnlyGivenUpBarsFail

(* The tape is in time order, so the broker refuses no bar of it.          *)
LEMMA BeginAdvanceSafe ==
    ASSUME SInv, BeginAdvance
    PROVE  (TapeRead /\ LedgersInOrder /\ OnlyGivenUpBarsFail)'
<1>1. /\ pc = "advance" /\ mode = "step" /\ bar \notin sim.bars
      /\ bar \in Bar /\ cursor \in DOMAIN tape /\ cursor \in Nat
      /\ sim \in SimLedger /\ Sound(sim) /\ tx = sim
  BY BarType, LenProperties DEF BeginAdvance, SInv, IInv, TypeOK, OnABar, OpenTransaction
<1>2. ASSUME NEW b \in sim.bars
      PROVE  b.ts < bar.ts
  <2>1. PICK j \in DOMAIN tape : tape[j] = b
    BY DEF SInv, TapeRead
  <2>2. j # cursor
    BY <1>1, <2>1 DEF bar
  <2>3. ~(cursor < j)
    BY <1>1, <2>1 DEF SInv, TapeRead, bar
  <2>4. j < cursor
    BY <1>1, <2>2, <2>3, LenProperties DEF SInv, IInv, TypeOK
  <2> QED BY <1>1, <2>1, <2>4 DEF SInv, TapeRead, bar
<1>3. ~\E b \in sim.bars : bar.ts <= b.ts
  <2>1. \A b \in sim.bars : b.ts \in Nat /\ bar.ts \in Nat
    BY <1>1, LedgerFields DEF Bar
  <2> QED BY <1>2, <2>1
<1>4. /\ tx' = InsertBar(sim, bar) /\ pc' = "orders"
      /\ UNCHANGED <<sim, w, case, tape, cursor, mode>>
  BY <1>3 DEF BeginAdvance
<1>5. tx'.bars = sim.bars \cup {bar} /\ tx'.lots = sim.lots
  BY <1>1, <1>4 DEF InsertBar, SimLedger
<1>6. TapeRead'
  BY <1>1, <1>2, <1>4, <1>5 DEF SInv, TapeRead, bar
<1>7. LedgersInOrder'
  <2>1. Booked(tx')
    BY <1>1, <1>4, InsertBarBooked DEF SInv, LedgersInOrder
  <2>2. Follows(sim, tx')
    BY <1>1, <1>4, InsertBarKeeps
  <2>3. Exposed(tx', w, case.quantity)
    BY <1>1, <1>5, <2>2, ShrinkExposed, CaseType DEF SInv, LedgersInOrder
  <2> QED BY <1>4, <2>1, <2>3 DEF SInv, LedgersInOrder
<1> QED BY <1>4, <1>6, <1>7 DEF OnlyGivenUpBarsFail

LEMMA WorkOrderBars ==
    ASSUME NEW db, NEW i, NEW bar_ \in Bar, NEW cap, db.orders[i].req.expires \in Nat
    PROVE  WorkOrder(db, i, bar_, cap).bars = db.bars
<1> DEFINE o == db.orders[i]
           qty == Fillable(db, o, cap)
<1>1. \A state : SetState(db, i, state).bars = db.bars
  BY DEF SetState
<1>2. /\ Entered(db, i, qty, bar_).bars = db.bars
      /\ Exited(db, i, qty, bar_).bars = db.bars
  BY DEF Entered, Exited, FillOrder
<1>3. \/ bar_.ts >= o.req.expires
      \/ bar_.ts < o.req.expires /\ (bar_.ts < o.req.eligible \/ ~bar_.volume)
      \/ bar_.ts < o.req.expires /\ ~(bar_.ts < o.req.eligible \/ ~bar_.volume)
  BY DEF Bar
<1>4. bar_.ts >= o.req.expires => ~(bar_.ts < o.req.expires)
  BY DEF Bar
<1> QED BY <1>1, <1>2, <1>3, <1>4 DEF WorkOrder

LEMMA WorkNextSafe ==
    ASSUME SInv, WorkNext
    PROVE  (TapeRead /\ LedgersInOrder /\ OnlyGivenUpBarsFail)'
<1>1. PICK i \in todo : tx' = WorkOrder(tx, i, bar, case.cap)
  BY DEF WorkNext
<1>2. /\ pc = "orders" /\ UNCHANGED <<sim, w, case, tape, cursor, pc, mode>>
      /\ mode = "step" /\ bar \in Bar /\ w \in WorkerLedger /\ sim \in SimLedger
      /\ tx \in SimLedger /\ Sound(tx) /\ Follows(sim, tx) /\ i \in ActiveOrders(tx)
      /\ tx.bars = sim.bars \cup {bar} /\ \A b \in sim.bars : b.ts < bar.ts
      /\ w.bars \subseteq tx.bars
  BY <1>1, BarType
     DEF WorkNext, SInv, IInv, TypeOK, OnABar, OpenTransaction, RowsToDo, Follows, TapeRead
<1>3. tx'.bars = tx.bars
  <2>1. tx.orders[i].req.expires \in Nat
    BY <1>2, LedgerFields DEF ActiveOrders, Order, Request
  <2> QED BY <1>1, <1>2, <2>1, WorkOrderBars
<1>4. TapeRead'
  BY <1>2, <1>3 DEF SInv, TapeRead, bar
<1>5. Booked(tx')
  BY <1>1, <1>2, WorkOrderBooked, CaseType DEF SInv, LedgersInOrder
<1>6. /\ \A b \in tx.bars : b.ts <= bar.ts
      /\ DOMAIN tx.orders \subseteq DOMAIN w.intents
      /\ \A k \in DOMAIN tx.orders : tx.orders[k].req = w.intents[k].req
  <2>1. \A b \in tx.bars : b.ts \in Nat /\ bar.ts \in Nat
    BY <1>2, LedgerFields DEF Bar
  <2>2. /\ DOMAIN tx.orders = DOMAIN sim.orders
        /\ DOMAIN sim.orders \subseteq DOMAIN w.intents
    BY <1>2, LedgerFields, WorkerFields DEF Follows, SInv, IInv, IntentFirst
  <2> QED BY <1>2, <2>1, <2>2 DEF Follows, Extends, SInv, IInv, IntentFirst
<1>7. \A j, k \in DOMAIN w.intents :
         Fresh(tx, w.intents[j].req) /\ Fresh(tx, w.intents[k].req) => j = k
  BY <1>2, OneFresh DEF SInv, IInv, UniqueIntents, LedgersInOrder
<1>8. Exposed(tx', w, case.quantity)
  <2>1. \A j, k \in DOMAIN w.intents : Live(tx, w, j) /\ Live(tx, w, k) => j = k
    BY <1>7 DEF Live
  <2> QED BY <1>1, <1>2, <1>6, <2>1, WorkOrderExposed, CaseType DEF SInv, LedgersInOrder
<1>9. LedgersInOrder'
  BY <1>2, <1>5, <1>8 DEF SInv, LedgersInOrder
<1> QED BY <1>2, <1>4, <1>9 DEF OnlyGivenUpBarsFail

LEMMA StopNextSafe ==
    ASSUME SInv, StopNext
    PROVE  (TapeRead /\ LedgersInOrder /\ OnlyGivenUpBarsFail)'
<1>1. PICK l \in todo : tx' = StopLot(tx, l, bar)
  BY DEF StopNext
<1>2. /\ pc = "stops" /\ UNCHANGED <<sim, w, case, tape, cursor, pc, mode>>
      /\ bar \in Bar /\ tx \in SimLedger /\ Sound(tx) /\ l \in LotNumbers(tx)
  BY <1>1, BarType
     DEF StopNext, SInv, IInv, TypeOK, OnABar, OpenTransaction, RowsToDo, Follows
<1>3. tx'.bars = tx.bars
  BY <1>1 DEF StopLot
<1>4. TapeRead'
  BY <1>2, <1>3 DEF SInv, TapeRead, bar
<1>5. Booked(tx') /\ Exposed(tx', w, case.quantity)
  BY <1>1, <1>2, StopLotBooked, StopLotExposed, CaseType DEF SInv, LedgersInOrder
<1>6. LedgersInOrder'
  BY <1>2, <1>5 DEF SInv, LedgersInOrder
<1> QED BY <1>2, <1>4, <1>6 DEF OnlyGivenUpBarsFail

LEMMA CommitSafe ==
    ASSUME SInv, CommitAdvance
    PROVE  (TapeRead /\ LedgersInOrder /\ OnlyGivenUpBarsFail)'
<1>1. /\ pc = "stops" /\ sim' = tx /\ pc' = "reconcile"
      /\ UNCHANGED <<tx, w, case, tape, cursor, mode>>
      /\ mode = "step" /\ cursor \in DOMAIN tape
      /\ tx.bars = sim.bars \cup {bar}
  BY LenProperties DEF CommitAdvance, SInv, IInv, TypeOK, OnABar, TapeRead
<1>2. LedgersInOrder'
  BY <1>1 DEF SInv, LedgersInOrder
<1>3. /\ w.bars \subseteq tx.bars
      /\ \A b \in tx.bars : \E i \in DOMAIN tape : tape[i] = b
      /\ bar \notin w.bars
  BY <1>1 DEF SInv, TapeRead, bar
<1>4. \A i \in 1..cursor : i \in DOMAIN tape /\ tape[i] \in tx.bars
  BY <1>1, LenProperties DEF SInv, IInv, TypeOK, TapeRead, bar
<1>5. ASSUME NEW i \in DOMAIN tape, NEW j \in DOMAIN tape, i < j, tape[j] \in tx.bars
      PROVE  tape[i] \in tx.bars
  <2>1. CASE tape[j] \in sim.bars
    BY <1>1, <1>5, <2>1 DEF SInv, TapeRead
  <2>2. CASE tape[j] = bar
    <3>1. j = cursor
      BY <1>1, <2>2, TapeOrder DEF SInv, bar
    <3>2. i \in 1..cursor
      BY <1>5, <3>1, LenProperties DEF SInv, IInv, TypeOK
    <3> QED BY <1>4, <3>2
  <2> QED BY <1>1, <1>5, <2>1, <2>2
<1>6. TapeRead'
  BY <1>1, <1>3, <1>4, <1>5 DEF SInv, TapeRead, bar
<1> QED BY <1>1, <1>2, <1>6 DEF OnlyGivenUpBarsFail

LEMMA DecideSafe ==
    ASSUME SInv, Decide
    PROVE  (TapeRead /\ LedgersInOrder /\ OnlyGivenUpBarsFail)'
<1>1. /\ pc = "decide" /\ mode = "step" /\ bar \in Bar /\ w \in WorkerLedger
      /\ sim \in SimLedger /\ Sound(sim) /\ tx = sim /\ cursor \in DOMAIN tape
      /\ cursor \in 1..cursor /\ bar \notin w.bars /\ w.bars \subseteq sim.bars
  BY BarType, LenProperties
     DEF Decide, SInv, IInv, TypeOK, OnABar, OpenTransaction, TapeRead
<1>2. bar \in sim.bars
  BY <1>1 DEF SInv, TapeRead, bar
<1>3. CASE Backwards(w, bar)
  <2>1. /\ Fail("moved_backwards") /\ UNCHANGED <<sim, w, case, tape, cursor>>
        /\ pc' = "failed" /\ tx' = sim /\ error' = "moved_backwards"
    BY <1>3 DEF Decide, Fail
  <2>2. PICK b \in w.bars : bar.ts <= b.ts
    BY <1>3 DEF Backwards
  <2>3. PICK j \in DOMAIN tape : tape[j] = b
    BY <1>1 DEF SInv, TapeRead
  <2>4. j # cursor
    BY <1>1, <2>3 DEF bar
  <2>5. cursor <= j
    BY <1>1, <2>2, <2>3, TapeOrder DEF SInv, bar
  <2>6. bar.ts < b.ts
    BY <1>1, <2>3, <2>4, <2>5, LenProperties DEF SInv, IInv, TypeOK, TapeRead, bar
  <2>7. bar.ts \in Nat /\ b.ts \in Nat
    BY <1>1, WorkerFields DEF Bar
  <2>8. OnlyGivenUpBarsFail'
    BY <1>1, <1>2, <2>1, <2>6, <2>7 DEF OnlyGivenUpBarsFail, bar
  <2>9. TapeRead'
    BY <1>1, <2>1 DEF SInv, TapeRead, bar
  <2>10. LedgersInOrder'
    BY <2>1, RestInOrder DEF SInv
  <2> QED BY <2>8, <2>9, <2>10
<1>4. CASE ~Backwards(w, bar)
  <2>1. PICK impulse \in {-1, 0, 1}, risk \in Risk :
          /\ w' = Decided(w, bar, impulse, risk, case.quantity)
          /\ pc' \in {"scan", "dispatch"}
          /\ UNCHANGED <<sim, tx, case, tape, cursor, mode>>
    BY <1>4 DEF Decide, Dispatching
  <2>2. w'.bars = w.bars \cup {bar}
    BY <1>1, <2>1, DecidedKeeps, CaseType DEF SInv
  <2>3. TapeRead'
    BY <1>1, <1>2, <2>1, <2>2 DEF SInv, TapeRead, bar
  <2>4. Position(w.fills) = Net(sim.lots) /\ Len(sim.orders) <= Len(w.intents)
    BY <1>1, SimPositionNet DEF SInv, DecidesOnReconciledInventory, IInv, IntentFirst
  <2>5. Scheduled(w', case.quantity) /\ Exposed(sim, w', case.quantity)
    <3>1. case.quantity \in 1..MaxQty
      BY CaseType DEF SInv
    <3>2. Scheduled(w, case.quantity) /\ Exposed(sim, w, case.quantity)
      BY DEF SInv, LedgersInOrder
    <3> QED BY <1>1, <2>1, <2>4, <3>1, <3>2, DecidedSafe
  <2>6. LedgersInOrder'
    BY <1>1, <2>1, <2>5 DEF SInv, LedgersInOrder
  <2> QED BY <2>1, <2>3, <2>6 DEF OnlyGivenUpBarsFail
<1> QED BY <1>3, <1>4

(* The invariant is inductive.                                             *)
LEMMA NextSInv == SInv /\ [Next]_vars => SInv'
<1> SUFFICES ASSUME SInv, [Next]_vars PROVE SInv'
  OBVIOUS
<1>1. IInv' /\ DecidesOnReconciledInventory'
  BY NextIInv, ReconciledInventoryKept DEF SInv
<1>2. CASE Program
  <2>1. (TapeRead /\ LedgersInOrder /\ OnlyGivenUpBarsFail)'
    BY <1>2, RestSafe, AnswersSafe, SubmitSafe, BeginAdvanceSafe, WorkNextSafe,
       StopNextSafe, CommitSafe, DecideSafe DEF Program
  <2> QED BY <1>1, <2>1 DEF SInv
<1>3. CASE NewBar \/ Disconnect \/ Crash
  <2>1. (TapeRead /\ LedgersInOrder /\ OnlyGivenUpBarsFail)'
    BY <1>3, RestSafe, NewBarSafe
  <2> QED BY <1>1, <2>1 DEF SInv
<1>4. CASE UNCHANGED vars
  <2>1. LedgersInOrder'
    BY <1>4, RestInOrder DEF vars, SInv
  <2>2. TapeRead' /\ OnlyGivenUpBarsFail'
    BY <1>4 DEF vars, SInv, TapeRead, OnlyGivenUpBarsFail, bar
  <2> QED BY <1>1, <2>1, <2>2 DEF SInv
<1> QED BY <1>2, <1>3, <1>4 DEF Next

LEMMA Safe == Spec => []SInv
BY InitSInv, NextSInv, PTL DEF Spec

(***************************************************************************)
(* Safety                                                                  *)
(***************************************************************************)

(* What ends a run is always a bar the worker gave up during a disconnect, *)
(* met again after later ones: reconciliation raises no alarm and the      *)
(* broker refuses no request and no bar (worker.py reconcile and step,     *)
(* simulator.py submit and advance).                                       *)
THEOREM OnlyGivenUpBarsEndRuns == Spec => []OnlyGivenUpBarsFail
<1>1. SInv => OnlyGivenUpBarsFail
  BY DEF SInv
<1> QED BY <1>1, Safe, PTL

(* The broker's inventory stays within the frozen quantity and on one side *)
(* over every interleaving of entries, stops, exits, crashes and restarts. *)
THEOREM ExposureStaysBounded == Spec => []ExposureBounded
<1>1. SInv => ExposureBounded
  BY DEF SInv, LedgersInOrder, Exposed, ExposureBounded
<1> QED BY <1>1, Safe, PTL

(* An entry one of whose lots was stopped out never fills again: the stop  *)
(* cancels what is left of it in its own transaction (simulator.py advance)*)
THEOREM StoppedEntriesEnd == Spec => []NoFillAfterStop
<1>1. SInv => NoFillAfterStop
  BY DEF SInv, LedgersInOrder, Booked, StopsEnd, NoFillAfterStop
<1> QED BY <1>1, Safe, PTL

\* The requests of the broker are intents of the worker.
LEMMA OrdersAreIntents ==
    ASSUME IInv, NEW i \in DOMAIN sim.orders
    PROVE  i \in DOMAIN w.intents /\ sim.orders[i].req = w.intents[i].req
BY LedgerFields, WorkerFields DEF IInv, TypeOK, IntentFirst

(* No order is filled before its latency is over, once it has expired, or  *)
(* by a bar the worker had seen when it decided, however late it was       *)
(* dispatched (worker.py _intent, simulator.py advance).                   *)
THEOREM NoLookAheadEver == Spec => []NoLookAhead
<1>1. SInv => NoLookAhead
  <2> SUFFICES ASSUME SInv, NEW k \in DOMAIN sim.fills, sim.fills[k].reason # "stop"
               PROVE  \E i \in DOMAIN w.intents :
                        /\ w.intents[i].req.id = sim.fills[k].order
                        /\ sim.fills[k].ts >= w.intents[i].req.submitted + Latency
                        /\ sim.fills[k].ts < w.intents[i].req.expires
                        /\ \A b \in w.bars : b.ts + 1 = w.intents[i].req.submitted
                                             => b.ts < sim.fills[k].ts
    BY DEF NoLookAhead
  <2>1. PICK i \in DOMAIN sim.orders :
          /\ sim.orders[i].req.id = sim.fills[k].order
          /\ sim.orders[i].req.eligible <= sim.fills[k].ts
          /\ sim.fills[k].ts < sim.orders[i].req.expires
    BY DEF SInv, LedgersInOrder, Booked, InTime
  <2>2. i \in DOMAIN w.intents /\ sim.orders[i].req = w.intents[i].req
    BY OrdersAreIntents DEF SInv
  <2> DEFINE req == w.intents[i].req
             ts == sim.fills[k].ts
  <2>3. req.eligible = req.submitted + Latency
    BY <2>2 DEF SInv, LedgersInOrder, Scheduled
  <2>4. req.submitted \in Nat /\ req.eligible \in Nat /\ ts \in Nat /\ Latency \in Nat
    BY <2>2, WorkerFields, LedgerFields, SessionAssumption
       DEF SInv, IInv, TypeOK, Intent, Request, Fill
  <2>5. req.submitted + Latency <= ts
    BY <2>1, <2>2, <2>3
  <2>6. \A b \in w.bars : b.ts \in Nat
    BY WorkerFields DEF SInv, IInv, TypeOK, Bar
  <2>7. \A b \in w.bars : b.ts + 1 = req.submitted => b.ts < ts
    BY <2>4, <2>5, <2>6
  <2>8. req.id = sim.fills[k].order /\ ts < req.expires
    BY <2>1, <2>2
  <2>9. ts >= req.submitted + Latency
    BY <2>4, <2>5
  <2> QED BY <2>2, <2>7, <2>8, <2>9
<1> QED BY <1>1, Safe, PTL

(* Whatever crashes and is retried, a day is entered for at most the       *)
(* frozen quantity: all its entry fills are of the one order its identity  *)
(* can have, and add up to what that order was filled for.                 *)
THEOREM DayEnteredOnce == Spec => []OneEntryPerDay
<1>1. SInv => OneEntryPerDay
  <2> SUFFICES ASSUME SInv, NEW day
               PROVE  Cardinality(EntryUnits(day)) <= case.quantity
    BY DEF OneEntryPerDay
  <2>0. /\ sim \in SimLedger /\ Sound(sim) /\ case.quantity \in Nat
    BY CaseType DEF SInv, IInv, TypeOK
  <2>1. CASE EntryUnits(day) = {}
    <3>1. Cardinality({}) <= case.quantity
      BY <2>0, FS_EmptySet
    <3> QED BY <2>1, <3>1
  <2>2. CASE EntryUnits(day) # {}
    <3> DEFINE id == [day |-> day, kind |-> "entry", retry |-> 0]
               stack == Stack(sim.fills, FillsOf(sim.fills, id))
    <3>1. ASSUME NEW k \in DOMAIN sim.fills, sim.fills[k].reason = "entry",
                 sim.fills[k].order.day = day
          PROVE  sim.fills[k].order = id /\ \E i \in DOMAIN sim.orders : sim.orders[i].req.id = id
      <4>1. PICK i \in DOMAIN sim.orders : /\ sim.orders[i].req.id = sim.fills[k].order
                                           /\ sim.orders[i].req.id.kind = "entry"
        BY <3>1 DEF SInv, LedgersInOrder, Booked, InTime
      <4>2. sim.orders[i].req.id \in Id
        BY <2>0, LedgerFields DEF Order, Request
      <4>3. sim.orders[i].req.id.retry = 0
        BY OrdersAreIntents DEF SInv, LedgersInOrder, Scheduled
      <4>4. sim.orders[i].req.id = id
        BY <3>1, <4>1, <4>2, <4>3 DEF Id
      <4> QED BY <4>1, <4>4
    <3>2. PICK i \in DOMAIN sim.orders : sim.orders[i].req.id = id
      BY <2>0, <2>2, <3>1, LedgerFields DEF EntryUnits
    <3>3. EntryUnits(day) \subseteq stack
      BY <2>0, <3>1, LedgerFields DEF EntryUnits, Stack, FillsOf
    <3>4. Cardinality(stack) = sim.orders[i].filled
      BY <3>2 DEF SInv, LedgersInOrder, Booked, Counted
    <3>5. sim.orders[i].req.qty = case.quantity
      <4>1. i \in DOMAIN w.intents /\ sim.orders[i].req = w.intents[i].req
        BY OrdersAreIntents DEF SInv
      <4> QED BY <3>2, <4>1 DEF SInv, LedgersInOrder, Scheduled
    <3>6. sim.orders[i].filled <= case.quantity
      <4>1. /\ sim.orders[i] \in Order /\ ValidLifecycle(sim.orders[i])
            /\ sim.orders[i].filled \in Nat
        BY <2>0, LedgerFields DEF Sound
      <4> QED BY <2>0, <3>5, <4>1 DEF ValidLifecycle
    <3>7. IsFiniteSet(stack) /\ Cardinality(stack) \in Nat
      BY <2>0, StackFinite, LedgerFields
    <3> HIDE DEF stack
    <3>8. /\ Cardinality(EntryUnits(day)) <= Cardinality(stack)
          /\ Cardinality(EntryUnits(day)) \in Nat
      BY <3>3, <3>7, FS_Subset, FS_CardinalityType
    <3> QED BY <2>0, <3>4, <3>6, <3>7, <3>8
  <2> QED BY <2>1, <2>2
<1> QED BY <1>1, Safe, PTL

(***************************************************************************)
(* Delivery                                                                *)
(***************************************************************************)

LEMMA AcknowledgeDrains ==
    ASSUME IInv, Acknowledge
    PROVE  todo' = Pending(w')
<1>1. PICK i \in todo : /\ First(todo, i) /\ w' = Acknowledged(w, i, sim)
                        /\ todo' = todo \ {i}
  BY DEF Acknowledge
<1>2. pc = "ack" /\ todo = Pending(w) /\ i <= Len(sim.orders)
  BY <1>1 DEF Acknowledge, IInv, RowsToDo
<1>3. /\ i \in DOMAIN w.intents /\ w.intents[i] \in Intent
      /\ Known(sim, w.intents[i].req.id)
  BY <1>1, <1>2, FirstPending
<1>4. /\ w' \in WorkerLedger /\ SameIntents(w, w')
      /\ w'.intents[i].state # "pending"
      /\ \A j \in DOMAIN w.intents \ {i} : w'.intents[j] = w.intents[j]
  BY <1>1, <1>3, AcknowledgedKeeps, AnsweredKeeps DEF IInv, TypeOK
<1>5. DOMAIN w'.intents = DOMAIN w.intents
  BY <1>4, WorkerFields DEF SameIntents, IInv, TypeOK
<1> QED BY <1>1, <1>2, <1>4, <1>5 DEF Pending

LEMMA StepLeavesNone == IInv /\ NoneLeftBehind /\ [Next]_vars => NoneLeftBehind'
<1> SUFFICES ASSUME IInv, NoneLeftBehind, [Next]_vars, pc' = "scan", ~offline'
             PROVE  Pending(w') = {}
  BY DEF NoneLeftBehind, Pending
<1>1. CASE Reconcile
  <2>1. w' = Reconciled(w, sim) /\ pc' = AfterReconcile
    BY <1>1 DEF Reconcile, Fail
  <2> QED BY <2>1 DEF AfterReconcile, Dispatching
<1>2. CASE Acknowledge
  <2>1. todo' = Pending(w') /\ pc' = Dispatching(todo')
    BY <1>2, AcknowledgeDrains DEF Acknowledge
  <2> QED BY <2>1 DEF Dispatching
<1>3. CASE Decide
  <2>1. todo' = Pending(w') /\ pc' = Dispatching(todo')
    BY <1>3 DEF Decide, Fail
  <2> QED BY <2>1 DEF Dispatching
<1>4. CASE NewBar \/ SkipProcessed \/ UNCHANGED vars
  BY <1>4 DEF NewBar, SkipProcessed, vars, NoneLeftBehind, Pending
<1>5. ASSUME \/ ReconcileDisconnected \/ SubmitNext \/ DispatchDisconnected
             \/ TakeBar \/ Finish \/ AdvanceDuplicate \/ BeginAdvance \/ WorkNext
             \/ BeginStops \/ StopNext \/ CommitAdvance \/ Disconnect \/ Crash
      PROVE  FALSE
  BY <1>5 DEF ReconcileDisconnected, SubmitNext, Fail, DispatchDisconnected, TakeBar,
     Finish, AdvanceDuplicate, BeginAdvance, WorkNext, BeginStops, StopNext,
     CommitAdvance, Disconnect, Crash
<1> QED BY <1>1, <1>2, <1>3, <1>4, <1>5 DEF Next, Program

(* Whenever the process goes on to the next bar with its transport up, no  *)
(* intent is left undelivered, crashed submissions included (worker.py     *)
(* recover, dispatch).                                                     *)
THEOREM NoneIsLeftBehind == Spec => []NoneLeftBehind
<1>1. Init => NoneLeftBehind
  BY DEF Init, NoneLeftBehind
<1> QED BY <1>1, InitIInv, NextIInv, StepLeavesNone, PTL DEF Spec

(***************************************************************************)
(* The order protocol                                                      *)
(***************************************************************************)

LEMMA BookOfOrder ==
    ASSUME NEW db, NEW v, NEW i \in DOMAIN db.orders,
           \A j \in DOMAIN db.orders : db.orders[j].req.id = db.orders[i].req.id => j = i
    PROVE  Book(db, v, db.orders[i].req.id)
             = [status |-> IF db.orders[i].state \in Active THEN "live" ELSE "over",
                qty |-> db.orders[i].req.qty, filled |-> db.orders[i].filled]
<1>1. (CHOOSE j \in DOMAIN db.orders : db.orders[j].req.id = db.orders[i].req.id) = i
  OBVIOUS
<1> QED BY <1>1 DEF Book, Known

LEMMA BookOfIntent ==
    ASSUME NEW db, NEW v, NEW i \in DOMAIN v.intents,
           ~Known(db, v.intents[i].req.id),
           \A j \in DOMAIN v.intents : v.intents[j].req.id = v.intents[i].req.id => j = i
    PROVE  Book(db, v, v.intents[i].req.id)
             = [status |-> "intended", qty |-> v.intents[i].req.qty, filled |-> 0]
<1>1. (CHOOSE j \in DOMAIN v.intents : v.intents[j].req.id = v.intents[i].req.id) = i
  OBVIOUS
<1> QED BY <1>1 DEF Book, HasIntent

\* A step keeps to the protocol, identity by identity.
LEMMA StepOfIdentity ==
    ASSUME IInv, IInv', Grows, NEW id
    PROVE  Protocol!Lifecycle(Book(sim, w, id), Book(sim, w, id)')
<1> DEFINE a == Book(sim, w, id)
           b == Book(sim', w', id)
<1>0. /\ sim \in SimLedger /\ sim' \in SimLedger /\ w \in WorkerLedger
      /\ w' \in WorkerLedger /\ Sound(sim) /\ Sound(sim')
      /\ DOMAIN sim.orders \subseteq DOMAIN sim'.orders
      /\ DOMAIN sim'.orders \subseteq DOMAIN w.intents
  BY LedgerFields DEF IInv, TypeOK, Grows, Extends
<1>1. /\ \A i \in DOMAIN sim.orders : sim.orders[i].req = w.intents[i].req
      /\ \A i \in DOMAIN sim'.orders : sim'.orders[i].req = w.intents[i].req
  BY <1>0 DEF IInv, IntentFirst, Grows
<1>2. /\ \A i, j \in DOMAIN w.intents :
            w.intents[i].req.id = w.intents[j].req.id => i = j
      /\ \A i, j \in DOMAIN w'.intents :
            w'.intents[i].req.id = w'.intents[j].req.id => i = j
  BY DEF IInv, UniqueIntents
<1>3. CASE Known(sim, id)
  <2>1. PICK i \in DOMAIN sim.orders : sim.orders[i].req.id = id
    BY <1>3 DEF Known
  <2>2. i \in DOMAIN sim'.orders /\ sim'.orders[i].req = sim.orders[i].req
    BY <1>0 DEF Grows, Extends
  <2>3. a = [status |-> IF sim.orders[i].state \in Active THEN "live" ELSE "over",
             qty |-> sim.orders[i].req.qty, filled |-> sim.orders[i].filled]
    <3>1. \A j \in DOMAIN sim.orders :
             sim.orders[j].req.id = sim.orders[i].req.id => j = i
      BY <1>0, <1>1, <1>2
    <3> QED BY <2>1, <3>1, BookOfOrder
  <2>4. b = [status |-> IF sim'.orders[i].state \in Active THEN "live" ELSE "over",
             qty |-> sim.orders[i].req.qty, filled |-> sim'.orders[i].filled]
    <3>1. \A j \in DOMAIN sim'.orders :
             sim'.orders[j].req.id = sim'.orders[i].req.id => j = i
      BY <1>0, <1>1, <1>2, <2>2
    <3> QED BY <2>1, <2>2, <3>1, BookOfOrder
  <2> HIDE DEF a, b
  <2>5. CASE sim.orders[i].state \in Final
    <3>1. sim'.orders[i] = sim.orders[i]
      BY <2>5 DEF Grows, Extends
    <3>2. a = b
      BY <2>3, <2>4, <3>1
    <3> QED BY <3>2 DEF Protocol!Lifecycle, a, b
  <2>6. CASE sim.orders[i].state \in Active
    <3>1. /\ sim.orders[i].filled <= sim'.orders[i].filled
          /\ sim'.orders[i].filled <= sim.orders[i].req.qty
      <4>1. sim'.orders[i] \in Order /\ ValidLifecycle(sim'.orders[i])
        BY <1>0, <2>2, LedgerFields DEF Sound
      <4> QED BY <2>2, <4>1, SMTT(30) DEF Grows, Extends, ValidLifecycle, Order, Active, Final, Request
    <3>2. Protocol!Execute(a, b)
      BY <2>3, <2>4, <2>6, <3>1 DEF Protocol!Execute
    <3> QED BY <3>2 DEF Protocol!Lifecycle, a, b
  <2>7. sim.orders[i].state \in Active \cup Final
    BY <1>0, LedgerFields DEF Order
  <2> QED BY <2>5, <2>6, <2>7
<1>4. CASE ~Known(sim, id) /\ HasIntent(w, id)
  <2>1. PICK i \in DOMAIN w.intents : w.intents[i].req.id = id
    BY <1>4 DEF HasIntent
  <2>2. i \in DOMAIN w'.intents /\ w'.intents[i].req = w.intents[i].req
    BY DEF Grows
  <2>3. a = [status |-> "intended", qty |-> w.intents[i].req.qty, filled |-> 0]
    BY <1>2, <1>4, <2>1, BookOfIntent, ZenonT(30)
  <2>4. CASE Known(sim', id)
    <3>1. PICK k \in DOMAIN sim'.orders : sim'.orders[k].req.id = id
      BY <2>4 DEF Known
    <3>2. k = i /\ k \notin DOMAIN sim.orders
      BY <1>0, <1>1, <1>2, <1>4, <2>1, <3>1 DEF Known
    <3>3. b = [status |-> IF sim'.orders[k].state \in Active THEN "live" ELSE "over",
               qty |-> sim'.orders[k].req.qty, filled |-> sim'.orders[k].filled]
      <4>1. \A j \in DOMAIN sim'.orders :
               sim'.orders[j].req.id = sim'.orders[k].req.id => j = k
        BY <1>0, <1>1, <1>2
      <4> QED BY <3>1, <4>1, BookOfOrder
    <3>4. sim'.orders[k].filled = 0 /\ sim'.orders[k].req = w.intents[i].req
      BY <1>1, <3>2 DEF Grows
    <3> HIDE DEF a, b
    <3>5. Protocol!Place(a, b)
      BY <2>3, <3>3, <3>4 DEF Protocol!Place
    <3> QED BY <3>5 DEF Protocol!Lifecycle, a, b
  <2>5. CASE ~Known(sim', id)
    <3>1. b = [status |-> "intended", qty |-> w'.intents[i].req.qty, filled |-> 0]
      <4>1. /\ w'.intents[i].req.id = id
            /\ \A j \in DOMAIN w'.intents :
                  w'.intents[j].req.id = w'.intents[i].req.id => j = i
        BY <1>2, <2>1, <2>2
      <4> QED BY <2>2, <2>5, <4>1, BookOfIntent
    <3>2. a = b
      BY <2>2, <2>3, <3>1
    <3> HIDE DEF a, b
    <3> QED BY <3>2 DEF Protocol!Lifecycle, a, b
  <2> QED BY <2>4, <2>5
<1>5. CASE ~Known(sim, id) /\ ~HasIntent(w, id)
  <2>1. a = [status |-> "unknown", qty |-> 0, filled |-> 0]
    BY <1>5 DEF Book
  <2>2. ~Known(sim', id)
    BY <1>0, <1>1, <1>5 DEF Known, HasIntent
  <2>3. CASE HasIntent(w', id)
    <3>1. PICK i \in DOMAIN w'.intents : w'.intents[i].req.id = id
      BY <2>3 DEF HasIntent
    <3>2. b = [status |-> "intended", qty |-> w'.intents[i].req.qty, filled |-> 0]
      BY <1>2, <2>2, <3>1, BookOfIntent, ZenonT(30)
    <3>3. w'.intents[i].req.qty > 0
      BY <1>0, WorkerFields, SMTT(30) DEF Intent, Request
    <3> HIDE DEF a, b
    <3>4. Protocol!Intend(a, b)
      BY <2>1, <3>2, <3>3 DEF Protocol!Intend
    <3> QED BY <3>4 DEF Protocol!Lifecycle, a, b
  <2>4. CASE ~HasIntent(w', id)
    <3>1. b = [status |-> "unknown", qty |-> 0, filled |-> 0]
      BY <2>2, <2>4 DEF Book
    <3>2. a = b
      BY <2>1, <3>1
    <3> HIDE DEF a, b
    <3> QED BY <3>2 DEF Protocol!Lifecycle, a, b
  <2> QED BY <2>3, <2>4
<1> QED BY <1>3, <1>4, <1>5

LEMMA BookType ==
    ASSUME NEW db \in SimLedger, NEW v \in WorkerLedger, NEW id
    PROVE  Book(db, v, id) \in [status : {"unknown", "intended", "live", "over"},
                                qty : Int, filled : Int]
<1>1. CASE Known(db, id)
  <2> DEFINE i == CHOOSE k \in DOMAIN db.orders : db.orders[k].req.id = id
  <2>1. i \in DOMAIN db.orders
    BY <1>1 DEF Known
  <2> HIDE DEF i
  <2>2. db.orders[i].req.qty \in Int /\ db.orders[i].filled \in Int
    <3>1. db.orders[i] \in Order
      BY <2>1, LedgerFields
    <3> QED BY <3>1 DEF Order, Request
  <2>3. Book(db, v, id)
          = [status |-> IF db.orders[i].state \in Active THEN "live" ELSE "over",
             qty |-> db.orders[i].req.qty, filled |-> db.orders[i].filled]
    BY <1>1 DEF Book, i
  <2> QED BY <2>2, <2>3
<1>2. CASE ~Known(db, id) /\ HasIntent(v, id)
  <2> DEFINE i == CHOOSE k \in DOMAIN v.intents : v.intents[k].req.id = id
  <2>1. i \in DOMAIN v.intents
    BY <1>2 DEF HasIntent
  <2> HIDE DEF i
  <2>2. v.intents[i].req.qty \in Int
    <3>1. v.intents[i] \in Intent
      BY <2>1, WorkerFields
    <3> QED BY <3>1 DEF Intent, Request
  <2>3. Book(db, v, id)
          = [status |-> "intended", qty |-> v.intents[i].req.qty, filled |-> 0]
    BY <1>2 DEF Book, i
  <2> QED BY <2>2, <2>3
<1>3. CASE ~Known(db, id) /\ ~HasIntent(v, id)
  BY <1>3 DEF Book
<1> QED BY <1>1, <1>2, <1>3

(* The two ledgers implement the exactly-once order protocol: over every   *)
(* crash, disconnect and retry an identity is intended once, reaches the   *)
(* broker once with the intended quantity, is filled for no more than that *)
(* and never less than before, and is left alone once it is over.          *)
THEOREM OrderProtocolImplemented == Spec => ImplementsOrderProtocol
<1>1. Init => Protocol!Init
  <2> SUFFICES ASSUME Init, NEW id \in Ids
               PROVE  Book(sim, w, id) = [status |-> "unknown", qty |-> 0, filled |-> 0]
    BY DEF Protocol!Init, Protocol!Unknown
  <2> QED BY DEF Init, EmptySim, EmptyWorker, Book, Known, HasIntent
<1>2. IInv /\ IInv' /\ [Next]_vars => Protocol!Next
  <2> SUFFICES ASSUME IInv, IInv', [Next]_vars PROVE Protocol!Next
    OBVIOUS
  <2>1. Grows
    BY StepGrows
  <2>2. \A id \in Ids : Protocol!Lifecycle(Book(sim, w, id), Book(sim', w', id))
    BY <2>1, StepOfIdentity
  <2>3. \A id \in Ids :
          Book(sim', w', id) \in [status : {"unknown", "intended", "live", "over"},
                                  qty : Int, filled : Int]
    BY BookType DEF IInv, TypeOK
  <2> QED BY <2>2, <2>3 DEF Protocol!Next
<1> QED BY <1>1, <1>2, InitIInv, NextIInv, PTL
        DEF Spec, ImplementsOrderProtocol, Protocol!Spec

(***************************************************************************)
(* The time exit                                                           *)
(***************************************************************************)

\* Exit j is for all the inventory, and entries are over when it is asked for.
Settles(db, v, j) ==
    /\ Covers(db, v, j)
    /\ \A k \in DOMAIN v.intents : v.intents[k].req.id.kind = "entry" =>
          v.intents[k].req.expires <= v.intents[j].req.submitted

Departs(db, v) == \A j \in DOMAIN v.intents : TimeExit(v, j) => Settles(db, v, j)

(* What neither adds inventory nor gives the exit up keeps it.             *)
LEMMA SettlesKept ==
    ASSUME NEW db \in SimLedger, Sound(db), NEW r \in SimLedger, Sound(r),
           r.lots \subseteq db.lots,
           NEW v \in WorkerLedger, NEW j \in DOMAIN v.intents, Settles(db, v, j),
           Cardinality(r.lots) + FilledOf(r, j) <= Cardinality(db.lots) + FilledOf(db, j)
    PROVE  Settles(r, v, j)
<1>1. Cardinality(db.lots) \in Nat /\ Cardinality(r.lots) \in Nat
  BY FS_CardinalityType DEF Sound
<1>2. FilledOf(db, j) \in Nat /\ FilledOf(r, j) \in Nat
  BY LedgerFields DEF FilledOf
<1>3. v.intents[j].req.qty \in Nat
  BY WorkerFields DEF Intent, Request
<1>4. Cardinality(db.lots) + FilledOf(db, j) <= v.intents[j].req.qty
  BY DEF Settles, Covers
<1>5. Cardinality(r.lots) + FilledOf(r, j) <= v.intents[j].req.qty
  BY <1>1, <1>2, <1>3, <1>4
<1> QED
  BY <1>5 DEF Settles, Covers

(* A request new to the broker has filled nothing.                         *)
LEMMA SubmitDeparts ==
    ASSUME NEW db \in SimLedger, Sound(db), NEW v \in WorkerLedger, Departs(db, v),
           NEW req \in Request, NEW reject, ~Known(db, req.id),
           NEW r, Submit(db, req, reject) = r
    PROVE  Departs(r, v)
<1>1. PICK o : [req |-> req, state |-> Admission(db, req, reject), filled |-> 0] = o
  OBVIOUS
<1>2. o.filled = 0
  BY <1>1
<1>3. r \in SimLedger /\ Sound(r)
  BY SubmitKeeps
<1>4. r.orders = Append(db.orders, o) /\ r.lots = db.lots
  BY <1>1 DEF Submit, SimLedger
<1>5. db.orders \in Seq(Order) /\ DOMAIN db.orders = 1..Len(db.orders) /\ Len(db.orders) \in Nat
  BY LedgerFields
<1>6. /\ DOMAIN r.orders = 1..(Len(db.orders) + 1)
      /\ \A k \in DOMAIN db.orders : r.orders[k] = db.orders[k]
      /\ r.orders[Len(db.orders) + 1] = o
  BY <1>4, <1>5
<1>7. \A j : FilledOf(r, j) = FilledOf(db, j)
  BY <1>2, <1>5, <1>6 DEF FilledOf
<1> QED
  BY <1>4, <1>7 DEF Departs, Settles, Covers

(* A new bar changes no inventory.                                         *)
LEMMA InsertBarDeparts ==
    ASSUME NEW db \in SimLedger, NEW v, Departs(db, v),
           NEW b, NEW r, InsertBar(db, b) = r
    PROVE  Departs(r, v)
<1>1. r.lots = db.lots /\ r.orders = db.orders
  BY DEF InsertBar, SimLedger
<1> QED
  BY <1>1 DEF Departs, Settles, Covers, FilledOf

(* One iteration over the active orders on a bar after those the worker    *)
(* has seen: no entry fills any more once a time exit is asked for, and an *)
(* exit takes what it is filled for.                                       *)
LEMMA WorkOrderDeparts ==
    ASSUME NEW db \in SimLedger, Sound(db), Booked(db), NEW i \in ActiveOrders(db),
           NEW b \in Bar, NEW cap \in Nat \ {0},
           NEW v \in WorkerLedger, NEW quantity, Scheduled(v, quantity),
           \A c \in v.bars : c.ts < b.ts,
           DOMAIN db.orders \subseteq DOMAIN v.intents,
           \A k \in DOMAIN db.orders : db.orders[k].req = v.intents[k].req,
           Departs(db, v), NEW r, WorkOrder(db, i, b, cap) = r
    PROVE  Departs(r, v)
<1>1. PICK o : db.orders[i] = o
  OBVIOUS
<1>2. PICK qty : Fillable(db, o, cap) = qty
  OBVIOUS
<1>3. /\ o \in Order /\ o.filled \in Nat /\ o.req.qty \in Nat \ {0} /\ o.req.id \in Id
      /\ o.req.side \in Side /\ o.req.expires \in Nat /\ o.req.eligible \in Nat /\ b.ts \in Nat
      /\ i \in DOMAIN db.orders /\ i \in DOMAIN v.intents /\ v.intents[i].req = o.req
  BY <1>1, LedgerFields DEF ActiveOrders, Order, Request, Bar
<1>4. qty \in Nat /\ qty <= o.req.qty - o.filled
  <2>1. LET p == db.orders[i]
            n == Fillable(db, p, cap)
        IN  n \in Nat /\ n <= p.req.qty - p.filled
    BY FillableBounds
  <2> QED
    BY <1>1, <1>2, <2>1
<1>5. r \in SimLedger /\ Sound(r)
  <2>1. LET q == WorkOrder(db, i, b, cap) IN Follows(db, q)
    BY WorkOrderFollows
  <2> QED
    BY <2>1 DEF Follows
<1>6. /\ IsFiniteSet(db.lots) /\ Cardinality(db.lots) \in Nat
      /\ IsFiniteSet(Opposite(db, o.req.side)) /\ Cardinality(Opposite(db, o.req.side)) \in Nat
  <2>1. IsFiniteSet(db.lots) /\ Opposite(db, o.req.side) \subseteq db.lots
    BY DEF Sound, Opposite
  <2> QED
    BY <2>1, FS_Subset, FS_CardinalityType
<1>7. CASE r = db
  BY <1>7
<1>8. ASSUME NEW state, r = SetState(db, i, state)
      PROVE  Departs(r, v)
  <2>1. /\ r.lots = db.lots
        /\ r.orders = [db.orders EXCEPT ![i] = Became(o, state, o.filled)]
    BY <1>1, <1>8 DEF SetState
  <2>2. \A j : FilledOf(r, j) = FilledOf(db, j)
    BY <1>1, <1>3, <2>1 DEF FilledOf, Became
  <2> QED
    BY <2>1, <2>2 DEF Departs, Settles, Covers
<1>9. CASE b.ts < o.req.expires /\ o.req.id.kind = "entry" /\ r = Entered(db, i, qty, b)
  <2>1. ASSUME NEW j \in DOMAIN v.intents, TimeExit(v, j)
        PROVE  FALSE
    <3>1. o.req.expires <= v.intents[j].req.submitted
      BY <1>3, <1>9, <2>1 DEF Departs, Settles
    <3>2. PICK c \in v.bars : v.intents[j].req.submitted = c.ts + 1
      BY <2>1 DEF Scheduled
    <3>3. c.ts \in Nat /\ c.ts < b.ts
      BY <3>2, WorkerFields DEF Bar
    <3> QED
      BY <1>3, <1>9, <3>1, <3>2, <3>3
  <2> QED
    BY <2>1 DEF Departs
<1>10. CASE o.req.id.kind # "entry" /\ qty # 0 /\ r = Exited(db, i, qty, b)
  <2> DEFINE old == Oldest(db, o.req.side, qty)
             state == IF o.filled + qty = o.req.qty THEN "filled" ELSE "partially_filled"
  <2>1. /\ r.lots = db.lots \ old
        /\ r.orders = [db.orders EXCEPT ![i] = Became(o, state, o.filled + qty)]
    BY <1>1, <1>10 DEF Exited, FillOrder
  <2>2. /\ DOMAIN r.orders = DOMAIN db.orders
        /\ \A k \in DOMAIN db.orders : k # i => r.orders[k] = db.orders[k]
        /\ r.orders[i].filled = o.filled + qty
    BY <1>3, <2>1 DEF Became
  <2>3. r.lots \subseteq db.lots /\ Cardinality(r.lots) \in Nat
    <3>1. r.lots \subseteq db.lots
      BY <2>1
    <3> QED
      BY <1>5, <3>1, FS_CardinalityType DEF Sound
  <2>4. qty <= Cardinality(Opposite(db, o.req.side))
    <3>1. qty = Least(Least(o.req.qty - o.filled, cap), Cardinality(Opposite(db, o.req.side)))
      BY <1>2, <1>10 DEF Fillable
    <3> QED
      BY <1>3, <1>6, <3>1 DEF Least
  <2>5. Cardinality(r.lots) = Cardinality(db.lots) - qty
    <3>1. Cardinality(old) = qty
      <4>1. OneFill(db.lots)
        BY DEF Booked, LotsOfFills
      <4> QED
        BY <1>3, <1>4, <2>4, <4>1, OldestCounts
    <3>2. old \subseteq db.lots
      BY DEF Oldest, Opposite
    <3>3. db.lots \cap old = old
      BY <3>2
    <3> HIDE DEF old
    <3>4. Cardinality(db.lots \ old) = Cardinality(db.lots) - Cardinality(db.lots \cap old)
      BY <1>6, FS_Difference
    <3> QED
      BY <2>1, <3>1, <3>3, <3>4
  <2> HIDE DEF old, state
  <2>6. ASSUME NEW j \in DOMAIN v.intents, Settles(db, v, j)
        PROVE  Settles(r, v, j)
    <3>1. FilledOf(db, j) \in Nat
      BY LedgerFields DEF FilledOf
    <3>2. FilledOf(r, j) <= FilledOf(db, j) + qty
      BY <1>1, <1>3, <1>4, <2>2, <3>1 DEF FilledOf
    <3>3. FilledOf(r, j) \in Nat
      BY <1>5, LedgerFields DEF FilledOf
    <3>4. Cardinality(r.lots) + FilledOf(r, j) <= Cardinality(db.lots) + FilledOf(db, j)
      BY <1>4, <1>6, <2>3, <2>5, <3>1, <3>2, <3>3
    <3> QED
      BY <1>5, <2>3, <2>6, <3>4, SettlesKept
  <2> QED
    BY <2>6 DEF Departs
<1>11. \/ r = db \/ r = SetState(db, i, "expired")
       \/ r = SetState(db, i, "cancelled")
       \/ b.ts < o.req.expires /\ o.req.id.kind = "entry" /\ r = Entered(db, i, qty, b)
       \/ o.req.id.kind # "entry" /\ qty # 0 /\ r = Exited(db, i, qty, b)
  <2>1. CASE b.ts >= o.req.expires
    BY <1>1, <1>2, <1>3, <2>1 DEF WorkOrder
  <2>2. CASE b.ts < o.req.expires /\ (b.ts < o.req.eligible \/ ~b.volume)
    BY <1>1, <1>2, <1>3, <2>2 DEF WorkOrder
  <2>3. CASE b.ts < o.req.expires /\ ~(b.ts < o.req.eligible \/ ~b.volume)
    <3>1. r = IF o.req.id.kind = "entry" THEN Entered(db, i, qty, b)
              ELSE IF qty = 0 THEN SetState(db, i, "cancelled")
              ELSE Exited(db, i, qty, b)
      BY <1>1, <1>2, <1>3, <2>3 DEF WorkOrder
    <3> QED
      BY <2>3, <3>1
  <2> QED
    BY <1>3, <2>1, <2>2, <2>3
<1> QED
  BY <1>7, <1>8, <1>9, <1>10, <1>11

(* A stop closes inventory and fills no exit.                              *)
LEMMA StopLotDeparts ==
    ASSUME NEW db \in SimLedger, Sound(db), NEW l \in LotNumbers(db), NEW b \in Bar,
           NEW v \in WorkerLedger, Departs(db, v), NEW r, StopLot(db, l, b) = r
    PROVE  Departs(r, v)
<1> DEFINE units == {u \in db.lots : u.lot = l}
<1>1. PICK f : StopFill(l, units, b) = f
  OBVIOUS
<1>2. /\ r.orders = [i \in DOMAIN db.orders |->
                       IF /\ db.orders[i].req.id = f.order
                          /\ db.orders[i].state = "partially_filled"
                       THEN Became(db.orders[i], "cancelled", db.orders[i].filled)
                       ELSE db.orders[i]]
      /\ r.lots \subseteq db.lots
  BY <1>1 DEF StopLot
<1> HIDE DEF units
<1>3. r \in SimLedger /\ Sound(r)
  <2>1. LET q == StopLot(db, l, b) IN Follows(db, q)
    BY StopLotFollows
  <2> QED
    BY <2>1 DEF Follows
<1>4. \A j : FilledOf(r, j) = FilledOf(db, j)
  BY <1>2 DEF Became, FilledOf
<1>5. /\ Cardinality(r.lots) \in Nat /\ Cardinality(db.lots) \in Nat
      /\ Cardinality(r.lots) <= Cardinality(db.lots)
  BY <1>2, <1>3, FS_CardinalityType, FS_Subset DEF Sound
<1>6. ASSUME NEW j \in DOMAIN v.intents, Settles(db, v, j)
      PROVE  Settles(r, v, j)
  <2>1. FilledOf(db, j) \in Nat
    BY LedgerFields DEF FilledOf
  <2>2. Cardinality(r.lots) + FilledOf(r, j) <= Cardinality(db.lots) + FilledOf(db, j)
    BY <1>4, <1>5, <2>1
  <2> QED
    BY <1>2, <1>3, <1>6, <2>2, SettlesKept
<1> QED
  BY <1>6 DEF Departs

(* What step() decides, with the reasons for it.                           *)
LEMMA DecidedReasons ==
    ASSUME NEW v \in WorkerLedger, NEW b \in Bar, NEW impulse, NEW risk, NEW quantity,
           NEW o, Observed(v, b, risk) = o,
           NEW u, Decided(v, b, impulse, risk, quantity) = u
    PROVE  /\ u.bars = v.bars \cup {b} /\ v.halted \subseteq u.halted
           /\ risk # "none" => DayOf(b.ts) \in u.halted
           /\ \/ u.intents = v.intents
              \/ \E t : /\ u.intents = Append(v.intents, t)
                        /\ t.state = "pending" /\ t.req.id.day = DayOf(b.ts)
                        /\ t.req.submitted = b.ts + 1
                        /\ \/ /\ t.req.id.kind = "entry" /\ WantsEntry(o, b, impulse)
                           \/ /\ t.req.id.kind = "exit" /\ WantsExit(o, b, risk)
                              /\ t.req.side = (IF Position(v.fills) > 0 THEN -1 ELSE 1)
                              /\ t.req.qty = Size(Position(v.fills))
<1> DEFINE id(kind) == [day |-> DayOf(b.ts), kind |-> kind, retry |-> 0]
           side == IF Position(v.fills) > 0 THEN -1 ELSE 1
           n == Size(Position(v.fills))
<1>1. /\ o.intents = v.intents /\ o.fills = v.fills /\ o.bars = v.bars \cup {b}
      /\ v.halted \subseteq o.halted
      /\ risk # "none" => DayOf(b.ts) \in o.halted
  BY DEF Observed
<1>2. ASSUME NEW kind, NEW s, NEW q, u = WithIntent(o, id(kind), s, q, b.ts)
      PROVE  /\ u.bars = o.bars /\ u.halted = o.halted
             /\ \/ u.intents = v.intents
                \/ \E t : /\ u.intents = Append(v.intents, t)
                          /\ t.state = "pending" /\ t.req.id.day = DayOf(b.ts)
                          /\ t.req.id.kind = kind /\ t.req.submitted = b.ts + 1
                          /\ t.req.side = s /\ t.req.qty = q
  <2>1. CASE HasIntent(o, id(kind))
    BY <1>1, <1>2, <2>1 DEF WithIntent
  <2>2. CASE ~HasIntent(o, id(kind))
    <3>1. PICK req : NewRequest(id(kind), s, q, b.ts) = req
      OBVIOUS
    <3>2. /\ req.id = id(kind) /\ req.side = s /\ req.qty = q /\ req.submitted = b.ts + 1
      BY <3>1 DEF NewRequest
    <3>3. PICK t : [req |-> req, state |-> "pending"] = t
      OBVIOUS
    <3>4. u = WithIntents(o, Append(v.intents, t))
      BY <1>1, <1>2, <2>2, <3>1, <3>3 DEF WithIntent
    <3>5. u.bars = o.bars /\ u.halted = o.halted /\ u.intents = Append(v.intents, t)
      BY <3>4 DEF WithIntents
    <3>6. t.req = req /\ t.state = "pending"
      BY <3>3
    <3> QED
      BY <3>2, <3>5, <3>6
  <2> QED
    BY <2>1, <2>2
<1>3. CASE WantsEntry(o, b, impulse)
  <2>1. u = WithIntent(o, id("entry"), impulse, quantity, b.ts)
    BY <1>3 DEF Decided
  <2> HIDE DEF id, side, n
  <2> QED
    BY <1>1, <1>2, <1>3, <2>1
<1>4. CASE ~WantsEntry(o, b, impulse) /\ WantsExit(o, b, risk)
  <2>1. u = WithIntent(o, id("exit"), side, n, b.ts)
    BY <1>1, <1>4 DEF Decided
  <2>2. /\ u.bars = o.bars /\ u.halted = o.halted
        /\ \/ u.intents = v.intents
           \/ \E t : /\ u.intents = Append(v.intents, t)
                     /\ t.state = "pending" /\ t.req.id.day = DayOf(b.ts)
                     /\ t.req.id.kind = "exit" /\ t.req.submitted = b.ts + 1
                     /\ t.req.side = side /\ t.req.qty = n
    <3> HIDE DEF id, side, n
    <3> QED
      BY <1>2, <2>1
  <2> QED
    BY <1>1, <1>4, <2>2
<1>5. CASE ~WantsEntry(o, b, impulse) /\ ~WantsExit(o, b, risk)
  <2>1. u = o
    BY <1>5 DEF Decided
  <2> QED
    BY <1>1, <2>1
<1> QED
  BY <1>3, <1>4, <1>5

(* At the exit minute and later every entry decided before is over.        *)
LEMMA EntriesOver ==
    ASSUME NEW a \in Nat, NEW b \in Nat, a < b, Minute(a) = OpeningBars - 1,
           Minute(b) >= ExitMinute
    PROVE  a + 1 + Latency + EntryLife <= b + 1
<1> DEFINE x == DayOf(a)
           y == DayOf(b)
           m == OpeningBars - 1
           n == Minute(b)
<1>1. /\ Stride \in Nat \ {0} /\ Latency \in Nat /\ EntryLife \in Nat /\ m \in Nat
      /\ x \in Nat /\ y \in Nat /\ n \in Nat /\ n >= ExitMinute /\ ExitMinute \in Nat
      /\ x <= y
  BY SessionAssumption, DayNat, DayMonotone DEF Minute
<1>2. a = Stride * x + m /\ b = Stride * y + n
  BY <1>1 DEF DayOf, Minute
<1>3. m + 1 + Latency + EntryLife <= ExitMinute + 1 /\ m + 1 + Latency + EntryLife <= Stride
  BY SessionAssumption, TimeExitAssumption, EntryLifeAssumption
<1> HIDE DEF x, y, m, n
<1>4. CASE x = y
  <2>1. PICK p : p = Stride * x
    OBVIOUS
  <2>2. p \in Nat
    BY <1>1, <2>1
  <2>3. a = p + m /\ b = p + n
    BY <1>2, <1>4, <2>1
  <2> QED
    BY <1>1, <1>3, <2>2, <2>3
<1>5. CASE x + 1 <= y
  <2>1. Stride * (x + 1) <= Stride * y
    BY <1>1, <1>5
  <2>2. Stride * (x + 1) = Stride * x + Stride
    BY <1>1
  <2>3. PICK p, q : p = Stride * x /\ q = Stride * y
    OBVIOUS
  <2>4. p \in Nat /\ q \in Nat
    BY <1>1, <2>3
  <2>5. a = p + m /\ b = q + n /\ p + Stride <= q
    BY <1>2, <2>1, <2>2, <2>3
  <2> QED
    BY <1>1, <1>3, <2>4, <2>5
<1> QED
  BY <1>1, <1>4, <1>5

(* The minute that decides entries is not of a day that has a time exit.   *)
LEMMA ExitEndsDay ==
    ASSUME NEW v \in WorkerLedger, NEW quantity, Scheduled(v, quantity),
           NEW b \in Bar, \A c \in v.bars : c.ts < b.ts,
           NEW j \in DOMAIN v.intents, Minute(v.intents[j].req.submitted - 1) >= ExitMinute,
           Minute(b.ts) = OpeningBars - 1
    PROVE  v.intents[j].req.id.day < DayOf(b.ts)
<1>1. PICK req : v.intents[j].req = req
  OBVIOUS
<1>2. PICK c \in v.bars : req.submitted = c.ts + 1 /\ req.id.day = DayOf(c.ts)
  BY <1>1 DEF Scheduled
<1>3. c.ts \in Nat /\ b.ts \in Nat /\ c.ts < b.ts
  BY <1>2, WorkerFields DEF Bar
<1>4. DayOf(c.ts) <= DayOf(b.ts) /\ DayOf(c.ts) \in Nat /\ DayOf(b.ts) \in Nat
  BY <1>3, DayMonotone, DayNat
<1>5. DayOf(c.ts) # DayOf(b.ts)
  <2> SUFFICES ASSUME DayOf(c.ts) = DayOf(b.ts) PROVE FALSE
    OBVIOUS
  <2>1. Minute(c.ts) < Minute(b.ts)
    BY <1>3, SameDayMinutes
  <2>2. req.submitted - 1 = c.ts
    BY <1>2, <1>3
  <2>3. Minute(c.ts) >= ExitMinute
    BY <1>1, <2>2
  <2>4. Minute(c.ts) \in Nat /\ ExitMinute \in Nat /\ OpeningBars \in Nat
    BY <1>3, SessionAssumption DEF Minute
  <2> QED
    BY <2>1, <2>3, <2>4, ExitAssumption
<1> QED
  BY <1>1, <1>2, <1>4, <1>5

(* The side of one-sided inventory is the sign of the position.            *)
LEMMA HeldSide ==
    ASSUME NEW lots \in SUBSET Unit, IsFiniteSet(lots),
           \A a, b \in lots : a.side = b.side, NEW u \in lots
    PROVE  u.side # (IF Net(lots) > 0 THEN -1 ELSE 1)
<1>1. u.side = 1 \/ u.side = -1
  BY DEF Unit, Side
<1>2. Cardinality(lots) \in Nat \ {0} /\ Cardinality({}) = 0
  BY FS_CardinalityType, FS_EmptySet
<1>3. CASE u.side = 1
  <2>1. OnSide(lots, 1) = lots /\ OnSide(lots, -1) = {}
    BY <1>3 DEF OnSide
  <2>2. Net(lots) = Cardinality(lots)
    BY <1>2, <2>1 DEF Net
  <2>3. Net(lots) > 0
    BY <1>2, <2>2
  <2> QED
    BY <1>3, <2>3
<1>4. CASE u.side = -1
  <2>1. OnSide(lots, -1) = lots /\ OnSide(lots, 1) = {}
    BY <1>4 DEF OnSide
  <2> QED
    BY <1>2, <1>4, <2>1 DEF Net
<1> QED
  BY <1>1, <1>3, <1>4

(* A decision asks for an exit of all the inventory, and for an entry only *)
(* on a day later than any time exit.                                      *)
LEMMA DecidedDeparts ==
    ASSUME NEW db \in SimLedger, Sound(db), NEW v \in WorkerLedger, NEW b \in Bar,
           \A c \in v.bars : c.ts < b.ts, NEW impulse, NEW risk,
           NEW quantity \in Nat, Scheduled(v, quantity), Exposed(db, v, quantity),
           \A k \in DOMAIN db.orders : k \in DOMAIN v.intents,
           Position(v.fills) = Net(db.lots), Departs(db, v),
           NEW u, Decided(v, b, impulse, risk, quantity) = u
    PROVE  Departs(db, u)
<1>1. PICK o : Observed(v, b, risk) = o
  OBVIOUS
<1>2. /\ u.bars = v.bars \cup {b}
      /\ \/ u.intents = v.intents
         \/ \E t : /\ u.intents = Append(v.intents, t)
                   /\ t.state = "pending" /\ t.req.id.day = DayOf(b.ts)
                   /\ t.req.submitted = b.ts + 1
                   /\ \/ /\ t.req.id.kind = "entry" /\ WantsEntry(o, b, impulse)
                      \/ /\ t.req.id.kind = "exit" /\ WantsExit(o, b, risk)
                         /\ t.req.side = (IF Position(v.fills) > 0 THEN -1 ELSE 1)
                         /\ t.req.qty = Size(Position(v.fills))
  BY <1>1, DecidedReasons
<1>3. o.fills = v.fills
  BY <1>1 DEF Observed
<1>4. b.ts \in Nat
  BY DEF Bar
<1>5. CASE u.intents = v.intents
  BY <1>2, <1>5 DEF Departs, TimeExit, Settles, Covers
<1>6. ASSUME NEW t, u.intents = Append(v.intents, t), t.req.id.day = DayOf(b.ts),
             t.req.submitted = b.ts + 1,
             \/ /\ t.req.id.kind = "entry" /\ WantsEntry(o, b, impulse)
             \/ /\ t.req.id.kind = "exit" /\ WantsExit(o, b, risk)
                /\ t.req.side = (IF Position(v.fills) > 0 THEN -1 ELSE 1)
                /\ t.req.qty = Size(Position(v.fills))
      PROVE  Departs(db, u)
  <2> DEFINE m == Len(v.intents) + 1
  <2>1. v.intents \in Seq(Intent) /\ Len(v.intents) \in Nat /\ DOMAIN v.intents = 1..Len(v.intents)
    BY WorkerFields
  <2>2. /\ DOMAIN u.intents = DOMAIN v.intents \cup {m} /\ m \notin DOMAIN v.intents
        /\ u.intents[m] = t
        /\ \A k \in DOMAIN v.intents : u.intents[k] = v.intents[k]
    BY <1>6, <2>1
  <2> HIDE DEF m
  <2>3. m \notin DOMAIN db.orders
    BY <2>2
  <2>4. \A j \in DOMAIN v.intents : TimeExit(u, j) =>
           TimeExit(v, j) /\ DayOf(b.ts) <= v.intents[j].req.id.day
    BY <1>2, <2>2 DEF TimeExit
  <2>5. CASE t.req.id.kind = "entry" /\ WantsEntry(o, b, impulse)
    <3>1. Minute(b.ts) = OpeningBars - 1
      BY <2>5 DEF WantsEntry
    <3>2. ASSUME NEW j \in DOMAIN v.intents, TimeExit(u, j)
          PROVE  FALSE
      <4>1. /\ Minute(v.intents[j].req.submitted - 1) >= ExitMinute
            /\ DayOf(b.ts) <= v.intents[j].req.id.day
        BY <2>4, <3>2 DEF TimeExit
      <4>2. v.intents[j].req.id.day < DayOf(b.ts)
        BY <3>1, <4>1, ExitEndsDay
      <4>3. v.intents[j].req.id.day \in Nat /\ DayOf(b.ts) \in Nat
        BY <1>4, WorkerFields, DayNat DEF Intent, Request, Id
      <4> QED
        BY <4>1, <4>2, <4>3
    <3>3. ~TimeExit(u, m)
      BY <2>2, <2>5 DEF TimeExit
    <3> QED
      BY <2>2, <3>2, <3>3 DEF Departs
  <2>6. CASE /\ t.req.id.kind = "exit" /\ WantsExit(o, b, risk)
             /\ t.req.side = (IF Position(v.fills) > 0 THEN -1 ELSE 1)
             /\ t.req.qty = Size(Position(v.fills))
    <3>1. ASSUME NEW j \in DOMAIN v.intents, Settles(db, v, j)
          PROVE  Settles(db, u, j)
      BY <2>2, <2>6, <3>1 DEF Settles, Covers
    <3>2. /\ IsFiniteSet(db.lots) /\ db.lots \in SUBSET Unit
          /\ \A x, y \in db.lots : x.side = y.side
      BY LedgerFields DEF Sound, Exposed
    <3>3. t.req.qty = Cardinality(db.lots) /\ db.lots # {}
      <4>1. Size(Net(db.lots)) = Cardinality(db.lots)
        BY <3>2, OneSidedNet
      <4>2. Net(db.lots) # 0
        BY <1>3, <2>6 DEF WantsExit
      <4>3. Net({}) = 0
        <5>1. OnSide({}, 1) = {} /\ OnSide({}, -1) = {}
          BY DEF OnSide
        <5>2. Cardinality({}) = 0
          BY FS_EmptySet
        <5>3. Net({}) = Cardinality(OnSide({}, 1)) - Cardinality(OnSide({}, -1))
          BY DEF Net
        <5>4. Net({}) = 0 - 0
          BY <5>1, <5>2, <5>3, Zenon
        <5> QED
          BY <5>4
      <4>4. db.lots # {}
        BY <4>2, <4>3
      <4> QED
        BY <2>6, <4>1, <4>4
    <3>4. \A x \in db.lots : x.side # t.req.side
      BY <2>6, <3>2, HeldSide
    <3>5. Covers(db, u, m)
      <4>1. FilledOf(db, m) = 0 /\ Cardinality(db.lots) \in Nat
        BY <2>3, <3>2, FS_CardinalityType DEF FilledOf
      <4> QED
        BY <2>2, <3>3, <3>4, <4>1 DEF Covers
    <3>6. ASSUME TimeExit(u, m)
          PROVE  Settles(db, u, m)
      <4>1. Minute(b.ts) >= ExitMinute
        <5>1. u.intents[m].req.submitted - 1 = b.ts
          BY <1>4, <1>6, <2>2
        <5> QED
          BY <3>6, <5>1 DEF TimeExit
      <4>2. ASSUME NEW k \in DOMAIN v.intents, v.intents[k].req.id.kind = "entry"
            PROVE  v.intents[k].req.expires <= b.ts + 1
        <5>1. PICK c \in v.bars :
                 /\ v.intents[k].req.submitted = c.ts + 1
                 /\ Minute(c.ts) = OpeningBars - 1
                 /\ v.intents[k].req.expires = v.intents[k].req.eligible + EntryLife
                 /\ v.intents[k].req.eligible = v.intents[k].req.submitted + Latency
          BY <4>2 DEF Scheduled
        <5>2. c.ts \in Nat /\ c.ts < b.ts
          BY <5>1, WorkerFields DEF Bar
        <5>3. c.ts + 1 + Latency + EntryLife <= b.ts + 1
          BY <1>4, <4>1, <5>1, <5>2, EntriesOver
        <5> QED
          BY <5>1, <5>3
      <4> QED
        BY <1>6, <2>2, <2>6, <3>5, <4>2 DEF Settles
    <3> QED
      BY <2>2, <2>4, <3>1, <3>6 DEF Departs
  <2> QED
    BY <1>6, <2>5, <2>6
<1> QED
  BY <1>2, <1>5, <1>6

(* Both the committed ledger and the open transaction keep a time exit's   *)
(* claim on the inventory.                                                 *)
TInv == SInv /\ Departs(sim, w) /\ Departs(tx, w)

LEMMA InitTInv == Init => TInv
<1> SUFFICES ASSUME Init PROVE TInv
  OBVIOUS
<1>1. DOMAIN w.intents = {}
  BY DEF Init, EmptyWorker
<1> QED
  BY <1>1, InitSInv DEF TInv, Departs

(* Facts of the invariant for the ledger in hand.                          *)
LEMMA LedgerFacts ==
    ASSUME SInv
    PROVE  /\ sim \in SimLedger /\ w \in WorkerLedger /\ tx \in SimLedger
           /\ Sound(sim) /\ Sound(tx) /\ Booked(tx)
           /\ \A k \in DOMAIN sim.orders :
                 k \in DOMAIN w.intents /\ sim.orders[k].req = w.intents[k].req
           /\ \A k \in DOMAIN tx.orders :
                 k \in DOMAIN w.intents /\ tx.orders[k].req = w.intents[k].req
<1>1. /\ sim \in SimLedger /\ w \in WorkerLedger /\ tx \in SimLedger
      /\ Sound(sim) /\ Booked(tx) /\ IntentFirst
  BY DEF SInv, IInv, TypeOK, LedgersInOrder
<1>2. \A k \in DOMAIN sim.orders :
         k \in DOMAIN w.intents /\ sim.orders[k].req = w.intents[k].req
  BY <1>1, LedgerFields, WorkerFields DEF IntentFirst
<1>3. CASE tx = sim
  BY <1>1, <1>2, <1>3
<1>4. CASE Follows(sim, tx)
  <2>1. DOMAIN tx.orders = DOMAIN sim.orders
    BY <1>1, <1>4, LedgerFields DEF Follows
  <2> QED
    BY <1>1, <1>2, <1>4, <2>1 DEF Follows, Extends
<1>5. tx = sim \/ Follows(sim, tx)
  BY DEF SInv, IInv, OpenTransaction
<1> QED
  BY <1>3, <1>4, <1>5

(* Answers and steps outside the ledgers change no request and no bar.     *)
LEMMA SameIntentsDepart ==
    ASSUME NEW v \in WorkerLedger, NEW u \in WorkerLedger, SameIntents(v, u),
           u.bars = v.bars, NEW db, Departs(db, v)
    PROVE  Departs(db, u)
<1>1. DOMAIN u.intents = DOMAIN v.intents
  BY WorkerFields DEF SameIntents
<1>2. \A j \in DOMAIN v.intents : u.intents[j].req = v.intents[j].req
  BY DEF SameIntents
<1> QED
  BY <1>1, <1>2 DEF Departs, TimeExit, Settles, Covers

LEMMA AnswersDepart ==
    ASSUME TInv, Reconcile \/ Acknowledge
    PROVE  (Departs(sim, w) /\ Departs(tx, w))'
<1>1. /\ UNCHANGED <<sim, tx>> /\ w' \in WorkerLedger /\ SameIntents(w, w')
      /\ w'.bars = w.bars
  <2>1. CASE Reconcile
    <3>1. w' = Reconciled(w, sim) /\ UNCHANGED <<sim, tx>>
      BY <2>1, ReconcilePasses DEF Reconcile, TInv, SInv, LedgersInOrder
    <3>2. w' \in WorkerLedger /\ SameIntents(w, w') /\ w'.bars = w.bars
      BY <3>1, ReconciledKeeps DEF TInv, SInv, IInv, TypeOK
    <3> QED
      BY <3>1, <3>2
  <2>2. CASE Acknowledge
    <3>1. PICK i \in todo : w' = Acknowledged(w, i, sim)
      BY <2>2 DEF Acknowledge
    <3>2. /\ i \in DOMAIN w.intents /\ UNCHANGED <<sim, tx>>
      BY <2>2, <3>1 DEF Acknowledge, TInv, SInv, IInv, RowsToDo, Pending
    <3>3. w' \in WorkerLedger /\ SameIntents(w, w') /\ w'.bars = w.bars
      BY <3>1, <3>2, AcknowledgedKeeps DEF TInv, SInv, IInv, TypeOK
    <3> QED
      BY <3>2, <3>3
  <2> QED
    BY <2>1, <2>2
<1>2. w \in WorkerLedger
  BY LedgerFacts DEF TInv
<1>3. \A db : Departs(db, w) => Departs(db, w')
  BY <1>1, <1>2, SameIntentsDepart
<1> QED
  BY <1>1, <1>3 DEF TInv

LEMMA SubmitNextDeparts ==
    ASSUME TInv, SubmitNext
    PROVE  (Departs(sim, w) /\ Departs(tx, w))'
<1>1. PICK i \in todo :
        IF Refused(sim, w.intents[i].req)
        THEN Fail("order_refused")
        ELSE /\ sim' = Submit(sim, w.intents[i].req, case.reject)
             /\ tx' = sim' /\ UNCHANGED w
  BY DEF SubmitNext
<1>2. i \in DOMAIN w.intents /\ w.intents[i].req \in Request
  <2>1. i \in DOMAIN w.intents
    BY <1>1 DEF SubmitNext, TInv, SInv, IInv, RowsToDo, Pending
  <2> QED
    BY <2>1, LedgerFacts, WorkerFields DEF TInv, Intent
<1>3. CASE Refused(sim, w.intents[i].req)
  BY <1>1, <1>3 DEF Fail, TInv
<1>4. CASE ~Refused(sim, w.intents[i].req)
  <2>1. sim' = Submit(sim, w.intents[i].req, case.reject) /\ tx' = sim' /\ w' = w
    BY <1>1, <1>4
  <2>2. CASE Known(sim, w.intents[i].req.id)
    BY <2>1, <2>2 DEF Submit, TInv
  <2>3. CASE ~Known(sim, w.intents[i].req.id)
    <3>1. Departs(sim', w)
      BY <1>2, <2>1, <2>3, SubmitDeparts, LedgerFacts DEF TInv
    <3> QED
      BY <2>1, <3>1 DEF TInv
  <2> QED
    BY <2>2, <2>3
<1> QED
  BY <1>3, <1>4

LEMMA AdvanceDeparts ==
    ASSUME TInv, BeginAdvance \/ WorkNext \/ StopNext \/ CommitAdvance
    PROVE  (Departs(sim, w) /\ Departs(tx, w))'
<1>1. /\ sim \in SimLedger /\ w \in WorkerLedger /\ tx \in SimLedger
      /\ Sound(sim) /\ Sound(tx) /\ Booked(tx)
      /\ \A k \in DOMAIN tx.orders :
            k \in DOMAIN w.intents /\ tx.orders[k].req = w.intents[k].req
  BY LedgerFacts DEF TInv
<1>2. /\ Departs(sim, w) /\ Departs(tx, w)
      /\ bar \in Bar
  BY BarType DEF TInv, SInv, IInv, OnABar, BeginAdvance, WorkNext, StopNext, CommitAdvance
<1>3. CASE BeginAdvance
  <2>1. CASE \E b \in sim.bars : bar.ts <= b.ts
    BY <1>2, <1>3, <2>1 DEF BeginAdvance, Fail
  <2>2. CASE ~\E b \in sim.bars : bar.ts <= b.ts
    <3>1. tx' = InsertBar(sim, bar) /\ sim' = sim /\ w' = w
      BY <1>3, <2>2 DEF BeginAdvance
    <3>2. Departs(tx', w)
      BY <1>1, <1>2, <3>1, InsertBarDeparts
    <3> QED
      BY <1>2, <3>1, <3>2
  <2> QED
    BY <2>1, <2>2
<1>4. CASE WorkNext
  <2>1. PICK i \in todo : tx' = WorkOrder(tx, i, bar, case.cap)
    BY <1>4 DEF WorkNext
  <2>2. /\ sim' = sim /\ w' = w /\ i \in ActiveOrders(tx)
        /\ w.bars \subseteq sim.bars /\ \A b \in sim.bars : b.ts < bar.ts
    BY <1>4, <2>1 DEF WorkNext, TInv, SInv, IInv, RowsToDo, TapeRead
  <2>3. \A c \in w.bars : c.ts < bar.ts
    BY <2>2
  <2>4. case.cap \in Nat \ {0}
    <3>1. case \in Cases
      BY DEF TInv, SInv, IInv, TypeOK
    <3> QED
      BY <3>1, CaseType DEF TInv, SInv
  <2>5. Scheduled(w, case.quantity)
    BY DEF TInv, SInv, LedgersInOrder
  <2>6. DOMAIN tx.orders \subseteq DOMAIN w.intents
    BY <1>1
  <2>7. Departs(tx', w)
    BY <1>1, <1>2, <2>1, <2>2, <2>3, <2>4, <2>5, <2>6, WorkOrderDeparts
  <2> QED
    BY <1>2, <2>2, <2>7
<1>5. CASE StopNext
  <2>1. PICK l \in todo : tx' = StopLot(tx, l, bar)
    BY <1>5 DEF StopNext
  <2>2. sim' = sim /\ w' = w /\ l \in LotNumbers(tx)
    BY <1>5, <2>1 DEF StopNext, TInv, SInv, IInv, RowsToDo
  <2>3. Departs(tx', w)
    BY <1>1, <1>2, <2>1, <2>2, StopLotDeparts
  <2> QED
    BY <1>2, <2>2, <2>3
<1>6. CASE CommitAdvance
  BY <1>2, <1>6 DEF CommitAdvance
<1> QED
  BY <1>3, <1>4, <1>5, <1>6

LEMMA DecideDeparts ==
    ASSUME TInv, Decide
    PROVE  (Departs(sim, w) /\ Departs(tx, w))'
<1>1. /\ sim \in SimLedger /\ w \in WorkerLedger /\ Sound(sim)
      /\ \A k \in DOMAIN sim.orders : k \in DOMAIN w.intents
  BY LedgerFacts DEF TInv
<1>2. /\ Departs(sim, w) /\ bar \in Bar /\ tx = sim /\ pc = "decide"
      /\ Scheduled(w, case.quantity) /\ Exposed(sim, w, case.quantity)
      /\ case.quantity \in Nat
  BY BarType, CaseType
     DEF TInv, SInv, IInv, OnABar, OpenTransaction, LedgersInOrder, Decide
<1>3. CASE Backwards(w, bar)
  BY <1>2, <1>3 DEF Decide, Fail
<1>4. CASE ~Backwards(w, bar)
  <2>1. PICK impulse \in {-1, 0, 1}, risk \in Risk :
          /\ w' = Decided(w, bar, impulse, risk, case.quantity)
          /\ UNCHANGED <<sim, tx>>
    BY <1>4 DEF Decide
  <2>2. \A c \in w.bars : c.ts < bar.ts
    <3>1. \A c \in w.bars : c.ts \in Nat /\ bar.ts \in Nat
      BY <1>1, <1>2, WorkerFields DEF Bar
    <3> QED
      BY <1>4, <3>1 DEF Backwards
  <2>3. Position(w.fills) = Net(sim.lots)
    BY <1>2, SimPositionNet DEF TInv, SInv, DecidesOnReconciledInventory
  <2>4. Departs(sim, w')
    BY <1>1, <1>2, <2>1, <2>2, <2>3, DecidedDeparts
  <2> QED
    BY <1>2, <2>1, <2>4
<1> QED
  BY <1>3, <1>4

(* The invariant is inductive.                                             *)
LEMMA NextTInv == TInv /\ [Next]_vars => TInv'
<1> SUFFICES ASSUME TInv, [Next]_vars PROVE TInv'
  OBVIOUS
<1>1. SInv'
  <2>1. [Next]_vars
    OBVIOUS
  <2> QED
    BY <2>1, NextSInv DEF TInv
<1>2. ASSUME UNCHANGED <<sim, w>>, tx' = tx \/ tx' = sim
      PROVE  (Departs(sim, w) /\ Departs(tx, w))'
  BY <1>2 DEF TInv
<1>3. CASE \/ ReconcileDisconnected \/ DispatchDisconnected \/ SkipProcessed \/ TakeBar
           \/ Finish \/ AdvanceDuplicate \/ BeginStops \/ NewBar \/ Disconnect \/ Crash
           \/ UNCHANGED vars
  BY <1>1, <1>2, <1>3
     DEF ReconcileDisconnected, DispatchDisconnected, SkipProcessed, TakeBar, Finish,
         AdvanceDuplicate, BeginStops, NewBar, Disconnect, Crash, vars, TInv
<1>4. CASE \/ Reconcile \/ Acknowledge \/ SubmitNext \/ BeginAdvance \/ WorkNext
           \/ StopNext \/ CommitAdvance \/ Decide
  <2>1. (Departs(sim, w) /\ Departs(tx, w))'
    BY <1>4, AnswersDepart, SubmitNextDeparts, AdvanceDeparts, DecideDeparts
  <2> QED
    BY <1>1, <2>1 DEF TInv
<1> QED
  BY <1>3, <1>4 DEF Next, Program

(* The time exit, for any number of contracts, however many of them a bar  *)
(* fills, and over every crash, disconnect and late delivery: what an exit *)
(* asked for at the exit minute or later has still to fill covers all the  *)
(* inventory of its day, because entries are over before it is asked for,  *)
(* and no fill or stop takes from the one what it does not take from the   *)
(* other (worker.py step and _intent, simulator.py advance).               *)
THEOREM TimeExitAlwaysCovers == Spec => []TimeExitCovers
<1>1. TInv => TimeExitCovers
  BY DEF TInv, Departs, Settles, TimeExitCovers
<1> QED
  BY <1>1, InitTInv, NextTInv, PTL DEF Spec
==============================================================================
