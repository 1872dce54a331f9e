----------------------------- MODULE ForwardWorker -----------------------------
(***************************************************************************)
(* The worker of the continuous service (ForwardWorker in                  *)
(* backend/paperlab/continuous.py, over Worker in worker.py) as operators  *)
(* on the value of its ledger.  It differs from Worker in _intent: an exit *)
(* may be asked for again, and a request never becomes eligible before the *)
(* actual minute `at' it is decided in.                                    *)
(***************************************************************************)
EXTENDS Worker

\* Mutant: every kind of intent is committed once a day, as in Worker.
MayIntendOnce(v, day, kind) == Earlier(v, day, kind) = {}

\* An exit whose last order ended unfilled may be asked for again.
MayIntend(v, day, kind) ==
    LET earlier == Earlier(v, day, kind)
    IN  earlier = {} \/ (/\ kind = "exit"
                         /\ \A i \in earlier : (\A j \in earlier : j <= i) =>
                               v.intents[i].state \in {"cancelled", "rejected", "expired"})

\* Eligible no earlier than the latency allows nor than the actual minute.
ForwardRequest(id, side, qty, ts, at) ==
    LET eligible == IF ts + 1 + Latency >= at + 1 THEN ts + 1 + Latency ELSE at + 1
    IN  [id |-> id, side |-> side, qty |-> qty, decided |-> at, submitted |-> ts + 1,
         eligible |-> eligible,
         expires  |-> eligible + (IF id.kind = "entry" THEN EntryLife ELSE ExitLife)]

Intend(v, kind, side, qty, b, at) ==
    LET day == DayOf(b.ts)
        id  == [day |-> day, kind |-> kind, retry |-> Cardinality(Earlier(v, day, kind))]
    IN  IF MayIntend(v, day, kind)
        THEN WithIntents(v, Append(v.intents, [req   |-> ForwardRequest(id, side, qty, b.ts, at),
                                               state |-> "pending"]))
        ELSE v

ForwardDecided(v, b, impulse, risk, at) ==
    LET o   == Observed(v, b, risk)
        pos == Position(o.fills)
    IN  IF WantsEntry(o, b, impulse) THEN Intend(o, "entry", impulse, MaxQty, b, at)
        ELSE IF WantsExit(o, b, risk)
        THEN Intend(o, "exit", IF pos > 0 THEN -1 ELSE 1, Size(pos), b, at)
        ELSE o
==============================================================================
