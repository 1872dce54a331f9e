------------------------------ MODULE MCPaperLab ------------------------------
(***************************************************************************)
(* Instances of PaperLab for TLC, with the verdict of the independent      *)
(* audit.                                                                  *)
(***************************************************************************)
EXTENDS PaperLab

\* One contract on two days with a fault; two contracts filled one at a time,
\* and an entry the broker rejects, each on a day with two faults.
MCCases == {[quantity |-> 1, cap |-> 2, reject |-> FALSE, horizon |-> 25, faults |-> 1],
            [quantity |-> 2, cap |-> 1, reject |-> FALSE, horizon |-> 7, faults |-> 2],
            [quantity |-> 1, cap |-> 2, reject |-> TRUE, horizon |-> 7, faults |-> 2]}
TwoContracts == {[quantity |-> 2, cap |-> 1, reject |-> FALSE, horizon |-> 7, faults |-> 0]}

A == INSTANCE PaperAudit

(* The verdict on a finished run is about what it leaves open and nothing  *)
(* else: whatever was crashed or disconnected before, the independent      *)
(* verifier passes both ledgers exactly if every intent reached the        *)
(* broker, no inventory is left and no order still works                   *)
(* (scripts/paper_milestone.py run calls audit.py audit with allow_open    *)
(* False).                                                                 *)
FinishedRunPassesAudit ==
    pc = "done" =>
        (A!Passes(sim, w, {tape[i] : i \in DOMAIN tape},
                  [quantity |-> case.quantity, forward |-> FALSE], FALSE)
         <=> A!Flat(sim) /\ Pending(w) = {})

(* A run whose faults end comes to its end: interrupted anywhere, the      *)
(* process recovers, finds its place on the tape and finishes it, unless   *)
(* it meets a bar it had given up (worker_run's loop, Worker.recover).     *)
RunEnds == <>(pc \in {"done", "failed"})

FairSpec == Spec /\ WF_vars(Program) /\ WF_vars(NewBar)
=============================================================================
