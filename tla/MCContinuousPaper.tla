--------------------------- MODULE MCContinuousPaper ---------------------------
(***************************************************************************)
(* Instances of ContinuousPaper for TLC, with the verdict of the           *)
(* independent audit.                                                      *)
(***************************************************************************)
EXTENDS ContinuousPaper

A == INSTANCE PaperAudit

(* Reconciliation passes: whenever the service audits its scenarios, the   *)
(* independent verifier finds nothing in the ledgers of either (continuous *)
(* _reconcile, called at the start and with every report).                 *)
ReconciliationPasses ==
    Idle \/ Doing("started") =>
        LET spec == [quantity |-> MaxQty, forward |-> TRUE,
                     contract |-> [ts \in {b.ts : b \in TradedBars} |-> ContractAt(ts)]]
        IN  \A s \in Scenario : A!Passes(sim[s], w[s], TradedBars, spec, TRUE)

FairSpec == Spec /\ WF_vars(Process)

(* Every receipt is finished: interrupted anywhere, a restarted service    *)
(* ends up with no receipt left unapplied, or halted for review at a roll  *)
(* that meets a working exit (continuous.py __init__, _apply).             *)
ReceiptsFinished == []<>(Unapplied = {} \/ StuckRoll)
=============================================================================
