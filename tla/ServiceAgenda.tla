----------------------------- MODULE ServiceAgenda -----------------------------
(***************************************************************************)
(* What a call of the continuous service (backend/paperlab/continuous.py)  *)
(* has still to do, as a sequence of steps: each is at most one commit, a  *)
(* step of one scenario names it.  Here are the parts every call is made   *)
(* of; ContinuousPaper executes them.                                      *)
(***************************************************************************)
EXTENDS Naturals, Sequences

Family   == <<"baseline", "worse_costs">>
Scenario == {"baseline", "worse_costs"}

Agenda == [do : {"reconcile", "dispatch", "acknowledge", "cancel", "advance", "step",
                 "decide"}, for : Scenario]
          \cup [do : {"hard_halt", "raise", "apply", "contract", "flat", "exclude", "pin",
                      "opportunity", "applied", "resume", "started", "close"}]
          \cup [do : {"halt"}, for : Scenario, day : Nat, hard : BOOLEAN]

Do(op)         == <<[do |-> op]>>
DoFor(op, s)   == <<[do |-> op, for |-> s]>>
Each(ops(_))   == ops(Family[1]) \o ops(Family[2])

\* halt_day, for both scenarios; a hard halt is recorded first.
HaltDay(day, hardly) ==
    LET each(s) == DoFor("reconcile", s) \o DoFor("dispatch", s) \o DoFor("cancel", s)
                   \o <<[do |-> "halt", for |-> s, day |-> day, hard |-> hardly]>>
                   \o DoFor("reconcile", s)
    IN  (IF hardly THEN Do("hard_halt") ELSE <<>>) \o Each(each)

ReconcileOf(s) == DoFor("reconcile", s)
Recover(s) == DoFor("reconcile", s) \o DoFor("dispatch", s)

\* One scenario's share of an accepted receipt.
Apply(s) == DoFor("advance", s) \o DoFor("step", s) \o DoFor("reconcile", s)
=============================================================================
