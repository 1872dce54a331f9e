------------------------------- MODULE TradeBook -------------------------------
(***************************************************************************)
(* What the execution engine promises of every order: the broker holds it, *)
(* then has an exit fill for it; the trade that records it is opened while *)
(* the broker holds it and booked once, after a real exit.  An order the   *)
(* broker holds may stay unrecorded (a crash before the trade's commit);   *)
(* such an order is never exited and never booked.                         *)
(***************************************************************************)
CONSTANT Orders
VARIABLES at,       \* per order: none, held or exited, in the broker's book
          record    \* per order: none, open or booked, in the trades table

vars == <<at, record>>

TypeOK == /\ at \in [Orders -> {"none", "held", "exited"}]
          /\ record \in [Orders -> {"none", "open", "booked"}]

Init == /\ at = [o \in Orders |-> "none"]
        /\ record = [o \in Orders |-> "none"]

Submit(o) == /\ at[o] = "none" /\ record[o] = "none"
             /\ at' = [at EXCEPT ![o] = "held"]
             /\ UNCHANGED record

Record(o) == /\ at[o] = "held" /\ record[o] = "none"
             /\ record' = [record EXCEPT ![o] = "open"]
             /\ UNCHANGED at

Exit(o) == /\ at[o] = "held" /\ record[o] = "open"
           /\ at' = [at EXCEPT ![o] = "exited"]
           /\ UNCHANGED record

Book(o) == /\ at[o] = "exited" /\ record[o] = "open"
           /\ record' = [record EXCEPT ![o] = "booked"]
           /\ UNCHANGED at

Next == \E o \in Orders : Submit(o) \/ Record(o) \/ Exit(o) \/ Book(o)

Spec == Init /\ [][Next]_vars
================================================================================
