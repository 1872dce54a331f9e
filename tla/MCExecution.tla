------------------------------ MODULE MCExecution ------------------------------
(***************************************************************************)
(* Instances of Execution for TLC, and what its fairness promises.         *)
(***************************************************************************)
EXTENDS Execution

MCSymbols == <<"MES", "MNQ">>

\* down through the stop, up through the target, a run past one R, an
\* implausible opening far below
Down == [open |-> 100, high |-> 101, low |-> 84, close |-> 91]
Up   == [open |-> 101, high |-> 120, low |-> 100, close |-> 118]
Run  == [open |-> 101, high |-> 114, low |-> 101, close |-> 114]
Void == [open |-> 70, high |-> 71, low |-> 69, close |-> 70]
AllBars   == {Down, Up, Run, Void}

(* An exit the broker has on record is booked, however often the process   *)
(* dies or a commit fails in between, if the engine is kept running and    *)
(* the fill needs no review.                                               *)
ExitOf(i) == book.orders[db.trades[i].order]
ExitsBooked ==
    \A i \in 1..MaxOrders :
        (i \in Open(db) /\ ExitOf(i).exit /\ ~ExitOf(i).flag
             /\ ~Implausible(db.trades[i], ExitOf(i).price))
          ~> (i \notin Open(db) \/ ~running)
===============================================================================
