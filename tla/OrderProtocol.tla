----------------------------- MODULE OrderProtocol -----------------------------
(***************************************************************************)
(* What a pair of ledgers promises about one order identity, whatever      *)
(* crashes and disconnects happen in between: it is intended once, reaches *)
(* the broker once, with the intended quantity, is filled for at most that *)
(* quantity, and never changes again once it is over.                      *)
(* A step may move several identities: an advance commits them together.   *)
(***************************************************************************)
EXTENDS Integers

CONSTANT Ids

VARIABLE book    \* each identity's [status, qty, filled]

Unknown == [status |-> "unknown", qty |-> 0, filled |-> 0]

Init == book = [id \in Ids |-> Unknown]

Intend(a, b) ==
    /\ a.status = "unknown"
    /\ b.status = "intended" /\ b.qty > 0 /\ b.filled = 0

\* The broker takes the order, or rejects it.
Place(a, b) ==
    /\ a.status = "intended"
    /\ b.status \in {"live", "over"} /\ b.qty = a.qty /\ b.filled = 0

Execute(a, b) ==
    /\ a.status = "live"
    /\ b.status \in {"live", "over"} /\ b.qty = a.qty
    /\ a.filled <= b.filled /\ b.filled <= a.qty

Lifecycle(a, b) == a = b \/ Intend(a, b) \/ Place(a, b) \/ Execute(a, b)

Next == /\ book' \in [Ids -> [status : {"unknown", "intended", "live", "over"},
                              qty : Int, filled : Int]]
        /\ \A id \in Ids : Lifecycle(book[id], book'[id])

Spec == Init /\ [][Next]_book
=============================================================================
