------------------------------ MODULE LedgerProofs ------------------------------
(***************************************************************************)
(* Lemmas about the operators of Simulator and Worker: each keeps its      *)
(* ledger well typed and sound and only ever adds to its history, the      *)
(* worker creates at most one intent, of an identity it did not hold, and  *)
(* the books of the broker (orders, fills and inventory) always agree.     *)
(* A part relates the two ledgers of a scenario that are written in        *)
(* separate commits, and one is about the agenda of a call of the          *)
(* continuous service and what a step that replaces its head keeps.  The   *)
(* last are about a decision on a bar, the entries it can commit, the      *)
(* contract of an inventory, and exits.                                    *)
(***************************************************************************)
EXTENDS ForwardWorker, ServiceAgenda, SequenceTheorems, FiniteSetTheorems, TLAPS

(***************************************************************************)
(* The broker: what every ledger satisfies and every operation adds        *)
(***************************************************************************)

\* What holds of every simulator ledger besides its type.
Sound(db) ==
    /\ IsFiniteSet(db.lots)
    /\ \A i \in DOMAIN db.orders : ValidLifecycle(db.orders[i])
    /\ \A i \in DOMAIN db.fills : Known(db, db.fills[i].order)
    /\ \A u \in db.lots : Known(db, u.parent)

\* r comes after db: the requests, the final orders and the recorded fills of
\* db are in r as they were, and no order is filled for less than before.
Extends(db, r) ==
    /\ Len(db.orders) <= Len(r.orders)
    /\ \A k \in DOMAIN db.orders :
          /\ r.orders[k].req = db.orders[k].req
          /\ db.orders[k].filled <= r.orders[k].filled
          /\ db.orders[k].state \in Final => r.orders[k] = db.orders[k]
    /\ Len(db.fills) <= Len(r.fills)
    /\ \A k \in DOMAIN db.fills : r.fills[k] = db.fills[k]

\* A well-typed and sound ledger that comes after db in one advance, which
\* creates no order.
Follows(db, r) ==
    /\ r \in SimLedger /\ Sound(r)
    /\ Extends(db, r) /\ Len(r.orders) = Len(db.orders)

(* The fields of a ledger have the types and the domains one expects.      *)
LEMMA LedgerFields ==
    ASSUME NEW db \in SimLedger
    PROVE  /\ db.orders \in Seq(Order) /\ db.fills \in Seq(Fill)
           /\ db.bars \in SUBSET Bar /\ db.lots \in SUBSET Unit
           /\ Len(db.orders) \in Nat /\ Len(db.fills) \in Nat
           /\ DOMAIN db.orders = 1..Len(db.orders)
           /\ DOMAIN db.fills = 1..Len(db.fills)
           /\ \A k \in DOMAIN db.orders :
                 db.orders[k] \in Order /\ db.orders[k].filled \in Nat
           /\ \A k \in DOMAIN db.fills : db.fills[k] \in Fill
<1>1. /\ db.orders \in Seq(Order) /\ db.fills \in Seq(Fill)
      /\ db.bars \in SUBSET Bar /\ db.lots \in SUBSET Unit
  BY DEF SimLedger
<1>2. /\ \A k \in 1..Len(db.orders) : db.orders[k] \in Order
      /\ \A k \in 1..Len(db.fills) : db.fills[k] \in Fill
  BY <1>1, ElementOfSeq
<1>3. \A o \in Order : o.filled \in Nat
  BY DEF Order
<1> QED BY <1>1, <1>2, <1>3, LenProperties

(* What comes after a ledger still knows every identity it knew.           *)
LEMMA KnownStays ==
    ASSUME NEW db \in SimLedger, NEW r \in SimLedger, Extends(db, r),
           NEW id, Known(db, id)
    PROVE  Known(r, id)
<1>1. PICK k \in DOMAIN db.orders : db.orders[k].req.id = id BY DEF Known
<1>2. k \in DOMAIN r.orders BY LedgerFields DEF Extends
<1> QED BY <1>1, <1>2 DEF Extends, Known

(* Coming after is transitive and reflexive.                               *)
LEMMA ExtendsTransitive ==
    ASSUME NEW a \in SimLedger, NEW b \in SimLedger, NEW c \in SimLedger,
           Extends(a, b), Extends(b, c)
    PROVE  Extends(a, c)
<1>1. /\ DOMAIN a.orders \subseteq DOMAIN b.orders
      /\ DOMAIN a.fills \subseteq DOMAIN b.fills
  BY LedgerFields DEF Extends
<1>2. Len(a.orders) <= Len(c.orders) /\ Len(a.fills) <= Len(c.fills)
  BY LedgerFields DEF Extends
<1>3. \A k \in DOMAIN a.orders : a.orders[k].filled <= c.orders[k].filled
  <2>1. \A k \in DOMAIN a.orders :
           /\ a.orders[k].filled <= b.orders[k].filled
           /\ b.orders[k].filled <= c.orders[k].filled
    BY <1>1 DEF Extends
  <2>2. \A k \in DOMAIN a.orders : /\ a.orders[k].filled \in Nat
                                   /\ b.orders[k].filled \in Nat
                                   /\ c.orders[k].filled \in Nat
    <3>1. DOMAIN b.orders \subseteq DOMAIN c.orders
      BY LedgerFields DEF Extends
    <3> QED BY <1>1, <3>1, LedgerFields
  <2> QED BY <2>1, <2>2
<1>4. \A k \in DOMAIN a.orders :
          /\ c.orders[k].req = a.orders[k].req
          /\ a.orders[k].state \in Final => c.orders[k] = a.orders[k]
  BY <1>1 DEF Extends
<1>5. \A k \in DOMAIN a.fills : c.fills[k] = a.fills[k]
  BY <1>1 DEF Extends
<1> QED BY <1>2, <1>3, <1>4, <1>5 DEF Extends

LEMMA ExtendsReflexive ==
    ASSUME NEW db \in SimLedger
    PROVE  Extends(db, db)
BY LedgerFields DEF Extends

(* The empty ledger is a sound ledger.                                     *)
LEMMA EmptySimSound == EmptySim \in SimLedger /\ Sound(EmptySim)
BY FS_EmptySet DEF EmptySim, SimLedger, Sound

(* Inserting a bar changes nothing else.                                   *)
LEMMA InsertBarKeeps ==
    ASSUME NEW db \in SimLedger, Sound(db), NEW bar \in Bar
    PROVE  /\ Follows(db, InsertBar(db, bar))
           /\ InsertBar(db, bar).orders = db.orders
<1> DEFINE r == InsertBar(db, bar)
<1>1. r \in SimLedger /\ r.orders = db.orders /\ r.fills = db.fills /\ r.lots = db.lots
  BY DEF InsertBar, SimLedger
<1>2. Sound(r)
  BY <1>1 DEF Sound, Known
<1>3. Extends(db, r)
  BY <1>1, LedgerFields DEF Extends
<1> QED BY <1>1, <1>2, <1>3 DEF Follows

(* Submitting appends at most one order, of the requested identity.        *)
LEMMA SubmitKeeps ==
    ASSUME NEW db \in SimLedger, Sound(db), NEW req \in Request, NEW reject,
           ~Known(db, req.id)
    PROVE  LET r == Submit(db, req, reject)
           IN  /\ r \in SimLedger /\ Sound(r) /\ Extends(db, r)
               /\ Len(r.orders) = Len(db.orders) + 1
               /\ r.orders[Len(r.orders)].req = req
               /\ \A k \in DOMAIN db.orders : r.orders[k] = db.orders[k]
               /\ r.fills = db.fills
<1> DEFINE o == [req |-> req, state |-> Admission(db, req, reject), filled |-> 0]
           r == Submit(db, req, reject)
<1>1. o \in Order /\ ValidLifecycle(o)
  BY DEF Order, Admission, Active, Final, ValidLifecycle
<1>2. /\ r \in SimLedger /\ r.orders = Append(db.orders, o)
      /\ r.fills = db.fills /\ r.lots = db.lots
  BY <1>1, LedgerFields, AppendProperties DEF Submit, SimLedger
<1>3. /\ Len(r.orders) = Len(db.orders) + 1
      /\ r.orders[Len(r.orders)] = o
      /\ \A k \in DOMAIN db.orders : r.orders[k] = db.orders[k]
  BY <1>1, <1>2, LedgerFields, AppendProperties
<1>4. Extends(db, r)
  BY <1>2, <1>3, LedgerFields DEF Extends
<1>5. Sound(r)
  <2>1. \A k \in DOMAIN r.orders : ValidLifecycle(r.orders[k])
    BY <1>1, <1>2, <1>3, LedgerFields DEF Sound
  <2>2. \A k \in DOMAIN r.fills : Known(r, r.fills[k].order)
    BY <1>2, <1>4, KnownStays DEF Sound
  <2>3. \A u \in r.lots : Known(r, u.parent)
    BY <1>2, <1>4, KnownStays DEF Sound
  <2> QED BY <1>2, <2>1, <2>2, <2>3 DEF Sound
<1> QED BY <1>1, <1>2, <1>3, <1>4, <1>5

(***************************************************************************)
(* advance                                                                 *)
(***************************************************************************)

(* The number of units an exit may take is a number.                       *)
LEMMA OppositeFinite ==
    ASSUME NEW db \in SimLedger, Sound(db), NEW side
    PROVE  IsFiniteSet(Opposite(db, side)) /\ Cardinality(Opposite(db, side)) \in Nat
<1>1. Opposite(db, side) \subseteq db.lots BY DEF Opposite
<1>2. IsFiniteSet(Opposite(db, side)) BY <1>1, FS_Subset DEF Sound
<1> QED BY <1>2, FS_CardinalityType

(* Changing one active order to another state of its lifecycle, adding     *)
(* fills of known orders and replacing the lots by known ones is a step    *)
(* every ledger may take.                                                  *)
LEMMA UpdateFollows ==
    ASSUME NEW db \in SimLedger, Sound(db), NEW r \in SimLedger,
           Len(r.orders) = Len(db.orders),
           \A k \in DOMAIN db.orders :
              /\ r.orders[k].req = db.orders[k].req
              /\ db.orders[k].filled <= r.orders[k].filled
              /\ ValidLifecycle(r.orders[k])
              /\ db.orders[k].state \in Final => r.orders[k] = db.orders[k],
           Len(db.fills) <= Len(r.fills),
           \A k \in DOMAIN db.fills : r.fills[k] = db.fills[k],
           \A k \in DOMAIN r.fills \ DOMAIN db.fills : Known(db, r.fills[k].order),
           IsFiniteSet(r.lots),
           \A u \in r.lots : Known(db, u.parent)
    PROVE  Follows(db, r)
<1>1. Extends(db, r)
  BY LedgerFields DEF Extends
<1>2. \A k \in DOMAIN r.orders : ValidLifecycle(r.orders[k])
  BY LedgerFields
<1>3. \A k \in DOMAIN r.fills : Known(r, r.fills[k].order)
  <2>1. \A k \in DOMAIN r.fills : Known(db, r.fills[k].order)
    BY DEF Sound
  <2> QED BY <2>1, <1>1, KnownStays
<1>4. \A u \in r.lots : Known(r, u.parent)
  BY <1>1, KnownStays
<1> QED BY <1>1, <1>2, <1>3, <1>4 DEF Follows, Sound

(* Expiring or cancelling an active order.                                 *)
LEMMA SetStateFollows ==
    ASSUME NEW db \in SimLedger, Sound(db), NEW i \in ActiveOrders(db),
           NEW state \in {"expired", "cancelled"}
    PROVE  /\ Follows(db, SetState(db, i, state))
           /\ \A k \in DOMAIN db.orders \ {i} :
                 SetState(db, i, state).orders[k] = db.orders[k]
<1> DEFINE o == Became(db.orders[i], state, db.orders[i].filled)
           r == SetState(db, i, state)
<1>1. /\ i \in 1..Len(db.orders) /\ db.orders[i] \in Order
      /\ db.orders[i].state \in Active /\ ValidLifecycle(db.orders[i])
  BY LedgerFields DEF ActiveOrders, Sound
<1>2. /\ o \in Order /\ o.req = db.orders[i].req /\ ValidLifecycle(o)
      /\ o.filled = db.orders[i].filled
  BY <1>1 DEF Became, Order, Request, Active, Final, ValidLifecycle
<1>3. /\ r.orders = [db.orders EXCEPT ![i] = o]
      /\ r.fills = db.fills /\ r.lots = db.lots /\ r.bars = db.bars
      /\ r = [orders |-> r.orders, bars |-> r.bars, fills |-> r.fills, lots |-> r.lots]
  BY DEF SetState, SimLedger
<1> HIDE DEF o, r
<1>4. /\ r.orders \in Seq(Order) /\ Len(r.orders) = Len(db.orders)
      /\ \A k \in 1..Len(db.orders) :
            r.orders[k] = IF k = i THEN o ELSE db.orders[k]
  BY <1>1, <1>2, <1>3, LedgerFields, ExceptSeq
<1>5. r \in SimLedger
  BY <1>3, <1>4, LedgerFields DEF SimLedger
<1>6. \A k \in DOMAIN db.orders :
          /\ r.orders[k].req = db.orders[k].req
          /\ db.orders[k].filled <= r.orders[k].filled
          /\ ValidLifecycle(r.orders[k])
          /\ db.orders[k].state \in Final => r.orders[k] = db.orders[k]
  <2> SUFFICES ASSUME NEW k \in DOMAIN db.orders
               PROVE  /\ r.orders[k].req = db.orders[k].req
                      /\ db.orders[k].filled <= r.orders[k].filled
                      /\ ValidLifecycle(r.orders[k])
                      /\ db.orders[k].state \in Final => r.orders[k] = db.orders[k]
    OBVIOUS
  <2>1. CASE k = i
    <3>1. r.orders[k] = o
      BY <1>1, <1>4, <2>1
    <3>2. db.orders[k].state \notin Final
      BY <1>1, <2>1 DEF Active, Final
    <3>3. db.orders[k].filled \in Nat
      BY LedgerFields
    <3> QED BY <1>2, <2>1, <3>1, <3>2, <3>3
  <2>2. CASE k # i
    <3>1. r.orders[k] = db.orders[k]
      BY <1>4, <2>2, LedgerFields
    <3>2. db.orders[k].filled \in Nat /\ ValidLifecycle(db.orders[k])
      BY LedgerFields DEF Sound
    <3> QED BY <3>1, <3>2
  <2> QED BY <2>1, <2>2
<1>7. /\ Len(db.fills) <= Len(r.fills)
      /\ \A k \in DOMAIN db.fills : r.fills[k] = db.fills[k]
      /\ \A k \in DOMAIN r.fills \ DOMAIN db.fills : Known(db, r.fills[k].order)
      /\ IsFiniteSet(r.lots)
      /\ \A u \in r.lots : Known(db, u.parent)
  BY <1>3, LedgerFields DEF Sound
<1>8. Follows(db, r)
  BY <1>4, <1>5, <1>6, <1>7, UpdateFollows
<1> QED BY <1>4, <1>8, LedgerFields DEF r

(* A fill of an active order that has room for it.                         *)
LEMMA FillOrderFollows ==
    ASSUME NEW db \in SimLedger, Sound(db), NEW i \in ActiveOrders(db),
           NEW bar \in Bar, NEW qty \in Nat \ {0},
           qty <= db.orders[i].req.qty - db.orders[i].filled,
           NEW lots \in SUBSET Unit, IsFiniteSet(lots),
           \A u \in lots : Known(db, u.parent)
    PROVE  LET r == FillOrder(db, i, qty, bar, lots)
           IN  /\ Follows(db, r)
               /\ \A k \in DOMAIN db.orders \ {i} : r.orders[k] = db.orders[k]
<1> DEFINE old == db.orders[i]
           total == old.filled + qty
           o == Became(old, IF total = old.req.qty THEN "filled"
                            ELSE "partially_filled", total)
           f == [order |-> old.req.id, side |-> old.req.side, qty |-> qty,
                 ts |-> bar.ts, reason |-> old.req.id.kind, lot |-> 0]
           r == FillOrder(db, i, qty, bar, lots)
<1>1. /\ i \in 1..Len(db.orders) /\ old \in Order
      /\ old.state \in Active /\ ValidLifecycle(old)
  BY LedgerFields DEF ActiveOrders, Sound
<1>2. /\ o \in Order /\ o.req = old.req /\ ValidLifecycle(o)
      /\ db.orders[i].filled <= o.filled
  <2>1. /\ old.filled \in Nat /\ old.req \in Request /\ old.req.qty \in Nat \ {0}
        /\ total \in Nat /\ 0 < total /\ total <= old.req.qty
    BY <1>1 DEF Order, Request
  <2> QED BY <1>1, <2>1 DEF Became, Order, Active, Final, ValidLifecycle
<1>3. f \in Fill
  BY <1>1 DEF Fill, Order, Request, Id, Kind, Reason, Bar
<1>4. /\ r.orders = [db.orders EXCEPT ![i] = o]
      /\ r.fills = Append(db.fills, f) /\ r.lots = lots /\ r.bars = db.bars
      /\ r = [orders |-> r.orders, bars |-> r.bars, fills |-> r.fills, lots |-> r.lots]
  BY DEF FillOrder
<1> HIDE DEF o, f, r
<1>5. /\ r.orders \in Seq(Order) /\ Len(r.orders) = Len(db.orders)
      /\ \A k \in 1..Len(db.orders) :
            r.orders[k] = IF k = i THEN o ELSE db.orders[k]
  BY <1>1, <1>2, <1>4, LedgerFields, ExceptSeq
<1>6. /\ r.fills \in Seq(Fill) /\ Len(r.fills) = Len(db.fills) + 1
      /\ \A k \in 1..Len(db.fills) : r.fills[k] = db.fills[k]
      /\ r.fills[Len(db.fills) + 1] = f
  BY <1>3, <1>4, LedgerFields, AppendProperties
<1>7. r \in SimLedger
  BY <1>4, <1>5, <1>6, LedgerFields DEF SimLedger
<1>8. \A k \in DOMAIN db.orders :
          /\ r.orders[k].req = db.orders[k].req
          /\ db.orders[k].filled <= r.orders[k].filled
          /\ ValidLifecycle(r.orders[k])
          /\ db.orders[k].state \in Final => r.orders[k] = db.orders[k]
  <2> SUFFICES ASSUME NEW k \in DOMAIN db.orders
               PROVE  /\ r.orders[k].req = db.orders[k].req
                      /\ db.orders[k].filled <= r.orders[k].filled
                      /\ ValidLifecycle(r.orders[k])
                      /\ db.orders[k].state \in Final => r.orders[k] = db.orders[k]
    OBVIOUS
  <2>1. CASE k = i
    <3>1. r.orders[k] = o
      BY <1>1, <1>5, <2>1
    <3>2. db.orders[k].state \notin Final
      BY <1>1, <2>1 DEF Active, Final
    <3>3. db.orders[k].filled \in Nat
      BY LedgerFields
    <3> QED BY <1>2, <2>1, <3>1, <3>2, <3>3
  <2>2. CASE k # i
    <3>1. r.orders[k] = db.orders[k]
      BY <1>5, <2>2, LedgerFields
    <3>2. db.orders[k].filled \in Nat /\ ValidLifecycle(db.orders[k])
      BY LedgerFields DEF Sound
    <3> QED BY <3>1, <3>2
  <2> QED BY <2>1, <2>2
<1>9. \A k \in DOMAIN r.fills \ DOMAIN db.fills : Known(db, r.fills[k].order)
  <2>1. Known(db, f.order)
    BY <1>1, LedgerFields DEF Known, f
  <2>2. \A k \in DOMAIN r.fills \ DOMAIN db.fills : k = Len(db.fills) + 1
    BY <1>6, <1>7, LedgerFields
  <2> QED BY <1>6, <2>1, <2>2
<1>10. /\ Len(db.fills) <= Len(r.fills)
       /\ \A k \in DOMAIN db.fills : r.fills[k] = db.fills[k]
       /\ IsFiniteSet(r.lots)
       /\ \A u \in r.lots : Known(db, u.parent)
  BY <1>4, <1>6, LedgerFields
<1>11. Follows(db, r)
  BY <1>5, <1>7, <1>8, <1>9, <1>10, UpdateFollows
<1> QED BY <1>5, <1>11, LedgerFields DEF r

(* What an active order may be filled for never exceeds what is open.      *)
LEMMA FillableBounds ==
    ASSUME NEW db \in SimLedger, Sound(db), NEW i \in ActiveOrders(db),
           NEW cap \in Nat \ {0}
    PROVE  LET o == db.orders[i]
               qty == Fillable(db, o, cap)
           IN  /\ qty \in Nat
               /\ qty <= o.req.qty - o.filled
               /\ o.req.id.kind = "entry" => qty # 0
<1> DEFINE o == db.orders[i]
<1>1. /\ o \in Order /\ o.state \in Active /\ ValidLifecycle(o)
  BY LedgerFields DEF ActiveOrders, Sound
<1>2. /\ o.filled \in Nat /\ o.req.qty \in Nat /\ o.filled < o.req.qty
  BY <1>1 DEF Order, Request, Active, ValidLifecycle
<1>3. Cardinality(Opposite(db, o.req.side)) \in Nat
  BY OppositeFinite
<1> HIDE DEF o
<1> QED BY <1>2, <1>3 DEF Fillable, Least, o

(* An entry fill opens finitely many units, all of the filled entry.       *)
LEMMA OpenLotKeeps ==
    ASSUME NEW db \in SimLedger, Sound(db), NEW o \in Order,
           Known(db, o.req.id), NEW qty \in Nat \ {0}
    PROVE  /\ OpenLot(db, o, qty) \in SUBSET Unit
           /\ IsFiniteSet(OpenLot(db, o, qty))
           /\ \A u \in OpenLot(db, o, qty) : Known(db, u.parent)
<1> DEFINE unit(u) == [lot |-> Len(db.fills) + 1, unit |-> u,
                       side |-> o.req.side, parent |-> o.req.id]
           f == [u \in 1..qty |-> unit(u)]
           new == {unit(u) : u \in 1..qty}
<1>1. new \in SUBSET Unit /\ \A u \in new : u.parent = o.req.id
  BY LedgerFields DEF Unit, Order, Request
<1>2. IsFiniteSet(new)
  <2>1. f \in Surjection(1..qty, new)
    BY DEF Surjection
  <2>2. IsFiniteSet(1..qty)
    BY FS_Interval
  <2> QED BY <2>1, <2>2, FS_Surjection
<1>3. OpenLot(db, o, qty) = db.lots \cup new
  BY DEF OpenLot
<1> HIDE DEF new
<1>4. IsFiniteSet(db.lots \cup new)
  BY <1>2, FS_Union DEF Sound
<1> QED BY <1>1, <1>3, <1>4, LedgerFields DEF Sound

(* One iteration over the active orders touches that order alone.          *)
LEMMA WorkOrderFollows ==
    ASSUME NEW db \in SimLedger, Sound(db), NEW i \in ActiveOrders(db),
           NEW bar \in Bar, NEW cap \in Nat \ {0}
    PROVE  LET r == WorkOrder(db, i, bar, cap)
           IN  /\ Follows(db, r)
               /\ \A k \in DOMAIN db.orders \ {i} : r.orders[k] = db.orders[k]
<1> DEFINE o == db.orders[i]
           qty == Fillable(db, o, cap)
           r == WorkOrder(db, i, bar, cap)
           Goal(x) == /\ Follows(db, x)
                      /\ \A k \in DOMAIN db.orders \ {i} : x.orders[k] = db.orders[k]
<1>1. /\ o \in Order /\ Known(db, o.req.id)
      /\ bar.ts \in Nat /\ o.req.expires \in Nat
  BY LedgerFields DEF ActiveOrders, Known, Order, Request, Bar
<1>2. /\ qty \in Nat /\ qty <= o.req.qty - o.filled
      /\ o.req.id.kind = "entry" => qty # 0
  BY FillableBounds
<1>3. Goal(db)
  BY ExtendsReflexive DEF Follows
<1>4. \A state \in {"expired", "cancelled"} : Goal(SetState(db, i, state))
  BY SetStateFollows
<1>5. ASSUME o.req.id.kind = "entry"
      PROVE  Goal(Entered(db, i, qty, bar))
  <2>1. qty \in Nat \ {0}
    BY <1>2, <1>5
  <2> HIDE DEF qty
  <2>2. /\ OpenLot(db, o, qty) \in SUBSET Unit
        /\ IsFiniteSet(OpenLot(db, o, qty))
        /\ \A u \in OpenLot(db, o, qty) : Known(db, u.parent)
    BY <1>1, <2>1, OpenLotKeeps
  <2> QED BY <1>2, <2>1, <2>2, FillOrderFollows DEF Entered
<1>6. ASSUME qty # 0
      PROVE  Goal(Exited(db, i, qty, bar))
  <2> DEFINE lots == db.lots \ Oldest(db, o.req.side, qty)
  <2>1. /\ lots \in SUBSET Unit /\ IsFiniteSet(lots)
        /\ \A u \in lots : Known(db, u.parent)
    BY LedgerFields, FS_Subset DEF Sound
  <2> HIDE DEF qty
  <2>2. qty \in Nat \ {0}
    BY <1>2, <1>6
  <2>3. Exited(db, i, qty, bar) = FillOrder(db, i, qty, bar, lots)
    BY DEF Exited
  <2> HIDE DEF lots
  <2> QED BY <1>2, <2>1, <2>2, <2>3, FillOrderFollows
<1>7. \/ r = db
      \/ \E state \in {"expired", "cancelled"} : r = SetState(db, i, state)
      \/ o.req.id.kind = "entry" /\ r = Entered(db, i, qty, bar)
      \/ qty # 0 /\ r = Exited(db, i, qty, bar)
  <2>1. CASE bar.ts >= o.req.expires
    BY <1>1, <2>1 DEF WorkOrder
  <2>2. CASE bar.ts < o.req.expires /\ (bar.ts < o.req.eligible \/ ~bar.volume)
    BY <1>1, <2>2 DEF WorkOrder
  <2>3. CASE ~(bar.ts >= o.req.expires) /\ ~(bar.ts < o.req.eligible \/ ~bar.volume)
    BY <1>1, <2>3 DEF WorkOrder
  <2> QED BY <1>1, <2>1, <2>2, <2>3
<1> HIDE DEF r, qty, o, Goal
<1>8. Goal(r)
  BY <1>3, <1>4, <1>5, <1>6, <1>7
<1> QED BY <1>8 DEF r, Goal

(* A stop that fires closes its whole lot and no other.                    *)
LEMMA StopLotFollows ==
    ASSUME NEW db \in SimLedger, Sound(db), NEW l \in LotNumbers(db), NEW bar \in Bar
    PROVE  LET r == StopLot(db, l, bar)
           IN  /\ Follows(db, r)
               /\ LotNumbers(r) = LotNumbers(db) \ {l}
<1> DEFINE units == {u \in db.lots : u.lot = l}
           unit == CHOOSE u \in units : TRUE
           r == StopLot(db, l, bar)
           f == [order |-> unit.parent, side |-> -unit.side,
                 qty |-> Cardinality(units), ts |-> bar.ts,
                 reason |-> "stop", lot |-> l]
           cancels(o) == o.req.id = unit.parent /\ o.state = "partially_filled"
           o(k) == IF cancels(db.orders[k])
                   THEN Became(db.orders[k], "cancelled", db.orders[k].filled)
                   ELSE db.orders[k]
<1>1. unit \in units /\ unit \in Unit /\ Known(db, unit.parent) /\ l \in Nat
  <2>1. units # {}
    BY DEF LotNumbers
  <2> QED BY <2>1, LedgerFields DEF Sound, Unit
<1>2. Cardinality(units) \in Nat \ {0}
  <2>1. IsFiniteSet(units)
    BY FS_Subset DEF Sound
  <2> QED BY <1>1, <2>1, FS_CardinalityType, FS_EmptySet
<1> HIDE DEF unit
<1>3. f \in Fill
  BY <1>1, <1>2 DEF Fill, Unit, Side, Reason, Bar
<1>4. /\ r.orders = [k \in DOMAIN db.orders |-> o(k)]
      /\ r.fills = Append(db.fills, f) /\ r.lots = db.lots \ units /\ r.bars = db.bars
      /\ r = [orders |-> r.orders, bars |-> r.bars, fills |-> r.fills, lots |-> r.lots]
  BY DEF StopLot, StopFill, unit
<1>5. \A k \in DOMAIN db.orders :
          /\ o(k) \in Order /\ o(k).req = db.orders[k].req /\ ValidLifecycle(o(k))
          /\ db.orders[k].filled <= o(k).filled
          /\ db.orders[k].state \in Final => o(k) = db.orders[k]
  <2> SUFFICES ASSUME NEW k \in DOMAIN db.orders
               PROVE  /\ o(k) \in Order /\ o(k).req = db.orders[k].req
                      /\ ValidLifecycle(o(k)) /\ db.orders[k].filled <= o(k).filled
                      /\ db.orders[k].state \in Final => o(k) = db.orders[k]
    OBVIOUS
  <2>1. /\ db.orders[k] \in Order /\ db.orders[k].filled \in Nat
        /\ ValidLifecycle(db.orders[k])
    BY LedgerFields DEF Sound
  <2>2. CASE cancels(db.orders[k])
    BY <2>1, <2>2 DEF Became, Order, Request, Active, Final, ValidLifecycle
  <2>3. CASE ~cancels(db.orders[k])
    BY <2>1, <2>3
  <2> QED BY <2>2, <2>3
<1> HIDE DEF units, f, o
<1>6. /\ r.orders \in Seq(Order) /\ Len(r.orders) = Len(db.orders)
      /\ \A k \in DOMAIN db.orders : r.orders[k] = o(k)
  <2>1. r.orders \in [1..Len(db.orders) -> Order]
    BY <1>4, <1>5, LedgerFields
  <2>2. \A k \in DOMAIN db.orders : r.orders[k] = o(k)
    BY <1>4
  <2> HIDE DEF r
  <2> QED BY <2>1, <2>2, LedgerFields, SeqDef, LenProperties, SMTT(30)
<1> HIDE DEF r
<1>7. /\ r.fills \in Seq(Fill) /\ Len(r.fills) = Len(db.fills) + 1
      /\ \A k \in 1..Len(db.fills) : r.fills[k] = db.fills[k]
      /\ r.fills[Len(db.fills) + 1] = f
  BY <1>3, <1>4, LedgerFields, AppendProperties
<1>8. r \in SimLedger
  BY <1>4, <1>6, <1>7, LedgerFields DEF SimLedger
<1>9. \A k \in DOMAIN r.fills \ DOMAIN db.fills : Known(db, r.fills[k].order)
  <2>1. Known(db, f.order)
    BY <1>1 DEF f
  <2>2. \A k \in DOMAIN r.fills \ DOMAIN db.fills : k = Len(db.fills) + 1
    BY <1>7, <1>8, LedgerFields
  <2> QED BY <1>7, <2>1, <2>2
<1>10. /\ Len(db.fills) <= Len(r.fills)
       /\ \A k \in DOMAIN db.fills : r.fills[k] = db.fills[k]
       /\ IsFiniteSet(r.lots)
       /\ \A u \in r.lots : Known(db, u.parent)
  BY <1>4, <1>7, LedgerFields, FS_Subset DEF Sound
<1>11. \A k \in DOMAIN db.orders :
          /\ r.orders[k].req = db.orders[k].req
          /\ db.orders[k].filled <= r.orders[k].filled
          /\ ValidLifecycle(r.orders[k])
          /\ db.orders[k].state \in Final => r.orders[k] = db.orders[k]
  BY <1>5, <1>6
<1>12. Follows(db, r)
  BY <1>6, <1>8, <1>9, <1>10, <1>11, UpdateFollows
<1>13. LotNumbers(r) = LotNumbers(db) \ {l}
  BY <1>4 DEF LotNumbers, units
<1> QED BY <1>12, <1>13 DEF r

(***************************************************************************)
(* The worker                                                              *)
(***************************************************************************)

\* v holds exactly the intents of w, in any lifecycle state.
SameIntents(w, v) ==
    /\ Len(v.intents) = Len(w.intents)
    /\ \A j \in DOMAIN w.intents : v.intents[j].req = w.intents[j].req

(* The fields of a worker ledger have the types and the domains expected.  *)
LEMMA WorkerFields ==
    ASSUME NEW w \in WorkerLedger
    PROVE  /\ w.intents \in Seq(Intent) /\ w.fills \in Seq(Fill)
           /\ w.bars \in SUBSET Bar /\ w.halted \in SUBSET Nat
           /\ w.riskHalted \in BOOLEAN
           /\ Len(w.intents) \in Nat /\ Len(w.fills) \in Nat
           /\ DOMAIN w.intents = 1..Len(w.intents)
           /\ DOMAIN w.fills = 1..Len(w.fills)
           /\ \A k \in DOMAIN w.intents : w.intents[k] \in Intent
           /\ \A k \in DOMAIN w.fills : w.fills[k] \in Fill
<1>1. /\ w.intents \in Seq(Intent) /\ w.fills \in Seq(Fill)
      /\ w.bars \in SUBSET Bar /\ w.halted \in SUBSET Nat
      /\ w.riskHalted \in BOOLEAN
  BY DEF WorkerLedger
<1> QED BY <1>1, LenProperties, ElementOfSeq

(* The position is an integer.                                             *)
LEMMA PositionInt ==
    ASSUME NEW fills, Len(fills) \in Nat
    PROVE  Position(fills) \in Int
<1>1. ASSUME NEW side
      PROVE  Cardinality(Units(fills, side)) \in Nat
  <2>1. IsFiniteSet((1..Len(fills)) \X (1..MaxQty))
    <3>1. IsFiniteSet(1..Len(fills)) /\ IsFiniteSet(1..MaxQty)
      BY FS_Interval, MaxQtyAssumption
    <3> QED BY <3>1, FS_Product
  <2>2. Units(fills, side) \subseteq (1..Len(fills)) \X (1..MaxQty)
    BY DEF Units
  <2> QED BY <2>1, <2>2, FS_Subset, FS_CardinalityType
<1> QED BY <1>1 DEF Position

(* An answered intent is the intent, in the state the broker reports.      *)
LEMMA AnsweredKeeps ==
    ASSUME NEW db \in SimLedger, NEW t \in Intent
    PROVE  /\ Answered(t, db) \in Intent /\ Answered(t, db).req = t.req
           /\ Known(db, t.req.id) => Answered(t, db).state # "pending"
           /\ ~Known(db, t.req.id) => Answered(t, db) = t
<1>1. CASE ~Known(db, t.req.id)
  BY <1>1 DEF Answered
<1>2. CASE Known(db, t.req.id)
  <2> DEFINE i == CHOOSE i \in DOMAIN db.orders : db.orders[i].req.id = t.req.id
  <2>1. i \in DOMAIN db.orders
    BY <1>2 DEF Known
  <2>2. BrokerState(db, t.req.id) \in Active \cup Final
    BY <2>1, LedgerFields DEF Order, BrokerState
  <2> QED BY <1>2, <2>2 DEF Answered, Intent, Active, Final
<1> QED BY <1>1, <1>2

(* reconcile keeps the intents and takes the broker's fills.               *)
LEMMA ReconciledKeeps ==
    ASSUME NEW w \in WorkerLedger, NEW db \in SimLedger
    PROVE  LET v == Reconciled(w, db)
           IN  /\ v \in WorkerLedger /\ SameIntents(w, v)
               /\ v.fills = IF Len(db.fills) >= Len(w.fills) THEN db.fills ELSE w.fills
               /\ v.bars = w.bars
               /\ \A j \in DOMAIN w.intents :
                     v.intents[j] = Answered(w.intents[j], db)
<1> DEFINE v == Reconciled(w, db)
           intents == [j \in DOMAIN w.intents |-> Answered(w.intents[j], db)]
           fills == IF Len(db.fills) >= Len(w.fills) THEN db.fills ELSE w.fills
<1>1. \A j \in DOMAIN w.intents : /\ Answered(w.intents[j], db) \in Intent
                                  /\ Answered(w.intents[j], db).req = w.intents[j].req
  BY WorkerFields, AnsweredKeeps
<1>2. /\ intents \in Seq(Intent) /\ Len(intents) = Len(w.intents)
  <2>1. intents \in [1..Len(w.intents) -> Intent]
    BY <1>1, WorkerFields
  <2> HIDE DEF intents
  <2> QED BY <2>1, WorkerFields, SeqDef, LenProperties
<1>3. fills \in Seq(Fill)
  BY WorkerFields, LedgerFields
<1>4. /\ v.intents = intents /\ v.fills = fills /\ v.bars = w.bars
      /\ v.halted = w.halted /\ v.riskHalted = w.riskHalted
      /\ v = [intents |-> v.intents, fills |-> v.fills, bars |-> v.bars,
              halted |-> v.halted, riskHalted |-> v.riskHalted]
  BY DEF Reconciled, WorkerLedger
<1>5. v \in WorkerLedger
  <2> HIDE DEF v, intents, fills
  <2> QED BY <1>2, <1>3, <1>4, WorkerFields DEF WorkerLedger
<1> QED BY <1>1, <1>2, <1>4, <1>5 DEF SameIntents

(* Recording the broker's answer changes the state of that intent alone.   *)
LEMMA AcknowledgedKeeps ==
    ASSUME NEW w \in WorkerLedger, NEW db \in SimLedger,
           NEW i \in DOMAIN w.intents
    PROVE  LET v == Acknowledged(w, i, db)
           IN  /\ v \in WorkerLedger /\ SameIntents(w, v)
               /\ v.fills = w.fills /\ v.bars = w.bars
               /\ v.intents[i] = Answered(w.intents[i], db)
               /\ \A j \in DOMAIN w.intents \ {i} : v.intents[j] = w.intents[j]
<1> DEFINE v == Acknowledged(w, i, db)
           t == Answered(w.intents[i], db)
<1>1. t \in Intent /\ t.req = w.intents[i].req
  BY WorkerFields, AnsweredKeeps
<1>2. /\ v.intents = [w.intents EXCEPT ![i] = t]
      /\ v.fills = w.fills /\ v.bars = w.bars
      /\ v.halted = w.halted /\ v.riskHalted = w.riskHalted
      /\ v = [intents |-> v.intents, fills |-> v.fills, bars |-> v.bars,
              halted |-> v.halted, riskHalted |-> v.riskHalted]
  BY DEF Acknowledged, WithIntents
<1> HIDE DEF v, t
<1>3. /\ v.intents \in Seq(Intent) /\ Len(v.intents) = Len(w.intents)
      /\ \A j \in 1..Len(w.intents) :
            v.intents[j] = IF j = i THEN t ELSE w.intents[j]
  BY <1>1, <1>2, WorkerFields, ExceptSeq
<1>4. v \in WorkerLedger
  BY <1>2, <1>3, WorkerFields DEF WorkerLedger
<1> QED BY <1>1, <1>2, <1>3, <1>4, WorkerFields DEF SameIntents, v, t

\* v holds the intents of w and at most one more, pending and of a new identity.
AddsIntent(w, v) ==
    \/ v.intents = w.intents
    \/ /\ Len(v.intents) = Len(w.intents) + 1
       /\ \A j \in DOMAIN w.intents : v.intents[j] = w.intents[j]
       /\ v.intents[Len(v.intents)].state = "pending"
       /\ ~HasIntent(w, v.intents[Len(v.intents)].req.id)

(* Committing an intent adds it once.                                      *)
LEMMA WithIntentKeeps ==
    ASSUME NEW w \in WorkerLedger, NEW id \in Id, NEW side \in Side,
           NEW qty \in Nat \ {0}, NEW ts \in Nat
    PROVE  LET v == WithIntent(w, id, side, qty, ts)
           IN  /\ v \in WorkerLedger /\ AddsIntent(w, v)
               /\ v.fills = w.fills /\ v.bars = w.bars
<1> DEFINE v == WithIntent(w, id, side, qty, ts)
           t == [req |-> NewRequest(id, side, qty, ts), state |-> "pending"]
<1>1. CASE HasIntent(w, id)
  BY <1>1 DEF WithIntent, AddsIntent
<1>2. CASE ~HasIntent(w, id)
  <2>1. t \in Intent /\ t.req.id = id /\ t.state = "pending"
    BY SessionAssumption DEF Intent, Request, NewRequest
  <2>2. /\ v.intents = Append(w.intents, t)
        /\ v.fills = w.fills /\ v.bars = w.bars
        /\ v.halted = w.halted /\ v.riskHalted = w.riskHalted
        /\ v = [intents |-> v.intents, fills |-> v.fills, bars |-> v.bars,
                halted |-> v.halted, riskHalted |-> v.riskHalted]
    BY <1>2 DEF WithIntent, WithIntents
  <2> HIDE DEF v, t
  <2>3. /\ v.intents \in Seq(Intent) /\ Len(v.intents) = Len(w.intents) + 1
        /\ \A j \in 1..Len(w.intents) : v.intents[j] = w.intents[j]
        /\ v.intents[Len(w.intents) + 1] = t
    BY <2>1, <2>2, WorkerFields, AppendProperties
  <2>4. v \in WorkerLedger
    BY <2>2, <2>3, WorkerFields DEF WorkerLedger
  <2> QED BY <1>2, <2>1, <2>2, <2>3, <2>4, WorkerFields DEF AddsIntent, v
<1> QED BY <1>1, <1>2

(* A minute belongs to a day.                                              *)
LEMMA DayNat == \A ts \in Nat : DayOf(ts) \in Nat
BY SessionAssumption DEF DayOf

(* The transaction of step() records the bar and adds at most one intent.  *)
LEMMA DecidedKeeps ==
    ASSUME NEW w \in WorkerLedger, NEW bar \in Bar, NEW impulse \in {-1, 0, 1},
           NEW risk \in Risk, NEW quantity \in Nat \ {0}
    PROVE  LET v == Decided(w, bar, impulse, risk, quantity)
           IN  /\ v \in WorkerLedger /\ AddsIntent(w, v)
               /\ v.fills = w.fills /\ v.bars = w.bars \cup {bar}
<1> DEFINE o == Observed(w, bar, risk)
           id(kind) == [day |-> DayOf(bar.ts), kind |-> kind, retry |-> 0]
           pos == Position(o.fills)
           v == Decided(w, bar, impulse, risk, quantity)
<1>1. bar.ts \in Nat /\ DayOf(bar.ts) \in Nat
  BY DayNat DEF Bar
<1>2. /\ o \in WorkerLedger /\ o.intents = w.intents
      /\ o.fills = w.fills /\ o.bars = w.bars \cup {bar}
  <2>1. DayOf(bar.ts) \in Nat
    BY <1>1
  <2> QED BY <2>1, WorkerFields DEF Observed, WorkerLedger
<1>3. \A kind \in Kind : id(kind) \in Id
  BY <1>1 DEF Id
<1>4. pos \in Int
  BY <1>2, WorkerFields, PositionInt
<1> HIDE DEF o, pos
<1>5. CASE WantsEntry(o, bar, impulse)
  <2>1. v = WithIntent(o, id("entry"), impulse, quantity, bar.ts)
    BY <1>5 DEF Decided, o
  <2>2. impulse \in Side /\ id("entry") \in Id
    BY <1>3, <1>5 DEF WantsEntry, Side, Kind
  <2> HIDE DEF v, id
  <2>3. v \in WorkerLedger /\ AddsIntent(o, v) /\ v.fills = o.fills /\ v.bars = o.bars
    BY <1>1, <1>2, <2>1, <2>2, WithIntentKeeps
  <2> QED BY <1>2, <2>3 DEF AddsIntent, HasIntent, v
<1>6. CASE ~WantsEntry(o, bar, impulse) /\ WantsExit(o, bar, risk)
  <2> DEFINE side == IF pos > 0 THEN -1 ELSE 1
  <2>1. v = WithIntent(o, id("exit"), side, Size(pos), bar.ts)
    BY <1>6 DEF Decided, o, pos
  <2>2. Size(pos) \in Nat \ {0} /\ side \in Side /\ id("exit") \in Id
    BY <1>3, <1>4, <1>6 DEF WantsExit, Size, Side, Kind, pos
  <2> HIDE DEF v, id, side
  <2>3. v \in WorkerLedger /\ AddsIntent(o, v) /\ v.fills = o.fills /\ v.bars = o.bars
    BY <1>1, <1>2, <2>1, <2>2, WithIntentKeeps
  <2> QED BY <1>2, <2>3 DEF AddsIntent, HasIntent, v
<1>7. CASE ~WantsEntry(o, bar, impulse) /\ ~WantsExit(o, bar, risk)
  <2>1. v = o
    BY <1>7 DEF Decided, o
  <2> HIDE DEF v
  <2> QED BY <1>2, <2>1 DEF AddsIntent, v
<1> QED BY <1>5, <1>6, <1>7

(***************************************************************************)
(* Counting units                                                          *)
(***************************************************************************)

(* The numbers up to n are n.                                              *)
LEMMA CountUpTo ==
    ASSUME NEW n \in Nat
    PROVE  IsFiniteSet(1..n) /\ Cardinality(1..n) = n
<1>1. /\ IsFiniteSet(1..n)
      /\ Cardinality(1..n) = IF 1 > n THEN 0 ELSE n - 1 + 1
  BY FS_Interval
<1> QED BY <1>1

(* Disjoint finite sets count together.                                    *)
LEMMA CountBoth ==
    ASSUME NEW S, NEW T, IsFiniteSet(S), IsFiniteSet(T), S \cap T = {}
    PROVE  /\ IsFiniteSet(S \cup T)
           /\ Cardinality(S \cup T) = Cardinality(S) + Cardinality(T)
<1>1. /\ Cardinality(S) \in Nat /\ Cardinality(T) \in Nat
      /\ Cardinality(S \cap T) = 0
  BY FS_EmptySet, FS_CardinalityType
<1>2. /\ IsFiniteSet(S \cup T)
      /\ Cardinality(S \cup T)
           = Cardinality(S) + Cardinality(T) - Cardinality(S \cap T)
  BY FS_Union, Zenon
<1> QED BY <1>1, <1>2

\* The contract units of the fills numbered by I.
Stack(fills, I) ==
    {p \in (1..Len(fills)) \X (1..MaxQty) : p[1] \in I /\ p[2] <= fills[p[1]].qty}

LEMMA StackFinite ==
    ASSUME NEW fills, Len(fills) \in Nat, NEW I
    PROVE  IsFiniteSet(Stack(fills, I)) /\ Cardinality(Stack(fills, I)) \in Nat
<1>1. IsFiniteSet((1..Len(fills)) \X (1..MaxQty))
  <2>1. IsFiniteSet(1..Len(fills)) /\ IsFiniteSet(1..MaxQty)
    BY FS_Interval, MaxQtyAssumption
  <2> QED BY <2>1, FS_Product
<1>2. Stack(fills, I) \subseteq (1..Len(fills)) \X (1..MaxQty)
  BY DEF Stack
<1> QED BY <1>1, <1>2, FS_Subset, FS_CardinalityType

(* One more fill adds its quantity to the stacks it belongs to.            *)
LEMMA StackAppend ==
    ASSUME NEW fills \in Seq(Fill), NEW f \in Fill, f.qty <= MaxQty,
           NEW I, NEW J, \A k \in 1..Len(fills) : k \in I <=> k \in J
    PROVE  Cardinality(Stack(Append(fills, f), J))
             = Cardinality(Stack(fills, I))
               + (IF Len(fills) + 1 \in J THEN f.qty ELSE 0)
<1> DEFINE m == Len(fills)
           n == m + 1
           r == Append(fills, f)
           new == {<<n, q>> : q \in 1..f.qty}
<1>1. /\ m \in Nat /\ f.qty \in Nat /\ f.qty \in 1..MaxQty /\ MaxQty \in Nat
      /\ \A k \in 1..m : fills[k].qty \in Nat
  <2>1. \A k \in 1..m : fills[k] \in Fill
    BY ElementOfSeq
  <2> QED BY <2>1, LenProperties, MaxQtyAssumption, SMTT(30) DEF Fill
<1>2. /\ Len(r) = n /\ r[n] = f
      /\ \A k \in 1..m : r[k] = fills[k]
  BY AppendProperties
<1>3. /\ IsFiniteSet(Stack(fills, I)) /\ Cardinality(Stack(fills, I)) \in Nat
  BY <1>1, StackFinite
<1> HIDE DEF m, r
<1>4. IsFiniteSet(new) /\ Cardinality(new) = f.qty
  <2> DEFINE g == [q \in 1..f.qty |-> <<n, q>>]
  <2>1. g \in Bijection(1..f.qty, new)
    <3>1. g \in [1..f.qty -> new]
      OBVIOUS
    <3>2. \A a, b \in 1..f.qty : g[a] = g[b] => a = b
      OBVIOUS
    <3>3. \A t \in new : \E a \in 1..f.qty : g[a] = t
      OBVIOUS
    <3>4. IsInjective(g)
      BY <3>2 DEF IsInjective
    <3> HIDE DEF g, new
    <3> QED BY <3>1, <3>3, <3>4 DEF Bijection, Injection, Surjection
  <2>2. IsFiniteSet(1..f.qty) /\ Cardinality(1..f.qty) = f.qty
    BY <1>1, CountUpTo
  <2>3. ExistsBijection(1..f.qty, new)
    BY <2>1 DEF ExistsBijection
  <2> QED BY <2>2, <2>3, FS_Bijection
<1>5. CASE n \in J
  <2>1. Stack(r, J) = Stack(fills, I) \cup new
    <3>1. ASSUME NEW p \in Stack(r, J)
          PROVE  p \in Stack(fills, I) \cup new
      <4>1. PICK a \in 1..n, b \in 1..MaxQty : p = <<a, b>> /\ a \in J /\ b <= r[a].qty
        BY <1>2 DEF Stack
      <4>2. CASE a = n
        BY <1>1, <1>2, <4>1, <4>2
      <4>3. CASE a # n
        <5>1. a \in 1..m /\ a \in I
          BY <1>1, <4>1, <4>3 DEF m
        <5> QED BY <1>2, <4>1, <5>1 DEF Stack, m
      <4> QED BY <4>2, <4>3
    <3>2. ASSUME NEW p \in Stack(fills, I)
          PROVE  p \in Stack(r, J)
      <4>1. PICK a \in 1..m, b \in 1..MaxQty : p = <<a, b>> /\ a \in I /\ b <= fills[a].qty
        BY DEF Stack, m
      <4>2. a \in J /\ a \in 1..n
        BY <1>1, <4>1 DEF m
      <4> QED BY <1>2, <4>1, <4>2 DEF Stack
    <3>3. ASSUME NEW p \in new
          PROVE  p \in Stack(r, J)
      <4>1. PICK q \in 1..f.qty : p = <<n, q>>
        OBVIOUS
      <4>2. q \in 1..MaxQty /\ q <= r[n].qty /\ n \in 1..n
        BY <1>1, <1>2, <4>1
      <4> QED BY <1>2, <1>5, <4>1, <4>2 DEF Stack
    <3> QED BY <3>1, <3>2, <3>3
  <2>2. Stack(fills, I) \cap new = {}
    BY <1>1 DEF Stack, m
  <2> HIDE DEF new
  <2>3. Cardinality(Stack(fills, I) \cup new) = Cardinality(Stack(fills, I)) + f.qty
    BY <1>3, <1>4, <2>2, CountBoth
  <2> QED BY <1>5, <2>1, <2>3 DEF r, m
<1>6. CASE n \notin J
  <2>1. Stack(r, J) = Stack(fills, I)
    <3>1. ASSUME NEW p \in Stack(r, J)
          PROVE  p \in Stack(fills, I)
      <4>1. PICK a \in 1..n, b \in 1..MaxQty : p = <<a, b>> /\ a \in J /\ b <= r[a].qty
        BY <1>2 DEF Stack
      <4>2. a \in 1..m /\ a \in I
        BY <1>1, <1>6, <4>1 DEF m
      <4> QED BY <1>2, <4>1, <4>2 DEF Stack, m
    <3>2. ASSUME NEW p \in Stack(fills, I)
          PROVE  p \in Stack(r, J)
      <4>1. PICK a \in 1..m, b \in 1..MaxQty : p = <<a, b>> /\ a \in I /\ b <= fills[a].qty
        BY DEF Stack, m
      <4>2. a \in J /\ a \in 1..n
        BY <1>1, <4>1 DEF m
      <4> QED BY <1>2, <4>1, <4>2 DEF Stack
    <3> QED BY <3>1, <3>2
  <2> QED BY <1>3, <1>6, <2>1 DEF r, m
<1> QED BY <1>5, <1>6

(* The position moves by the signed quantity of the fill.                  *)
LEMMA PositionAppend ==
    ASSUME NEW fills \in Seq(Fill), NEW f \in Fill, f.qty <= MaxQty
    PROVE  Position(Append(fills, f)) = Position(fills) + f.side * f.qty
<1> DEFINE r == Append(fills, f)
           n == Len(fills) + 1
           Of(s, side) == {k \in 1..Len(s) : s[k].side = side}
<1>1. /\ Len(fills) \in Nat /\ Len(r) = n /\ r[n] = f
      /\ \A k \in 1..Len(fills) : r[k] = fills[k]
      /\ f.side \in {-1, 1} /\ f.qty \in Nat
  BY LenProperties, AppendProperties DEF Fill, Side
<1>2. ASSUME NEW side
      PROVE  Units(fills, side) = Stack(fills, Of(fills, side))
  BY DEF Units, Stack
<1>3. ASSUME NEW side
      PROVE  Units(r, side) = Stack(r, Of(r, side))
  BY DEF Units, Stack
<1>4. ASSUME NEW side
      PROVE  Cardinality(Units(r, side)) = Cardinality(Units(fills, side))
                                           + (IF f.side = side THEN f.qty ELSE 0)
  <2>1. \A k \in 1..Len(fills) : k \in Of(fills, side) <=> k \in Of(r, side)
    BY <1>1
  <2>2. n \in Of(r, side) <=> f.side = side
    BY <1>1
  <2> HIDE DEF Of
  <2>3. Cardinality(Stack(r, Of(r, side)))
          = Cardinality(Stack(fills, Of(fills, side)))
            + (IF n \in Of(r, side) THEN f.qty ELSE 0)
    BY <2>1, StackAppend
  <2> QED BY <1>2, <1>3, <2>2, <2>3
<1>5. ASSUME NEW side
      PROVE  Cardinality(Units(fills, side)) \in Nat
  BY <1>1, <1>2, StackFinite
<1> HIDE DEF r
<1>6. /\ Cardinality(Units(r, 1)) = Cardinality(Units(fills, 1))
                                    + (IF f.side = 1 THEN f.qty ELSE 0)
      /\ Cardinality(Units(r, -1)) = Cardinality(Units(fills, -1))
                                     + (IF f.side = -1 THEN f.qty ELSE 0)
      /\ Cardinality(Units(fills, 1)) \in Nat /\ Cardinality(Units(fills, -1)) \in Nat
  BY <1>4, <1>5
<1>7. Position(r) = Position(fills) + f.side * f.qty
  <2>1. CASE f.side = 1
    BY <1>1, <1>6, <2>1 DEF Position
  <2>2. CASE f.side = -1
    BY <1>1, <1>6, <2>2 DEF Position
  <2> QED BY <1>1, <2>1, <2>2
<1> QED BY <1>7 DEF r

\* The units of one side.
OnSide(lots, side) == {u \in lots : u.side = side}

\* The net position they make.
Net(lots) == Cardinality(OnSide(lots, 1)) - Cardinality(OnSide(lots, -1))

LEMMA NetType ==
    ASSUME NEW lots, IsFiniteSet(lots)
    PROVE  /\ Net(lots) \in Int
           /\ \A side : /\ IsFiniteSet(OnSide(lots, side))
                        /\ Cardinality(OnSide(lots, side)) \in Nat
<1>1. ASSUME NEW side
      PROVE  IsFiniteSet(OnSide(lots, side)) /\ Cardinality(OnSide(lots, side)) \in Nat
  <2>1. OnSide(lots, side) \in SUBSET lots
    BY DEF OnSide
  <2> QED BY <2>1, FS_Subset, FS_CardinalityType
<1> QED BY <1>1 DEF Net

LEMMA SimPositionNet == \A db : SimPosition(db) = Net(db.lots)
BY DEF SimPosition, Net, OnSide

(* Units of one side that come in move the position by their number.       *)
LEMMA NetAdds ==
    ASSUME NEW lots, NEW S, NEW side \in Side, IsFiniteSet(lots), IsFiniteSet(S),
           lots \cap S = {}, \A u \in S : u.side = side
    PROVE  Net(lots \cup S) = Net(lots) + side * Cardinality(S)
<1>1. ASSUME NEW s \in Side
      PROVE  Cardinality(OnSide(lots \cup S, s))
               = Cardinality(OnSide(lots, s)) + (IF s = side THEN Cardinality(S) ELSE 0)
  <2>1. IsFiniteSet(OnSide(lots, s)) /\ Cardinality(OnSide(lots, s)) \in Nat
    BY NetType
  <2>2. CASE s = side
    <3>1. OnSide(lots \cup S, s) = OnSide(lots, s) \cup S /\ OnSide(lots, s) \cap S = {}
      BY <2>2 DEF OnSide
    <3> QED BY <2>1, <2>2, <3>1, CountBoth
  <2>3. CASE s # side
    <3>1. OnSide(lots \cup S, s) = OnSide(lots, s)
      BY <2>3 DEF OnSide
    <3> QED BY <2>1, <2>3, <3>1
  <2> QED BY <2>2, <2>3
<1>2. /\ Cardinality(S) \in Nat
      /\ Cardinality(OnSide(lots, 1)) \in Nat /\ Cardinality(OnSide(lots, -1)) \in Nat
  BY NetType, FS_CardinalityType
<1>3. 1 \in Side /\ -1 \in Side /\ (side = 1 \/ side = -1)
  BY DEF Side
<1>4. /\ Cardinality(OnSide(lots \cup S, 1))
           = Cardinality(OnSide(lots, 1)) + (IF 1 = side THEN Cardinality(S) ELSE 0)
      /\ Cardinality(OnSide(lots \cup S, -1))
           = Cardinality(OnSide(lots, -1)) + (IF -1 = side THEN Cardinality(S) ELSE 0)
  BY <1>1, <1>3
<1> QED BY <1>2, <1>3, <1>4 DEF Net

(* Units of one side that go out move it back.                             *)
LEMMA NetDrops ==
    ASSUME NEW lots, NEW S \in SUBSET lots, NEW side \in Side, IsFiniteSet(lots),
           \A u \in S : u.side = side
    PROVE  Net(lots \ S) = Net(lots) - side * Cardinality(S)
<1> DEFINE rest == lots \ S
<1>1. IsFiniteSet(rest) /\ IsFiniteSet(S) /\ Cardinality(S) \in Nat
  BY FS_Subset, FS_CardinalityType
<1>2. rest \cup S = lots /\ rest \cap S = {}
  OBVIOUS
<1> HIDE DEF rest
<1>3. Net(rest \cup S) = Net(rest) + side * Cardinality(S)
  BY <1>1, <1>2, NetAdds
<1> DEFINE m == side * Cardinality(S)
<1>4. Net(rest) \in Int /\ m \in Int
  BY <1>1, NetType DEF Side
<1>5. Net(lots) = Net(rest) + m
  BY <1>2, <1>3
<1> HIDE DEF m
<1>6. Net(rest) = Net(lots) - m
  BY <1>4, <1>5
<1> QED BY <1>6 DEF rest, m

(***************************************************************************)
(* The oldest units of an inventory                                        *)
(***************************************************************************)

\* A lot is the inventory of one fill: its units differ in their number.
OneFill(lots) ==
    \A u, v \in lots : u.lot = v.lot => u.side = v.side /\ u.parent = v.parent

(* Age orders the units of an inventory.                                   *)
LEMMA OlderOrders ==
    ASSUME NEW S \in SUBSET Unit, OneFill(S), NEW u \in S, NEW v \in S
    PROVE  /\ ~Older(u, u)
           /\ u # v => Older(u, v) \/ Older(v, u)
           /\ \A x \in S : Older(x, u) /\ Older(u, v) => Older(x, v)
<1>1. \A x \in S : x.lot \in Nat /\ x.unit \in Nat
  BY DEF Unit
<1>2. u.lot = v.lot /\ u.unit = v.unit => u = v
  <2> SUFFICES ASSUME u.lot = v.lot, u.unit = v.unit PROVE u = v
    OBVIOUS
  <2>1. u.side = v.side /\ u.parent = v.parent
    BY DEF OneFill
  <2> QED BY <2>1 DEF Unit
<1> QED BY <1>1, <1>2 DEF Older

(* An exit that takes n of the units it can reduce takes exactly n.        *)
LEMMA OldestCounts ==
    ASSUME NEW db \in SimLedger, Sound(db), OneFill(db.lots), NEW side \in Side,
           NEW n \in Nat, n <= Cardinality(Opposite(db, side))
    PROVE  Cardinality(Oldest(db, side, n)) = n
<1> DEFINE S == Opposite(db, side)
           Elder(u) == {v \in S : Older(v, u)}
           N == Cardinality(S)
           rank == [u \in S |-> Cardinality(Elder(u))]
<1>1. IsFiniteSet(S) /\ N \in Nat
  BY OppositeFinite
<1>2. S \in SUBSET Unit /\ OneFill(S)
  BY LedgerFields DEF Opposite, OneFill
<1>3. Oldest(db, side, n) = {u \in S : Cardinality(Elder(u)) < n}
  BY DEF Oldest
<1> HIDE DEF S
<1>4. ASSUME NEW u \in S
      PROVE  IsFiniteSet(Elder(u)) /\ Cardinality(Elder(u)) \in 0..(N - 1)
  <2>1. Elder(u) \in SUBSET S /\ u \notin Elder(u)
    BY <1>2, OlderOrders
  <2> HIDE DEF Elder
  <2>2. /\ IsFiniteSet(Elder(u)) /\ Cardinality(Elder(u)) <= N
        /\ N = Cardinality(Elder(u)) => S = Elder(u)
    BY <1>1, <2>1, FS_Subset
  <2>3. Cardinality(Elder(u)) \in Nat
    BY <2>2, FS_CardinalityType
  <2> QED BY <1>1, <2>1, <2>2, <2>3
<1>5. ASSUME NEW u \in S, NEW v \in S, Older(u, v)
      PROVE  Cardinality(Elder(u)) < Cardinality(Elder(v))
  <2>1. Elder(u) \in SUBSET Elder(v) /\ u \in Elder(v) /\ u \notin Elder(u)
    BY <1>2, <1>5, OlderOrders
  <2> HIDE DEF Elder
  <2>2. IsFiniteSet(Elder(v)) /\ Cardinality(Elder(v)) \in Nat /\ Cardinality(Elder(u)) \in Nat
    BY <1>1, <1>4
  <2>3. /\ Cardinality(Elder(u)) <= Cardinality(Elder(v))
        /\ Cardinality(Elder(v)) = Cardinality(Elder(u)) => Elder(v) = Elder(u)
    BY <2>1, <2>2, FS_Subset
  <2> QED BY <2>1, <2>2, <2>3
<1>6. \A u, v \in S : Cardinality(Elder(u)) = Cardinality(Elder(v)) => u = v
  <2> SUFFICES ASSUME NEW u \in S, NEW v \in S, u # v
               PROVE  Cardinality(Elder(u)) # Cardinality(Elder(v))
    OBVIOUS
  <2>1. Older(u, v) \/ Older(v, u)
    BY <1>2, OlderOrders
  <2> HIDE DEF Elder
  <2>2. Cardinality(Elder(u)) \in Nat /\ Cardinality(Elder(v)) \in Nat
    BY <1>1, <1>4
  <2>3. \/ Cardinality(Elder(u)) < Cardinality(Elder(v))
        \/ Cardinality(Elder(v)) < Cardinality(Elder(u))
    BY <1>5, <2>1
  <2> QED BY <2>2, <2>3
<1>7. rank \in [S -> 0..(N - 1)] /\ \A u \in S : rank[u] = Cardinality(Elder(u))
  BY <1>4
<1> HIDE DEF rank, Elder
<1>8. rank \in Surjection(S, 0..(N - 1))
  <2>1. rank \in Injection(S, 0..(N - 1))
    BY <1>6, <1>7 DEF Injection, IsInjective
  <2>2. IsFiniteSet(0..(N - 1)) /\ Cardinality(0..(N - 1)) = N
    <3>1. N - 1 \in Int /\ (0 > N - 1 => N = 0)
      BY <1>1
    <3>2. /\ IsFiniteSet(0..(N - 1))
          /\ Cardinality(0..(N - 1)) = IF 0 > N - 1 THEN 0 ELSE (N - 1) - 0 + 1
      BY <3>1, FS_Interval
    <3> QED BY <1>1, <3>1, <3>2
  <2> QED BY <2>1, <2>2, FS_Injection
<1> DEFINE T == {u \in S : rank[u] < n}
           g == [u \in T |-> rank[u]]
<1>9. Oldest(db, side, n) = T
  BY <1>3, <1>7
<1>10. g \in Bijection(T, 0..(n - 1))
  <2>1. g \in [T -> 0..(n - 1)]
    BY <1>1, <1>7
  <2>2. IsInjective(g)
    BY <1>6, <1>7 DEF IsInjective
  <2>3. \A k \in 0..(n - 1) : \E u \in T : g[u] = k
    <3> SUFFICES ASSUME NEW k \in 0..(n - 1) PROVE \E u \in T : g[u] = k
      OBVIOUS
    <3>1. k \in 0..(N - 1) /\ k < n
      BY <1>1 DEF S, N
    <3>2. PICK u \in S : rank[u] = k
      BY <1>8, <3>1 DEF Surjection
    <3> QED BY <3>1, <3>2
  <2> HIDE DEF g, T
  <2> QED BY <2>1, <2>2, <2>3 DEF Bijection, Injection, Surjection
<1> HIDE DEF g, T
<1>11. IsFiniteSet(0..(n - 1)) /\ Cardinality(0..(n - 1)) = n
  <2>1. n - 1 \in Int /\ (0 > n - 1 => n = 0)
    OBVIOUS
  <2>2. /\ IsFiniteSet(0..(n - 1))
        /\ Cardinality(0..(n - 1)) = IF 0 > n - 1 THEN 0 ELSE (n - 1) - 0 + 1
    BY <2>1, FS_Interval
  <2> QED BY <2>1, <2>2
<1>12. IsFiniteSet(T)
  BY <1>1, FS_Subset DEF T
<1> QED BY <1>9, <1>10, <1>11, <1>12, FS_Bijection DEF ExistsBijection

(***************************************************************************)
(* Books that agree                                                        *)
(***************************************************************************)

\* Every order has an identity of its own and a quantity within the maximum.
Distinct(db) ==
    /\ \A i, j \in DOMAIN db.orders :
          db.orders[i].req.id = db.orders[j].req.id => i = j
    /\ \A i \in DOMAIN db.orders : db.orders[i].req.qty <= MaxQty

\* The lots are what is left of entry fills: of orders filled before.
LotsOfFills(db) ==
    /\ OneFill(db.lots)
    /\ \A u \in db.lots : u.lot <= Len(db.fills) /\ u.unit <= MaxQty
    /\ \A u \in db.lots, i \in DOMAIN db.orders :
          db.orders[i].req.id = u.parent => db.orders[i].filled # 0

\* An entry one of whose lots was stopped is over and fills no more.
StopsEnd(db) ==
    /\ \A k \in DOMAIN db.fills, i \in DOMAIN db.orders :
          db.fills[k].reason = "stop" /\ db.orders[i].req.id = db.fills[k].order
          => db.orders[i].state \in Final
    /\ \A j, k \in DOMAIN db.fills :
          db.fills[j].reason = "stop" /\ j < k
          => ~(db.fills[k].reason = "entry" /\ db.fills[k].order = db.fills[j].order)

\* A fill that no stop made is of an order that was live then.
InTime(db) ==
    \A k \in DOMAIN db.fills : db.fills[k].reason # "stop" =>
        \E i \in DOMAIN db.orders :
            /\ db.orders[i].req.id = db.fills[k].order
            /\ db.orders[i].req.id.kind = db.fills[k].reason
            /\ db.orders[i].req.eligible <= db.fills[k].ts
            /\ db.fills[k].ts < db.orders[i].req.expires

FillsOf(fills, id) ==
    {k \in 1..Len(fills) : fills[k].reason # "stop" /\ fills[k].order = id}

\* An order was filled for what its fills add up to.
Counted(db) ==
    /\ \A k \in DOMAIN db.fills : db.fills[k].qty <= MaxQty
    /\ \A i \in DOMAIN db.orders :
          Cardinality(Stack(db.fills, FillsOf(db.fills, db.orders[i].req.id)))
            = db.orders[i].filled

\* The inventory is what was bought less what was sold.
Balanced(db) == Position(db.fills) = SimPosition(db)

Booked(db) == /\ Distinct(db) /\ LotsOfFills(db) /\ StopsEnd(db)
              /\ InTime(db) /\ Counted(db) /\ Balanced(db)

LEMMA EmptyBooked == Booked(EmptySim)
<1>1. /\ EmptySim.orders = <<>> /\ EmptySim.fills = <<>> /\ EmptySim.lots = {}
      /\ DOMAIN EmptySim.orders = {} /\ DOMAIN EmptySim.fills = {}
  BY DEF EmptySim
<1>2. ASSUME NEW side
      PROVE  Units(<<>>, side) = {} /\ OnSide({}, side) = {}
  BY DEF Units, OnSide
<1>3. Balanced(EmptySim)
  <2>1. /\ Units(<<>>, 1) = {} /\ Units(<<>>, -1) = {}
        /\ OnSide({}, 1) = {} /\ OnSide({}, -1) = {}
    BY <1>2
  <2>2. Cardinality({}) - Cardinality({}) = 0
    BY FS_EmptySet
  <2>3. Position(<<>>) = 0 /\ Net({}) = 0
    BY <2>1, <2>2, Zenon DEF Position, Net
  <2> QED BY <1>1, <2>3, SimPositionNet DEF Balanced
<1> QED
  BY <1>1, <1>3 DEF Booked, Distinct, LotsOfFills, OneFill, StopsEnd, InTime, Counted

(* Adding orders or changing the state of active ones keeps the books.     *)
LEMMA OrdersChangeBooked ==
    ASSUME NEW db \in SimLedger, Sound(db), Booked(db), NEW r \in SimLedger,
           r.fills = db.fills, r.lots = db.lots,
           DOMAIN db.orders \subseteq DOMAIN r.orders,
           \A k \in DOMAIN db.orders :
              /\ r.orders[k].req = db.orders[k].req
              /\ r.orders[k].filled = db.orders[k].filled
              /\ db.orders[k].state \in Final => r.orders[k].state \in Final,
           \A k \in DOMAIN r.orders \ DOMAIN db.orders :
              /\ ~Known(db, r.orders[k].req.id)
              /\ r.orders[k].filled = 0 /\ r.orders[k].req.qty <= MaxQty
              /\ \A j \in DOMAIN r.orders \ DOMAIN db.orders : j = k
    PROVE  Booked(r)
<1>1. Distinct(r)
  <2>1. ASSUME NEW i \in DOMAIN r.orders, NEW j \in DOMAIN r.orders,
               r.orders[i].req.id = r.orders[j].req.id
        PROVE  i = j
    <3>1. CASE i \in DOMAIN db.orders /\ j \in DOMAIN db.orders
      BY <2>1, <3>1 DEF Booked, Distinct
    <3>2. CASE i \in DOMAIN db.orders /\ j \notin DOMAIN db.orders
      BY <2>1, <3>2 DEF Known
    <3>3. CASE i \notin DOMAIN db.orders /\ j \in DOMAIN db.orders
      BY <2>1, <3>3 DEF Known
    <3>4. CASE i \notin DOMAIN db.orders /\ j \notin DOMAIN db.orders
      BY <3>4
    <3> QED BY <3>1, <3>2, <3>3, <3>4
  <2>2. \A i \in DOMAIN r.orders : r.orders[i].req.qty <= MaxQty
    BY DEF Booked, Distinct
  <2> QED BY <2>1, <2>2 DEF Distinct
<1>2. LotsOfFills(r)
  <2>1. ASSUME NEW u \in r.lots, NEW i \in DOMAIN r.orders, r.orders[i].req.id = u.parent
        PROVE  r.orders[i].filled # 0
    <3>1. i \in DOMAIN db.orders
      BY <2>1 DEF Sound
    <3> QED BY <2>1, <3>1 DEF Booked, LotsOfFills
  <2> QED BY <2>1 DEF Booked, LotsOfFills
<1>3. StopsEnd(r)
  <2>1. ASSUME NEW k \in DOMAIN r.fills, NEW i \in DOMAIN r.orders,
               r.fills[k].reason = "stop", r.orders[i].req.id = r.fills[k].order
        PROVE  r.orders[i].state \in Final
    <3>1. i \in DOMAIN db.orders
      BY <2>1 DEF Sound
    <3> QED BY <2>1, <3>1 DEF Booked, StopsEnd
  <2> QED BY <2>1 DEF Booked, StopsEnd
<1>4. InTime(r)
  <2> SUFFICES ASSUME NEW k \in DOMAIN r.fills, r.fills[k].reason # "stop"
               PROVE  \E i \in DOMAIN r.orders :
                          /\ r.orders[i].req.id = r.fills[k].order
                          /\ r.orders[i].req.id.kind = r.fills[k].reason
                          /\ r.orders[i].req.eligible <= r.fills[k].ts
                          /\ r.fills[k].ts < r.orders[i].req.expires
    BY DEF InTime
  <2>1. PICK i \in DOMAIN db.orders :
            /\ db.orders[i].req.id = db.fills[k].order
            /\ db.orders[i].req.id.kind = db.fills[k].reason
            /\ db.orders[i].req.eligible <= db.fills[k].ts
            /\ db.fills[k].ts < db.orders[i].req.expires
    BY DEF Booked, InTime
  <2> QED BY <2>1
<1>5. Counted(r)
  <2>1. ASSUME NEW i \in DOMAIN r.orders
        PROVE  Cardinality(Stack(db.fills, FillsOf(db.fills, r.orders[i].req.id)))
                 = r.orders[i].filled
    <3>1. CASE i \in DOMAIN db.orders
      BY <3>1 DEF Booked, Counted
    <3>2. CASE i \notin DOMAIN db.orders
      <4>1. FillsOf(db.fills, r.orders[i].req.id) = {}
        BY <3>2, LedgerFields DEF FillsOf, Sound
      <4>2. Stack(db.fills, {}) = {}
        BY DEF Stack
      <4> QED BY <3>2, <4>1, <4>2, FS_EmptySet
    <3> QED BY <3>1, <3>2
  <2> QED BY <2>1 DEF Booked, Counted
<1>6. Balanced(r)
  BY SimPositionNet DEF Booked, Balanced
<1> QED BY <1>1, <1>2, <1>3, <1>4, <1>5, <1>6 DEF Booked

LEMMA InsertBarBooked ==
    ASSUME NEW db \in SimLedger, Sound(db), Booked(db), NEW bar \in Bar
    PROVE  Booked(InsertBar(db, bar))
<1> DEFINE r == InsertBar(db, bar)
<1>1. r \in SimLedger /\ r.orders = db.orders /\ r.fills = db.fills /\ r.lots = db.lots
  BY DEF InsertBar, SimLedger
<1> HIDE DEF r
<1>2. Booked(r)
  BY <1>1, OrdersChangeBooked
<1> QED BY <1>2 DEF r

LEMMA SubmitBooked ==
    ASSUME NEW db \in SimLedger, Sound(db), Booked(db), NEW req \in Request, NEW reject,
           ~Known(db, req.id), req.qty <= MaxQty
    PROVE  Booked(Submit(db, req, reject))
<1> DEFINE r == Submit(db, req, reject)
           o == [req |-> req, state |-> Admission(db, req, reject), filled |-> 0]
<1>1. o \in Order /\ o.req = req /\ o.filled = 0
  BY DEF Order, Admission, Active, Final
<1>2. r.orders = Append(db.orders, o) /\ r.fills = db.fills /\ r.lots = db.lots
  BY DEF Submit, SimLedger
<1>3. r \in SimLedger
  BY SubmitKeeps
<1> HIDE DEF r, o
<1>4. /\ Len(r.orders) = Len(db.orders) + 1
      /\ r.orders[Len(db.orders) + 1] = o
      /\ \A k \in 1..Len(db.orders) : r.orders[k] = db.orders[k]
  BY <1>1, <1>2, LedgerFields, AppendProperties
<1>5. \A k \in DOMAIN r.orders \ DOMAIN db.orders : k = Len(db.orders) + 1
  BY <1>3, <1>4, LedgerFields
<1>6. DOMAIN db.orders \subseteq DOMAIN r.orders
  BY <1>3, <1>4, LedgerFields
<1>7. Booked(r)
  BY <1>1, <1>2, <1>3, <1>4, <1>5, <1>6, LedgerFields, OrdersChangeBooked
<1> QED BY <1>7 DEF r

LEMMA SetStateBooked ==
    ASSUME NEW db \in SimLedger, Sound(db), Booked(db), NEW i \in ActiveOrders(db),
           NEW state \in {"expired", "cancelled"}
    PROVE  Booked(SetState(db, i, state))
<1> DEFINE r == SetState(db, i, state)
<1>1. r \in SimLedger /\ Extends(db, r) /\ Len(r.orders) = Len(db.orders)
  BY SetStateFollows DEF Follows
<1>2. /\ r.orders = [db.orders EXCEPT ![i] = Became(db.orders[i], state, db.orders[i].filled)]
      /\ r.fills = db.fills /\ r.lots = db.lots
  BY DEF SetState
<1>3. \A k \in DOMAIN db.orders : r.orders[k].filled = db.orders[k].filled
  BY <1>2, LedgerFields DEF Became
<1> HIDE DEF r
<1>4. DOMAIN r.orders = DOMAIN db.orders
  BY <1>1, LedgerFields
<1>5. Booked(r)
  BY <1>1, <1>2, <1>3, <1>4, OrdersChangeBooked DEF Extends
<1> QED BY <1>5 DEF r

(* What a fill of an active order changes.                                 *)
LEMMA FillShape ==
    ASSUME NEW db \in SimLedger, Sound(db), NEW i \in ActiveOrders(db),
           NEW bar \in Bar, NEW qty \in Nat \ {0},
           qty <= db.orders[i].req.qty - db.orders[i].filled,
           NEW lots \in SUBSET Unit, IsFiniteSet(lots),
           \A u \in lots : Known(db, u.parent)
    PROVE  LET r == FillOrder(db, i, qty, bar, lots)
               o == db.orders[i]
               f == [order |-> o.req.id, side |-> o.req.side, qty |-> qty,
                     ts |-> bar.ts, reason |-> o.req.id.kind, lot |-> 0]
           IN  /\ r \in SimLedger /\ r.lots = lots /\ r.bars = db.bars
               /\ f \in Fill /\ r.fills = Append(db.fills, f)
               /\ Len(r.fills) = Len(db.fills) + 1
               /\ \A k \in 1..Len(db.fills) : r.fills[k] = db.fills[k]
               /\ r.fills[Len(db.fills) + 1] = f
               /\ DOMAIN r.orders = DOMAIN db.orders
               /\ \A k \in DOMAIN db.orders :
                     /\ r.orders[k].req = db.orders[k].req
                     /\ r.orders[k].filled
                          = db.orders[k].filled + (IF k = i THEN qty ELSE 0)
                     /\ k # i => r.orders[k] = db.orders[k]
<1> DEFINE r == FillOrder(db, i, qty, bar, lots)
           o == db.orders[i]
           f == [order |-> o.req.id, side |-> o.req.side, qty |-> qty,
                 ts |-> bar.ts, reason |-> o.req.id.kind, lot |-> 0]
<1>1. /\ r \in SimLedger /\ Len(r.orders) = Len(db.orders)
      /\ \A k \in DOMAIN db.orders \ {i} : r.orders[k] = db.orders[k]
      /\ \A k \in DOMAIN db.orders : r.orders[k].req = db.orders[k].req
  BY FillOrderFollows DEF Follows, Extends
<1>2. DOMAIN r.orders = DOMAIN db.orders
  <2> HIDE DEF r
  <2> QED BY <1>1, LedgerFields
<1>3. i \in DOMAIN db.orders /\ o \in Order /\ o.filled \in Nat
  BY LedgerFields DEF ActiveOrders
<1>4. r.lots = lots /\ r.bars = db.bars /\ r.fills = Append(db.fills, f)
  BY DEF FillOrder
<1>5. r.orders[i].filled = o.filled + qty
  BY <1>3 DEF FillOrder, Became
<1>6. f \in Fill
  BY <1>3 DEF Fill, Order, Request, Id, Kind, Reason, Bar
<1> HIDE DEF f, r
<1>7. /\ Len(r.fills) = Len(db.fills) + 1
      /\ \A k \in 1..Len(db.fills) : r.fills[k] = db.fills[k]
      /\ r.fills[Len(db.fills) + 1] = f
  BY <1>4, <1>6, LedgerFields, AppendProperties
<1>8. \A k \in DOMAIN db.orders :
         r.orders[k].filled = db.orders[k].filled + (IF k = i THEN qty ELSE 0)
  <2>1. ASSUME NEW k \in DOMAIN db.orders, k # i
        PROVE  r.orders[k].filled = db.orders[k].filled + 0
    <3>1. r.orders[k] = db.orders[k] /\ db.orders[k].filled \in Nat
      BY <1>1, <2>1, LedgerFields
    <3> QED BY <3>1
  <2> QED BY <1>5, <2>1
<1> QED BY <1>1, <1>2, <1>4, <1>6, <1>7, <1>8 DEF f, r

(* A fill inside the window of its order, with the inventory it leaves,    *)
(* keeps the books.                                                        *)
LEMMA FillOrderBooked ==
    ASSUME NEW db \in SimLedger, Sound(db), Booked(db), NEW i \in ActiveOrders(db),
           NEW bar \in Bar, NEW qty \in Nat \ {0},
           qty <= db.orders[i].req.qty - db.orders[i].filled,
           db.orders[i].req.eligible <= bar.ts, bar.ts < db.orders[i].req.expires,
           NEW lots \in SUBSET Unit, IsFiniteSet(lots),
           \A u \in lots : Known(db, u.parent),
           OneFill(lots),
           \A u \in lots : u.unit <= MaxQty /\ u.lot <= Len(db.fills) + 1,
           \A u \in lots \ db.lots : u.parent = db.orders[i].req.id,
           Net(lots) = Net(db.lots) + db.orders[i].req.side * qty
    PROVE  Booked(FillOrder(db, i, qty, bar, lots))
<1> DEFINE r == FillOrder(db, i, qty, bar, lots)
           o == db.orders[i]
           n == Len(db.fills) + 1
           f == [order |-> o.req.id, side |-> o.req.side, qty |-> qty,
                 ts |-> bar.ts, reason |-> o.req.id.kind, lot |-> 0]
<1>1. /\ r \in SimLedger /\ r.lots = lots
      /\ f \in Fill /\ r.fills = Append(db.fills, f)
      /\ Len(r.fills) = n
      /\ \A k \in 1..Len(db.fills) : r.fills[k] = db.fills[k]
      /\ r.fills[n] = f
      /\ DOMAIN r.orders = DOMAIN db.orders
      /\ \A k \in DOMAIN db.orders :
            /\ r.orders[k].req = db.orders[k].req
            /\ r.orders[k].filled = db.orders[k].filled + (IF k = i THEN qty ELSE 0)
            /\ k # i => r.orders[k] = db.orders[k]
  BY FillShape, SMTT(30)
<1>2. /\ i \in DOMAIN db.orders /\ o.state \in Active /\ o.filled \in Nat
      /\ o.req.qty \in Nat /\ o.req.id.kind \in {"entry", "exit"}
      /\ Len(db.fills) \in Nat /\ DOMAIN db.fills = 1..Len(db.fills)
      /\ DOMAIN r.fills = 1..n
  <2>1. o \in Order
    BY LedgerFields DEF ActiveOrders
  <2> HIDE DEF r
  <2> QED BY <1>1, <2>1, LedgerFields, SMTT(30) DEF ActiveOrders, Order, Request, Id, Kind
<1>3. /\ f.qty = qty /\ f.side = o.req.side /\ f.order = o.req.id
      /\ f.reason = o.req.id.kind /\ f.ts = bar.ts
  OBVIOUS
<1>4. qty <= MaxQty
  BY <1>2, MaxQtyAssumption DEF Booked, Distinct
<1> HIDE DEF r, f
<1>5. Distinct(r)
  BY <1>1 DEF Booked, Distinct
<1>6. LotsOfFills(r)
  <2>1. ASSUME NEW u \in lots, NEW k \in DOMAIN db.orders, db.orders[k].req.id = u.parent
        PROVE  r.orders[k].filled # 0
    <3>0. db.orders[k].filled \in Nat
      BY LedgerFields
    <3>1. CASE k = i
      BY <1>1, <1>2, <3>1
    <3>2. CASE k # i
      <4>1. u \in db.lots
        BY <1>2, <2>1, <3>2 DEF Booked, Distinct
      <4> QED BY <1>1, <2>1, <3>2, <4>1 DEF Booked, LotsOfFills
    <3> QED BY <3>1, <3>2
  <2> QED BY <1>1, <2>1 DEF LotsOfFills
<1>7. StopsEnd(r)
  <2>1. \A k \in 1..Len(db.fills) : db.fills[k].reason = "stop" => db.fills[k].order # o.req.id
    BY <1>2 DEF Booked, StopsEnd, Active, Final
  <2>2. ASSUME NEW k \in 1..n, NEW j \in DOMAIN db.orders,
               r.fills[k].reason = "stop", db.orders[j].req.id = r.fills[k].order
        PROVE  r.orders[j].state \in Final
    <3>1. k \in 1..Len(db.fills)
      BY <1>1, <1>2, <1>3, <2>2
    <3>2. j # i
      BY <1>1, <2>1, <2>2, <3>1
    <3> QED BY <1>1, <1>2, <2>2, <3>1, <3>2 DEF Booked, StopsEnd
  <2>3. ASSUME NEW j \in 1..n, NEW k \in 1..n, r.fills[j].reason = "stop", j < k
        PROVE  ~(r.fills[k].reason = "entry" /\ r.fills[k].order = r.fills[j].order)
    <3>1. j \in 1..Len(db.fills)
      BY <1>2, <2>3
    <3>2. CASE k = n
      BY <1>1, <1>3, <2>1, <2>3, <3>1, <3>2
    <3>3. CASE k # n
      <4>1. k \in 1..Len(db.fills)
        BY <1>2, <3>3
      <4>2. r.fills[j] = db.fills[j] /\ r.fills[k] = db.fills[k]
        BY <1>1, <3>1, <4>1
      <4> QED BY <1>2, <2>3, <3>1, <4>1, <4>2, SMTT(30) DEF Booked, StopsEnd
    <3> QED BY <3>2, <3>3
  <2> QED BY <1>1, <1>2, <2>2, <2>3, ZenonT(30) DEF StopsEnd
<1>8. InTime(r)
  <2> SUFFICES ASSUME NEW k \in 1..n, r.fills[k].reason # "stop"
               PROVE  \E j \in DOMAIN db.orders :
                          /\ r.orders[j].req.id = r.fills[k].order
                          /\ r.orders[j].req.id.kind = r.fills[k].reason
                          /\ r.orders[j].req.eligible <= r.fills[k].ts
                          /\ r.fills[k].ts < r.orders[j].req.expires
    BY <1>1, <1>2 DEF InTime
  <2>1. CASE k = n
    BY <1>1, <1>2, <1>3, <2>1
  <2>2. CASE k # n
    <3>1. k \in 1..Len(db.fills)
      BY <1>2, <2>2
    <3>2. PICK j \in DOMAIN db.orders :
              /\ db.orders[j].req.id = db.fills[k].order
              /\ db.orders[j].req.id.kind = db.fills[k].reason
              /\ db.orders[j].req.eligible <= db.fills[k].ts
              /\ db.fills[k].ts < db.orders[j].req.expires
      BY <1>1, <1>2, <3>1, SMTT(30) DEF Booked, InTime
    <3> QED BY <1>1, <3>1, <3>2
  <2> QED BY <2>1, <2>2
<1>9. Counted(r)
  <2>1. \A k \in 1..n : r.fills[k].qty <= MaxQty
    <3>1. \A k \in 1..Len(db.fills) : db.fills[k].qty <= MaxQty
      BY <1>2 DEF Booked, Counted
    <3>2. \A k \in 1..n : k = n \/ k \in 1..Len(db.fills)
      BY <1>2
    <3> QED BY <1>1, <1>3, <1>4, <3>1, <3>2
  <2>2. ASSUME NEW j \in DOMAIN db.orders
        PROVE  Cardinality(Stack(r.fills, FillsOf(r.fills, db.orders[j].req.id)))
                 = r.orders[j].filled
    <3> DEFINE id == db.orders[j].req.id
               I == FillsOf(db.fills, id)
               J == FillsOf(r.fills, id)
    <3>1. \A k \in 1..Len(db.fills) : k \in I <=> k \in J
      BY <1>1, <1>2 DEF FillsOf
    <3>2. n \in J <=> j = i
      <4>1. n \in J <=> f.order = id
        BY <1>1, <1>2, <1>3 DEF FillsOf
      <4> QED BY <1>2, <1>3, <4>1 DEF Booked, Distinct
    <3> HIDE DEF I, J
    <3>3. Cardinality(Stack(r.fills, J))
            = Cardinality(Stack(db.fills, I)) + (IF n \in J THEN f.qty ELSE 0)
      BY <1>1, <1>3, <1>4, <3>1, LedgerFields, StackAppend
    <3>4. Cardinality(Stack(db.fills, I)) = db.orders[j].filled
      BY DEF Booked, Counted, I
    <3> QED BY <1>1, <1>3, <3>2, <3>3, <3>4 DEF J
  <2> QED BY <1>1, <1>2, <2>1, <2>2 DEF Counted
<1>10. Balanced(r)
  <2>1. Position(r.fills) = Position(db.fills) + f.side * f.qty
    BY <1>1, <1>3, <1>4, LedgerFields, PositionAppend
  <2>2. Position(db.fills) = Net(db.lots)
    BY SimPositionNet DEF Booked, Balanced
  <2>3. Position(r.fills) = Net(r.lots)
    BY <1>1, <1>3, <2>1, <2>2
  <2> QED BY <2>3, SimPositionNet DEF Balanced
<1>11. Booked(r)
  BY <1>5, <1>6, <1>7, <1>8, <1>9, <1>10 DEF Booked
<1> QED BY <1>11 DEF r

(* A fill of an entry opens a lot of its own.                              *)
LEMMA EnteredBooked ==
    ASSUME NEW db \in SimLedger, Sound(db), Booked(db), NEW i \in ActiveOrders(db),
           NEW bar \in Bar, NEW qty \in Nat \ {0},
           qty <= db.orders[i].req.qty - db.orders[i].filled,
           db.orders[i].req.eligible <= bar.ts, bar.ts < db.orders[i].req.expires
    PROVE  /\ Booked(Entered(db, i, qty, bar))
           /\ db.lots \subseteq OpenLot(db, db.orders[i], qty)
           /\ \A u \in OpenLot(db, db.orders[i], qty) \ db.lots :
                 u.side = db.orders[i].req.side
           /\ Cardinality(OpenLot(db, db.orders[i], qty)) = Cardinality(db.lots) + qty
<1> DEFINE o == db.orders[i]
           n == Len(db.fills) + 1
           unit(q) == [lot |-> n, unit |-> q, side |-> o.req.side, parent |-> o.req.id]
           new == {unit(q) : q \in 1..qty}
           lots == OpenLot(db, o, qty)
<1>1. /\ i \in DOMAIN db.orders /\ o \in Order /\ Known(db, o.req.id)
      /\ Len(db.fills) \in Nat
      /\ o.req.side \in Side /\ o.req.qty \in Nat /\ o.filled \in Nat
  BY LedgerFields DEF ActiveOrders, Known, Order, Request
<1>2. lots = db.lots \cup new
  BY DEF OpenLot
<1>3. qty <= MaxQty
  <2>1. o.req.qty <= MaxQty
    BY <1>1 DEF Booked, Distinct
  <2> QED BY <1>1, <2>1, MaxQtyAssumption
<1>4. \A u \in new : /\ u.lot = n /\ u.unit \in 1..qty
                     /\ u.side = o.req.side /\ u.parent = o.req.id
  OBVIOUS
<1>5. IsFiniteSet(new) /\ Cardinality(new) = qty
  <2> DEFINE g == [q \in 1..qty |-> unit(q)]
  <2>1. g \in [1..qty -> new] /\ IsInjective(g) /\ \A t \in new : \E q \in 1..qty : g[q] = t
    BY DEF IsInjective
  <2> HIDE DEF g, new
  <2>2. ExistsBijection(1..qty, new)
    BY <2>1 DEF ExistsBijection, Bijection, Injection, Surjection
  <2>3. IsFiniteSet(1..qty) /\ Cardinality(1..qty) = qty
    BY FS_Interval
  <2> QED BY <2>2, <2>3, FS_Bijection
<1> HIDE DEF new
<1>6. db.lots \cap new = {}
  <2>1. \A u \in db.lots : u.lot <= Len(db.fills)
    BY DEF Booked, LotsOfFills
  <2> QED BY <1>1, <1>4, <2>1
<1>7. IsFiniteSet(db.lots)
  BY DEF Sound
<1>8. Net(db.lots \cup new) = Net(db.lots) + o.req.side * qty
  BY <1>1, <1>4, <1>5, <1>6, <1>7, NetAdds
<1>9. /\ lots \in SUBSET Unit /\ IsFiniteSet(lots)
      /\ \A u \in lots : Known(db, u.parent)
  BY <1>1, OpenLotKeeps
<1>10. OneFill(lots)
  <2>1. \A u \in db.lots, v \in new : u.lot # v.lot
    <3>1. \A u \in db.lots : u.lot <= Len(db.fills)
      BY DEF Booked, LotsOfFills
    <3> QED BY <1>1, <1>4, <3>1
  <2>2. OneFill(db.lots)
    BY DEF Booked, LotsOfFills
  <2> HIDE DEF lots
  <2> QED BY <1>2, <1>4, <2>1, <2>2 DEF OneFill
<1>11. \A u \in lots : u.unit <= MaxQty /\ u.lot <= n
  <2>1. \A u \in db.lots : u.lot <= Len(db.fills) /\ u.unit <= MaxQty /\ u.lot \in Nat
    BY LedgerFields DEF Booked, LotsOfFills, Unit
  <2>2. \A u \in db.lots : u.unit <= MaxQty /\ u.lot <= n
    BY <1>1, <2>1
  <2>3. \A u \in new : u.unit <= MaxQty /\ u.lot <= n
    BY <1>1, <1>3, <1>4, MaxQtyAssumption
  <2> QED BY <1>2, <2>2, <2>3
<1>12. \A u \in lots \ db.lots : u.parent = o.req.id /\ u.side = o.req.side
  BY <1>2, <1>4
<1>13. Cardinality(lots) = Cardinality(db.lots) + qty
  BY <1>2, <1>5, <1>6, <1>7, CountBoth
<1> HIDE DEF lots
<1>14. Booked(FillOrder(db, i, qty, bar, lots))
  BY <1>2, <1>8, <1>9, <1>10, <1>11, <1>12, FillOrderBooked
<1> QED BY <1>2, <1>12, <1>13, <1>14 DEF Entered, lots

(* A fill of an exit takes its quantity from the inventory.                *)
LEMMA ExitedBooked ==
    ASSUME NEW db \in SimLedger, Sound(db), Booked(db), NEW i \in ActiveOrders(db),
           NEW bar \in Bar, NEW qty \in Nat \ {0},
           qty <= db.orders[i].req.qty - db.orders[i].filled,
           qty <= Cardinality(Opposite(db, db.orders[i].req.side)),
           db.orders[i].req.eligible <= bar.ts, bar.ts < db.orders[i].req.expires
    PROVE  Booked(Exited(db, i, qty, bar))
<1> DEFINE side == db.orders[i].req.side
           out == Oldest(db, side, qty)
           lots == db.lots \ out
<1>1. side \in Side /\ -side \in Side /\ side \in Int
  <2>1. db.orders[i] \in Order
    BY LedgerFields DEF ActiveOrders
  <2> QED BY <2>1 DEF Order, Request, Side
<1>2. OneFill(db.lots)
  BY DEF Booked, LotsOfFills
<1>3. out \in SUBSET db.lots /\ \A u \in out : u.side = -side
  BY DEF Oldest, Opposite
<1>4. Cardinality(out) = qty
  BY <1>1, <1>2, OldestCounts
<1> HIDE DEF out, side
<1>5. Net(lots) = Net(db.lots) + side * qty
  <2>1. IsFiniteSet(db.lots)
    BY DEF Sound
  <2>2. Net(lots) = Net(db.lots) - (-side) * qty
    BY <1>1, <1>3, <1>4, <2>1, NetDrops
  <2>3. Net(db.lots) \in Int
    BY <2>1, NetType
  <2>4. (-side) * qty = -(side * qty) /\ side * qty \in Int
    BY <1>1 DEF Side
  <2> DEFINE m == side * qty
  <2> HIDE DEF m
  <2>5. Net(db.lots) - (-m) = Net(db.lots) + m
    BY <2>3, <2>4 DEF m
  <2> QED BY <2>2, <2>4, <2>5 DEF m
<1>6. /\ lots \in SUBSET Unit /\ IsFiniteSet(lots)
      /\ \A u \in lots : Known(db, u.parent)
      /\ OneFill(lots)
      /\ lots \subseteq db.lots
  BY <1>2, LedgerFields, FS_Subset DEF Sound, OneFill
<1>7. \A u \in lots : u.unit <= MaxQty /\ u.lot <= Len(db.fills) + 1
  <2>1. \A u \in db.lots : u.lot <= Len(db.fills) /\ u.unit <= MaxQty /\ u.lot \in Nat
    BY LedgerFields DEF Booked, LotsOfFills, Unit
  <2> QED BY <1>6, <2>1, LedgerFields
<1> HIDE DEF lots
<1>8. Booked(FillOrder(db, i, qty, bar, lots))
  BY <1>5, <1>6, <1>7, FillOrderBooked DEF side
<1> QED BY <1>8 DEF Exited, lots, out, side

(* One iteration over the active orders keeps the books.                   *)
LEMMA WorkOrderBooked ==
    ASSUME NEW db \in SimLedger, Sound(db), Booked(db), NEW i \in ActiveOrders(db),
           NEW bar \in Bar, NEW cap \in Nat \ {0}
    PROVE  Booked(WorkOrder(db, i, bar, cap))
<1> DEFINE o == db.orders[i]
           qty == Fillable(db, o, cap)
           r == WorkOrder(db, i, bar, cap)
<1>1. /\ qty \in Nat /\ qty <= o.req.qty - o.filled
      /\ o.req.id.kind = "entry" => qty # 0
  BY FillableBounds
<1>2. o.req.id.kind # "entry" => qty <= Cardinality(Opposite(db, o.req.side))
  <2>1. /\ o.req.qty \in Nat /\ o.filled \in Nat
        /\ Cardinality(Opposite(db, o.req.side)) \in Nat
    BY LedgerFields, OppositeFinite DEF ActiveOrders, Order, Request
  <2> QED BY <2>1 DEF Fillable, Least
<1>3. bar.ts \in Nat /\ o.req.expires \in Nat /\ o.req.eligible \in Nat
  BY LedgerFields DEF ActiveOrders, Order, Request, Bar
<1> HIDE DEF qty
<1>4. CASE bar.ts >= o.req.expires
  <2>1. r = SetState(db, i, "expired")
    BY <1>3, <1>4 DEF WorkOrder
  <2> QED BY <2>1, SetStateBooked
<1>5. CASE bar.ts < o.req.expires /\ (bar.ts < o.req.eligible \/ ~bar.volume)
  BY <1>3, <1>5 DEF WorkOrder
<1>6. CASE bar.ts < o.req.expires /\ o.req.eligible <= bar.ts /\ bar.volume
  <2>1. r = IF o.req.id.kind = "entry" THEN Entered(db, i, qty, bar)
            ELSE IF qty = 0 THEN SetState(db, i, "cancelled")
            ELSE Exited(db, i, qty, bar)
    BY <1>3, <1>6 DEF WorkOrder, qty
  <2>2. CASE o.req.id.kind = "entry"
    BY <1>1, <1>6, <2>1, <2>2, EnteredBooked
  <2>3. CASE o.req.id.kind # "entry" /\ qty = 0
    BY <2>1, <2>3, SetStateBooked
  <2>4. CASE o.req.id.kind # "entry" /\ qty # 0
    BY <1>1, <1>2, <1>6, <2>1, <2>4, ExitedBooked
  <2> QED BY <2>2, <2>3, <2>4
<1> QED BY <1>3, <1>4, <1>5, <1>6

(* A stop closes one lot and ends its entry.                               *)
LEMMA StopLotBooked ==
    ASSUME NEW db \in SimLedger, Sound(db), Booked(db),
           NEW l \in LotNumbers(db), NEW bar \in Bar
    PROVE  Booked(StopLot(db, l, bar))
<1> DEFINE units == {u \in db.lots : u.lot = l}
           unit == CHOOSE u \in units : TRUE
           r == StopLot(db, l, bar)
           n == Len(db.fills) + 1
           f == [order |-> unit.parent, side |-> -unit.side,
                 qty |-> Cardinality(units), ts |-> bar.ts,
                 reason |-> "stop", lot |-> l]
<1>1. unit \in units /\ unit \in Unit /\ l \in Nat /\ unit.side \in Side
  <2>1. units # {}
    BY DEF LotNumbers
  <2> QED BY <2>1, LedgerFields DEF Unit
<1>2. /\ IsFiniteSet(units) /\ Cardinality(units) \in Nat \ {0}
      /\ Cardinality(units) <= MaxQty
  <2>1. IsFiniteSet(units)
    BY FS_Subset DEF Sound
  <2>2. Cardinality(units) \in Nat \ {0}
    BY <1>1, <2>1, FS_CardinalityType, FS_EmptySet
  <2>3. Cardinality(units) <= MaxQty
    <3> DEFINE g == [u \in units |-> u.unit]
    <3>1. \A u \in units : u \in Unit /\ u.unit \in 1..MaxQty
      BY LedgerFields, MaxQtyAssumption DEF Booked, LotsOfFills, Unit
    <3>2. \A u, v \in units : u.unit = v.unit => u = v
      <4>1. \A u, v \in units : u.lot = v.lot /\ u.side = v.side /\ u.parent = v.parent
        BY DEF Booked, LotsOfFills, OneFill
      <4> QED BY <3>1, <4>1 DEF Unit
    <3> HIDE DEF units
    <3>3. g \in [units -> 1..MaxQty] /\ IsInjective(g)
      BY <3>1, <3>2 DEF IsInjective
    <3> HIDE DEF g
    <3>4. g \in Injection(units, 1..MaxQty)
      BY <3>3 DEF Injection
    <3>5. IsFiniteSet(1..MaxQty) /\ Cardinality(1..MaxQty) = MaxQty
      BY FS_Interval, MaxQtyAssumption
    <3> QED BY <3>4, <3>5, FS_Injection
  <2> QED BY <2>1, <2>2, <2>3
<1>3. /\ r.lots = db.lots \ units /\ r.fills = Append(db.fills, f)
      /\ DOMAIN r.orders = DOMAIN db.orders
      /\ \A k \in DOMAIN db.orders :
            r.orders[k] = IF /\ db.orders[k].req.id = f.order
                             /\ db.orders[k].state = "partially_filled"
                          THEN Became(db.orders[k], "cancelled", db.orders[k].filled)
                          ELSE db.orders[k]
  BY DEF StopLot, StopFill
<1>4. r \in SimLedger
  BY StopLotFollows DEF Follows
<1> HIDE DEF r
<1>5. f \in Fill
  BY <1>1, <1>2 DEF Fill, Unit, Side, Reason, Bar
<1>6. /\ f.qty = Cardinality(units) /\ f.side = -unit.side
      /\ f.order = unit.parent /\ f.reason = "stop"
  OBVIOUS
<1>7. \A u \in units : u.side = unit.side
  BY <1>1 DEF Booked, LotsOfFills, OneFill
<1>8. units \in SUBSET db.lots
  OBVIOUS
<1> HIDE DEF f, unit, units
<1>9. /\ Len(r.fills) = n /\ r.fills[n] = f
      /\ \A k \in 1..Len(db.fills) : r.fills[k] = db.fills[k]
      /\ Len(db.fills) \in Nat
      /\ DOMAIN db.fills = 1..Len(db.fills)
      /\ DOMAIN r.fills = 1..n
  BY <1>3, <1>4, <1>5, LedgerFields, AppendProperties
<1>10. \A k \in DOMAIN db.orders :
          /\ r.orders[k].req = db.orders[k].req
          /\ r.orders[k].filled = db.orders[k].filled
          /\ db.orders[k].state \in Final => r.orders[k].state \in Final
          /\ db.orders[k].req.id = f.order /\ db.orders[k].state = "partially_filled"
             => r.orders[k].state \in Final
  <2> SUFFICES ASSUME NEW k \in DOMAIN db.orders
               PROVE  /\ r.orders[k].req = db.orders[k].req
                      /\ r.orders[k].filled = db.orders[k].filled
                      /\ db.orders[k].state \in Final => r.orders[k].state \in Final
                      /\ /\ db.orders[k].req.id = f.order
                         /\ db.orders[k].state = "partially_filled"
                         => r.orders[k].state \in Final
    OBVIOUS
  <2>1. CASE db.orders[k].req.id = f.order /\ db.orders[k].state = "partially_filled"
    <3>1. r.orders[k] = Became(db.orders[k], "cancelled", db.orders[k].filled)
      BY <1>3, <2>1
    <3> QED BY <3>1 DEF Became, Final
  <2>2. CASE ~(db.orders[k].req.id = f.order /\ db.orders[k].state = "partially_filled")
    <3>1. r.orders[k] = db.orders[k]
      BY <1>3, <2>2
    <3> QED BY <2>2, <3>1
  <2> QED BY <2>1, <2>2
<1>11. Distinct(r)
  BY <1>3, <1>10 DEF Booked, Distinct
<1>12. LotsOfFills(r)
  <2>1. \A u \in r.lots : u \in db.lots /\ u.lot \in Nat
    BY <1>3, LedgerFields DEF Unit
  <2>2. \A u \in r.lots : u.lot <= n /\ u.unit <= MaxQty
    BY <1>9, <2>1 DEF Booked, LotsOfFills
  <2> QED BY <1>3, <1>9, <1>10, <2>1, <2>2 DEF Booked, LotsOfFills, OneFill
<1>13. StopsEnd(r)
  <2>1. ASSUME NEW k \in 1..n, NEW j \in DOMAIN db.orders,
               r.fills[k].reason = "stop", r.orders[j].req.id = r.fills[k].order
        PROVE  r.orders[j].state \in Final
    <3>1. CASE k = n
      <4>1. db.orders[j].req.id = unit.parent
        BY <1>6, <1>9, <1>10, <2>1, <3>1
      <4>2. db.orders[j].filled # 0
        BY <1>1, <1>8, <4>1 DEF Booked, LotsOfFills
      <4>3. db.orders[j].state \in {"partially_filled"} \cup Final
        BY <4>2, LedgerFields DEF Sound, ValidLifecycle, Order, Active, Final
      <4> QED BY <1>6, <1>10, <4>1, <4>3
    <3>2. CASE k # n
      <4>1. k \in 1..Len(db.fills)
        BY <1>9, <3>2
      <4>2. db.orders[j].state \in Final
        BY <1>9, <1>10, <2>1, <4>1, SMTT(30) DEF Booked, StopsEnd
      <4> QED BY <1>10, <4>2
    <3> QED BY <3>1, <3>2
  <2>2. ASSUME NEW j \in 1..n, NEW k \in 1..n, r.fills[j].reason = "stop", j < k
        PROVE  ~(r.fills[k].reason = "entry" /\ r.fills[k].order = r.fills[j].order)
    <3>1. CASE k = n
      BY <1>6, <1>9, <3>1
    <3>2. CASE k # n
      <4>1. k \in 1..Len(db.fills) /\ j \in 1..Len(db.fills)
        BY <1>9, <2>2, <3>2
      <4>2. r.fills[j] = db.fills[j] /\ r.fills[k] = db.fills[k]
        BY <1>9, <4>1
      <4> QED BY <1>9, <2>2, <4>1, <4>2 DEF Booked, StopsEnd
    <3> QED BY <3>1, <3>2
  <2> QED BY <1>3, <1>9, <2>1, <2>2 DEF StopsEnd
<1>14. InTime(r)
  <2> SUFFICES ASSUME NEW k \in 1..n, r.fills[k].reason # "stop"
               PROVE  \E j \in DOMAIN db.orders :
                          /\ r.orders[j].req.id = r.fills[k].order
                          /\ r.orders[j].req.id.kind = r.fills[k].reason
                          /\ r.orders[j].req.eligible <= r.fills[k].ts
                          /\ r.fills[k].ts < r.orders[j].req.expires
    BY <1>3, <1>9 DEF InTime
  <2>1. k \in 1..Len(db.fills)
    BY <1>6, <1>9
  <2>2. PICK j \in DOMAIN db.orders :
            /\ db.orders[j].req.id = db.fills[k].order
            /\ db.orders[j].req.id.kind = db.fills[k].reason
            /\ db.orders[j].req.eligible <= db.fills[k].ts
            /\ db.fills[k].ts < db.orders[j].req.expires
    BY <1>9, <2>1 DEF Booked, InTime
  <2> QED BY <1>9, <1>10, <2>1, <2>2
<1>15. Counted(r)
  <2>1. \A k \in 1..n : r.fills[k].qty <= MaxQty
    <3>1. \A k \in 1..Len(db.fills) : db.fills[k].qty <= MaxQty
      BY <1>9 DEF Booked, Counted
    <3>2. \A k \in 1..n : k = n \/ k \in 1..Len(db.fills)
      BY <1>9
    <3> QED BY <1>2, <1>6, <1>9, <3>1, <3>2
  <2>2. ASSUME NEW j \in DOMAIN db.orders
        PROVE  Cardinality(Stack(r.fills, FillsOf(r.fills, db.orders[j].req.id)))
                 = r.orders[j].filled
    <3> DEFINE I == FillsOf(db.fills, db.orders[j].req.id)
               J == FillsOf(r.fills, db.orders[j].req.id)
    <3>1. \A k \in 1..Len(db.fills) : k \in I <=> k \in J
      BY <1>9 DEF FillsOf
    <3>2. n \notin J
      BY <1>6, <1>9 DEF FillsOf
    <3> HIDE DEF I, J
    <3>3. Cardinality(Stack(r.fills, J)) = Cardinality(Stack(db.fills, I)) + 0
      BY <1>2, <1>3, <1>5, <1>6, <3>1, <3>2, LedgerFields, StackAppend
    <3>4. Cardinality(Stack(db.fills, I)) = db.orders[j].filled
      BY DEF Booked, Counted, I
    <3>5. db.orders[j].filled \in Nat
      BY LedgerFields
    <3> QED BY <1>10, <3>3, <3>4, <3>5 DEF J
  <2> QED BY <1>3, <1>9, <1>10, <2>1, <2>2 DEF Counted
<1>16. Balanced(r)
  <2>1. Position(r.fills) = Position(db.fills) + f.side * f.qty
    BY <1>2, <1>3, <1>5, <1>6, LedgerFields, PositionAppend
  <2>2. Position(db.fills) = Net(db.lots)
    BY SimPositionNet DEF Booked, Balanced
  <2>3. IsFiniteSet(db.lots)
    BY DEF Sound
  <2>4. Net(r.lots) = Net(db.lots) - unit.side * f.qty
    BY <1>1, <1>3, <1>6, <1>7, <1>8, <2>3, NetDrops
  <2>5. /\ Net(db.lots) \in Int /\ unit.side * f.qty \in Int
        /\ f.side * f.qty = -(unit.side * f.qty)
    BY <1>1, <1>2, <1>6, <2>3, NetType DEF Side
  <2> DEFINE m == unit.side * f.qty
  <2> HIDE DEF m
  <2>6. Net(db.lots) + (-m) = Net(db.lots) - m
    BY <2>5 DEF m
  <2> QED BY <2>1, <2>2, <2>4, <2>5, <2>6, SimPositionNet DEF Balanced, m
<1>17. Booked(r)
  BY <1>11, <1>12, <1>13, <1>14, <1>15, <1>16 DEF Booked
<1> QED BY <1>17 DEF r

(***************************************************************************)
(* Exposure                                                                *)
(***************************************************************************)

\* An entry that no bar of the broker has expired yet.
Fresh(db, req) == req.id.kind = "entry" /\ \A b \in db.bars : b.ts < req.expires

\* The inventory and what a fresh entry may still add to it are within the
\* frozen quantity and on one side; one not yet submitted finds no inventory.
Exposed(db, v, quantity) ==
    /\ Cardinality(db.lots) <= quantity
    /\ \A a, b \in db.lots : a.side = b.side
    /\ \A k \in DOMAIN v.intents : Fresh(db, v.intents[k].req) =>
          IF k \in DOMAIN db.orders
          THEN db.orders[k].state \in Active =>
                 /\ Cardinality(db.lots) + db.orders[k].req.qty - db.orders[k].filled
                      <= quantity
                 /\ \A u \in db.lots : u.side = db.orders[k].req.side
          ELSE db.lots = {}

\* An entry that may still fill: the broker has not ended it nor a bar expired it.
Live(db, v, k) == /\ Fresh(db, v.intents[k].req)
                  /\ k \in DOMAIN db.orders => db.orders[k].state \in Active

(* The entry of one session is over when a later session decides its own.  *)
LEMMA EntryOver ==
    ASSUME NEW a \in Nat, NEW b \in Nat, Minute(a) = OpeningBars - 1,
           Minute(b) = OpeningBars - 1, DayOf(a) < DayOf(b)
    PROVE  a + 1 + Latency + EntryLife <= b
<1> DEFINE x == DayOf(a)
           y == DayOf(b)
           m == OpeningBars - 1
<1>1. /\ Stride \in Nat \ {0} /\ Latency \in Nat /\ EntryLife \in Nat /\ m \in Nat
      /\ x \in Nat /\ y \in Nat /\ x + 1 <= y
  BY SessionAssumption, DayNat
<1>2. a = Stride * x + m /\ b = Stride * y + m
  BY <1>1 DEF DayOf, Minute
<1> HIDE DEF x, y, m
<1>3. Stride * (x + 1) <= Stride * y
  BY <1>1
<1>4. Stride * (x + 1) = Stride * x + Stride
  BY <1>1
<1> DEFINE p == Stride * x
           q == Stride * y
<1>5. p \in Nat /\ q \in Nat
  BY <1>1
<1>6. p + Stride <= q /\ a = p + m /\ b = q + m
  BY <1>2, <1>3, <1>4
<1>7. m + 1 + Latency + EntryLife <= Stride
  BY SessionAssumption, EntryLifeAssumption DEF m
<1> HIDE DEF p, q
<1> QED BY <1>1, <1>5, <1>6, <1>7

(* Intents of the same requests may add the same.                          *)
LEMMA SameRequestsExposed ==
    ASSUME NEW v \in WorkerLedger, NEW u \in WorkerLedger, SameIntents(v, u),
           NEW db, NEW quantity, Exposed(db, v, quantity)
    PROVE  Exposed(db, u, quantity)
<1>1. DOMAIN u.intents = DOMAIN v.intents
  BY WorkerFields DEF SameIntents
<1> QED BY <1>1 DEF Exposed, SameIntents

(* A broker that only reduces its inventory stays within bounds.           *)
LEMMA ShrinkExposed ==
    ASSUME NEW db \in SimLedger, Sound(db), NEW r, Follows(db, r),
           r.lots \subseteq db.lots, db.bars \subseteq r.bars,
           NEW v, NEW quantity \in Nat, Exposed(db, v, quantity)
    PROVE  Exposed(r, v, quantity)
<1>1. /\ Cardinality(r.lots) <= Cardinality(db.lots)
      /\ Cardinality(r.lots) \in Nat /\ Cardinality(db.lots) \in Nat
  BY FS_Subset, FS_CardinalityType DEF Sound
<1>2. /\ r \in SimLedger /\ DOMAIN r.orders = DOMAIN db.orders
      /\ \A k \in DOMAIN db.orders :
            /\ r.orders[k].req = db.orders[k].req
            /\ db.orders[k].filled <= r.orders[k].filled
            /\ db.orders[k].state \in Final => r.orders[k] = db.orders[k]
  BY LedgerFields DEF Follows, Extends
<1>3. /\ Cardinality(r.lots) <= quantity
      /\ \A a, b \in r.lots : a.side = b.side
  BY <1>1 DEF Exposed
<1>4. ASSUME NEW k \in DOMAIN v.intents, Fresh(r, v.intents[k].req),
             k \in DOMAIN db.orders, r.orders[k].state \in Active
      PROVE  /\ Cardinality(r.lots) + r.orders[k].req.qty - r.orders[k].filled <= quantity
             /\ \A u \in r.lots : u.side = r.orders[k].req.side
  <2>1. Fresh(db, v.intents[k].req)
    BY <1>4 DEF Fresh
  <2>2. /\ db.orders[k].state \in Active /\ db.orders[k].req.qty \in Nat
        /\ db.orders[k].filled \in Nat /\ r.orders[k].filled \in Nat
    BY <1>2, <1>4, LedgerFields DEF Order, Request, Active, Final
  <2>3. /\ Cardinality(db.lots) + db.orders[k].req.qty - db.orders[k].filled <= quantity
        /\ \A u \in db.lots : u.side = db.orders[k].req.side
    BY <1>4, <2>1, <2>2 DEF Exposed
  <2> QED BY <1>1, <1>2, <1>4, <2>2, <2>3
<1>5. ASSUME NEW k \in DOMAIN v.intents, Fresh(r, v.intents[k].req), k \notin DOMAIN db.orders
      PROVE  r.lots = {}
  <2>1. Fresh(db, v.intents[k].req)
    BY <1>5 DEF Fresh
  <2> QED BY <1>5, <2>1 DEF Exposed
<1> QED BY <1>2, <1>3, <1>4, <1>5 DEF Exposed

(* One iteration over the active orders keeps the exposure: only the one   *)
(* live entry adds to the inventory, and what it adds it had left.         *)
LEMMA WorkOrderExposed ==
    ASSUME NEW db \in SimLedger, Sound(db), Booked(db), NEW i \in ActiveOrders(db),
           NEW cap \in Nat \ {0}, NEW bar_ \in Bar, \A b \in db.bars : b.ts <= bar_.ts,
           NEW v \in WorkerLedger, NEW quantity \in Nat, Exposed(db, v, quantity),
           DOMAIN db.orders \subseteq DOMAIN v.intents,
           \A k \in DOMAIN db.orders : db.orders[k].req = v.intents[k].req,
           \A j, k \in DOMAIN v.intents : Live(db, v, j) /\ Live(db, v, k) => j = k
    PROVE  Exposed(WorkOrder(db, i, bar_, cap), v, quantity)
<1> DEFINE o == db.orders[i]
           qty == Fillable(db, o, cap)
           r == WorkOrder(db, i, bar_, cap)
<1>1. Follows(db, r)
  BY WorkOrderFollows
<1>2. /\ i \in DOMAIN db.orders /\ o.state \in Active /\ o \in Order
      /\ o.req.qty \in Nat /\ o.filled \in Nat
      /\ bar_.ts \in Nat /\ o.req.expires \in Nat /\ o.req.eligible \in Nat
      /\ \A b \in db.bars : b.ts \in Nat
  BY LedgerFields DEF ActiveOrders, Order, Request, Bar
<1>3. /\ qty \in Nat /\ qty <= o.req.qty - o.filled
      /\ o.req.id.kind = "entry" => qty # 0
  BY FillableBounds
<1> HIDE DEF qty
<1>4. CASE ~(/\ o.req.eligible <= bar_.ts /\ bar_.ts < o.req.expires /\ bar_.volume
             /\ o.req.id.kind = "entry")
  <2>1. r.lots \subseteq db.lots /\ r.bars = db.bars
    <3>1. \/ r = db \/ r = SetState(db, i, "expired") \/ r = SetState(db, i, "cancelled")
          \/ r = Exited(db, i, qty, bar_)
      <4>1. CASE bar_.ts >= o.req.expires
        BY <1>2, <4>1 DEF WorkOrder
      <4>2. CASE bar_.ts < o.req.expires /\ (bar_.ts < o.req.eligible \/ ~bar_.volume)
        BY <1>2, <4>2 DEF WorkOrder
      <4>3. CASE bar_.ts < o.req.expires /\ ~(bar_.ts < o.req.eligible \/ ~bar_.volume)
        <5>1. o.req.id.kind # "entry"
          BY <1>2, <1>4, <4>3
        <5> QED BY <1>2, <4>3, <5>1 DEF WorkOrder, qty
      <4> QED BY <1>2, <4>1, <4>2, <4>3
    <3>2. r = db => r.lots \subseteq db.lots /\ r.bars = db.bars
      OBVIOUS
    <3>3. \A state : /\ SetState(db, i, state).lots = db.lots
                    /\ SetState(db, i, state).bars = db.bars
      BY DEF SetState
    <3>4. /\ Exited(db, i, qty, bar_).lots \subseteq db.lots
          /\ Exited(db, i, qty, bar_).bars = db.bars
      BY DEF Exited, FillOrder
    <3> HIDE DEF r
    <3> QED BY <3>1, <3>2, <3>3, <3>4
  <2> HIDE DEF r
  <2>2. Exposed(r, v, quantity)
    BY <1>1, <2>1, ShrinkExposed
  <2> QED BY <2>2 DEF r
<1>5. CASE /\ o.req.eligible <= bar_.ts /\ bar_.ts < o.req.expires /\ bar_.volume
           /\ o.req.id.kind = "entry"
  <2> DEFINE lots == OpenLot(db, o, qty)
  <2>1. r = Entered(db, i, qty, bar_)
    BY <1>2, <1>5 DEF WorkOrder, qty
  <2>2. /\ db.lots \subseteq lots /\ \A u \in lots \ db.lots : u.side = o.req.side
        /\ Cardinality(lots) = Cardinality(db.lots) + qty
    BY <1>3, <1>5, EnteredBooked
  <2>3. r.lots = lots /\ r.bars = db.bars
    BY <2>1 DEF Entered, FillOrder
  <2>4. r.orders[i].filled = o.filled + qty /\ r.orders[i].req = o.req
    BY <1>2, <2>1 DEF Entered, FillOrder, Became
  <2>5. /\ DOMAIN r.orders = DOMAIN db.orders
    <3> HIDE DEF r
    <3> QED BY <1>1, LedgerFields DEF Follows
  <2>6. Live(db, v, i) /\ Fresh(db, v.intents[i].req)
    BY <1>2, <1>5 DEF Fresh, Live
  <2> HIDE DEF r, lots
  <2>7. /\ Cardinality(db.lots) + o.req.qty - o.filled <= quantity
        /\ \A u \in db.lots : u.side = o.req.side
        /\ Cardinality(db.lots) \in Nat
    BY <1>2, <2>6, FS_CardinalityType DEF Exposed, Sound
  <2>8. /\ Cardinality(lots) <= quantity
        /\ Cardinality(lots) + o.req.qty - (o.filled + qty) <= quantity
    BY <1>2, <1>3, <2>2, <2>7
  <2>9. \A u \in lots : u.side = o.req.side
    BY <2>2, <2>7
  <2>10. \A k \in DOMAIN v.intents :
           Fresh(r, v.intents[k].req) /\ (k \in DOMAIN r.orders => r.orders[k].state \in Active)
             => k = i
    <3> SUFFICES ASSUME NEW k \in DOMAIN v.intents, Fresh(r, v.intents[k].req),
                        k \in DOMAIN r.orders => r.orders[k].state \in Active, k # i
                 PROVE  FALSE
      OBVIOUS
    <3>1. Fresh(db, v.intents[k].req)
      BY <2>3 DEF Fresh
    <3>2. k \in DOMAIN db.orders => r.orders[k] = db.orders[k]
      BY <2>1, WorkOrderFollows DEF r
    <3>3. Live(db, v, k)
      BY <2>5, <3>1, <3>2 DEF Live
    <3> QED BY <1>2, <2>6, <3>3
  <2>11. Exposed(r, v, quantity)
    BY <1>2, <2>3, <2>4, <2>5, <2>8, <2>9, <2>10 DEF Exposed
  <2> QED BY <2>11 DEF r
<1> QED BY <1>4, <1>5

LEMMA StopLotExposed ==
    ASSUME NEW db \in SimLedger, Sound(db), NEW l \in LotNumbers(db), NEW bar_ \in Bar,
           NEW v, NEW quantity \in Nat, Exposed(db, v, quantity)
    PROVE  Exposed(StopLot(db, l, bar_), v, quantity)
<1> DEFINE r == StopLot(db, l, bar_)
<1>1. Follows(db, r)
  BY StopLotFollows
<1>2. r.lots \subseteq db.lots /\ r.bars = db.bars
  BY DEF StopLot
<1> HIDE DEF r
<1>3. Exposed(r, v, quantity)
  BY <1>1, <1>2, ShrinkExposed
<1> QED BY <1>3 DEF r

(* The broker takes over an entry only while it holds nothing.             *)
LEMMA SubmitExposed ==
    ASSUME NEW db \in SimLedger, Sound(db), NEW v \in WorkerLedger, NEW reject,
           NEW quantity \in Nat, Exposed(db, v, quantity),
           NEW i \in DOMAIN v.intents, ~Known(db, v.intents[i].req.id),
           i = Len(db.orders) + 1,
           v.intents[i].req.id.kind = "entry" => v.intents[i].req.qty = quantity
    PROVE  Exposed(Submit(db, v.intents[i].req, reject), v, quantity)
<1> DEFINE req == v.intents[i].req
           r == Submit(db, req, reject)
<1>0. req \in Request
  BY WorkerFields DEF Intent
<1>1. /\ r \in SimLedger /\ Len(r.orders) = Len(db.orders) + 1
      /\ r.orders[Len(r.orders)].req = req
      /\ \A k \in DOMAIN db.orders : r.orders[k] = db.orders[k]
  BY <1>0, SubmitKeeps, SMTT(30)
<1>2. r.lots = db.lots /\ r.bars = db.bars
  BY DEF Submit, SimLedger
<1>3. r.orders[i].filled = 0
  BY LedgerFields, AppendProperties DEF Submit
<1> HIDE DEF r
<1>4. DOMAIN r.orders = DOMAIN db.orders \cup {i} /\ i \notin DOMAIN db.orders
  BY <1>1, LedgerFields
<1>5. Fresh(db, req) => db.lots = {} /\ req.qty = quantity
  BY <1>4 DEF Exposed, Fresh
<1>6. Fresh(db, req) => Cardinality(db.lots) + req.qty - 0 <= quantity
  <2> SUFFICES ASSUME Fresh(db, req)
               PROVE  Cardinality(db.lots) + req.qty - 0 <= quantity
    OBVIOUS
  <2>1. Cardinality(db.lots) = 0
    BY <1>5, FS_EmptySet, Zenon
  <2> QED BY <1>5, <2>1
<1>7. ASSUME NEW k \in DOMAIN v.intents, Fresh(r, v.intents[k].req)
      PROVE  IF k \in DOMAIN r.orders
             THEN r.orders[k].state \in Active =>
                    /\ Cardinality(r.lots) + r.orders[k].req.qty - r.orders[k].filled
                         <= quantity
                    /\ \A u \in r.lots : u.side = r.orders[k].req.side
             ELSE r.lots = {}
  <2>1. Fresh(db, v.intents[k].req)
    BY <1>2, <1>7 DEF Fresh
  <2>2. CASE k = i
    BY <1>1, <1>2, <1>3, <1>4, <1>5, <1>6, <2>1, <2>2
  <2>3. CASE k # i
    BY <1>1, <1>2, <1>4, <2>1, <2>3 DEF Exposed
  <2> QED BY <2>2, <2>3
<1>8. Exposed(r, v, quantity)
  BY <1>2, <1>7 DEF Exposed
<1> QED BY <1>8 DEF r

(* Inventory on one side is as large as the position it makes.             *)
LEMMA OneSidedNet ==
    ASSUME NEW lots \in SUBSET Unit, IsFiniteSet(lots),
           \A a, b \in lots : a.side = b.side
    PROVE  /\ Size(Net(lots)) = Cardinality(lots)
           /\ Net(lots) = 0 => lots = {}
<1>1. Cardinality(lots) \in Nat /\ (Cardinality(lots) = 0 => lots = {})
  BY FS_CardinalityType, FS_EmptySet
<1>2. Cardinality({}) = 0
  BY FS_EmptySet
<1>3. \A u \in lots : u.side = 1 \/ u.side = -1
  BY DEF Unit, Side
<1>4. \/ OnSide(lots, 1) = lots /\ OnSide(lots, -1) = {}
      \/ OnSide(lots, 1) = {} /\ OnSide(lots, -1) = lots
  <2>1. CASE \E u \in lots : u.side = 1
    BY <2>1 DEF OnSide
  <2>2. CASE ~\E u \in lots : u.side = 1
    BY <1>3, <2>2 DEF OnSide
  <2> QED BY <2>1, <2>2
<1>5. Net(lots) = Cardinality(lots) \/ Net(lots) = -Cardinality(lots)
  <2>1. CASE OnSide(lots, 1) = lots /\ OnSide(lots, -1) = {}
    BY <1>1, <1>2, <2>1 DEF Net
  <2>2. CASE OnSide(lots, 1) = {} /\ OnSide(lots, -1) = lots
    BY <1>1, <1>2, <2>2 DEF Net
  <2> QED BY <1>4, <2>1, <2>2
<1> QED BY <1>1, <1>5 DEF Size

(***************************************************************************)
(* One scenario: what relates its broker's ledger db and its worker's v    *)
(***************************************************************************)

\* The broker's orders are the first of the intents; ids are never reused.
Ordered(db, v) ==
    /\ \A k \in DOMAIN db.orders :
          k \in DOMAIN v.intents /\ db.orders[k].req = v.intents[k].req
    /\ \A k \in DOMAIN v.intents : v.intents[k].state # "pending" => k \in DOMAIN db.orders
    /\ \A j, k \in DOMAIN v.intents : v.intents[j].req.id = v.intents[k].req.id => j = k

\* The worker has seen the first of the broker's fills, and no bar before it.
Observes(db, v) ==
    /\ Len(v.fills) <= Len(db.fills)
    /\ \A k \in DOMAIN v.fills : v.fills[k] = db.fills[k]
    /\ v.bars \subseteq db.bars

\* The times, the size and the identity of an intent.
Planned(v) ==
    /\ \A k \in DOMAIN v.intents :
          LET req == v.intents[k].req
          IN  /\ req.qty <= MaxQty /\ req.submitted + Latency <= req.eligible
              /\ req.id.retry < Cardinality(Earlier(v, req.id.day, req.id.kind))
              /\ \E b \in v.bars : req.submitted = b.ts + 1 /\ req.id.day = DayOf(b.ts)
              /\ req.id.kind = "entry" =>
                    /\ req.qty = MaxQty /\ req.expires = req.eligible + EntryLife
                    /\ Minute(req.submitted - 1) = OpeningBars - 1
    /\ \A j, k \in DOMAIN v.intents :
          /\ v.intents[j].req.id.kind = "entry" /\ v.intents[k].req.id.kind = "entry"
          /\ v.intents[j].req.id.day = v.intents[k].req.id.day
          => j = k

\* Inventory and what may still come to it stay within the frozen quantity.
Contained(db, v) ==
    /\ Exposed(db, v, MaxQty)
    /\ \A j, k \in DOMAIN v.intents : Live(db, v, j) /\ Live(db, v, k) => j = k

Agree(db, v) ==
    /\ db \in SimLedger /\ v \in WorkerLedger /\ Sound(db) /\ Booked(db)
    /\ Ordered(db, v) /\ Observes(db, v) /\ Planned(v) /\ Contained(db, v)

(* Empty ledgers agree.                                                    *)
LEMMA EmptyAgree == Agree(EmptySim, EmptyWorker)
<1>1. EmptyWorker \in WorkerLedger
  BY DEF EmptyWorker, WorkerLedger
<1>2. EmptySim \in SimLedger /\ Sound(EmptySim) /\ Booked(EmptySim)
  BY EmptySimSound, EmptyBooked
<1>3. /\ DOMAIN EmptySim.orders = {} /\ EmptySim.lots = {} /\ EmptySim.fills = <<>>
      /\ EmptySim.bars = {}
  BY DEF EmptySim
<1>4. DOMAIN EmptyWorker.intents = {} /\ EmptyWorker.fills = <<>> /\ EmptyWorker.bars = {}
  BY DEF EmptyWorker
<1>5. Cardinality({}) <= MaxQty
  BY FS_EmptySet, MaxQtyAssumption
<1>6. Ordered(EmptySim, EmptyWorker) /\ Planned(EmptyWorker)
  BY <1>3, <1>4 DEF Ordered, Planned
<1>7. Observes(EmptySim, EmptyWorker)
  BY <1>3, <1>4 DEF Observes
<1>8. Contained(EmptySim, EmptyWorker)
  BY <1>3, <1>4, <1>5 DEF Contained, Exposed
<1> QED
  BY <1>1, <1>2, <1>6, <1>7, <1>8 DEF Agree

(***************************************************************************)
(* Changes of the worker's ledger that commit no intent                    *)
(***************************************************************************)

(* Intents of a day and kind are the same ones under the same requests.    *)
LEMMA SameEarlier ==
    ASSUME NEW v \in WorkerLedger, NEW u \in WorkerLedger, SameIntents(v, u)
    PROVE  \A day, kind : Earlier(u, day, kind) = Earlier(v, day, kind)
<1>1. DOMAIN u.intents = DOMAIN v.intents
  BY WorkerFields DEF SameIntents
<1> QED
  BY <1>1 DEF Earlier, SameIntents

LEMMA SameRequestsAgree ==
    ASSUME NEW db, NEW v, Agree(db, v),
           NEW u \in WorkerLedger, SameIntents(v, u), u.bars = v.bars,
           \A k \in DOMAIN u.intents : u.intents[k].state # "pending" => k \in DOMAIN db.orders,
           Len(u.fills) <= Len(db.fills),
           \A k \in DOMAIN u.fills : u.fills[k] = db.fills[k]
    PROVE  Agree(db, u)
<1>1. v \in WorkerLedger /\ db \in SimLedger
  BY DEF Agree
<1>2. DOMAIN u.intents = DOMAIN v.intents /\ \A k \in DOMAIN v.intents : u.intents[k].req = v.intents[k].req
  BY <1>1, WorkerFields DEF SameIntents
<1>3. Ordered(db, u)
  BY <1>2 DEF Ordered, Agree
<1>4. Observes(db, u)
  BY DEF Observes, Agree
<1>5. Planned(u)
  BY <1>1, <1>2, SameEarlier DEF Planned, Agree
<1>6. Exposed(db, u, MaxQty)
  BY <1>1, SameRequestsExposed DEF Contained, Agree
<1>7. \A k \in DOMAIN u.intents : Live(db, u, k) => Live(db, v, k)
  BY <1>2 DEF Live
<1>8. Contained(db, u)
  BY <1>2, <1>6, <1>7 DEF Contained, Agree
<1> QED
  BY <1>3, <1>4, <1>5, <1>8 DEF Agree

(* No check of reconcile fails.                                            *)
LEMMA NoAlarm ==
    ASSUME NEW db, NEW v, Agree(db, v)
    PROVE  ReconcileError(v, db) = "none"
<1>1. \A i \in DOMAIN db.orders : HasIntent(v, db.orders[i].req.id)
  BY DEF Agree, Ordered, HasIntent
<1>2. \A i \in DOMAIN db.orders, j \in DOMAIN v.intents :
         db.orders[i].req.id = v.intents[j].req.id => db.orders[i].req = v.intents[j].req
  BY DEF Agree, Ordered
<1>3. \A j \in DOMAIN v.intents :
         v.intents[j].state # "pending" => Known(db, v.intents[j].req.id)
  BY DEF Agree, Ordered, Known
<1>4. \A i \in DOMAIN db.fills : HasIntent(v, db.fills[i].order)
  BY <1>1 DEF Agree, Sound, Known
<1>5. \A i \in DOMAIN db.fills : i \in DOMAIN v.fills => v.fills[i] = db.fills[i]
  BY DEF Agree, Observes
<1>6. Position(db.fills) = SimPosition(db)
  BY DEF Agree, Booked, Balanced
<1> QED
  BY <1>1, <1>2, <1>3, <1>4, <1>5, <1>6 DEF ReconcileError

(* What is known to the broker is one of its orders.                       *)
LEMMA KnownOrder ==
    ASSUME NEW db, NEW v, Agree(db, v), NEW k \in DOMAIN v.intents
    PROVE  Known(db, v.intents[k].req.id) <=> k \in DOMAIN db.orders
BY DEF Agree, Ordered, Known

(* Reconciliation keeps the agreement and leaves the worker with exactly   *)
(* the broker's fills.                                                     *)
LEMMA ReconciledAgree ==
    ASSUME NEW db, NEW v, Agree(db, v), NEW u, Reconciled(v, db) = u
    PROVE  /\ Agree(db, u) /\ SameIntents(v, u)
           /\ u.fills = db.fills /\ u.bars = v.bars
           /\ u.halted = v.halted /\ u.riskHalted = v.riskHalted
           /\ \A k \in DOMAIN v.intents : u.intents[k] = Answered(v.intents[k], db)
<1>1. v \in WorkerLedger /\ db \in SimLedger
  BY DEF Agree
<1>2. /\ u \in WorkerLedger /\ SameIntents(v, u) /\ u.bars = v.bars
      /\ u.fills = IF Len(db.fills) >= Len(v.fills) THEN db.fills ELSE v.fills
      /\ \A j \in DOMAIN v.intents : u.intents[j] = Answered(v.intents[j], db)
  BY <1>1, ReconciledKeeps
<1>3. u.halted = v.halted /\ u.riskHalted = v.riskHalted
  BY DEF Reconciled
<1>4. u.fills = db.fills
  BY <1>1, <1>2, LedgerFields, WorkerFields DEF Agree, Observes
<1>5. DOMAIN u.intents = DOMAIN v.intents
  BY <1>1, <1>2, WorkerFields DEF SameIntents
<1>6. \A k \in DOMAIN u.intents : u.intents[k].state # "pending" => k \in DOMAIN db.orders
  <2> SUFFICES ASSUME NEW k \in DOMAIN v.intents, k \notin DOMAIN db.orders
               PROVE  u.intents[k].state = "pending"
    BY <1>5
  <2>1. v.intents[k].state = "pending" /\ v.intents[k] \in Intent
    BY <1>1, WorkerFields DEF Agree, Ordered
  <2>2. ~Known(db, v.intents[k].req.id)
    BY KnownOrder
  <2> QED
    BY <1>1, <1>2, <2>1, <2>2, AnsweredKeeps
<1>7. Len(u.fills) <= Len(db.fills) /\ \A k \in DOMAIN u.fills : u.fills[k] = db.fills[k]
  BY <1>1, <1>4, LedgerFields
<1>8. Agree(db, u)
  BY <1>2, <1>6, <1>7, SameRequestsAgree
<1> QED
  BY <1>2, <1>3, <1>4, <1>8

(* So does the acknowledgement of an order the broker has.                 *)
LEMMA AcknowledgedAgree ==
    ASSUME NEW db, NEW v, Agree(db, v), NEW i \in DOMAIN v.intents,
           NEW u, Acknowledged(v, i, db) = u
    PROVE  /\ Agree(db, u) /\ SameIntents(v, u) /\ u.fills = v.fills /\ u.bars = v.bars
           /\ u.halted = v.halted /\ u.riskHalted = v.riskHalted
           /\ u.intents[i] = Answered(v.intents[i], db)
           /\ \A j \in DOMAIN v.intents \ {i} : u.intents[j] = v.intents[j]
<1>1. v \in WorkerLedger /\ db \in SimLedger
  BY DEF Agree
<1>2. /\ u \in WorkerLedger /\ SameIntents(v, u) /\ u.fills = v.fills /\ u.bars = v.bars
      /\ u.intents[i] = Answered(v.intents[i], db)
      /\ \A j \in DOMAIN v.intents \ {i} : u.intents[j] = v.intents[j]
  BY <1>1, AcknowledgedKeeps
<1>3. u.halted = v.halted /\ u.riskHalted = v.riskHalted
  BY DEF Acknowledged, WithIntents
<1>5. DOMAIN u.intents = DOMAIN v.intents
  BY <1>1, <1>2, WorkerFields DEF SameIntents
<1>6. \A k \in DOMAIN u.intents : u.intents[k].state # "pending" => k \in DOMAIN db.orders
  <2> SUFFICES ASSUME NEW k \in DOMAIN v.intents, k \notin DOMAIN db.orders
               PROVE  u.intents[k].state = "pending"
    BY <1>5
  <2>1. v.intents[k].state = "pending" /\ v.intents[k] \in Intent
    BY <1>1, WorkerFields DEF Agree, Ordered
  <2>2. ~Known(db, v.intents[k].req.id)
    BY KnownOrder
  <2>3. Answered(v.intents[k], db) = v.intents[k]
    BY <1>1, <2>1, <2>2, AnsweredKeeps
  <2> QED
    BY <1>2, <2>1, <2>3
<1>7. Len(u.fills) <= Len(db.fills) /\ \A k \in DOMAIN u.fills : u.fills[k] = db.fills[k]
  BY <1>2 DEF Agree, Observes
<1>8. Agree(db, u)
  BY <1>2, <1>6, <1>7, SameRequestsAgree
<1> QED
  BY <1>2, <1>3, <1>8

(* A halt changes neither intents nor fills.                               *)
LEMMA SameRowsAgree ==
    ASSUME NEW db, NEW v, Agree(db, v), NEW u \in WorkerLedger,
           u.intents = v.intents, u.fills = v.fills, u.bars = v.bars
    PROVE  Agree(db, u) /\ SameIntents(v, u)
<1>1. SameIntents(v, u)
  BY DEF SameIntents
<1>2. \A k \in DOMAIN u.intents : u.intents[k].state # "pending" => k \in DOMAIN db.orders
  BY DEF Agree, Ordered
<1>3. Len(u.fills) <= Len(db.fills) /\ \A k \in DOMAIN u.fills : u.fills[k] = db.fills[k]
  BY DEF Agree, Observes
<1>4. Agree(db, u)
  <2>1. v \in WorkerLedger
    BY DEF Agree
  <2> QED
    BY <1>1, <1>2, <1>3, <2>1, SameRequestsAgree
<1> QED
  BY <1>1, <1>4

(***************************************************************************)
(* Changes of the broker's ledger                                          *)
(***************************************************************************)

(* What the broker has ended or a bar has expired does not come back.      *)
LEMMA LiveShrinks ==
    ASSUME NEW db \in SimLedger, NEW r \in SimLedger, Extends(db, r), db.bars \subseteq r.bars,
           NEW v, NEW k, Live(r, v, k)
    PROVE  Live(db, v, k)
<1>1. Fresh(db, v.intents[k].req)
  BY DEF Live, Fresh
<1>2. ASSUME k \in DOMAIN db.orders PROVE db.orders[k].state \in Active
  <2>1. k \in DOMAIN r.orders /\ r.orders[k].state \in Active
    BY <1>2, LedgerFields DEF Live, Extends
  <2>2. db.orders[k] \in Order
    BY <1>2, LedgerFields
  <2> QED
    BY <1>2, <2>1, <2>2 DEF Extends, Order, Active, Final
<1> QED
  BY <1>1, <1>2 DEF Live

LEMMA BrokerAgree ==
    ASSUME NEW db, NEW v, Agree(db, v),
           NEW r \in SimLedger, Sound(r), Booked(r), Extends(db, r), db.bars \subseteq r.bars,
           \A k \in DOMAIN r.orders \ DOMAIN db.orders :
              k \in DOMAIN v.intents /\ r.orders[k].req = v.intents[k].req,
           Exposed(r, v, MaxQty)
    PROVE  Agree(r, v)
<1>1. db \in SimLedger /\ v \in WorkerLedger
  BY DEF Agree
<1>2. DOMAIN db.orders \subseteq DOMAIN r.orders /\ DOMAIN db.fills \subseteq DOMAIN r.fills
      /\ Len(db.fills) \in Nat /\ Len(r.fills) \in Nat /\ Len(v.fills) \in Nat
  BY <1>1, LedgerFields, WorkerFields DEF Extends
<1>3. Ordered(r, v)
  BY <1>2 DEF Agree, Ordered, Extends
<1>4. Observes(r, v)
  <2>1. \A k \in DOMAIN v.fills : k \in DOMAIN db.fills
    BY <1>1, LedgerFields, WorkerFields DEF Agree, Observes
  <2>2. Len(v.fills) <= Len(r.fills)
    BY <1>2 DEF Agree, Observes, Extends
  <2> QED
    BY <2>1, <2>2 DEF Agree, Observes, Extends
<1>5. \A k : Live(r, v, k) => Live(db, v, k)
  BY <1>1, LiveShrinks
<1>6. Contained(r, v)
  BY <1>5 DEF Agree, Contained
<1> QED
  BY <1>1, <1>3, <1>4, <1>6 DEF Agree

(* The intent that dispatch takes next is one the broker has or the one    *)
(* after all it has, and the broker does not refuse it.                    *)
LEMMA NextIntent ==
    ASSUME NEW db, NEW v, Agree(db, v), NEW i \in Pending(v), \A j \in Pending(v) : i <= j
    PROVE  /\ ~Refused(db, v.intents[i].req)
           /\ i \notin DOMAIN db.orders => i = Len(db.orders) + 1
<1> DEFINE req == v.intents[i].req
<1>1. db \in SimLedger /\ v \in WorkerLedger /\ i \in DOMAIN v.intents
  BY DEF Agree, Pending
<1>2. req \in Request
  BY <1>1, WorkerFields DEF Intent
<1>3. req.qty <= MaxQty /\ req.submitted + Latency <= req.eligible
  BY <1>1 DEF Agree, Planned
<1>4. ~(req.qty > MaxQty) /\ ~(req.eligible <= req.submitted)
  <2>1. req.qty \in Nat /\ req.submitted \in Nat /\ req.eligible \in Nat
        /\ Latency \in Nat \ {0} /\ MaxQty \in Nat
    BY <1>2, SessionAssumption, MaxQtyAssumption DEF Request
  <2> HIDE DEF req
  <2> QED
    BY <1>3, <2>1
<1>5. \A k \in DOMAIN db.orders : db.orders[k].req.id = req.id => db.orders[k].req = req
  BY <1>1 DEF Agree, Ordered
<1>6. ~Refused(db, req)
  BY <1>4, <1>5 DEF Refused
<1>7. ASSUME i \notin DOMAIN db.orders PROVE i = Len(db.orders) + 1
  <2> DEFINE n == Len(db.orders) + 1
  <2>1. /\ DOMAIN db.orders = 1..Len(db.orders) /\ Len(db.orders) \in Nat
        /\ DOMAIN v.intents = 1..Len(v.intents) /\ Len(v.intents) \in Nat
    BY <1>1, LedgerFields, WorkerFields
  <2>2. n <= i /\ n \in DOMAIN v.intents /\ n \notin DOMAIN db.orders
    BY <1>1, <1>7, <2>1
  <2>3. n \in Pending(v)
    BY <2>2 DEF Pending, Agree, Ordered
  <2> QED
    BY <1>1, <2>1, <2>2, <2>3
<1> QED
  BY <1>6, <1>7

\* r is db with order i, that of intent i.
Takes(db, v, i, r) ==
    /\ Agree(r, v) /\ Extends(db, r) /\ r.bars = db.bars /\ r.fills = db.fills
    /\ r.lots = db.lots /\ i \in DOMAIN r.orders
    /\ DOMAIN r.orders \subseteq DOMAIN db.orders \cup {i}
    /\ \A k \in DOMAIN db.orders : r.orders[k] = db.orders[k]

(* Submitting it keeps the agreement.                                      *)
LEMMA SubmittedAgree ==
    ASSUME NEW db, NEW v, Agree(db, v), NEW i \in Pending(v), \A j \in Pending(v) : i <= j,
           NEW r, Submit(db, v.intents[i].req, FALSE) = r
    PROVE  Takes(db, v, i, r)
<1> SUFFICES /\ Agree(r, v) /\ Extends(db, r) /\ r.bars = db.bars /\ r.fills = db.fills
             /\ r.lots = db.lots /\ i \in DOMAIN r.orders
             /\ DOMAIN r.orders \subseteq DOMAIN db.orders \cup {i}
             /\ \A k \in DOMAIN db.orders : r.orders[k] = db.orders[k]
  BY DEF Takes
<1> DEFINE req == v.intents[i].req
<1>1. db \in SimLedger /\ v \in WorkerLedger /\ i \in DOMAIN v.intents /\ Sound(db) /\ Booked(db)
  BY DEF Agree, Pending
<1>2. req \in Request
  BY <1>1, WorkerFields DEF Intent
<1>3. Known(db, req.id) <=> i \in DOMAIN db.orders
  BY <1>1, KnownOrder
<1>4. CASE i \in DOMAIN db.orders
  <2>1. r = db
    BY <1>3, <1>4 DEF Submit
  <2>2. Extends(db, db)
    BY <1>1, ExtendsReflexive
  <2> QED
    BY <1>4, <2>1, <2>2
<1>5. CASE i \notin DOMAIN db.orders
  <2>1. i = Len(db.orders) + 1
    BY <1>5, NextIntent
  <2>2. ~Known(db, req.id)
    BY <1>3, <1>5
  <2>3. r.bars = db.bars /\ r.lots = db.lots
    BY <1>1, <2>2 DEF Submit, SimLedger
  <2> HIDE DEF req
  <2>4. Submit(db, req, FALSE) = r
    BY DEF req
  <2>5. /\ r \in SimLedger /\ Sound(r) /\ Extends(db, r)
        /\ Len(r.orders) = Len(db.orders) + 1
        /\ r.orders[Len(r.orders)].req = req
        /\ \A k \in DOMAIN db.orders : r.orders[k] = db.orders[k]
        /\ r.fills = db.fills
    <3> DEFINE After(q) == /\ q \in SimLedger /\ Sound(q) /\ Extends(db, q)
                           /\ Len(q.orders) = Len(db.orders) + 1
                           /\ q.orders[Len(q.orders)].req = req
                           /\ \A k \in DOMAIN db.orders : q.orders[k] = db.orders[k]
                           /\ q.fills = db.fills
    <3>0. ASSUME NEW reject PROVE After(Submit(db, req, reject))
      BY <1>1, <1>2, <2>2, SubmitKeeps
    <3>1. After(Submit(db, req, FALSE))
      BY <3>0
    <3> QED
      BY <2>4, <3>1
  <2>6. req.qty <= MaxQty /\ (req.id.kind = "entry" => req.qty = MaxQty)
    BY <1>1 DEF Agree, Planned, req
  <2>7. Booked(r)
    BY <1>1, <1>2, <2>2, <2>4, <2>6, SubmitBooked
  <2>8. MaxQty \in Nat /\ Exposed(db, v, MaxQty)
    BY MaxQtyAssumption DEF Agree, Contained
  <2>9. Exposed(r, v, MaxQty)
    <3>1. Exposed(Submit(db, v.intents[i].req, FALSE), v, MaxQty)
      BY <1>1, <2>1, <2>2, <2>6, <2>8, SubmitExposed DEF req
    <3> QED
      BY <3>1
  <2>10. DOMAIN r.orders = DOMAIN db.orders \cup {i} /\ r.orders[i].req = req
    BY <1>1, <2>1, <2>5, LedgerFields
  <2>11. \A k \in DOMAIN r.orders \ DOMAIN db.orders :
            k \in DOMAIN v.intents /\ r.orders[k].req = v.intents[k].req
    BY <1>1, <2>10 DEF req
  <2>12. Agree(r, v)
    BY <2>3, <2>5, <2>7, <2>9, <2>11, BrokerAgree
  <2> QED
    BY <2>3, <2>5, <2>10, <2>12
<1> QED
  BY <1>4, <1>5

(* Cancelling the entries reduces what may still come.                     *)
LEMMA CancelledAgree ==
    ASSUME NEW db, NEW v, Agree(db, v), NEW r, EntriesCancelled(db) = r
    PROVE  /\ Agree(r, v) /\ Extends(db, r)
           /\ r.bars = db.bars /\ r.fills = db.fills /\ r.lots = db.lots
           /\ DOMAIN r.orders = DOMAIN db.orders
           /\ \A k \in DOMAIN v.intents : Live(r, v, k) => k \notin DOMAIN r.orders
<1> DEFINE o(k) == IF k \in ActiveOrders(db) /\ db.orders[k].req.id.kind = "entry"
                   THEN Became(db.orders[k], "cancelled", db.orders[k].filled)
                   ELSE db.orders[k]
<1>1. db \in SimLedger /\ v \in WorkerLedger /\ Sound(db) /\ Booked(db)
  BY DEF Agree
<1>2. /\ r.bars = db.bars /\ r.fills = db.fills /\ r.lots = db.lots
      /\ r.orders = [k \in DOMAIN db.orders |-> o(k)]
      /\ r = [orders |-> r.orders, bars |-> r.bars, fills |-> r.fills, lots |-> r.lots]
  BY DEF EntriesCancelled
<1>3. \A k \in DOMAIN db.orders : db.orders[k] \in Order /\ ValidLifecycle(db.orders[k])
  BY <1>1, LedgerFields DEF Sound
<1>4. \A k \in DOMAIN db.orders :
         /\ o(k) \in Order /\ ValidLifecycle(o(k))
         /\ o(k).req = db.orders[k].req /\ o(k).filled = db.orders[k].filled
         /\ db.orders[k].state \in Final => o(k) = db.orders[k] /\ o(k).state \in Final
         /\ o(k).state \in Active => o(k).req.id.kind # "entry"
  <2> SUFFICES ASSUME NEW k \in DOMAIN db.orders
               PROVE  /\ o(k) \in Order /\ ValidLifecycle(o(k))
                      /\ o(k).req = db.orders[k].req /\ o(k).filled = db.orders[k].filled
                      /\ db.orders[k].state \in Final => o(k) = db.orders[k] /\ o(k).state \in Final
                      /\ o(k).state \in Active => o(k).req.id.kind # "entry"
    OBVIOUS
  <2>1. db.orders[k] \in Order /\ ValidLifecycle(db.orders[k])
    BY <1>3
  <2>2. CASE k \in ActiveOrders(db) /\ db.orders[k].req.id.kind = "entry"
    <3>1. o(k) = [req |-> db.orders[k].req, state |-> "cancelled", filled |-> db.orders[k].filled]
      BY <2>2 DEF Became
    <3>2. db.orders[k].state \in Active
      BY <2>2 DEF ActiveOrders
    <3>3. db.orders[k].filled \in Nat /\ db.orders[k].req.qty \in Nat \ {0}
      BY <2>1 DEF Order, Request
    <3>4. db.orders[k].filled < db.orders[k].req.qty
      BY <2>1, <3>2, <3>3 DEF ValidLifecycle, Active
    <3>5. o(k) \in Order /\ ValidLifecycle(o(k))
      BY <2>1, <3>1, <3>4, SMTT(30) DEF Order, Final, ValidLifecycle
    <3> QED
      BY <3>1, <3>2, <3>5, SMTT(30) DEF Active, Final
  <2>3. CASE ~(k \in ActiveOrders(db) /\ db.orders[k].req.id.kind = "entry")
    <3>1. o(k) = db.orders[k]
      BY <2>3
    <3> QED
      BY <2>1, <2>3, <3>1 DEF ActiveOrders
  <2> QED
    BY <2>2, <2>3
<1> HIDE DEF o
<1>5. r.orders \in Seq(Order) /\ Len(r.orders) = Len(db.orders) /\ DOMAIN r.orders = DOMAIN db.orders
      /\ \A k \in DOMAIN db.orders : r.orders[k] = o(k)
  <2>1. DOMAIN db.orders = 1..Len(db.orders) /\ Len(db.orders) \in Nat
    BY <1>1, LedgerFields
  <2>2. r.orders \in [1..Len(db.orders) -> Order]
    BY <1>2, <1>4, <2>1
  <2> QED
    BY <1>2, <2>1, <2>2, SeqDef, LenProperties
<1>6. r \in SimLedger
  BY <1>1, <1>2, <1>5 DEF SimLedger
<1>7. Follows(db, r)
  <2>1. \A k \in DOMAIN db.orders :
           /\ r.orders[k].req = db.orders[k].req
           /\ db.orders[k].filled <= r.orders[k].filled
           /\ ValidLifecycle(r.orders[k])
           /\ db.orders[k].state \in Final => r.orders[k] = db.orders[k]
    BY <1>1, <1>4, <1>5, LedgerFields
  <2>2. /\ Len(db.fills) <= Len(r.fills) /\ \A k \in DOMAIN db.fills : r.fills[k] = db.fills[k]
        /\ \A k \in DOMAIN r.fills \ DOMAIN db.fills : Known(db, r.fills[k].order)
        /\ IsFiniteSet(r.lots) /\ \A u \in r.lots : Known(db, u.parent)
    BY <1>1, <1>2, LedgerFields DEF Sound
  <2> QED
    BY <1>1, <1>5, <1>6, <2>1, <2>2, UpdateFollows
<1>8. Booked(r)
  <2>1. \A k \in DOMAIN db.orders :
           /\ r.orders[k].req = db.orders[k].req
           /\ r.orders[k].filled = db.orders[k].filled
           /\ db.orders[k].state \in Final => r.orders[k].state \in Final
    BY <1>4, <1>5
  <2>2. DOMAIN r.orders \ DOMAIN db.orders = {}
    BY <1>5
  <2> QED
    BY <1>1, <1>2, <1>5, <1>6, <2>1, <2>2, OrdersChangeBooked
<1>9. Exposed(r, v, MaxQty)
  BY <1>1, <1>2, <1>7, ShrinkExposed, MaxQtyAssumption DEF Agree, Contained
<1>10. Agree(r, v)
  BY <1>2, <1>5, <1>6, <1>7, <1>8, <1>9, BrokerAgree DEF Follows
<1>11. \A k \in DOMAIN v.intents : Live(r, v, k) => k \notin DOMAIN r.orders
  <2> SUFFICES ASSUME NEW k \in DOMAIN v.intents, Live(r, v, k), k \in DOMAIN r.orders
               PROVE  FALSE
    OBVIOUS
  <2>1. r.orders[k].state \in Active /\ v.intents[k].req.id.kind = "entry"
    BY DEF Live, Fresh
  <2>2. r.orders[k].req = v.intents[k].req
    BY <1>10 DEF Agree, Ordered
  <2> QED
    BY <1>4, <1>5, <2>1, <2>2
<1> QED
  BY <1>2, <1>5, <1>7, <1>10, <1>11 DEF Follows

(***************************************************************************)
(* Advance: the active orders in order, then the stops                     *)
(***************************************************************************)

(* Induction over the natural numbers up to N, for a set instead of a      *)
(* predicate.                                                              *)
LEMMA UpTo ==
    ASSUME NEW N \in Nat, NEW S, 0 \in S, \A n \in 1..N : n - 1 \in S => n \in S
    PROVE  \A n \in 0..N : n \in S
<1> DEFINE Less == {ss \in Nat \X Nat : ss[1] < ss[2]}
           Missing == (0..N) \ S
<1>1. IsWellFoundedOn(Less, Nat)
  BY NatLessThanWellFounded DEF OpToRel
<1>2. SUFFICES ASSUME Missing # {} PROVE FALSE
  OBVIOUS
<1>3. Missing \subseteq Nat
  OBVIOUS
<1> HIDE DEF Less
<1>4. PICK x \in Missing : \A y \in Missing : ~ (<<y, x>> \in Less)
  BY <1>1, <1>2, <1>3, WFMin
<1>5. x \in 1..N /\ x - 1 \in 0..N
  OBVIOUS
<1>6. x - 1 \in Missing
  BY <1>5
<1>7. <<x - 1, x>> \in Less
  BY <1>5 DEF Less
<1> QED
  BY <1>4, <1>6, <1>7

\* The loops of advance as functions of how far they have come.
WorkedFrom(f, db, b, n) ==
    IF n = 0 THEN InsertBar(db, b)
    ELSE IF n \in ActiveOrders(db) THEN WorkOrder(f[n-1], n, b, MaxQty) ELSE f[n-1]
StoppedFrom(g, db, lots, b, n) ==
    IF n = 0 THEN db ELSE IF n \in lots THEN StopLot(g[n-1], n, b) ELSE g[n-1]

LEMMA WorkedExists ==
    ASSUME NEW db, NEW b, NEW N \in Nat
    PROVE  \E f : f = [n \in 0..N |-> WorkedFrom(f, db, b, n)]
<1> DEFINE Upto(f, m) == f = [n \in 0..m |-> WorkedFrom(f, db, b, n)]
           Reached == {m \in Nat : \E f : Upto(f, m)}
<1>1. 0 \in Reached
  <2> DEFINE f == [n \in 0..0 |-> InsertBar(db, b)]
  <2>1. Upto(f, 0)
    BY DEF WorkedFrom
  <2> QED
    BY <2>1
<1>2. ASSUME NEW m \in 1..N, m - 1 \in Reached PROVE m \in Reached
  <2>0. PICK f : Upto(f, m - 1)
    BY <1>2
  <2> DEFINE g == [n \in 0..m |-> WorkedFrom(f, db, b, n)]
  <2>1. \A n \in 0..(m - 1) : n \in 0..m /\ f[n] = g[n]
    BY <2>0
  <2>2. \A n \in 0..m : n # 0 => n - 1 \in 0..(m - 1)
    OBVIOUS
  <2>3. \A n \in 0..m : WorkedFrom(f, db, b, n) = WorkedFrom(g, db, b, n)
    <3> HIDE DEF g, Upto
    <3> QED
      BY <2>1, <2>2 DEF WorkedFrom
  <2>4. Upto(g, m)
    BY <2>3
  <2>5. \E h : Upto(h, m)
    BY <2>4
  <2> HIDE DEF Upto
  <2> QED
    BY <2>5
<1> HIDE DEF Reached
<1>3. N \in Reached
  BY <1>1, <1>2, UpTo
<1> QED
  BY <1>3 DEF Reached

LEMMA StoppedExists ==
    ASSUME NEW db, NEW lots, NEW b, NEW N \in Nat
    PROVE  \E g : g = [n \in 0..N |-> StoppedFrom(g, db, lots, b, n)]
<1> DEFINE Upto(f, m) == f = [n \in 0..m |-> StoppedFrom(f, db, lots, b, n)]
           Reached == {m \in Nat : \E f : Upto(f, m)}
<1>1. 0 \in Reached
  <2> DEFINE f == [n \in 0..0 |-> db]
  <2>1. Upto(f, 0)
    BY DEF StoppedFrom
  <2> QED
    BY <2>1
<1>2. ASSUME NEW m \in 1..N, m - 1 \in Reached PROVE m \in Reached
  <2>0. PICK f : Upto(f, m - 1)
    BY <1>2
  <2> DEFINE g == [n \in 0..m |-> StoppedFrom(f, db, lots, b, n)]
  <2>1. \A n \in 0..(m - 1) : n \in 0..m /\ f[n] = g[n]
    BY <2>0
  <2>2. \A n \in 0..m : n # 0 => n - 1 \in 0..(m - 1)
    OBVIOUS
  <2>3. \A n \in 0..m : StoppedFrom(f, db, lots, b, n) = StoppedFrom(g, db, lots, b, n)
    <3> HIDE DEF g, Upto
    <3> QED
      BY <2>1, <2>2 DEF StoppedFrom
  <2>4. Upto(g, m)
    BY <2>3
  <2>5. \E h : Upto(h, m)
    BY <2>4
  <2> HIDE DEF Upto
  <2> QED
    BY <2>5
<1> HIDE DEF Reached
<1>3. N \in Reached
  BY <1>1, <1>2, UpTo
<1> QED
  BY <1>3 DEF Reached

(* What the loops return is what such a function gives their last step.    *)
LEMMA WorkedDef ==
    ASSUME NEW db, NEW b, Len(db.orders) \in Nat
    PROVE  \E f : /\ f = [n \in 0..Len(db.orders) |-> WorkedFrom(f, db, b, n)]
                  /\ Worked(db, b) = f[Len(db.orders)]
<1>1. \E f : f = [n \in 0..Len(db.orders) |-> WorkedFrom(f, db, b, n)]
  BY WorkedExists
<1> QED
  BY <1>1 DEF Worked, WorkedFrom

LEMMA StoppedDef ==
    ASSUME NEW db, NEW lots, NEW b, Len(db.fills) \in Nat
    PROVE  \E g : /\ g = [n \in 0..Len(db.fills) |-> StoppedFrom(g, db, lots, b, n)]
                  /\ Stopped(db, lots, b) = g[Len(db.fills)]
<1>1. \E g : g = [n \in 0..Len(db.fills) |-> StoppedFrom(g, db, lots, b, n)]
  BY StoppedExists
<1> QED
  BY <1>1 DEF Stopped, StoppedFrom

(* What one iteration over the orders, or over the lots, writes.           *)
LEMMA WorkOrderWrites ==
    ASSUME NEW db \in SimLedger, Sound(db), NEW i \in ActiveOrders(db), NEW b \in Bar,
           NEW r, WorkOrder(db, i, b, MaxQty) = r
    PROVE  /\ r.bars = db.bars
           /\ \A k \in DOMAIN r.fills \ DOMAIN db.fills :
                 r.fills[k].ts = b.ts /\ r.fills[k].order = db.orders[i].req.id
<1> DEFINE o == db.orders[i]
           qty == Fillable(db, o, MaxQty)
<1>1. /\ o \in Order /\ b.ts \in Nat /\ o.req.expires \in Nat /\ o.req.eligible \in Nat
  BY LedgerFields DEF ActiveOrders, Order, Request, Bar
<1>2. \/ r = db \/ \E state : r = SetState(db, i, state)
      \/ \E lots : r = FillOrder(db, i, qty, b, lots)
  <2>1. CASE b.ts >= o.req.expires
    BY <1>1, <2>1 DEF WorkOrder
  <2>2. CASE b.ts < o.req.expires /\ (b.ts < o.req.eligible \/ ~b.volume)
    BY <1>1, <2>2 DEF WorkOrder
  <2>3. CASE b.ts < o.req.expires /\ ~(b.ts < o.req.eligible \/ ~b.volume)
    <3>1. r = IF o.req.id.kind = "entry" THEN Entered(db, i, qty, b)
              ELSE IF qty = 0 THEN SetState(db, i, "cancelled")
              ELSE Exited(db, i, qty, b)
      BY <1>1, <2>3 DEF WorkOrder
    <3> HIDE DEF qty
    <3> QED
      BY <3>1 DEF Entered, Exited
  <2> QED
    BY <1>1, <2>1, <2>2, <2>3
<1> HIDE DEF qty
<1>3. CASE r = db
  BY <1>3
<1>4. CASE \E state : r = SetState(db, i, state)
  BY <1>4 DEF SetState
<1>5. ASSUME NEW lots, r = FillOrder(db, i, qty, b, lots)
      PROVE  /\ r.bars = db.bars
             /\ \A k \in DOMAIN r.fills \ DOMAIN db.fills :
                   r.fills[k].ts = b.ts /\ r.fills[k].order = o.req.id
  <2> DEFINE f == [order |-> o.req.id, side |-> o.req.side, qty |-> qty,
                   ts |-> b.ts, reason |-> o.req.id.kind, lot |-> 0]
  <2>1. r.bars = db.bars /\ r.fills = Append(db.fills, f)
    BY <1>5 DEF FillOrder
  <2>2. f.ts = b.ts /\ f.order = o.req.id
    OBVIOUS
  <2> HIDE DEF f
  <2>3. db.fills \in Seq(Fill) /\ Len(db.fills) \in Nat /\ DOMAIN db.fills = 1..Len(db.fills)
    BY LedgerFields
  <2>4. DOMAIN r.fills = 1..(Len(db.fills) + 1) /\ r.fills[Len(db.fills) + 1] = f
    BY <2>1, <2>3
  <2> QED
    BY <2>1, <2>2, <2>3, <2>4
<1> QED
  BY <1>2, <1>3, <1>4, <1>5

LEMMA StopLotWrites ==
    ASSUME NEW db \in SimLedger, NEW l, NEW b \in Bar, NEW r, StopLot(db, l, b) = r
    PROVE  /\ r.bars = db.bars /\ r.lots \subseteq db.lots
           /\ \A k \in DOMAIN r.fills \ DOMAIN db.fills :
                 r.fills[k].ts = b.ts /\ r.fills[k].reason = "stop"
<1> DEFINE f == StopFill(l, {u \in db.lots : u.lot = l}, b)
<1>1. r.bars = db.bars /\ r.lots \subseteq db.lots /\ r.fills = Append(db.fills, f)
  BY DEF StopLot
<1>2. f.ts = b.ts /\ f.reason = "stop"
  BY DEF StopFill
<1> HIDE DEF f
<1>3. db.fills \in Seq(Fill) /\ Len(db.fills) \in Nat /\ DOMAIN db.fills = 1..Len(db.fills)
  BY LedgerFields
<1>4. DOMAIN r.fills = 1..(Len(db.fills) + 1) /\ r.fills[Len(db.fills) + 1] = f
  BY <1>1, <1>3
<1> QED
  BY <1>1, <1>2, <1>3, <1>4

\* The inventory of the last fill is there if it was an entry.
Carries(db) ==
    db.fills # <<>> /\ db.fills[Len(db.fills)].reason = "entry" => db.lots # {}

\* An entry is filled whole or not at all.
Unfilled(db) ==
    \A i \in ActiveOrders(db) : db.orders[i].req.id.kind = "entry" => db.orders[i].filled = 0

(* What an active order does on a bar.                                     *)
LEMMA WorkCases ==
    ASSUME NEW db \in SimLedger, Sound(db), NEW i \in ActiveOrders(db), NEW b \in Bar,
           NEW r, WorkOrder(db, i, b, MaxQty) = r, NEW o, db.orders[i] = o,
           NEW qty, Fillable(db, o, MaxQty) = qty
    PROVE  \/ r = db
           \/ r = SetState(db, i, "expired")
           \/ o.req.id.kind # "entry" /\ r = SetState(db, i, "cancelled")
           \/ b.ts < o.req.expires /\ o.req.id.kind = "entry" /\ r = Entered(db, i, qty, b)
           \/ o.req.id.kind # "entry" /\ qty # 0 /\ r = Exited(db, i, qty, b)
<1>1. /\ o \in Order /\ b.ts \in Nat /\ o.req.expires \in Nat /\ o.req.eligible \in Nat
  BY LedgerFields DEF ActiveOrders, Order, Request, Bar
<1>2. CASE b.ts >= o.req.expires
  BY <1>1, <1>2 DEF WorkOrder
<1>3. CASE b.ts < o.req.expires /\ (b.ts < o.req.eligible \/ ~b.volume)
  BY <1>1, <1>3 DEF WorkOrder
<1>4. CASE b.ts < o.req.expires /\ ~(b.ts < o.req.eligible \/ ~b.volume)
  <2>1. r = IF o.req.id.kind = "entry" THEN Entered(db, i, qty, b)
            ELSE IF qty = 0 THEN SetState(db, i, "cancelled")
            ELSE Exited(db, i, qty, b)
    BY <1>1, <1>4 DEF WorkOrder
  <2> QED
    BY <1>4, <2>1
<1> QED
  BY <1>1, <1>2, <1>3, <1>4

(* With no smaller cap than the frozen size, an order leaves the inventory *)
(* of an entry behind and no entry half filled.                            *)
LEMMA WorkOrderEven ==
    ASSUME NEW db \in SimLedger, Sound(db), Booked(db), NEW i \in ActiveOrders(db), NEW b \in Bar,
           NEW r, WorkOrder(db, i, b, MaxQty) = r
    PROVE  /\ Carries(db) => Carries(r)
           /\ Unfilled(db) => Unfilled(r)
<1>1. PICK o : db.orders[i] = o
  OBVIOUS
<1>2. PICK qty : Fillable(db, o, MaxQty) = qty
  OBVIOUS
<1>3. /\ o \in Order /\ o.filled \in Nat /\ o.req.qty \in Nat \ {0} /\ o.req.id \in Id
      /\ o.req \in Request /\ i \in DOMAIN db.orders /\ o.req.qty <= MaxQty /\ MaxQty \in Nat \ {0}
      /\ MaxQty \in Nat
  BY <1>1, LedgerFields, MaxQtyAssumption DEF ActiveOrders, Order, Request, Booked, Distinct
<1>4. /\ qty \in Nat /\ qty <= o.req.qty - o.filled /\ (o.req.id.kind = "entry" => qty # 0)
  <2>1. LET p == db.orders[i]
            n == Fillable(db, p, MaxQty)
        IN  n \in Nat /\ n <= p.req.qty - p.filled /\ (p.req.id.kind = "entry" => n # 0)
    BY <1>3, FillableBounds
  <2> QED
    BY <1>1, <1>2, <2>1
<1>5. CASE r = db
  BY <1>5
<1>6. ASSUME NEW state \in {"expired", "cancelled"}, r = SetState(db, i, state)
      PROVE  (Carries(db) => Carries(r)) /\ (Unfilled(db) => Unfilled(r))
  <2>1. /\ r.fills = db.fills /\ r.lots = db.lots
        /\ r.orders = [db.orders EXCEPT ![i] = Became(o, state, o.filled)]
    BY <1>1, <1>6 DEF SetState
  <2>2. Became(o, state, o.filled).state \notin Active
    BY DEF Became, Active
  <2>3. \A j \in ActiveOrders(r) : j \in ActiveOrders(db) /\ r.orders[j] = db.orders[j]
    BY <1>3, <2>1, <2>2 DEF ActiveOrders
  <2> QED
    BY <2>1, <2>3 DEF Carries, Unfilled
<1>7. ASSUME NEW lots, r = FillOrder(db, i, qty, b, lots), qty # 0,
             o.req.id.kind = "entry" => lots # {} /\ (o.filled = 0 => qty = o.req.qty)
      PROVE  (Carries(db) => Carries(r)) /\ (Unfilled(db) => Unfilled(r))
  <2> DEFINE f == [order |-> o.req.id, side |-> o.req.side, qty |-> qty,
                   ts |-> b.ts, reason |-> o.req.id.kind, lot |-> 0]
             state == IF o.filled + qty = o.req.qty THEN "filled" ELSE "partially_filled"
             c == Became(o, state, o.filled + qty)
  <2>1. /\ r.fills = Append(db.fills, f) /\ r.lots = lots
        /\ r.orders = [db.orders EXCEPT ![i] = c]
    BY <1>1, <1>7 DEF FillOrder
  <2>2. f.reason = o.req.id.kind /\ c.req = o.req
        /\ (o.filled = 0 /\ qty = o.req.qty => c.state = "filled")
    BY <1>3 DEF Became
  <2> HIDE DEF f, c
  <2>3. db.fills \in Seq(Fill) /\ Len(db.fills) \in Nat
    BY LedgerFields
  <2>4. Len(r.fills) = Len(db.fills) + 1 /\ r.fills[Len(db.fills) + 1] = f
    BY <2>1, <2>3
  <2>5. Carries(r)
    BY <1>7, <2>1, <2>2, <2>4 DEF Carries
  <2>6. ASSUME Unfilled(db), NEW j \in ActiveOrders(r), r.orders[j].req.id.kind = "entry"
        PROVE  r.orders[j].filled = 0
    <3>1. CASE j # i
      <4>1. j \in ActiveOrders(db) /\ r.orders[j] = db.orders[j]
        BY <2>1, <2>6, <3>1 DEF ActiveOrders
      <4> QED
        BY <2>6, <4>1 DEF Unfilled
    <3>2. CASE j = i
      <4>1. r.orders[i] = c
        BY <1>3, <2>1
      <4>2. o.req.id.kind = "entry" /\ o.filled = 0
        BY <1>1, <2>2, <2>6, <3>2, <4>1 DEF Unfilled
      <4>3. c.state = "filled"
        BY <1>7, <2>2, <4>2
      <4> QED
        BY <2>6, <3>2, <4>1, <4>3 DEF ActiveOrders, Active
    <3> QED
      BY <3>1, <3>2
  <2> QED
    BY <2>5, <2>6 DEF Unfilled
<1>8. CASE o.req.id.kind = "entry" /\ r = Entered(db, i, qty, b)
  <2>1. r = FillOrder(db, i, qty, b, OpenLot(db, o, qty))
    BY <1>1, <1>8 DEF Entered
  <2>2. OpenLot(db, o, qty) # {}
    <3>1. 1 \in 1..qty
      BY <1>4, <1>8
    <3> QED
      BY <3>1 DEF OpenLot
  <2>3. o.filled = 0 => qty = o.req.qty
    <3>1. qty = Least(o.req.qty - o.filled, MaxQty)
      BY <1>2, <1>8 DEF Fillable
    <3> QED
      BY <1>3, <3>1 DEF Least
  <2> QED
    BY <1>4, <1>7, <1>8, <2>1, <2>2, <2>3
<1>9. CASE o.req.id.kind # "entry" /\ qty # 0 /\ r = Exited(db, i, qty, b)
  BY <1>1, <1>7, <1>9 DEF Exited
<1> QED
  BY <1>1, <1>2, <1>5, <1>6, <1>8, <1>9, WorkCases

(* With an entry in force there is no inventory.                           *)
LEMMA NoLots ==
    ASSUME NEW db \in SimLedger, Sound(db), Unfilled(db), NEW v, Exposed(db, v, MaxQty),
           NEW k \in DOMAIN v.intents, Live(db, v, k), v.intents[k].req.qty = MaxQty,
           k \in DOMAIN db.orders => db.orders[k].req = v.intents[k].req
    PROVE  db.lots = {}
<1>1. CASE k \notin DOMAIN db.orders
  BY <1>1 DEF Live, Exposed
<1>2. CASE k \in DOMAIN db.orders
  <2>1. k \in ActiveOrders(db) /\ Fresh(db, v.intents[k].req)
    BY <1>2 DEF Live, ActiveOrders
  <2>2. db.orders[k].filled = 0 /\ db.orders[k].req.qty = MaxQty
    BY <1>2, <2>1 DEF Unfilled, Fresh
  <2>3. Cardinality(db.lots) + db.orders[k].req.qty - db.orders[k].filled <= MaxQty
    BY <1>2, <2>1 DEF Exposed, ActiveOrders
  <2>4. Cardinality(db.lots) \in Nat /\ MaxQty \in Nat
    BY FS_CardinalityType, MaxQtyAssumption DEF Sound
  <2>5. Cardinality(db.lots) = 0
    BY <2>2, <2>3, <2>4
  <2> QED
    BY <2>5, FS_EmptySet DEF Sound
<1> QED
  BY <1>1, <1>2

(* While an entry is in force, nothing else is filled: there is no         *)
(* inventory to reduce, and every other entry has expired.                 *)
LEMMA WorkOrderAlone ==
    ASSUME NEW db \in SimLedger, Sound(db), Booked(db), NEW i \in ActiveOrders(db), NEW b \in Bar,
           \A c \in db.bars : c.ts <= b.ts, Unfilled(db),
           NEW v \in WorkerLedger, Exposed(db, v, MaxQty), DOMAIN db.orders \subseteq DOMAIN v.intents,
           \A k \in DOMAIN db.orders : db.orders[k].req = v.intents[k].req,
           \A j, k \in DOMAIN v.intents : Live(db, v, j) /\ Live(db, v, k) => j = k,
           NEW r, WorkOrder(db, i, b, MaxQty) = r,
           NEW k \in DOMAIN v.intents, Live(r, v, k), v.intents[k].req.qty = MaxQty
    PROVE  r.fills = db.fills
<1>1. PICK o : db.orders[i] = o
  OBVIOUS
<1>2. PICK qty : Fillable(db, o, MaxQty) = qty
  OBVIOUS
<1>3. Follows(db, r) /\ db.bars = r.bars
  <2>1. MaxQty \in Nat \ {0}
    BY MaxQtyAssumption
  <2>2. LET q == WorkOrder(db, i, b, MaxQty) IN Follows(db, q)
    BY <2>1, WorkOrderFollows
  <2> QED
    BY <2>2, WorkOrderWrites
<1>4. Live(db, v, k) /\ r \in SimLedger
  BY <1>3, LiveShrinks DEF Follows
<1>5. db.lots = {}
  BY <1>4, NoLots
<1>6. CASE o.req.id.kind # "entry" /\ qty # 0 /\ r = Exited(db, i, qty, b)
  <2>1. Opposite(db, o.req.side) = {}
    BY <1>5 DEF Opposite
  <2>2. Cardinality(Opposite(db, o.req.side)) = 0
    BY <2>1, FS_EmptySet
  <2>3. qty = Least(Least(o.req.qty - o.filled, MaxQty), 0)
    BY <1>2, <1>6, <2>2 DEF Fillable
  <2>4. qty \in Nat
    <3>1. MaxQty \in Nat \ {0}
      BY MaxQtyAssumption
    <3>2. LET p == db.orders[i]
              n == Fillable(db, p, MaxQty)
          IN  n \in Nat
      BY <3>1, FillableBounds
    <3> QED
      BY <1>1, <1>2, <3>2
  <2>5. o.req.qty \in Nat /\ o.filled \in Nat /\ MaxQty \in Nat
    BY <1>1, LedgerFields, MaxQtyAssumption DEF ActiveOrders, Order, Request
  <2> QED
    BY <1>6, <2>3, <2>4, <2>5 DEF Least
<1>7. CASE b.ts < o.req.expires /\ o.req.id.kind = "entry" /\ r = Entered(db, i, qty, b)
  <2>1. /\ i \in DOMAIN v.intents /\ v.intents[i].req = o.req /\ i \in DOMAIN db.orders
        /\ o.state \in Active /\ o \in Order
    BY <1>1, LedgerFields DEF ActiveOrders
  <2>2. Fresh(db, v.intents[i].req)
    <3>1. \A c \in db.bars : c.ts \in Nat
      BY LedgerFields DEF Bar
    <3>2. b.ts \in Nat /\ o.req.expires \in Nat
      BY <2>1 DEF Bar, Order, Request
    <3> QED
      BY <1>7, <2>1, <3>1, <3>2 DEF Fresh
  <2>3. i = k
    BY <1>1, <1>4, <2>1, <2>2 DEF Live
  <2>4. Unfilled(r)
    BY WorkOrderEven
  <2>5. k \in DOMAIN r.orders /\ r.orders[k].req = db.orders[k].req
    BY <1>3, <1>4, <2>1, <2>3, LedgerFields DEF Follows, Extends
  <2>6. r.orders[k].filled = 0
    BY <1>1, <1>7, <2>3, <2>4, <2>5 DEF Unfilled, Live, ActiveOrders
  <2>7. r.orders[i].filled = o.filled + qty
    <3>1. r.orders = [db.orders EXCEPT ![i] = Became(o, IF o.filled + qty = o.req.qty THEN "filled"
                                                       ELSE "partially_filled", o.filled + qty)]
      BY <1>1, <1>7 DEF Entered, FillOrder
    <3> QED
      BY <2>1, <3>1 DEF Became
  <2>8. qty \in Nat /\ qty # 0 /\ o.filled \in Nat
    <3>1. MaxQty \in Nat \ {0}
      BY MaxQtyAssumption
    <3>2. LET p == db.orders[i]
              n == Fillable(db, p, MaxQty)
          IN  n \in Nat /\ (p.req.id.kind = "entry" => n # 0)
      BY <3>1, FillableBounds
    <3> QED
      BY <1>1, <1>2, <1>7, <2>1, <3>2 DEF Order
  <2> QED
    BY <2>3, <2>6, <2>7, <2>8
<1> QED
  BY <1>1, <1>2, <1>6, <1>7, WorkCases DEF SetState

\* An entry has filled between db and x.
Enters(db, x) == \E k \in DOMAIN x.fills \ DOMAIN db.fills : x.fills[k].reason = "entry"

\* The inventory has not grown, and what has left it counts for an exit that filled.
Reduces(db, x) ==
    /\ Cardinality(x.lots) <= Cardinality(db.lots)
    /\ \A j \in DOMAIN db.orders : db.orders[j].req.id.kind = "exit" =>
          Cardinality(x.lots) + x.orders[j].filled <= Cardinality(db.lots) + db.orders[j].filled

LEMMA ReducesOn ==
    ASSUME NEW a \in SimLedger, NEW b \in SimLedger, NEW c \in SimLedger,
           Sound(a), Sound(b), Sound(c), Extends(a, b), Extends(b, c),
           Enters(a, b) \/ Reduces(a, b), Enters(b, c) \/ Reduces(b, c)
    PROVE  Enters(a, c) \/ Reduces(a, c)
<1>1. /\ \A k \in DOMAIN a.fills : k \in DOMAIN b.fills
      /\ \A k \in DOMAIN b.fills : k \in DOMAIN c.fills /\ c.fills[k] = b.fills[k]
      /\ \A j \in DOMAIN a.orders : /\ j \in DOMAIN b.orders /\ b.orders[j].req = a.orders[j].req
                                    /\ a.orders[j].filled \in Nat /\ b.orders[j].filled \in Nat
                                    /\ c.orders[j].filled \in Nat
  <2>1. /\ DOMAIN a.fills = 1..Len(a.fills) /\ DOMAIN b.fills = 1..Len(b.fills)
        /\ DOMAIN c.fills = 1..Len(c.fills) /\ Len(a.fills) <= Len(b.fills) /\ Len(b.fills) <= Len(c.fills)
        /\ Len(a.fills) \in Nat /\ Len(b.fills) \in Nat /\ Len(c.fills) \in Nat
    BY LedgerFields DEF Extends
  <2>2. /\ DOMAIN a.orders = 1..Len(a.orders) /\ DOMAIN b.orders = 1..Len(b.orders)
        /\ DOMAIN c.orders = 1..Len(c.orders)
        /\ Len(a.orders) <= Len(b.orders) /\ Len(b.orders) <= Len(c.orders)
        /\ Len(a.orders) \in Nat /\ Len(b.orders) \in Nat /\ Len(c.orders) \in Nat
    BY LedgerFields DEF Extends
  <2>3. \A j \in DOMAIN a.orders : j \in DOMAIN b.orders /\ j \in DOMAIN c.orders
    BY <2>2
  <2>4. \A j \in DOMAIN a.orders : /\ a.orders[j].filled \in Nat /\ b.orders[j].filled \in Nat
                                   /\ c.orders[j].filled \in Nat
    BY <2>3, LedgerFields
  <2>5. \A k \in DOMAIN a.fills : k \in DOMAIN b.fills
    BY <2>1
  <2>6. \A k \in DOMAIN b.fills : k \in DOMAIN c.fills /\ c.fills[k] = b.fills[k]
    BY <2>1 DEF Extends
  <2> QED
    BY <2>3, <2>4, <2>5, <2>6 DEF Extends
<1>2. CASE Enters(a, b)
  BY <1>1, <1>2 DEF Enters
<1>3. CASE Enters(b, c)
  BY <1>1, <1>3 DEF Enters
<1>4. CASE Reduces(a, b) /\ Reduces(b, c)
  <2>1. /\ Cardinality(a.lots) \in Nat /\ Cardinality(b.lots) \in Nat /\ Cardinality(c.lots) \in Nat
    BY FS_CardinalityType DEF Sound
  <2>2. Cardinality(c.lots) <= Cardinality(a.lots)
    BY <1>4, <2>1 DEF Reduces
  <2>3. ASSUME NEW j \in DOMAIN a.orders, a.orders[j].req.id.kind = "exit"
        PROVE  Cardinality(c.lots) + c.orders[j].filled <= Cardinality(a.lots) + a.orders[j].filled
    <3>1. /\ Cardinality(b.lots) + b.orders[j].filled <= Cardinality(a.lots) + a.orders[j].filled
          /\ Cardinality(c.lots) + c.orders[j].filled <= Cardinality(b.lots) + b.orders[j].filled
      BY <1>1, <1>4, <2>3 DEF Reduces
    <3>2. a.orders[j].filled \in Nat /\ b.orders[j].filled \in Nat /\ c.orders[j].filled \in Nat
      BY <1>1, <2>3
    <3> QED
      BY <2>1, <3>1, <3>2
  <2> QED
    BY <2>2, <2>3 DEF Reduces
<1> QED
  BY <1>2, <1>3, <1>4

(* Inventory grows with entries alone, and shrinks with what exits fill.   *)
LEMMA WorkOrderReduces ==
    ASSUME NEW db \in SimLedger, Sound(db), Booked(db), NEW i \in ActiveOrders(db), NEW b \in Bar,
           NEW r, WorkOrder(db, i, b, MaxQty) = r
    PROVE  Enters(db, r) \/ Reduces(db, r)
<1>1. PICK o : db.orders[i] = o
  OBVIOUS
<1>2. PICK qty : Fillable(db, o, MaxQty) = qty
  OBVIOUS
<1>3. /\ o \in Order /\ o.filled \in Nat /\ o.req.qty \in Nat \ {0} /\ o.req.id \in Id /\ o.req.side \in Side
      /\ o.req \in Request /\ i \in DOMAIN db.orders /\ MaxQty \in Nat \ {0} /\ MaxQty \in Nat
      /\ o.req.id.kind \in Kind
  BY <1>1, LedgerFields, MaxQtyAssumption DEF ActiveOrders, Order, Request, Id
<1>4. /\ qty \in Nat
      /\ o.req.id.kind # "entry" => qty <= Cardinality(Opposite(db, o.req.side))
  <2>1. IsFiniteSet(Opposite(db, o.req.side))
    BY FS_Subset DEF Sound, Opposite
  <2>2. Cardinality(Opposite(db, o.req.side)) \in Nat
    BY <2>1, FS_CardinalityType
  <2>3. LET p == db.orders[i]
            n == Fillable(db, p, MaxQty)
        IN  n \in Nat /\ n <= p.req.qty - p.filled /\ (p.req.id.kind = "entry" => n # 0)
    BY <1>3, FillableBounds
  <2>4. qty \in Nat
    BY <1>1, <1>2, <2>3
  <2>5. ASSUME o.req.id.kind # "entry"
        PROVE  qty <= Cardinality(Opposite(db, o.req.side))
    <3>1. PICK open \in Int : open = Least(o.req.qty - o.filled, MaxQty)
      BY <1>3 DEF Least
    <3>2. qty = Least(open, Cardinality(Opposite(db, o.req.side)))
      BY <1>2, <2>5, <3>1 DEF Fillable
    <3> QED
      BY <2>2, <3>1, <3>2 DEF Least
  <2> QED
    BY <2>4, <2>5
<1>5. IsFiniteSet(db.lots) /\ Cardinality(db.lots) \in Nat
  BY FS_CardinalityType DEF Sound
<1>6. ASSUME r.lots = db.lots, \A j \in DOMAIN db.orders : r.orders[j].filled = db.orders[j].filled
      PROVE  Reduces(db, r)
  <2>1. \A j \in DOMAIN db.orders : db.orders[j].filled \in Nat
    BY LedgerFields
  <2> QED
    BY <1>5, <1>6, <2>1 DEF Reduces
<1>7. CASE r = db
  BY <1>6, <1>7
<1>8. ASSUME NEW state, r = SetState(db, i, state)
      PROVE  Reduces(db, r)
  <2>1. /\ r.lots = db.lots /\ r.orders = [db.orders EXCEPT ![i] = Became(o, state, o.filled)]
    BY <1>1, <1>8 DEF SetState
  <2>2. Became(o, state, o.filled).filled = o.filled
    BY DEF Became
  <2>3. \A j \in DOMAIN db.orders : r.orders[j].filled = db.orders[j].filled
    BY <1>1, <1>3, <2>1, <2>2
  <2> QED
    BY <1>6, <2>1, <2>3
<1>9. ASSUME o.req.id.kind = "entry", r = Entered(db, i, qty, b)
      PROVE  Enters(db, r)
  <2> DEFINE f == [order |-> o.req.id, side |-> o.req.side, qty |-> qty,
                   ts |-> b.ts, reason |-> o.req.id.kind, lot |-> 0]
  <2>1. r.fills = Append(db.fills, f) /\ f.reason = "entry"
    BY <1>1, <1>9 DEF Entered, FillOrder
  <2> HIDE DEF f
  <2>2. db.fills \in Seq(Fill) /\ Len(db.fills) \in Nat /\ DOMAIN db.fills = 1..Len(db.fills)
    BY LedgerFields
  <2>3. Len(db.fills) + 1 \in DOMAIN r.fills \ DOMAIN db.fills /\ r.fills[Len(db.fills) + 1] = f
    BY <2>1, <2>2
  <2> QED
    BY <2>1, <2>3 DEF Enters
<1>10. ASSUME o.req.id.kind # "entry", r = Exited(db, i, qty, b)
       PROVE  Reduces(db, r)
  <2> DEFINE state == IF o.filled + qty = o.req.qty THEN "filled" ELSE "partially_filled"
             old == Oldest(db, o.req.side, qty)
  <2>1. /\ r.lots = db.lots \ old
        /\ r.orders = [db.orders EXCEPT ![i] = Became(o, state, o.filled + qty)]
    BY <1>1, <1>10 DEF Exited, FillOrder
  <2>2. Became(o, state, o.filled + qty).filled = o.filled + qty
    BY DEF Became
  <2>3. Cardinality(old) = qty
    BY <1>3, <1>4, <1>10, OldestCounts DEF Booked, LotsOfFills
  <2>4. old \subseteq db.lots
    BY DEF Oldest, Opposite
  <2> HIDE DEF old, state
  <2>5. IsFiniteSet(old) /\ Cardinality(db.lots \ old) = Cardinality(db.lots) - qty
    <3>1. IsFiniteSet(old)
      BY <1>5, <2>4, FS_Subset
    <3>2. Cardinality(db.lots \ old) = Cardinality(db.lots) - Cardinality(db.lots \cap old)
      BY <1>5, FS_Difference
    <3>3. db.lots \cap old = old
      BY <2>4
    <3> QED
      BY <2>3, <3>1, <3>2, <3>3
  <2>6. Cardinality(r.lots) = Cardinality(db.lots) - qty /\ Cardinality(db.lots) - qty \in Int
    BY <1>4, <1>5, <2>1, <2>5
  <2>7. ASSUME NEW j \in DOMAIN db.orders
        PROVE  /\ r.orders[j].filled <= db.orders[j].filled + qty
               /\ r.orders[j].filled \in Nat /\ db.orders[j].filled \in Nat
    <3>1. db.orders[j].filled \in Nat
      BY LedgerFields
    <3>2. CASE j = i
      <4>1. r.orders[j].filled = o.filled + qty
        BY <1>3, <2>1, <2>2, <3>2
      <4> QED
        BY <1>1, <1>3, <1>4, <3>1, <3>2, <4>1
    <3>3. CASE j # i
      <4>1. r.orders[j] = db.orders[j]
        BY <2>1, <3>3
      <4> QED
        BY <1>4, <3>1, <4>1
    <3> QED
      BY <3>2, <3>3
  <2>8. \A j \in DOMAIN db.orders :
            Cardinality(r.lots) + r.orders[j].filled <= Cardinality(db.lots) + db.orders[j].filled
    BY <1>4, <1>5, <2>6, <2>7
  <2> QED
    BY <1>4, <1>5, <2>6, <2>8 DEF Reduces
<1>11. \/ r = db
       \/ r = SetState(db, i, "expired")
       \/ o.req.id.kind # "entry" /\ r = SetState(db, i, "cancelled")
       \/ o.req.id.kind = "entry" /\ r = Entered(db, i, qty, b)
       \/ o.req.id.kind # "entry" /\ qty # 0 /\ r = Exited(db, i, qty, b)
  BY <1>1, <1>2, WorkCases
<1> QED
  BY <1>7, <1>8, <1>9, <1>10, <1>11

LEMMA StopLotReduces ==
    ASSUME NEW db \in SimLedger, Sound(db), NEW l, NEW b, NEW r, StopLot(db, l, b) = r
    PROVE  Reduces(db, r)
<1>1. r.lots \subseteq db.lots /\ \A j \in DOMAIN db.orders : r.orders[j].filled = db.orders[j].filled
  BY DEF StopLot, Became
<1>2. IsFiniteSet(db.lots) /\ \A j \in DOMAIN db.orders : db.orders[j].filled \in Nat
  BY LedgerFields DEF Sound
<1>3. Cardinality(r.lots) <= Cardinality(db.lots) /\ Cardinality(r.lots) \in Nat /\ Cardinality(db.lots) \in Nat
  BY <1>1, <1>2, FS_Subset, FS_CardinalityType
<1> QED
  BY <1>1, <1>2, <1>3 DEF Reduces

\* x is db after some of what bar b brings: every fill is of this bar, an entry's
\* of an order that was live before; with an entry still in force there is none.
\* Without an entry's fill the inventory only shrinks.
Advances(db, v, b, x) ==
    /\ Follows(db, x) /\ Booked(x) /\ Exposed(x, v, MaxQty)
    /\ x.bars = db.bars \cup {b}
    /\ \A k \in DOMAIN x.fills \ DOMAIN db.fills :
          /\ x.fills[k].ts = b.ts
          /\ x.fills[k].reason = "entry" =>
                \E i \in ActiveOrders(db) : db.orders[i].req.id = x.fills[k].order
    /\ Carries(db) => Carries(x)
    /\ Enters(db, x) \/ Reduces(db, x)
    /\ Unfilled(db) => /\ Unfilled(x)
                       /\ \A k \in DOMAIN v.intents : Live(x, v, k) => x.fills = db.fills

LEMMA InsertAdvances ==
    ASSUME NEW db, NEW v, Agree(db, v), NEW b \in Bar
    PROVE  /\ Advances(db, v, b, InsertBar(db, b))
           /\ InsertBar(db, b).orders = db.orders
<1> DEFINE r == InsertBar(db, b)
<1>1. db \in SimLedger /\ Sound(db) /\ Booked(db) /\ MaxQty \in Nat
  BY MaxQtyAssumption DEF Agree
<1>2. Follows(db, r) /\ r.orders = db.orders /\ Booked(r)
  BY <1>1, InsertBarKeeps, InsertBarBooked
<1>3. r.bars = db.bars \cup {b} /\ r.fills = db.fills /\ r.lots = db.lots
  BY <1>1 DEF InsertBar, SimLedger
<1> HIDE DEF r
<1>4. Exposed(r, v, MaxQty)
  BY <1>1, <1>2, <1>3, ShrinkExposed DEF Agree, Contained
<1>5. Reduces(db, r)
  <2>1. Cardinality(db.lots) \in Nat /\ \A j \in DOMAIN db.orders : db.orders[j].filled \in Nat
    BY <1>1, LedgerFields, FS_CardinalityType DEF Sound
  <2> QED
    BY <1>2, <1>3, <2>1 DEF Reduces
<1>6. Advances(db, v, b, r)
  BY <1>2, <1>3, <1>4, <1>5 DEF Advances, Carries, Unfilled, ActiveOrders
<1> QED
  BY <1>2, <1>6 DEF r

LEMMA WorkAdvances ==
    ASSUME NEW db, NEW v, Agree(db, v), NEW b \in Bar, \A c \in db.bars : c.ts <= b.ts,
           NEW x, Advances(db, v, b, x), NEW i \in ActiveOrders(db), x.orders[i] = db.orders[i],
           NEW r, WorkOrder(x, i, b, MaxQty) = r
    PROVE  /\ Advances(db, v, b, r)
           /\ \A k \in DOMAIN db.orders \ {i} : r.orders[k] = x.orders[k]
<1>1. /\ db \in SimLedger /\ v \in WorkerLedger /\ Sound(db) /\ x \in SimLedger /\ Sound(x)
      /\ Booked(x) /\ Extends(db, x) /\ Len(x.orders) = Len(db.orders)
      /\ MaxQty \in Nat /\ MaxQty \in Nat \ {0} /\ Exposed(x, v, MaxQty)
  BY MaxQtyAssumption DEF Agree, Advances, Follows
<1>2. DOMAIN x.orders = DOMAIN db.orders /\ i \in ActiveOrders(x)
  BY <1>1, LedgerFields DEF ActiveOrders
<1>3. /\ Follows(x, r) /\ \A k \in DOMAIN x.orders \ {i} : r.orders[k] = x.orders[k]
  <2>1. LET q == WorkOrder(x, i, b, MaxQty)
        IN  /\ Follows(x, q) /\ \A k \in DOMAIN x.orders \ {i} : q.orders[k] = x.orders[k]
    BY <1>1, <1>2, WorkOrderFollows
  <2> QED
    BY <2>1
<1>4. Booked(r)
  BY <1>1, <1>2, WorkOrderBooked
<1>5. /\ r.bars = x.bars
      /\ \A k \in DOMAIN r.fills \ DOMAIN x.fills :
            r.fills[k].ts = b.ts /\ r.fills[k].order = x.orders[i].req.id
  BY <1>1, <1>2, WorkOrderWrites
<1>6. Exposed(r, v, MaxQty)
  <2>1. \A c \in x.bars : c.ts <= b.ts
    BY DEF Advances, Bar
  <2>2. /\ DOMAIN x.orders \subseteq DOMAIN v.intents
        /\ \A k \in DOMAIN x.orders : x.orders[k].req = v.intents[k].req
    BY <1>1, <1>2 DEF Agree, Ordered, Extends
  <2>3. \A j, k \in DOMAIN v.intents : Live(x, v, j) /\ Live(x, v, k) => j = k
    <3>1. db.bars \subseteq x.bars
      BY DEF Advances
    <3>2. \A k : Live(x, v, k) => Live(db, v, k)
      BY <1>1, <3>1, LiveShrinks
    <3> QED
      BY <3>2 DEF Agree, Contained
  <2> QED
    BY <1>1, <1>2, <2>1, <2>2, <2>3, WorkOrderExposed
<1>7. Follows(db, r)
  BY <1>1, <1>3, ExtendsTransitive DEF Follows
<1>8. \A k \in DOMAIN r.fills \ DOMAIN db.fills :
          /\ r.fills[k].ts = b.ts
          /\ r.fills[k].reason = "entry" =>
                \E j \in ActiveOrders(db) : db.orders[j].req.id = r.fills[k].order
  <2> SUFFICES ASSUME NEW k \in DOMAIN r.fills \ DOMAIN db.fills
               PROVE  /\ r.fills[k].ts = b.ts
                      /\ r.fills[k].reason = "entry" =>
                            \E j \in ActiveOrders(db) : db.orders[j].req.id = r.fills[k].order
    OBVIOUS
  <2>1. CASE k \in DOMAIN x.fills
    <3>1. r.fills[k] = x.fills[k]
      BY <1>3, <2>1 DEF Follows, Extends
    <3> QED
      BY <2>1, <3>1 DEF Advances
  <2>2. CASE k \notin DOMAIN x.fills
    BY <1>5, <2>2
  <2> QED
    BY <2>1, <2>2
<1>9. r.bars = db.bars \cup {b}
  BY <1>5 DEF Advances
<1>10. /\ Carries(db) => Carries(r)
       /\ Unfilled(db) => Unfilled(r)
  BY <1>1, <1>2, WorkOrderEven DEF Advances
<1>11. ASSUME Unfilled(db), NEW k \in DOMAIN v.intents, Live(r, v, k)
       PROVE  r.fills = db.fills
  <2>1. /\ x.bars \subseteq r.bars /\ Extends(x, r) /\ r \in SimLedger /\ Unfilled(x)
        /\ db.bars \subseteq x.bars
    BY <1>3, <1>5, <1>11 DEF Follows, Advances
  <2>2. Live(x, v, k)
    BY <1>1, <1>11, <2>1, LiveShrinks
  <2>3. x.fills = db.fills
    BY <1>11, <2>2 DEF Advances
  <2>4. v.intents[k].req.qty = MaxQty
    BY <1>11 DEF Agree, Planned, Live, Fresh
  <2>5. \A c \in x.bars : c.ts <= b.ts
    BY DEF Advances, Bar
  <2>6. /\ DOMAIN x.orders \subseteq DOMAIN v.intents
        /\ \A j \in DOMAIN x.orders : x.orders[j].req = v.intents[j].req
    BY <1>1, <1>2 DEF Agree, Ordered, Extends
  <2>7. \A i_, j \in DOMAIN v.intents : Live(x, v, i_) /\ Live(x, v, j) => i_ = j
    <3>1. \A j : Live(x, v, j) => Live(db, v, j)
      BY <1>1, <2>1, LiveShrinks
    <3> QED
      BY <3>1 DEF Agree, Contained
  <2>8. r.fills = x.fills
    BY <1>1, <1>2, <1>11, <2>1, <2>4, <2>5, <2>6, <2>7, WorkOrderAlone
  <2> QED
    BY <2>3, <2>8
<1>12. Enters(db, r) \/ Reduces(db, r)
  <2>1. Enters(x, r) \/ Reduces(x, r)
    BY <1>1, <1>2, WorkOrderReduces
  <2>2. r \in SimLedger /\ Sound(r) /\ Extends(x, r)
    BY <1>3 DEF Follows
  <2> QED
    BY <1>1, <2>1, <2>2, ReducesOn DEF Advances
<1> QED
  BY <1>2, <1>3, <1>4, <1>6, <1>7, <1>8, <1>9, <1>10, <1>11, <1>12 DEF Advances

LEMMA StopAdvances ==
    ASSUME NEW db, NEW v, Agree(db, v), NEW b \in Bar,
           NEW x, Advances(db, v, b, x), NEW l \in LotNumbers(x),
           NEW r, StopLot(x, l, b) = r
    PROVE  Advances(db, v, b, r) /\ LotNumbers(r) = LotNumbers(x) \ {l}
<1>1. /\ db \in SimLedger /\ Sound(db) /\ x \in SimLedger /\ Sound(x)
      /\ Booked(x) /\ Extends(db, x) /\ Len(x.orders) = Len(db.orders)
      /\ MaxQty \in Nat /\ Exposed(x, v, MaxQty)
  BY MaxQtyAssumption DEF Agree, Advances, Follows
<1>3. Follows(x, r) /\ LotNumbers(r) = LotNumbers(x) \ {l}
  <2>1. LET q == StopLot(x, l, b) IN Follows(x, q) /\ LotNumbers(q) = LotNumbers(x) \ {l}
    BY <1>1, StopLotFollows
  <2> QED
    BY <2>1
<1>4. Booked(r)
  BY <1>1, StopLotBooked
<1>5. /\ r.bars = x.bars
      /\ \A k \in DOMAIN r.fills \ DOMAIN x.fills :
            r.fills[k].ts = b.ts /\ r.fills[k].reason = "stop"
  BY <1>1, StopLotWrites
<1>6. Exposed(r, v, MaxQty)
  BY <1>1, StopLotExposed
<1>7. Follows(db, r)
  BY <1>1, <1>3, ExtendsTransitive DEF Follows
<1>8. \A k \in DOMAIN r.fills \ DOMAIN db.fills :
          /\ r.fills[k].ts = b.ts
          /\ r.fills[k].reason = "entry" =>
                \E j \in ActiveOrders(db) : db.orders[j].req.id = r.fills[k].order
  <2> SUFFICES ASSUME NEW k \in DOMAIN r.fills \ DOMAIN db.fills
               PROVE  /\ r.fills[k].ts = b.ts
                      /\ r.fills[k].reason = "entry" =>
                            \E j \in ActiveOrders(db) : db.orders[j].req.id = r.fills[k].order
    OBVIOUS
  <2>1. CASE k \in DOMAIN x.fills
    <3>1. r.fills[k] = x.fills[k]
      BY <1>3, <2>1 DEF Follows, Extends
    <3> QED
      BY <2>1, <3>1 DEF Advances
  <2>2. CASE k \notin DOMAIN x.fills
    BY <1>5, <2>2
  <2> QED
    BY <2>1, <2>2
<1>9. r.bars = db.bars \cup {b}
  BY <1>5 DEF Advances
<1>10. Carries(r)
  <2>1. x.fills \in Seq(Fill) /\ Len(x.fills) \in Nat /\ DOMAIN x.fills = 1..Len(x.fills)
        /\ Len(r.fills) \in Nat /\ DOMAIN r.fills = 1..Len(r.fills)
    BY <1>1, <1>3, LedgerFields DEF Follows
  <2>2. Len(r.fills) = Len(x.fills) + 1
    BY <2>1 DEF StopLot
  <2>3. r.fills[Len(r.fills)].reason = "stop"
    BY <1>5, <2>1, <2>2
  <2> QED
    BY <2>3 DEF Carries
<1>11. Unfilled(x) => Unfilled(r)
  <2>1. \A i \in ActiveOrders(r) : /\ i \in DOMAIN x.orders /\ r.orders[i].req = x.orders[i].req
                                   /\ r.orders[i] = x.orders[i]
    <3>1. r.orders = [i \in DOMAIN x.orders |->
             IF /\ x.orders[i].req.id = StopFill(l, {u \in x.lots : u.lot = l}, b).order
                /\ x.orders[i].state = "partially_filled"
             THEN Became(x.orders[i], "cancelled", x.orders[i].filled) ELSE x.orders[i]]
      BY DEF StopLot
    <3>2. \A i : Became(x.orders[i], "cancelled", x.orders[i].filled).state \notin Active
      BY DEF Became, Active
    <3> QED
      BY <3>1, <3>2 DEF ActiveOrders
  <2> QED
    BY <2>1 DEF Unfilled, ActiveOrders
<1>12. ASSUME Unfilled(db), NEW k \in DOMAIN v.intents, Live(r, v, k)
       PROVE  FALSE
  <2>1. x.bars \subseteq r.bars /\ Extends(x, r) /\ r \in SimLedger /\ Unfilled(x)
    BY <1>3, <1>5, <1>12 DEF Follows, Advances
  <2>2. Live(x, v, k)
    BY <1>1, <1>12, <2>1, LiveShrinks
  <2>3. x.bars = db.bars \cup {b} /\ db.bars \subseteq x.bars
    BY DEF Advances
  <2>4. x.lots = {}
    <3>1. v.intents[k].req.qty = MaxQty
      BY <1>12 DEF Agree, Planned, Live, Fresh
    <3>2. k \in DOMAIN x.orders => x.orders[k].req = v.intents[k].req
      BY <1>1, LedgerFields DEF Agree, Ordered, Extends
    <3> QED
      BY <1>1, <2>1, <2>2, <3>1, <3>2, NoLots
  <2> QED
    BY <2>4 DEF LotNumbers
<1>13. Enters(db, r) \/ Reduces(db, r)
  <2>1. Reduces(x, r)
    BY <1>1, StopLotReduces
  <2>2. r \in SimLedger /\ Sound(r) /\ Extends(x, r)
    BY <1>3 DEF Follows
  <2> QED
    BY <1>1, <2>1, <2>2, ReducesOn DEF Advances
<1> QED
  BY <1>3, <1>4, <1>6, <1>7, <1>8, <1>9, <1>10, <1>11, <1>12, <1>13 DEF Advances

(* The loop over the active orders.                                        *)
LEMMA WorkedAdvances ==
    ASSUME NEW db, NEW v, Agree(db, v), NEW b \in Bar, \A c \in db.bars : c.ts <= b.ts
    PROVE  Advances(db, v, b, Worked(db, b))
<1> DEFINE N == Len(db.orders)
<1>1. db \in SimLedger /\ N \in Nat /\ DOMAIN db.orders = 1..N
  BY LedgerFields DEF Agree
<1>2. PICK f : /\ f = [n \in 0..N |-> WorkedFrom(f, db, b, n)]
               /\ Worked(db, b) = f[N]
  BY <1>1, WorkedDef
<1> DEFINE Done(n) == /\ Advances(db, v, b, f[n])
                      /\ \A k \in DOMAIN db.orders : k > n => f[n].orders[k] = db.orders[k]
           S == {n \in 0..N : Done(n)}
<1> HIDE DEF N
<1>3. 0 \in S
  <2>1. f[0] = InsertBar(db, b)
    BY <1>1, <1>2 DEF WorkedFrom
  <2>2. Done(0)
    BY <2>1, InsertAdvances
  <2> QED
    BY <1>1, <2>2
<1>4. ASSUME NEW n \in 1..N, n - 1 \in S PROVE n \in S
  <2>1. f[n] = WorkedFrom(f, db, b, n) /\ n # 0 /\ n - 1 \in 0..N
    BY <1>1, <1>2
  <2>2. Done(n - 1)
    BY <1>4
  <2> DEFINE x == f[n-1]
             r == f[n]
  <2>3. Advances(db, v, b, x) /\ \A k \in DOMAIN db.orders : k >= n => x.orders[k] = db.orders[k]
    BY <1>1, <2>2
  <2>4. CASE n \in ActiveOrders(db)
    <3>1. WorkOrder(x, n, b, MaxQty) = r
      BY <2>1, <2>4 DEF WorkedFrom
    <3> HIDE DEF x, r
    <3>2. n \in DOMAIN db.orders /\ x.orders[n] = db.orders[n]
      BY <1>1, <2>3
    <3>3. Advances(db, v, b, r) /\ \A k \in DOMAIN db.orders \ {n} : r.orders[k] = x.orders[k]
      BY <2>3, <2>4, <3>1, <3>2, WorkAdvances
    <3>4. \A k \in DOMAIN db.orders : k > n => r.orders[k] = db.orders[k]
      BY <1>1, <2>3, <3>3
    <3>5. Done(n)
      BY <3>3, <3>4 DEF r
    <3> QED
      BY <1>1, <3>5
  <2>5. CASE n \notin ActiveOrders(db)
    <3>1. r = x
      BY <2>1, <2>5 DEF WorkedFrom
    <3> HIDE DEF x, r
    <3>2. Advances(db, v, b, r) /\ \A k \in DOMAIN db.orders : k > n => r.orders[k] = db.orders[k]
      BY <1>1, <2>3, <3>1
    <3>3. Done(n)
      BY <3>2 DEF r
    <3> QED
      BY <1>1, <3>3
  <2> QED
    BY <2>4, <2>5
<1>5. N \in S
  <2> HIDE DEF S
  <2> QED
    BY <1>1, <1>3, <1>4, UpTo, SMTT(30)
<1> QED
  BY <1>2, <1>5 DEF N

(* The loop over the stops.                                                *)
LEMMA StoppedAdvances ==
    ASSUME NEW db, NEW v, Agree(db, v), NEW b \in Bar,
           NEW x, Advances(db, v, b, x), NEW lots \in SUBSET LotNumbers(x)
    PROVE  Advances(db, v, b, Stopped(x, lots, b))
<1> DEFINE N == Len(x.fills)
<1>1. x \in SimLedger /\ N \in Nat
  BY LedgerFields DEF Advances, Follows
<1>2. PICK g : /\ g = [n \in 0..N |-> StoppedFrom(g, x, lots, b, n)]
               /\ Stopped(x, lots, b) = g[N]
  BY <1>1, StoppedDef
<1> DEFINE Done(n) == Advances(db, v, b, g[n]) /\ \A l \in lots : l > n => l \in LotNumbers(g[n])
           S == {n \in 0..N : Done(n)}
<1>0. \A l \in lots : l \in Nat \ {0}
  BY <1>1, LedgerFields DEF LotNumbers, Unit
<1> HIDE DEF N
<1>3. 0 \in S
  <2>1. g[0] = x
    BY <1>1, <1>2 DEF StoppedFrom
  <2> QED
    BY <1>1, <2>1
<1>4. ASSUME NEW n \in 1..N, n - 1 \in S PROVE n \in S
  <2>1. g[n] = StoppedFrom(g, x, lots, b, n) /\ n # 0 /\ n - 1 \in 0..N
    BY <1>1, <1>2
  <2>2. Done(n - 1)
    BY <1>4
  <2> DEFINE y == g[n-1]
             r == g[n]
  <2>3. Advances(db, v, b, y) /\ \A l \in lots : l >= n => l \in LotNumbers(y)
    BY <1>0, <1>1, <2>2
  <2>4. CASE n \in lots
    <3>1. StopLot(y, n, b) = r
      BY <2>1, <2>4 DEF StoppedFrom
    <3> HIDE DEF y, r
    <3>2. n \in LotNumbers(y)
      BY <1>1, <2>3, <2>4
    <3>3. Advances(db, v, b, r) /\ LotNumbers(r) = LotNumbers(y) \ {n}
      BY <2>3, <3>1, <3>2, StopAdvances
    <3>4. \A l \in lots : l > n => l \in LotNumbers(r)
      BY <1>0, <1>1, <2>3, <3>3
    <3>5. Done(n)
      BY <3>3, <3>4 DEF r
    <3> QED
      BY <1>1, <3>5
  <2>5. CASE n \notin lots
    <3>1. r = y
      BY <2>1, <2>5 DEF StoppedFrom
    <3> HIDE DEF y, r
    <3>2. Advances(db, v, b, r) /\ \A l \in lots : l > n => l \in LotNumbers(r)
      BY <1>0, <1>1, <2>3, <3>1
    <3>3. Done(n)
      BY <3>2 DEF r
    <3> QED
      BY <1>1, <3>3
  <2> QED
    BY <2>4, <2>5
<1>5. N \in S
  <2> HIDE DEF S
  <2> QED
    BY <1>1, <1>3, <1>4, UpTo
<1> QED
  BY <1>2, <1>5 DEF N

(* An advance keeps the agreement.                                         *)
LEMMA AdvancedAgree ==
    ASSUME NEW db, NEW v, Agree(db, v), NEW b \in Bar, \A c \in db.bars : c.ts <= b.ts,
           NEW lots \in SUBSET LotNumbers(Worked(db, b)),
           NEW r, Stopped(Worked(db, b), lots, b) = r
    PROVE  Agree(r, v) /\ Advances(db, v, b, r)
<1>1. Advances(db, v, b, Worked(db, b))
  BY WorkedAdvances
<1>2. Advances(db, v, b, r)
  BY <1>1, StoppedAdvances
<1>3. /\ r \in SimLedger /\ Sound(r) /\ Booked(r) /\ Extends(db, r) /\ db.bars \subseteq r.bars
      /\ Len(r.orders) = Len(db.orders) /\ Exposed(r, v, MaxQty) /\ db \in SimLedger
  BY <1>2 DEF Advances, Follows, Agree
<1>4. DOMAIN r.orders \ DOMAIN db.orders = {}
  BY <1>3, LedgerFields
<1>5. Agree(r, v)
  BY <1>3, <1>4, BrokerAgree
<1> QED
  BY <1>2, <1>5

(* There are finitely many intents of a day and kind.                      *)
LEMMA EarlierFinite ==
    ASSUME NEW v \in WorkerLedger, NEW day, NEW kind
    PROVE  /\ IsFiniteSet(Earlier(v, day, kind)) /\ Cardinality(Earlier(v, day, kind)) \in Nat
           /\ Earlier(v, day, kind) \subseteq DOMAIN v.intents
<1>1. Earlier(v, day, kind) \subseteq DOMAIN v.intents
  BY DEF Earlier
<1>2. IsFiniteSet(DOMAIN v.intents)
  <2>1. DOMAIN v.intents = 1..Len(v.intents) /\ Len(v.intents) \in Nat
    BY WorkerFields
  <2> QED
    BY <2>1, FS_Interval
<1> QED
  BY <1>1, <1>2, FS_Subset, FS_CardinalityType

(***************************************************************************)
(* The agenda.  Its order is what keeps the service together: the steps of *)
(* a receipt are queued in one order, the halts come before them, and a    *)
(* start resumes its receipt before it reports that it has started.        *)
(***************************************************************************)
HaltOps  == {"hard_halt", "cancel", "halt"}
FirstOps == {"apply", "contract", "flat", "exclude", "pin", "raise"}
TradeOps == {"contract", "flat", "exclude", "pin", "advance", "step", "decide", "opportunity"}
ApplyOps == TradeOps \cup {"apply", "applied"}

\* The place of an entry in the processing of a receipt; 0 is a halt's, -1 has none.
Rank(op) ==
    CASE op.do \in HaltOps     -> 0
      [] op.do \in FirstOps    -> 1
      [] op.do = "advance"     -> IF op.for = Family[1] THEN 2 ELSE 5
      [] op.do = "step"        -> IF op.for = Family[1] THEN 3 ELSE 6
      [] op.do = "decide"      -> IF op.for = Family[1] THEN 4 ELSE 7
      [] op.do = "opportunity" -> 8
      [] op.do = "applied"     -> 9
      [] op.do = "resume"      -> 10
      [] op.do = "started"     -> 11
      [] OTHER                 -> -1

\* What may stand behind an entry of the agenda.
MayFollow(x, y) ==
    Rank(x) >= 1 => /\ Rank(y) # 0
                    /\ Rank(y) >= 1 => Rank(x) < Rank(y)
                    /\ Rank(x) = 1 => Rank(y) \notin 2..9

\* An acknowledgement is due at once, a decision after at most a reconciliation.
InOrder(q) ==
    /\ \A i, j \in DOMAIN q : i < j => MayFollow(q[i], q[j])
    /\ \A i \in DOMAIN q : q[i].do = "acknowledge" => i = 1
    /\ \A i \in DOMAIN q : q[i].do = "decide" =>
          i = 1 \/ (i = 2 /\ q[1] = [do |-> "reconcile", for |-> q[i].for])

Has(q, ops)       == \E i \in DOMAIN q : q[i].do \in ops

HasFor(q, ops, s) == \E i \in DOMAIN q : q[i].do \in ops /\ q[i].for = s

\* What stands behind the head.
Behind(q, ops)       == \E i \in DOMAIN q : i # 1 /\ q[i].do \in ops

BehindFor(q, ops, s) == \E i \in DOMAIN q : i # 1 /\ q[i].do \in ops /\ q[i].for = s

\* A scenario's entries will be cancelled, after they have been submitted if they must be.
Cancelling(q, s, submit) ==
    \E i \in DOMAIN q :
        /\ q[i] = [do |-> "cancel", for |-> s]
        /\ submit => \E j \in DOMAIN q : j < i /\ q[j] = [do |-> "dispatch", for |-> s]

\* q is a with its head replaced by ops.
Spliced(a, ops, q) ==
    /\ q \in Seq(Agenda)
    /\ DOMAIN q = 1..Len(q) /\ Len(q) \in Nat /\ Len(ops) \in Nat
    /\ DOMAIN a = 1..Len(a) /\ Len(a) \in Nat /\ 1 \in DOMAIN a /\ Head(a) = a[1]
    /\ DOMAIN ops = 1..Len(ops) /\ Len(q) = Len(ops) + Len(a) - 1
    /\ \A i \in DOMAIN ops : i \in DOMAIN q /\ q[i] = ops[i]
    /\ \A j \in DOMAIN a : j # 1 => /\ j - 1 + Len(ops) \in DOMAIN q
                                    /\ q[j - 1 + Len(ops)] = a[j]
    /\ \A i \in DOMAIN q : i \notin DOMAIN ops =>
          i + 1 - Len(ops) \in DOMAIN a /\ i + 1 - Len(ops) # 1 /\ q[i] = a[i + 1 - Len(ops)]

(* The head gives way to ops.                                              *)
LEMMA Replaced ==
    ASSUME NEW a \in Seq(Agenda), a # <<>>, NEW ops \in Seq(Agenda), NEW q, ops \o Tail(a) = q
    PROVE  Spliced(a, ops, q)
<1>1. /\ DOMAIN a = 1..Len(a) /\ Len(a) \in Nat /\ 1 \in DOMAIN a /\ Head(a) = a[1]
      /\ DOMAIN ops = 1..Len(ops) /\ Len(ops) \in Nat
  BY LenProperties, EmptySeq
<1>2. /\ Tail(a) \in Seq(Agenda) /\ Len(Tail(a)) = Len(a) - 1
      /\ \A i \in 1..(Len(a) - 1) : Tail(a)[i] = a[i + 1]
  BY HeadTailProperties
<1> DEFINE t == Tail(a)
<1> HIDE DEF t
<1>3. /\ t \in Seq(Agenda) /\ Len(t) = Len(a) - 1 /\ ops \o t = q
      /\ \A i \in 1..(Len(a) - 1) : t[i] = a[i + 1]
  BY <1>2 DEF t
<1>4. /\ q \in Seq(Agenda) /\ Len(q) = Len(ops) + Len(t)
      /\ \A i \in 1..(Len(ops) + Len(t)) : q[i] = IF i <= Len(ops) THEN ops[i] ELSE t[i - Len(ops)]
  <2>1. /\ ops \o t \in Seq(Agenda) /\ Len(ops \o t) = Len(ops) + Len(t)
        /\ \A i \in 1..(Len(ops) + Len(t)) :
              (ops \o t)[i] = IF i <= Len(ops) THEN ops[i] ELSE t[i - Len(ops)]
    BY <1>3, ConcatProperties, Zenon
  <2> QED
    BY <1>3, <2>1
<1>5. DOMAIN q = 1..Len(q) /\ Len(q) \in Nat /\ Len(q) = Len(ops) + Len(a) - 1
  BY <1>1, <1>3, <1>4, LenProperties
<1>6. \A i \in DOMAIN ops : i \in DOMAIN q /\ q[i] = ops[i]
  BY <1>1, <1>3, <1>4, <1>5
<1>7. ASSUME NEW j \in DOMAIN a, j # 1
      PROVE  j - 1 + Len(ops) \in DOMAIN q /\ q[j - 1 + Len(ops)] = a[j]
  <2>1. j \in Nat /\ 2 <= j /\ j <= Len(a) /\ j - 1 \in 1..(Len(a) - 1)
    BY <1>1, <1>7
  <2>2. t[j - 1] = a[j]
    BY <1>3, <2>1
  <2>3. /\ j - 1 + Len(ops) \in 1..(Len(ops) + Len(t))
        /\ ~(j - 1 + Len(ops) <= Len(ops)) /\ (j - 1 + Len(ops)) - Len(ops) = j - 1
    BY <1>1, <1>3, <2>1
  <2> QED
    BY <1>3, <1>4, <1>5, <2>2, <2>3
<1>8. ASSUME NEW i \in DOMAIN q, i \notin DOMAIN ops
      PROVE  i + 1 - Len(ops) \in DOMAIN a /\ i + 1 - Len(ops) # 1 /\ q[i] = a[i + 1 - Len(ops)]
  <2>1. i \in Nat /\ Len(ops) < i /\ i <= Len(ops) + Len(a) - 1
    BY <1>1, <1>5, <1>8
  <2>2. /\ i - Len(ops) \in 1..(Len(a) - 1) /\ i \in 1..(Len(ops) + Len(t)) /\ ~(i <= Len(ops))
        /\ (i - Len(ops)) + 1 = i + 1 - Len(ops)
    BY <1>1, <1>3, <2>1
  <2>3. q[i] = t[i - Len(ops)] /\ t[i - Len(ops)] = a[i + 1 - Len(ops)]
    <3>1. q[i] = t[i - Len(ops)]
      BY <1>4, <2>2
    <3>2. t[i - Len(ops)] = a[(i - Len(ops)) + 1]
      BY <1>3, <2>2
    <3> QED
      BY <2>2, <3>1, <3>2
  <2>4. i + 1 - Len(ops) \in DOMAIN a /\ i + 1 - Len(ops) # 1
    BY <1>1, <2>1
  <2> QED
    BY <2>3, <2>4
<1> QED
  BY <1>1, <1>4, <1>5, <1>6, <1>7, <1>8 DEF Spliced

LEMMA ReplacedHas ==
    ASSUME NEW a \in Seq(Agenda), a # <<>>, NEW ops \in Seq(Agenda), NEW q, ops \o Tail(a) = q
    PROVE  /\ \A some : Has(q, some) <=> Has(ops, some) \/ Behind(a, some)
           /\ \A some, s : HasFor(q, some, s) <=> HasFor(ops, some, s) \/ BehindFor(a, some, s)
           /\ \A some : Has(a, some) <=> a[1].do \in some \/ Behind(a, some)
           /\ \A some, s : HasFor(a, some, s) <=> \/ a[1].do \in some /\ a[1].for = s
                                                  \/ BehindFor(a, some, s)
<1>1. /\ 1 \in DOMAIN a
      /\ \A i \in DOMAIN ops : i \in DOMAIN q /\ q[i] = ops[i]
      /\ \A j \in DOMAIN a : j # 1 => j - 1 + Len(ops) \in DOMAIN q /\ q[j - 1 + Len(ops)] = a[j]
      /\ \A i \in DOMAIN q : i \notin DOMAIN ops =>
            i + 1 - Len(ops) \in DOMAIN a /\ i + 1 - Len(ops) # 1 /\ q[i] = a[i + 1 - Len(ops)]
  <2>1. Spliced(a, ops, q)
    BY Replaced
  <2> QED
    BY <2>1 DEF Spliced
<1> DEFINE At(j) == j - 1 + Len(ops)
           From(i) == i + 1 - Len(ops)
<1>6. /\ \A j \in DOMAIN a : j # 1 => At(j) \in DOMAIN q /\ q[At(j)] = a[j]
      /\ \A i \in DOMAIN q : i \notin DOMAIN ops =>
            From(i) \in DOMAIN a /\ From(i) # 1 /\ q[i] = a[From(i)]
  BY <1>1
<1> HIDE DEF At, From
<1>2. \A some : Has(q, some) <=> Has(ops, some) \/ Behind(a, some)
  BY <1>1, <1>6, ZenonT(30) DEF Has, Behind
<1>3. \A some, s : HasFor(q, some, s) <=> HasFor(ops, some, s) \/ BehindFor(a, some, s)
  <2> SUFFICES ASSUME NEW some, NEW s
               PROVE  HasFor(q, some, s) <=> HasFor(ops, some, s) \/ BehindFor(a, some, s)
    OBVIOUS
  <2>1. HasFor(q, some, s) => HasFor(ops, some, s) \/ BehindFor(a, some, s)
    BY <1>1, <1>6 DEF HasFor, BehindFor
  <2>2. HasFor(ops, some, s) => HasFor(q, some, s)
    BY <1>1 DEF HasFor
  <2>3. BehindFor(a, some, s) => HasFor(q, some, s)
    BY <1>6 DEF HasFor, BehindFor
  <2> QED
    BY <2>1, <2>2, <2>3
<1>4. \A some : Has(a, some) <=> a[1].do \in some \/ Behind(a, some)
  BY <1>1 DEF Has, Behind
<1>5. \A some, s : HasFor(a, some, s) <=> \/ a[1].do \in some /\ a[1].for = s
                                          \/ BehindFor(a, some, s)
  BY <1>1 DEF HasFor, BehindFor
<1> QED
  BY <1>2, <1>3, <1>4, <1>5

(* An order that is kept when the head gives way.                          *)
LEMMA ReplacedInOrder ==
    ASSUME NEW a \in Seq(Agenda), a # <<>>, InOrder(a), NEW ops \in Seq(Agenda), InOrder(ops),
           \A i \in DOMAIN ops, j \in DOMAIN a : j # 1 => MayFollow(ops[i], a[j]),
           a[1].do = "reconcile" => ops = <<>>,
           NEW q, ops \o Tail(a) = q
    PROVE  InOrder(q)
<1>1. /\ DOMAIN q = 1..Len(q) /\ Len(q) \in Nat /\ Len(ops) \in Nat
      /\ DOMAIN a = 1..Len(a) /\ Len(a) \in Nat /\ 1 \in DOMAIN a
      /\ DOMAIN ops = 1..Len(ops)
      /\ \A i \in DOMAIN ops : i \in DOMAIN q /\ q[i] = ops[i]
      /\ \A i \in DOMAIN q : i \notin DOMAIN ops =>
            i + 1 - Len(ops) \in DOMAIN a /\ i + 1 - Len(ops) # 1 /\ q[i] = a[i + 1 - Len(ops)]
  <2>1. Spliced(a, ops, q)
    BY Replaced
  <2> QED
    BY <2>1 DEF Spliced
<1>2. ASSUME NEW i \in DOMAIN q, NEW j \in DOMAIN q, i < j
      PROVE  MayFollow(q[i], q[j])
  <2>1. CASE i \in DOMAIN ops /\ j \in DOMAIN ops
    BY <1>1, <1>2, <2>1 DEF InOrder
  <2>2. CASE i \in DOMAIN ops /\ j \notin DOMAIN ops
    <3>1. j + 1 - Len(ops) \in DOMAIN a /\ j + 1 - Len(ops) # 1 /\ q[j] = a[j + 1 - Len(ops)]
      BY <1>1, <2>2
    <3> QED
      BY <1>1, <2>2, <3>1
  <2>3. CASE i \notin DOMAIN ops
    <3>1. j \notin DOMAIN ops
      BY <1>1, <1>2, <2>3
    <3>2. /\ i + 1 - Len(ops) \in DOMAIN a /\ q[i] = a[i + 1 - Len(ops)]
          /\ j + 1 - Len(ops) \in DOMAIN a /\ q[j] = a[j + 1 - Len(ops)]
      BY <1>1, <2>3, <3>1
    <3>3. i + 1 - Len(ops) < j + 1 - Len(ops)
      BY <1>1, <1>2
    <3> QED
      BY <3>2, <3>3 DEF InOrder
  <2> QED
    BY <2>1, <2>2, <2>3
<1>3. ASSUME NEW i \in DOMAIN q, q[i].do = "acknowledge"
      PROVE  i = 1
  <2>1. CASE i \in DOMAIN ops
    BY <1>1, <1>3, <2>1 DEF InOrder
  <2>2. CASE i \notin DOMAIN ops
    BY <1>1, <1>3, <2>2 DEF InOrder
  <2> QED
    BY <2>1, <2>2
<1>4. ASSUME NEW i \in DOMAIN q, q[i].do = "decide"
      PROVE  i = 1 \/ (i = 2 /\ q[1] = [do |-> "reconcile", for |-> q[i].for])
  <2>1. CASE i \in DOMAIN ops
    <3>1. q[i] = ops[i]
      BY <1>1, <2>1
    <3>2. i = 1 \/ (i = 2 /\ ops[1] = [do |-> "reconcile", for |-> ops[i].for])
      BY <1>4, <2>1, <3>1 DEF InOrder
    <3>3. i = 2 => 1 \in DOMAIN ops /\ q[1] = ops[1]
      BY <1>1, <2>1
    <3> QED
      BY <3>1, <3>2, <3>3
  <2>2. CASE i \notin DOMAIN ops
    <3> DEFINE j == i + 1 - Len(ops)
    <3>1. j \in DOMAIN a /\ j # 1 /\ a[j].do = "decide"
      BY <1>1, <1>4, <2>2
    <3>2. j = 2 /\ a[1] = [do |-> "reconcile", for |-> a[j].for]
      BY <3>1 DEF InOrder
    <3>3. ops = <<>>
      BY <3>2
    <3>4. Len(ops) = 0
      BY <3>3
    <3> QED
      BY <1>1, <3>2, <3>4
  <2> QED
    BY <2>1, <2>2
<1> QED
  BY <1>2, <1>3, <1>4 DEF InOrder

(* What the order of the agenda says about what stands behind its head.    *)
LEMMA BehindHead ==
    ASSUME NEW a \in Seq(Agenda), a # <<>>, InOrder(a)
    PROVE  /\ a[1].do \in FirstOps => ~Behind(a, ApplyOps \cup HaltOps \cup {"raise"})
           /\ a[1].do \in {"advance", "step", "decide", "opportunity", "applied"}
                => ~Behind(a, FirstOps \cup HaltOps)
           /\ a[1].do = "opportunity" => ~Behind(a, ApplyOps \ {"applied"})
           /\ a[1].do = "applied" => ~Behind(a, ApplyOps)
           /\ a[1].do = "resume" => ~Behind(a, ApplyOps \cup HaltOps \cup {"raise", "resume"})
           /\ a[1].do = "started" => ~Behind(a, ApplyOps \cup HaltOps \cup {"raise", "resume", "started"})
           /\ ~Behind(a, {"acknowledge"})
           /\ a[1].do # "reconcile" => ~Behind(a, {"decide"})
<1>1. DOMAIN a = 1..Len(a) /\ Len(a) \in Nat /\ 1 \in DOMAIN a
  BY LenProperties, EmptySeq
<1>2. \A j \in DOMAIN a : j # 1 => MayFollow(a[1], a[j])
  BY <1>1 DEF InOrder
<1>3. \A op : /\ op.do \in HaltOps => Rank(op) = 0
              /\ op.do \in FirstOps => Rank(op) = 1
              /\ op.do \in {"advance", "step", "decide"} => Rank(op) \in 2..7
              /\ op.do = "opportunity" => Rank(op) = 8
              /\ op.do = "applied" => Rank(op) = 9
              /\ op.do = "resume" => Rank(op) = 10
              /\ op.do = "started" => Rank(op) = 11
  BY DEF Rank, HaltOps, FirstOps
<1>4. \A op : op.do \in ApplyOps => Rank(op) \in 1..9
  BY <1>3 DEF ApplyOps, TradeOps, FirstOps
<1>5. ASSUME NEW j \in DOMAIN a, j # 1
      PROVE  /\ a[1].do \in FirstOps => a[j].do \notin ApplyOps \cup HaltOps \cup {"raise"}
             /\ a[1].do \in {"advance", "step", "decide", "opportunity", "applied"}
                  => a[j].do \notin FirstOps \cup HaltOps
             /\ a[1].do = "opportunity" => a[j].do \notin ApplyOps \ {"applied"}
             /\ a[1].do = "applied" => a[j].do \notin ApplyOps
             /\ a[1].do = "resume" => a[j].do \notin ApplyOps \cup HaltOps \cup {"raise", "resume"}
             /\ a[1].do = "started"
                  => a[j].do \notin ApplyOps \cup HaltOps \cup {"raise", "resume", "started"}
  <2>1. MayFollow(a[1], a[j])
    BY <1>2, <1>5
  <2>2. \A op : op.do = "raise" => op.do \in FirstOps
    BY DEF FirstOps
  <2>3. \A op : op.do \in ApplyOps \ {"applied"} => Rank(op) \in 1..8
    BY <1>3 DEF ApplyOps, TradeOps, FirstOps
  <2> QED
    BY <1>3, <1>4, <2>1, <2>2, <2>3 DEF MayFollow
<1>6. \A j \in DOMAIN a : j # 1 => /\ a[j].do # "acknowledge"
                                   /\ a[j].do = "decide" => a[1].do = "reconcile"
  <2> SUFFICES ASSUME NEW j \in DOMAIN a, j # 1
               PROVE  a[j].do # "acknowledge" /\ (a[j].do = "decide" => a[1].do = "reconcile")
    OBVIOUS
  <2>1. a[j].do # "acknowledge"
    BY DEF InOrder
  <2>2. a[j].do = "decide" => a[1] = [do |-> "reconcile", for |-> a[j].for]
    BY DEF InOrder
  <2> QED
    BY <2>1, <2>2
<1> QED
  BY <1>5, <1>6 DEF Behind

\* The entries of a halt.
PlainOps == HaltOps \cup {"reconcile", "dispatch"}

Plain(q) == q \in Seq(Agenda) /\ \A i \in DOMAIN q : q[i].do \in PlainOps

(* What follows an entry of a halt is unrestricted.                        *)
LEMMA PlainRank == \A x, y : x.do \in PlainOps => Rank(x) <= 0 /\ Rank(x) \in Int /\ MayFollow(x, y)
<1>1. \A x : x.do \in PlainOps => Rank(x) <= 0 /\ Rank(x) \in Int
  BY DEF PlainOps, Rank, HaltOps, FirstOps
<1>2. \A x : Rank(x) \in Int /\ Rank(x) <= 0 => ~(Rank(x) >= 1) /\ Rank(x) # 1
  OBVIOUS
<1> QED
  BY <1>1, <1>2 DEF MayFollow

LEMMA AgendaTyped ==
    ASSUME NEW s \in Scenario
    PROVE  /\ \A do \in {"reconcile", "dispatch", "acknowledge", "cancel", "advance", "step", "decide"} :
                 [do |-> do, for |-> s] \in Agenda
           /\ \A do \in {"hard_halt", "raise", "apply", "contract", "flat", "exclude", "pin",
                         "opportunity", "applied", "resume", "started", "close"} :
                 [do |-> do] \in Agenda
           /\ \A day \in Nat, hardly \in BOOLEAN :
                 [do |-> "halt", for |-> s, day |-> day, hard |-> hardly] \in Agenda
BY DEF Agenda

(* The agenda of a halt.                                                   *)
LEMMA HaltDayShape ==
    ASSUME NEW day \in Nat, NEW hardly \in BOOLEAN, NEW q, HaltDay(day, hardly) = q
    PROVE  /\ Plain(q) /\ q # <<>>
           /\ hardly => q[1] = [do |-> "hard_halt"]
           /\ \A s \in Scenario : Cancelling(q, s, TRUE)
<1> DEFINE each(s) == <<[do |-> "reconcile", for |-> s], [do |-> "dispatch", for |-> s],
                        [do |-> "cancel", for |-> s],
                        [do |-> "halt", for |-> s, day |-> day, hard |-> hardly],
                        [do |-> "reconcile", for |-> s]>>
           first == IF hardly THEN <<[do |-> "hard_halt"]>> ELSE <<>>
<1>1. q = first \o (each("baseline") \o each("worse_costs"))
  BY DEF HaltDay, Each, Family, Do, DoFor
<1>2. Scenario = {"baseline", "worse_costs"}
  BY DEF Scenario
<1>3. ASSUME NEW s \in Scenario
      PROVE  /\ each(s) \in Seq(Agenda) /\ Len(each(s)) = 5 /\ DOMAIN each(s) = 1..5
             /\ \A i \in 1..5 : each(s)[i].do \in PlainOps
             /\ each(s)[3] = [do |-> "cancel", for |-> s]
             /\ each(s)[2] = [do |-> "dispatch", for |-> s]
  <2>1. /\ each(s)[1] \in Agenda /\ each(s)[2] \in Agenda /\ each(s)[3] \in Agenda
        /\ each(s)[4] \in Agenda /\ each(s)[5] \in Agenda
    BY DEF Agenda
  <2>2. \A i \in 1..5 : each(s)[i].do \in PlainOps
    BY DEF PlainOps, HaltOps
  <2> QED
    BY <2>1, <2>2
<1>4. /\ first \in Seq(Agenda) /\ \A i \in DOMAIN first : first[i].do \in PlainOps
      /\ hardly => first # <<>> /\ 1 \in DOMAIN first /\ first[1] = [do |-> "hard_halt"]
      /\ Len(first) \in {0, 1} /\ DOMAIN first = 1..Len(first)
  <2>1. [do |-> "hard_halt"] \in Agenda
    BY <1>2, AgendaTyped
  <2>2. CASE hardly
    BY <2>1, <2>2 DEF PlainOps, HaltOps
  <2>3. CASE ~hardly
    BY <2>3
  <2> QED
    BY <2>2, <2>3
<1> DEFINE b == each("baseline")
           c == each("worse_costs")
<1> HIDE DEF each, first
<1>5. PICK r : b \o c = r
  OBVIOUS
<1>6. /\ r \in Seq(Agenda) /\ Len(r) = 10
      /\ \A i \in 1..10 : r[i] = IF i <= 5 THEN b[i] ELSE c[i - 5]
  <2>1. b \in Seq(Agenda) /\ c \in Seq(Agenda) /\ Len(b) = 5 /\ Len(c) = 5
    BY <1>2, <1>3
  <2> HIDE DEF b, c
  <2>2. /\ b \o c \in Seq(Agenda) /\ Len(b \o c) = Len(b) + Len(c)
        /\ \A i \in 1..(Len(b) + Len(c)) : (b \o c)[i] = IF i <= Len(b) THEN b[i] ELSE c[i - Len(b)]
    BY <2>1, ConcatProperties, Zenon
  <2> QED
    BY <1>5, <2>1, <2>2
<1>7. /\ q \in Seq(Agenda) /\ Len(q) = Len(first) + 10
      /\ \A i \in 1..(Len(first) + 10) : q[i] = IF i <= Len(first) THEN first[i] ELSE r[i - Len(first)]
  <2>1. /\ first \o r \in Seq(Agenda) /\ Len(first \o r) = Len(first) + Len(r)
        /\ \A i \in 1..(Len(first) + Len(r)) :
              (first \o r)[i] = IF i <= Len(first) THEN first[i] ELSE r[i - Len(first)]
    BY <1>4, <1>6, ConcatProperties, Zenon
  <2>2. q = first \o r
    BY <1>1, <1>5
  <2> QED
    BY <1>6, <2>1, <2>2
<1>8. DOMAIN q = 1..(Len(first) + 10)
  BY <1>7, LenProperties
<1>9. \A i \in 1..10 : r[i].do \in PlainOps
  <2>1. /\ \A i \in 1..5 : b[i].do \in PlainOps /\ c[i].do \in PlainOps
    BY <1>2, <1>3
  <2> HIDE DEF b, c
  <2>2. \A i \in 1..10 : i <= 5 => i \in 1..5
    OBVIOUS
  <2>3. \A i \in 1..10 : ~(i <= 5) => i - 5 \in 1..5
    OBVIOUS
  <2> QED
    BY <1>6, <2>1, <2>2, <2>3
<1>10. Plain(q)
  <2>1. ASSUME NEW i \in DOMAIN q
        PROVE  q[i].do \in PlainOps
    <3>1. CASE i <= Len(first)
      BY <1>4, <1>7, <1>8, <3>1
    <3>2. CASE ~(i <= Len(first))
      <4>1. i - Len(first) \in 1..10
        BY <1>4, <1>8, <3>2, SMTT(30)
      <4> QED
        BY <1>7, <1>8, <1>9, <3>2, <4>1
    <3> QED
      BY <3>1, <3>2
  <2> QED
    BY <1>7, <2>1 DEF Plain
<1>11. hardly => q[1] = [do |-> "hard_halt"]
  BY <1>4, <1>7
<1>12. ASSUME NEW s \in Scenario
       PROVE  \E i, j \in DOMAIN q : /\ j < i /\ q[i] = [do |-> "cancel", for |-> s]
                                     /\ q[j] = [do |-> "dispatch", for |-> s]
  <2> DEFINE n == Len(first)
  <2>0. n \in {0, 1} /\ \A k \in 1..10 : n + k \in DOMAIN q /\ q[n + k] = r[k]
    <3>1. n \in {0, 1}
      BY <1>4
    <3> HIDE DEF n
    <3>2. \A k \in 1..10 : /\ n + k \in 1..(n + 10) /\ ~(n + k <= n) /\ (n + k) - n = k
      BY <3>1
    <3> QED
      BY <1>7, <1>8, <3>1, <3>2 DEF n
  <2> HIDE DEF n
  <2>1. CASE s = "baseline"
    <3>1. r[3] = [do |-> "cancel", for |-> s] /\ r[2] = [do |-> "dispatch", for |-> s]
      <4>1. b[3] = [do |-> "cancel", for |-> s] /\ b[2] = [do |-> "dispatch", for |-> s]
        BY <1>3, <2>1
      <4> HIDE DEF b
      <4> QED
        BY <1>6, <4>1
    <3> QED
      BY <2>0, <3>1
  <2>2. CASE s = "worse_costs"
    <3>1. r[8] = [do |-> "cancel", for |-> s] /\ r[7] = [do |-> "dispatch", for |-> s]
      <4>1. c[3] = [do |-> "cancel", for |-> s] /\ c[2] = [do |-> "dispatch", for |-> s]
        BY <1>3, <2>2
      <4> HIDE DEF c
      <4> QED
        BY <1>6, <4>1
    <3> QED
      BY <2>0, <3>1
  <2> QED
    BY <1>2, <2>1, <2>2
<1>13. q # <<>>
  BY <1>4, <1>7
<1>14. \A s \in Scenario : Cancelling(q, s, TRUE)
  BY <1>12 DEF Cancelling
<1> QED
  BY <1>10, <1>11, <1>13, <1>14

LEMMA PlainInOrder ==
    ASSUME NEW q, Plain(q)
    PROVE  /\ q \in Seq(Agenda) /\ InOrder(q)
           /\ \A i \in DOMAIN q : \A y : MayFollow(q[i], y)
           /\ \A some : some \cap PlainOps = {} => ~Has(q, some) /\ \A s : ~HasFor(q, some, s)
<1>1. \A i \in DOMAIN q : \A y : MayFollow(q[i], y)
  BY PlainRank DEF Plain
<1>2. \A i \in DOMAIN q : q[i].do # "acknowledge" /\ q[i].do # "decide"
  BY DEF Plain, PlainOps, HaltOps
<1>3. InOrder(q)
  BY <1>1, <1>2 DEF InOrder
<1>4. \A some : some \cap PlainOps = {} => ~Has(q, some) /\ \A s : ~HasFor(q, some, s)
  BY DEF Plain, Has, HasFor
<1> QED
  BY <1>1, <1>3, <1>4 DEF Plain

\* q is p, a halt, and then the step x.
HaltedThen(p, x, q) ==
    /\ q \in Seq(Agenda) /\ InOrder(q)
    /\ \A i \in DOMAIN q : q[i].do \in PlainOps \cup {x}
    /\ \A i \in DOMAIN q : q[i].do = x => q[i] = [do |-> x]
    /\ p # <<>> => q # <<>> /\ q[1] = p[1]
    /\ Has(q, {x})
    /\ \A i \in DOMAIN p : i \in DOMAIN q /\ q[i] = p[i]

(* A halt before one more step.                                            *)
LEMMA PlainThen ==
    ASSUME NEW p, Plain(p), NEW x \in {"contract", "applied", "flat", "exclude", "raise"},
           NEW q, p \o Do(x) = q
    PROVE  HaltedThen(p, x, q)
<1> DEFINE t == <<[do |-> x]>>
<1>1. /\ t \in Seq(Agenda) /\ Len(t) = 1 /\ t[1] = [do |-> x]
  <2>1. [do |-> x] \in Agenda
    BY DEF Agenda
  <2> QED
    BY <2>1
<1>2. q = p \o t /\ p \in Seq(Agenda)
  BY DEF Do, Plain
<1> HIDE DEF t
<1>3. /\ q \in Seq(Agenda) /\ Len(q) = Len(p) + 1
      /\ \A i \in 1..(Len(p) + 1) : q[i] = IF i <= Len(p) THEN p[i] ELSE t[i - Len(p)]
  <2>1. /\ p \o t \in Seq(Agenda) /\ Len(p \o t) = Len(p) + Len(t)
        /\ \A i \in 1..(Len(p) + Len(t)) : (p \o t)[i] = IF i <= Len(p) THEN p[i] ELSE t[i - Len(p)]
    BY <1>1, <1>2, ConcatProperties, Zenon
  <2> QED
    BY <1>1, <1>2, <2>1
<1>4. /\ DOMAIN q = 1..(Len(p) + 1) /\ DOMAIN p = 1..Len(p) /\ Len(p) \in Nat
  BY <1>2, <1>3, LenProperties
<1>5. \A i \in DOMAIN p : i \in DOMAIN q /\ q[i] = p[i]
  BY <1>3, <1>4
<1>6. Len(p) + 1 \in DOMAIN q /\ q[Len(p) + 1] = [do |-> x]
  <2>1. (Len(p) + 1) - Len(p) = 1 /\ ~(Len(p) + 1 <= Len(p)) /\ Len(p) + 1 \in 1..(Len(p) + 1)
    BY <1>4
  <2> QED
    BY <1>1, <1>3, <1>4, <2>1
<1>7. \A i \in DOMAIN q : i \in DOMAIN p \/ i = Len(p) + 1
  BY <1>4
<1>8. \A i \in DOMAIN q : i \in DOMAIN p => q[i].do \in PlainOps
  BY <1>5 DEF Plain
<1>9. x \notin PlainOps
  BY DEF PlainOps, HaltOps
<1>10. /\ \A i \in DOMAIN q : q[i].do \in PlainOps \cup {x}
       /\ \A i \in DOMAIN q : q[i].do = x => q[i] = [do |-> x]
       /\ \A i \in DOMAIN q : q[i].do # "acknowledge" /\ q[i].do # "decide"
  <2>1. \A i \in DOMAIN q : q[i].do \in PlainOps \/ q[i] = [do |-> x]
    BY <1>6, <1>7, <1>8
  <2>2. \A y : y = [do |-> x] => y.do = x
    OBVIOUS
  <2>3. "acknowledge" \notin PlainOps \cup {x} /\ "decide" \notin PlainOps \cup {x}
    BY DEF PlainOps, HaltOps
  <2>4. \A i \in DOMAIN q : q[i].do \in PlainOps \cup {x}
    BY <2>1, <2>2
  <2>5. \A i \in DOMAIN q : q[i].do = x => q[i] = [do |-> x]
    BY <1>9, <2>1
  <2> QED
    BY <2>3, <2>4, <2>5
<1>11. \A i, j \in DOMAIN q : i < j => MayFollow(q[i], q[j])
  <2> SUFFICES ASSUME NEW i \in DOMAIN q, NEW j \in DOMAIN q, i < j
               PROVE  MayFollow(q[i], q[j])
    OBVIOUS
  <2>1. i \in DOMAIN p
    BY <1>4
  <2> QED
    BY <1>8, <2>1, PlainRank
<1>12. InOrder(q)
  BY <1>10, <1>11 DEF InOrder
<1>13. Has(q, {x})
  BY <1>6 DEF Has
<1>14. p # <<>> => q # <<>> /\ q[1] = p[1]
  BY <1>2, <1>3, <1>4, <1>5
<1> QED
  BY <1>3, <1>5, <1>10, <1>12, <1>13, <1>14 DEF HaltedThen

Attempted == {"advance", "step", "decide", "opportunity"}

LEMMA EmptyAgenda ==
    ASSUME NEW q, q = <<>>
    PROVE  /\ q \in Seq(Agenda) /\ InOrder(q) /\ \A some : ~Has(q, some)
           /\ \A some, s : ~HasFor(q, some, s)
<1>1. DOMAIN q = {} /\ q \in Seq(Agenda)
  OBVIOUS
<1> QED
  BY <1>1 DEF InOrder, Has, HasFor

LEMMA PlainConcat ==
    ASSUME NEW p, Plain(p), NEW r, Plain(r), NEW q, p \o r = q
    PROVE  /\ Plain(q) /\ (p # <<>> => q # <<>> /\ q[1] = p[1])
           /\ \A i \in DOMAIN p : i \in DOMAIN q /\ q[i] = p[i]
<1>1. p \in Seq(Agenda) /\ r \in Seq(Agenda)
  BY DEF Plain
<1>2. /\ q \in Seq(Agenda) /\ Len(q) = Len(p) + Len(r)
      /\ \A i \in 1..(Len(p) + Len(r)) : q[i] = IF i <= Len(p) THEN p[i] ELSE r[i - Len(p)]
  <2>1. /\ p \o r \in Seq(Agenda) /\ Len(p \o r) = Len(p) + Len(r)
        /\ \A i \in 1..(Len(p) + Len(r)) : (p \o r)[i] = IF i <= Len(p) THEN p[i] ELSE r[i - Len(p)]
    BY <1>1, ConcatProperties, Zenon
  <2> QED
    BY <2>1
<1>3. /\ DOMAIN q = 1..(Len(p) + Len(r)) /\ DOMAIN p = 1..Len(p) /\ DOMAIN r = 1..Len(r)
      /\ Len(p) \in Nat /\ Len(r) \in Nat
  BY <1>1, <1>2, LenProperties
<1>4. ASSUME NEW i \in DOMAIN q
      PROVE  q[i].do \in PlainOps
  <2>1. CASE i <= Len(p)
    BY <1>2, <1>3, <2>1 DEF Plain
  <2>2. CASE ~(i <= Len(p))
    <3>1. i - Len(p) \in DOMAIN r
      BY <1>3, <2>2
    <3> QED
      BY <1>2, <1>3, <2>2, <3>1 DEF Plain
  <2> QED
    BY <2>1, <2>2
<1>5. \A i \in DOMAIN p : i \in DOMAIN q /\ q[i] = p[i]
  BY <1>2, <1>3
<1>6. p # <<>> => q # <<>> /\ q[1] = p[1]
  BY <1>1, <1>2, <1>3, <1>5
<1> QED
  BY <1>2, <1>4, <1>5, <1>6 DEF Plain

(* A halt, or none, and then one more step.                                *)
LEMMA HaltThen ==
    ASSUME NEW p, p = <<>> \/ \E day \in Nat, hardly \in BOOLEAN : p = HaltDay(day, hardly),
           NEW x \in {"contract", "applied", "flat", "exclude", "raise"}, NEW q, p \o Do(x) = q
    PROVE  Plain(p) /\ HaltedThen(p, x, q)
<1>1. Plain(p)
  <2>1. CASE p = <<>>
    <3>1. p \in Seq(Agenda) /\ DOMAIN p = {}
      BY <2>1
    <3> QED
      BY <3>1 DEF Plain
  <2>2. CASE \E day \in Nat, hardly \in BOOLEAN : p = HaltDay(day, hardly)
    <3>1. PICK day \in Nat, hardly \in BOOLEAN : HaltDay(day, hardly) = p
      BY <2>2
    <3> QED
      BY <3>1, HaltDayShape
  <2> QED
    BY <2>1, <2>2
<1> QED
  BY <1>1, PlainThen

(* One more step alone.                                                    *)
LEMMA OneStep ==
    ASSUME NEW x \in {"contract", "applied", "flat", "exclude", "raise", "pin"}
    PROVE  /\ Do(x) \in Seq(Agenda) /\ InOrder(Do(x)) /\ Has(Do(x), {x})
           /\ \A i \in DOMAIN Do(x) : Do(x)[i].do \in PlainOps \cup {x}
<1>1. [do |-> x] \in Agenda
  BY DEF Agenda
<1>2. PICK q : Do(x) = q
  OBVIOUS
<1>3. q \in Seq(Agenda) /\ DOMAIN q = {1} /\ q[1] = [do |-> x]
  <2> DEFINE t == <<[do |-> x]>>
  <2>1. t \in Seq(Agenda) /\ DOMAIN t = {1} /\ t[1] = [do |-> x]
    BY <1>1
  <2> QED
    BY <1>2, <2>1 DEF Do
<1>4. InOrder(q)
  BY <1>3 DEF InOrder
<1> QED
  BY <1>2, <1>3, <1>4 DEF Has

\* The steps of an accepted receipt.
PinOps == Each(Apply) \o Do("opportunity") \o Do("applied")

LEMMA PinSteps ==
    ASSUME NEW q, PinOps = q
    PROVE  /\ q \in Seq(Agenda) /\ Len(q) = 8 /\ DOMAIN q = 1..8
           /\ q[1] = [do |-> "advance", for |-> "baseline"]
           /\ q[2] = [do |-> "step", for |-> "baseline"]
           /\ q[3] = [do |-> "reconcile", for |-> "baseline"]
           /\ q[4] = [do |-> "advance", for |-> "worse_costs"]
           /\ q[5] = [do |-> "step", for |-> "worse_costs"]
           /\ q[6] = [do |-> "reconcile", for |-> "worse_costs"]
           /\ q[7] = [do |-> "opportunity"] /\ q[8] = [do |-> "applied"]
           /\ InOrder(q)
<1> DEFINE Q == <<[do |-> "advance", for |-> "baseline"], [do |-> "step", for |-> "baseline"],
                  [do |-> "reconcile", for |-> "baseline"],
                  [do |-> "advance", for |-> "worse_costs"], [do |-> "step", for |-> "worse_costs"],
                  [do |-> "reconcile", for |-> "worse_costs"],
                  [do |-> "opportunity"], [do |-> "applied"]>>
<1>1. q = Q
  BY DEF PinOps, Each, Family, Do, DoFor, Apply
<1>2. /\ Q[1] \in Agenda /\ Q[2] \in Agenda /\ Q[3] \in Agenda /\ Q[4] \in Agenda
      /\ Q[5] \in Agenda /\ Q[6] \in Agenda /\ Q[7] \in Agenda /\ Q[8] \in Agenda
  BY DEF Agenda, Scenario
<1>3. Q \in Seq(Agenda) /\ Len(Q) = 8 /\ DOMAIN Q = 1..8
  BY <1>2
<1>4. /\ q[1] = [do |-> "advance", for |-> "baseline"]
      /\ q[2] = [do |-> "step", for |-> "baseline"]
      /\ q[3] = [do |-> "reconcile", for |-> "baseline"]
      /\ q[4] = [do |-> "advance", for |-> "worse_costs"]
      /\ q[5] = [do |-> "step", for |-> "worse_costs"]
      /\ q[6] = [do |-> "reconcile", for |-> "worse_costs"]
      /\ q[7] = [do |-> "opportunity"] /\ q[8] = [do |-> "applied"]
  BY <1>1
<1>5. /\ Rank(q[1]) = 2 /\ Rank(q[2]) = 3 /\ Rank(q[3]) = -1 /\ Rank(q[4]) = 5 /\ Rank(q[5]) = 6
      /\ Rank(q[6]) = -1 /\ Rank(q[7]) = 8 /\ Rank(q[8]) = 9
  <2>1. Family[1] = "baseline"
    BY DEF Family
  <2> QED
    BY <1>4, <2>1 DEF Rank, HaltOps, FirstOps
<1>6. DOMAIN q = 1..8 /\ q \in Seq(Agenda) /\ Len(q) = 8
  BY <1>1, <1>3
<1>7. ASSUME NEW i \in 1..8, NEW j \in 1..8, i < j
      PROVE  MayFollow(q[i], q[j])
  <2>1. CASE i \in {3, 6}
    BY <1>5, <2>1 DEF MayFollow
  <2>2. CASE i \in {1, 2, 4, 5, 7, 8}
    <3>1. j \in {2, 3, 4, 5, 6, 7, 8}
      BY <1>7
    <3> QED
      BY <1>5, <1>7, <2>2, <3>1 DEF MayFollow
  <2>3. i \in {1, 2, 3, 4, 5, 6, 7, 8}
    OBVIOUS
  <2> QED
    BY <2>1, <2>2, <2>3
<1>8. \A i \in 1..8 : q[i].do # "acknowledge" /\ q[i].do # "decide"
  BY <1>4
<1>9. InOrder(q)
  BY <1>6, <1>7, <1>8 DEF InOrder
<1> QED
  BY <1>4, <1>6, <1>9

(* An entry of an agenda that a call starts with.                          *)
LEMMA ListedAgenda ==
    ASSUME NEW q \in Seq(Agenda), \A i \in DOMAIN q : Rank(q[i]) \in {-1, 0} \/ i = Len(q),
           \A i \in DOMAIN q : q[i].do \notin {"acknowledge", "decide"}
    PROVE  InOrder(q)
<1>1. DOMAIN q = 1..Len(q) /\ Len(q) \in Nat
  BY LenProperties
<1>2. ASSUME NEW i \in DOMAIN q, NEW j \in DOMAIN q, i < j
      PROVE  MayFollow(q[i], q[j])
  <2>1. Rank(q[i]) \in {-1, 0}
    BY <1>1, <1>2
  <2> QED
    BY <2>1 DEF MayFollow
<1> QED
  BY <1>2 DEF InOrder

\* The entries of a call that has begun to change a ledger, or is to apply a receipt.
Begun == ApplyOps \cup {"acknowledge"}

(* A due cancellation stays due while other entries are taken off.         *)
LEMMA CancellingStays ==
    ASSUME NEW a, NEW ops, NEW q, Spliced(a, ops, q), NEW s, NEW submit \in BOOLEAN,
           Cancelling(a, s, submit),
           a[1] = [do |-> "cancel", for |-> s] => submit,
           submit /\ a[1] = [do |-> "dispatch", for |-> s] =>
               \E m \in DOMAIN ops : ops[m] = [do |-> "dispatch", for |-> s]
    PROVE  Cancelling(q, s, submit)
<1>1. /\ DOMAIN a = 1..Len(a) /\ Len(a) \in Nat /\ Len(ops) \in Nat
      /\ DOMAIN ops = 1..Len(ops)
      /\ \A i \in DOMAIN ops : i \in DOMAIN q /\ q[i] = ops[i]
      /\ \A j \in DOMAIN a : j # 1 => j - 1 + Len(ops) \in DOMAIN q /\ q[j - 1 + Len(ops)] = a[j]
  BY DEF Spliced
<1>2. PICK i \in DOMAIN a :
        /\ a[i] = [do |-> "cancel", for |-> s]
        /\ submit => \E j \in DOMAIN a : j < i /\ a[j] = [do |-> "dispatch", for |-> s]
  BY DEF Cancelling
<1>3. i # 1
  <2>1. ASSUME i = 1
        PROVE  FALSE
    <3>1. PICK j \in DOMAIN a : j < i
      BY <1>2, <2>1
    <3> QED
      BY <1>1, <2>1, <3>1
  <2> QED
    BY <2>1
<1>4. i - 1 + Len(ops) \in DOMAIN q /\ q[i - 1 + Len(ops)] = [do |-> "cancel", for |-> s]
  BY <1>1, <1>2, <1>3
<1>5. ASSUME submit
      PROVE  \E j \in DOMAIN q : j < i - 1 + Len(ops) /\ q[j] = [do |-> "dispatch", for |-> s]
  <2>1. PICK j \in DOMAIN a : j < i /\ a[j] = [do |-> "dispatch", for |-> s]
    BY <1>2, <1>5
  <2>2. CASE j = 1
    <3>1. PICK m \in DOMAIN ops : ops[m] = [do |-> "dispatch", for |-> s]
      BY <1>5, <2>1, <2>2
    <3>2. m < i - 1 + Len(ops)
      BY <1>1, <1>3, <3>1
    <3>3. m \in DOMAIN q /\ q[m] = [do |-> "dispatch", for |-> s]
      BY <1>1, <3>1
    <3> QED
      BY <3>2, <3>3
  <2>3. CASE j # 1
    <3>1. j - 1 + Len(ops) < i - 1 + Len(ops)
      BY <1>1, <2>1
    <3>2. j - 1 + Len(ops) \in DOMAIN q /\ q[j - 1 + Len(ops)] = [do |-> "dispatch", for |-> s]
      BY <1>1, <2>1, <2>3
    <3> QED
      BY <3>1, <3>2
  <2> QED
    BY <2>2, <2>3
<1> QED
  BY <1>4, <1>5 DEF Cancelling

(* A set of numbers has a least one.                                       *)
LEMMA LeastNat ==
    ASSUME NEW S, S \subseteq Nat, S # {}
    PROVE  \E x \in S : \A y \in S : x <= y
<1> DEFINE Less == {ss \in Nat \X Nat : ss[1] < ss[2]}
<1>1. IsWellFoundedOn(Less, Nat)
  BY NatLessThanWellFounded DEF OpToRel
<1> HIDE DEF Less
<1>2. PICK x \in S : \A y \in S : ~ (<<y, x>> \in Less)
  BY <1>1, WFMin
<1>3. \A y \in S : x \in Nat /\ y \in Nat /\ ~(y < x)
  BY <1>2 DEF Less
<1> QED
  BY <1>3

(* Later minutes are of later days.                                        *)
LEMMA DayMonotone ==
    ASSUME NEW a \in Nat, NEW b \in Nat, a <= b
    PROVE  DayOf(a) <= DayOf(b)
<1> DEFINE x == DayOf(a)
           y == DayOf(b)
           m == Minute(a)
           n == Minute(b)
<1>1. /\ Stride \in Nat \ {0} /\ x \in Nat /\ y \in Nat
      /\ m \in Nat /\ n \in Nat /\ m < Stride /\ n < Stride
  BY SessionAssumption, DayNat DEF Minute
<1>2. a = Stride * x + m /\ b = Stride * y + n
  BY <1>1 DEF DayOf, Minute
<1> HIDE DEF x, y, m, n
<1>3. ASSUME y + 1 <= x
      PROVE  FALSE
  <2>1. Stride * (y + 1) <= Stride * x
    BY <1>1, <1>3
  <2>2. Stride * (y + 1) = Stride * y + Stride
    BY <1>1
  <2> DEFINE p == Stride * x
             q == Stride * y
  <2>3. p \in Nat /\ q \in Nat
    BY <1>1
  <2>4. q + Stride <= p /\ a = p + m /\ b = q + n
    BY <1>2, <2>1, <2>2
  <2> HIDE DEF p, q
  <2> QED
    BY <1>1, <2>3, <2>4
<1>4. x <= y
  BY <1>1, <1>3
<1> QED
  BY <1>4 DEF x, y

(* The places of the steps of a receipt.                                   *)
LEMMA Ranks ==
    /\ \A op : op.do \in ApplyOps \cup {"raise"} => Rank(op) \in 1..9
    /\ \A op : op.do \in FirstOps => Rank(op) = 1
    /\ \A op : op.do = "applied" => Rank(op) = 9
    /\ \A op : op.do = "started" => Rank(op) = 11
    /\ \A op : op.do = "resume" => Rank(op) = 10
    /\ \A op : op.do \in {"advance", "step", "decide", "opportunity", "applied"} => Rank(op) \in 2..9
    /\ \A op : op.do = "advance" => Rank(op) = IF op.for = Family[1] THEN 2 ELSE 5
    /\ \A op : op.do = "step" => Rank(op) = IF op.for = Family[1] THEN 3 ELSE 6
    /\ \A op : op.do = "decide" => Rank(op) = IF op.for = Family[1] THEN 4 ELSE 7
BY DEF Rank, ApplyOps, TradeOps, FirstOps, HaltOps

Steps == {"advance", "step", "decide"}

\* A halt, perhaps, and then x.
HaltAnd(x, ops) ==
    /\ ops \in Seq(Agenda) /\ Has(ops, {x})
    /\ \A some : Has(ops, some) => x \in some \/ some \cap PlainOps # {}

LEMMA HaltsAnd ==
    ASSUME NEW x \in {"contract", "applied", "flat", "exclude", "raise"}, NEW ops,
           ops = Do(x) \/ \E day \in Nat, hardly \in BOOLEAN : ops = HaltDay(day, hardly) \o Do(x)
    PROVE  HaltAnd(x, ops)
<1>1. CASE ops = Do(x)
  <2>1. /\ ops \in Seq(Agenda) /\ Has(ops, {x})
        /\ \A i \in DOMAIN ops : ops[i].do \in PlainOps \cup {x}
    BY <1>1, OneStep
  <2> QED
    BY <2>1 DEF HaltAnd, Has
<1>2. ASSUME NEW day \in Nat, NEW hardly \in BOOLEAN, ops = HaltDay(day, hardly) \o Do(x)
      PROVE  HaltAnd(x, ops)
  <2>1. PICK p : HaltDay(day, hardly) = p
    OBVIOUS
  <2>2. p \o Do(x) = ops
    BY <1>2, <2>1
  <2>3. p = <<>> \/ \E d \in Nat, h \in BOOLEAN : p = HaltDay(d, h)
    BY <2>1
  <2>4. HaltedThen(p, x, ops)
    BY <2>2, <2>3, HaltThen
  <2> QED
    BY <2>4 DEF HaltAnd, HaltedThen, Has
<1> QED
  BY <1>1, <1>2

LEMMA PinAnd == HaltAnd("pin", Do("pin"))
<1>1. /\ Do("pin") \in Seq(Agenda) /\ Has(Do("pin"), {"pin"})
      /\ \A i \in DOMAIN Do("pin") : Do("pin")[i].do \in PlainOps \cup {"pin"}
  BY OneStep
<1> QED
  BY <1>1 DEF HaltAnd, Has

\* The fills of a scenario are about to be reconciled.
Due(q, s) == \E i \in DOMAIN q :
    /\ q[i] = [do |-> "reconcile", for |-> s]
    /\ \A j \in DOMAIN q : j < i => \/ q[j].do \in {"reconcile", "dispatch", "acknowledge"}
                                    \/ q[j] = [do |-> "step", for |-> s]

\* An advance is followed by the worker's step, and a step by a reconciliation.
Shaped(q) ==
    \A i \in DOMAIN q :
        /\ q[i].do = "advance" => i + 1 \in DOMAIN q /\ q[i+1] = [do |-> "step", for |-> q[i].for]
        /\ q[i].do = "step" => i + 1 \in DOMAIN q /\ q[i+1] = [do |-> "reconcile", for |-> q[i].for]

NoEntry(db) == \A k \in ActiveOrders(db) : db.orders[k].req.id.kind # "entry"

\* The entries of s are cancelled ahead of f, after what is dispatched for s.
Before(q, f, s) ==
    \E i \in DOMAIN q : /\ i < f /\ q[i] = [do |-> "cancel", for |-> s]
                        /\ \A j \in DOMAIN q : j < f /\ q[j] = [do |-> "dispatch", for |-> s] => j < i

NoneDispatched(q, f, s) == \A j \in DOMAIN q : j < f => q[j] # [do |-> "dispatch", for |-> s]

Exiting(db) == \E k \in ActiveOrders(db) : db.orders[k].req.id.kind = "exit"

Alerts  == {"hard_halt", "raise", "exclude"}

Trades == {"pin", "advance", "step", "decide"}

(* What is due stays due.                                                  *)
LEMMA DueStays ==
    ASSUME NEW a, NEW ops, NEW q, Spliced(a, ops, q), NEW s, Due(a, s),
           a[1] # [do |-> "reconcile", for |-> s],
           \A m \in DOMAIN ops : ops[m].do \in {"reconcile", "dispatch", "acknowledge"}
    PROVE  Due(q, s)
<1>1. PICK i \in DOMAIN a :
         /\ a[i] = [do |-> "reconcile", for |-> s]
         /\ \A j \in DOMAIN a : j < i => \/ a[j].do \in {"reconcile", "dispatch", "acknowledge"}
                                         \/ a[j] = [do |-> "step", for |-> s]
  BY DEF Due
<1>2. i # 1 /\ i \in Nat /\ Len(ops) \in Nat
  BY <1>1 DEF Spliced
<1>3. i - 1 + Len(ops) \in DOMAIN q /\ q[i - 1 + Len(ops)] = [do |-> "reconcile", for |-> s]
  BY <1>1, <1>2 DEF Spliced
<1>4. ASSUME NEW j \in DOMAIN q, j < i - 1 + Len(ops)
      PROVE  \/ q[j].do \in {"reconcile", "dispatch", "acknowledge"}
             \/ q[j] = [do |-> "step", for |-> s]
  <2>1. CASE j \in DOMAIN ops
    BY <2>1 DEF Spliced
  <2>2. CASE j \notin DOMAIN ops
    <3>1. j + 1 - Len(ops) \in DOMAIN a /\ q[j] = a[j + 1 - Len(ops)] /\ j \in Nat
      BY <2>2 DEF Spliced
    <3>2. j + 1 - Len(ops) < i
      BY <1>2, <1>4, <3>1
    <3> QED
      BY <1>1, <3>1, <3>2
  <2> QED
    BY <2>1, <2>2
<1> QED
  BY <1>3, <1>4 DEF Due

LEMMA ShapedStays ==
    ASSUME NEW a, NEW ops, NEW q, Spliced(a, ops, q), Shaped(a), Shaped(ops)
    PROVE  Shaped(q)
<1>1. /\ Len(a) \in Nat /\ Len(ops) \in Nat /\ DOMAIN a = 1..Len(a) /\ DOMAIN ops = 1..Len(ops)
      /\ DOMAIN q = 1..Len(q) /\ Len(q) \in Nat
  BY DEF Spliced
<1> SUFFICES ASSUME NEW i \in DOMAIN q
             PROVE  /\ q[i].do = "advance" => /\ i + 1 \in DOMAIN q
                                              /\ q[i+1] = [do |-> "step", for |-> q[i].for]
                    /\ q[i].do = "step" => /\ i + 1 \in DOMAIN q
                                           /\ q[i+1] = [do |-> "reconcile", for |-> q[i].for]
  BY DEF Shaped
<1>2. i \in Nat
  BY <1>1
<1>3. CASE i \in DOMAIN ops
  <2>1. q[i] = ops[i]
    BY <1>3 DEF Spliced
  <2>2. i + 1 \in DOMAIN ops => i + 1 \in DOMAIN q /\ q[i+1] = ops[i+1]
    BY DEF Spliced
  <2> QED
    BY <1>3, <2>1, <2>2 DEF Shaped
<1>4. CASE i \notin DOMAIN ops
  <2>1. PICK j : j = i + 1 - Len(ops)
    OBVIOUS
  <2>2. j \in DOMAIN a /\ j # 1 /\ q[i] = a[j] /\ j \in Nat
    BY <1>1, <1>4, <2>1 DEF Spliced
  <2>3. j + 1 \in DOMAIN a => (j + 1) - 1 + Len(ops) \in DOMAIN q
                              /\ q[(j + 1) - 1 + Len(ops)] = a[j + 1]
    <3>1. j + 1 # 1
      BY <1>1, <2>2
    <3> QED
      BY <3>1 DEF Spliced
  <2>4. (j + 1) - 1 + Len(ops) = i + 1
    BY <1>1, <1>2, <2>1
  <2>5. j + 1 \in DOMAIN a => i + 1 \in DOMAIN q /\ q[i+1] = a[j+1]
    BY <2>3, <2>4
  <2> QED
    BY <2>2, <2>5 DEF Shaped
<1> QED
  BY <1>3, <1>4

LEMMA NoSteps ==
    ASSUME NEW q, ~Has(q, {"advance", "step"})
    PROVE  Shaped(q)
BY DEF Has, Shaped

(* The cancellations ahead of the check stay ahead of it.                  *)
LEMMA BeforeStays ==
    ASSUME NEW a, NEW ops, NEW q, Spliced(a, ops, q), NEW f \in DOMAIN a, f # 1, NEW s,
           NEW i \in DOMAIN a, i # 1, i < f, a[i] = [do |-> "cancel", for |-> s],
           \A j \in DOMAIN a : j < f /\ a[j] = [do |-> "dispatch", for |-> s] => j < i
    PROVE  Before(q, f - 1 + Len(ops), s)
<1>1. i \in DOMAIN a /\ i # 1 /\ i < f /\ a[i] = [do |-> "cancel", for |-> s]
  OBVIOUS
<1>2. /\ i # 1 /\ i \in Nat /\ Len(ops) \in Nat /\ f \in Nat /\ 1 <= i
      /\ DOMAIN ops = 1..Len(ops) /\ DOMAIN q = 1..Len(q) /\ Len(q) \in Nat
  BY <1>1 DEF Spliced
<1>3. i - 1 + Len(ops) \in DOMAIN q /\ q[i - 1 + Len(ops)] = [do |-> "cancel", for |-> s]
  BY <1>1, <1>2 DEF Spliced
<1>4. ASSUME NEW j \in DOMAIN q, j < f - 1 + Len(ops), q[j] = [do |-> "dispatch", for |-> s]
      PROVE  j < i - 1 + Len(ops)
  <2>1. CASE j \in DOMAIN ops
    BY <1>2, <2>1
  <2>2. CASE j \notin DOMAIN ops
    <3>1. j + 1 - Len(ops) \in DOMAIN a /\ q[j] = a[j + 1 - Len(ops)] /\ j \in Nat
      BY <1>2, <2>2 DEF Spliced
    <3>2. j + 1 - Len(ops) < f
      BY <1>2, <1>4, <3>1
    <3>3. j + 1 - Len(ops) < i
      BY <1>1, <1>4, <3>1, <3>2
    <3> QED
      BY <1>2, <3>1, <3>3
  <2> QED
    BY <2>1, <2>2
<1>5. i - 1 + Len(ops) < f - 1 + Len(ops)
  BY <1>1, <1>2
<1> QED
  BY <1>3, <1>4, <1>5 DEF Before

LEMMA NoneStays ==
    ASSUME NEW a, NEW ops, NEW q, Spliced(a, ops, q), NEW f \in DOMAIN a, f # 1, NEW s,
           \A j \in DOMAIN a : j # 1 /\ j < f => a[j] # [do |-> "dispatch", for |-> s],
           \A m \in DOMAIN ops : ops[m] # [do |-> "dispatch", for |-> s]
    PROVE  NoneDispatched(q, f - 1 + Len(ops), s)
<1>1. /\ Len(ops) \in Nat /\ f \in Nat /\ DOMAIN q = 1..Len(q) /\ Len(q) \in Nat
  BY DEF Spliced
<1> SUFFICES ASSUME NEW j \in DOMAIN q, j < f - 1 + Len(ops)
             PROVE  q[j] # [do |-> "dispatch", for |-> s]
  BY DEF NoneDispatched
<1>2. CASE j \in DOMAIN ops
  BY <1>2 DEF Spliced
<1>3. CASE j \notin DOMAIN ops
  <2>1. /\ j + 1 - Len(ops) \in DOMAIN a /\ q[j] = a[j + 1 - Len(ops)] /\ j \in Nat
        /\ j + 1 - Len(ops) # 1
    BY <1>1, <1>3 DEF Spliced
  <2>2. j + 1 - Len(ops) < f
    BY <1>1, <2>1
  <2> QED
    BY <2>1, <2>2
<1> QED
  BY <1>2, <1>3

(* A halt that is not hard, and what is queued behind it.                  *)
LEMMA SoftHalt ==
    ASSUME NEW day \in Nat, NEW q, HaltDay(day, FALSE) = q
    PROVE  /\ q \in Seq(Agenda) /\ DOMAIN q = 1..10 /\ Len(q) = 10
           /\ \A i \in DOMAIN q : q[i].do \in {"reconcile", "dispatch", "cancel", "halt"}
           /\ q[3] = [do |-> "cancel", for |-> "baseline"]
           /\ q[8] = [do |-> "cancel", for |-> "worse_costs"]
           /\ \A i \in DOMAIN q : /\ q[i] = [do |-> "dispatch", for |-> "baseline"] => i < 3
                                  /\ q[i] = [do |-> "dispatch", for |-> "worse_costs"] => i < 8
<1> DEFINE Q == <<[do |-> "reconcile", for |-> "baseline"], [do |-> "dispatch", for |-> "baseline"],
                  [do |-> "cancel", for |-> "baseline"],
                  [do |-> "halt", for |-> "baseline", day |-> day, hard |-> FALSE],
                  [do |-> "reconcile", for |-> "baseline"],
                  [do |-> "reconcile", for |-> "worse_costs"], [do |-> "dispatch", for |-> "worse_costs"],
                  [do |-> "cancel", for |-> "worse_costs"],
                  [do |-> "halt", for |-> "worse_costs", day |-> day, hard |-> FALSE],
                  [do |-> "reconcile", for |-> "worse_costs"]>>
<1>1. q = Q
  BY DEF HaltDay, Each, Family, Do, DoFor
<1>2. /\ Q[1] \in Agenda /\ Q[2] \in Agenda /\ Q[3] \in Agenda /\ Q[4] \in Agenda
      /\ Q[5] \in Agenda /\ Q[6] \in Agenda /\ Q[7] \in Agenda /\ Q[8] \in Agenda
      /\ Q[9] \in Agenda /\ Q[10] \in Agenda
  BY DEF Agenda, Scenario
<1>3. Q \in Seq(Agenda) /\ Len(Q) = 10 /\ DOMAIN Q = 1..10
  BY <1>2
<1>4. /\ q[1] = [do |-> "reconcile", for |-> "baseline"] /\ q[2] = [do |-> "dispatch", for |-> "baseline"]
      /\ q[3] = [do |-> "cancel", for |-> "baseline"] /\ q[4].do = "halt"
      /\ q[5] = [do |-> "reconcile", for |-> "baseline"]
      /\ q[6] = [do |-> "reconcile", for |-> "worse_costs"]
      /\ q[7] = [do |-> "dispatch", for |-> "worse_costs"]
      /\ q[8] = [do |-> "cancel", for |-> "worse_costs"] /\ q[9].do = "halt"
      /\ q[10] = [do |-> "reconcile", for |-> "worse_costs"]
  BY <1>1
<1>5. q \in Seq(Agenda) /\ DOMAIN q = 1..10 /\ Len(q) = 10
  BY <1>1, <1>3
<1>6. ASSUME NEW i \in DOMAIN q
      PROVE  /\ q[i].do \in {"reconcile", "dispatch", "cancel", "halt"}
             /\ q[i] = [do |-> "dispatch", for |-> "baseline"] => i < 3
             /\ q[i] = [do |-> "dispatch", for |-> "worse_costs"] => i < 8
  <2>1. i \in {1, 2, 3, 4, 5, 6, 7, 8, 9, 10}
    BY <1>5
  <2>2. /\ q[i].do \in {"reconcile", "dispatch", "cancel", "halt"}
        /\ q[i].do = "dispatch" => \/ i = 2 /\ q[i].for = "baseline"
                                   \/ i = 7 /\ q[i].for = "worse_costs"
    <3> HIDE DEF Q
    <3> QED
      BY <1>4, <2>1
  <2>3. \A s : q[i] = [do |-> "dispatch", for |-> s] => q[i].do = "dispatch" /\ q[i].for = s
    OBVIOUS
  <2> QED
    BY <2>2, <2>3
<1> QED
  BY <1>4, <1>5, <1>6

\* A halt that is not hard, with x behind it.
Softly(q, x) ==
    /\ \A i \in DOMAIN q : /\ q[i].do \in {"reconcile", "dispatch", "cancel", "halt", x}
                           /\ q[i].do = x => i = 11
    /\ \A s \in Scenario : Before(q, 11, s)

LEMMA SoftJoin ==
    ASSUME NEW p, NEW ops, NEW x \in {"contract", "applied", "flat"},
           DOMAIN p = 1..10, DOMAIN ops = 1..11, \A i \in 1..10 : ops[i] = p[i], ops[11] = [do |-> x],
           \A i \in DOMAIN p : p[i].do \in {"reconcile", "dispatch", "cancel", "halt"},
           p[3] = [do |-> "cancel", for |-> "baseline"],
           p[8] = [do |-> "cancel", for |-> "worse_costs"],
           \A i \in DOMAIN p : /\ p[i] = [do |-> "dispatch", for |-> "baseline"] => i < 3
                               /\ p[i] = [do |-> "dispatch", for |-> "worse_costs"] => i < 8
    PROVE  Softly(ops, x)
<1>9. ASSUME NEW i \in DOMAIN ops
      PROVE  /\ ops[i].do \in {"reconcile", "dispatch", "cancel", "halt", x}
             /\ ops[i].do = x => i = 11
             /\ i < 11 => ops[i] = p[i] /\ i \in DOMAIN p
  <2>1. CASE i \in 1..10
    BY <2>1
  <2>2. CASE i = 11
    BY <2>2
  <2> QED
    BY <2>1, <2>2
<1>10. Before(ops, 11, "baseline")
  <2>1. 3 \in DOMAIN ops /\ 3 < 11 /\ ops[3] = [do |-> "cancel", for |-> "baseline"]
    OBVIOUS
  <2> QED
    BY <1>9, <2>1 DEF Before
<1>11. Before(ops, 11, "worse_costs")
  <2>1. 8 \in DOMAIN ops /\ 8 < 11 /\ ops[8] = [do |-> "cancel", for |-> "worse_costs"]
    OBVIOUS
  <2> QED
    BY <1>9, <2>1 DEF Before
<1> QED
  BY <1>9, <1>10, <1>11 DEF Scenario, Softly

LEMMA SoftThen ==
    ASSUME NEW day \in Nat, NEW x \in {"contract", "applied", "flat"},
           NEW ops, HaltDay(day, FALSE) \o Do(x) = ops
    PROVE  /\ ops \in Seq(Agenda) /\ DOMAIN ops = 1..11 /\ Len(ops) = 11
           /\ Softly(ops, x)
<1>1. PICK p : HaltDay(day, FALSE) = p
  OBVIOUS
<1>2. /\ p \in Seq(Agenda) /\ DOMAIN p = 1..10 /\ Len(p) = 10
      /\ \A i \in DOMAIN p : p[i].do \in {"reconcile", "dispatch", "cancel", "halt"}
      /\ p[3] = [do |-> "cancel", for |-> "baseline"]
      /\ p[8] = [do |-> "cancel", for |-> "worse_costs"]
      /\ \A i \in DOMAIN p : /\ p[i] = [do |-> "dispatch", for |-> "baseline"] => i < 3
                             /\ p[i] = [do |-> "dispatch", for |-> "worse_costs"] => i < 8
  BY <1>1, SoftHalt
<1> DEFINE d == <<[do |-> x]>>
<1>3. d \in Seq(Agenda) /\ Len(d) = 1 /\ d[1] = [do |-> x]
  <2>1. [do |-> x] \in Agenda
    BY DEF Agenda
  <2> QED
    BY <2>1
<1>4. ops = p \o d
  BY <1>1 DEF Do
<1> HIDE DEF d
<1>5. /\ ops \in Seq(Agenda) /\ Len(ops) = 11
      /\ \A i \in 1..11 : ops[i] = IF i <= 10 THEN p[i] ELSE d[i - 10]
  <2>1. /\ p \o d \in Seq(Agenda) /\ Len(p \o d) = Len(p) + Len(d)
        /\ \A i \in 1..(Len(p) + Len(d)) : (p \o d)[i] = IF i <= Len(p) THEN p[i] ELSE d[i - Len(p)]
    BY <1>2, <1>3, ConcatProperties, Zenon
  <2> QED
    BY <1>2, <1>3, <1>4, <2>1
<1>6. PICK r : r = ops
  OBVIOUS
<1>7. /\ DOMAIN r = 1..11 /\ \A i \in 1..10 : r[i] = p[i]
      /\ r[11] = [do |-> x]
  <2>1. /\ r \in Seq(Agenda) /\ Len(r) = 11
        /\ \A i \in 1..11 : r[i] = IF i <= 10 THEN p[i] ELSE d[i - 10]
    BY <1>5, <1>6
  <2>2. DOMAIN r = 1..11
    BY <2>1, LenProperties
  <2> QED
    BY <1>3, <2>1, <2>2
<1>8. Softly(r, x)
  BY <1>2, <1>7, SoftJoin
<1> QED
  BY <1>5, <1>6, <1>7, <1>8

LEMMA HoldsPosition ==
    ASSUME NEW db, NEW v, Agree(db, v)
    PROVE  Position(db.fills) = 0 <=> db.lots = {}
<1>1. /\ db \in SimLedger /\ IsFiniteSet(db.lots) /\ \A a, b \in db.lots : a.side = b.side
      /\ Position(db.fills) = SimPosition(db)
  BY DEF Agree, Sound, Contained, Exposed, Booked, Balanced
<1>2. db.lots \in SUBSET Unit
  BY <1>1, LedgerFields
<1>3. Net(db.lots) = 0 => db.lots = {}
  BY <1>1, <1>2, OneSidedNet
<1>4. Net({}) = 0
  <2>1. OnSide({}, 1) = {} /\ OnSide({}, -1) = {}
    BY DEF OnSide
  <2>2. Cardinality({}) = 0
    BY FS_EmptySet
  <2> QED
    BY <2>1, <2>2 DEF Net
<1> QED
  BY <1>1, <1>3, <1>4, SimPositionNet

(* Other operations than these find every worker in step with its broker.  *)
Lead == {"reconcile", "dispatch", "acknowledge", "step"}

LEMMA Alone ==
    ASSUME NEW x \in {"contract", "applied", "flat", "exclude", "raise", "pin"}, NEW ops, Do(x) = ops
    PROVE  ops \in Seq(Agenda) /\ \A some : Has(ops, some) => x \in some
<1>1. ops \in Seq(Agenda) /\ DOMAIN ops = {1} /\ ops[1].do = x
  <2> DEFINE t == <<[do |-> x]>>
  <2>1. [do |-> x] \in Agenda
    BY DEF Agenda
  <2>2. t \in Seq(Agenda) /\ DOMAIN t = {1} /\ t[1] = [do |-> x]
    BY <2>1
  <2> QED
    BY <2>2 DEF Do
<1> QED
  BY <1>1 DEF Has

LEMMA SoftlyHas ==
    ASSUME NEW x \in {"contract", "applied", "flat"}, NEW ops, Softly(ops, x)
    PROVE  /\ ~Has(ops, {"close", "advance", "step", "decide"}) /\ ~Has(ops, Alerts)
           /\ ~Has(ops, {"pin"}) /\ (Has(ops, {"flat"}) => x = "flat")
<1>1. \A i \in DOMAIN ops : ops[i].do \in {"reconcile", "dispatch", "cancel", "halt", x}
  BY DEF Softly
<1> QED
  BY <1>1 DEF Has, Alerts

\* A hard halt, and then x.
LEMMA HardThen ==
    ASSUME NEW day \in Nat, NEW x \in {"exclude", "raise"}, NEW ops, HaltDay(day, TRUE) \o Do(x) = ops
    PROVE  /\ ops \in Seq(Agenda) /\ ~Has(ops, {"close", "advance", "step", "decide"})
           /\ ~Has(ops, {"pin"}) /\ ~Has(ops, {"flat"})
<1>1. HaltAnd(x, ops)
  BY HaltsAnd
<1>2. /\ ops \in Seq(Agenda)
      /\ \A some : Has(ops, some) => x \in some \/ some \cap PlainOps # {}
  BY <1>1 DEF HaltAnd
<1>3. /\ {"close", "advance", "step", "decide"} \cap PlainOps = {} /\ {"pin"} \cap PlainOps = {}
      /\ {"flat"} \cap PlainOps = {}
  BY DEF PlainOps, HaltOps
<1> QED
  BY <1>2, <1>3

LEMMA PinShaped ==
    ASSUME NEW q, DOMAIN q = 1..8,
           q[1] = [do |-> "advance", for |-> "baseline"],
           q[2] = [do |-> "step", for |-> "baseline"],
           q[3] = [do |-> "reconcile", for |-> "baseline"],
           q[4] = [do |-> "advance", for |-> "worse_costs"],
           q[5] = [do |-> "step", for |-> "worse_costs"],
           q[6] = [do |-> "reconcile", for |-> "worse_costs"],
           q[7] = [do |-> "opportunity"], q[8] = [do |-> "applied"]
    PROVE  Shaped(q) /\ ~Has(q, {"close"}) /\ ~Has(q, Alerts) /\ ~Has(q, {"pin"}) /\ ~Has(q, {"flat"})
<1>1. ASSUME NEW i \in DOMAIN q
      PROVE  /\ q[i].do = "advance" => i + 1 \in DOMAIN q /\ q[i+1] = [do |-> "step", for |-> q[i].for]
             /\ q[i].do = "step" => /\ i + 1 \in DOMAIN q
                                    /\ q[i+1] = [do |-> "reconcile", for |-> q[i].for]
             /\ q[i].do \in {"advance", "step", "reconcile", "opportunity", "applied"}
  <2>1. i \in {1, 2, 3, 4, 5, 6, 7, 8}
    OBVIOUS
  <2>2. CASE i = 1
    BY <2>2
  <2>3. CASE i = 2
    BY <2>3
  <2>4. CASE i = 4
    BY <2>4
  <2>5. CASE i = 5
    BY <2>5
  <2>6. CASE i \in {3, 6, 7, 8}
    BY <2>6
  <2> QED
    BY <2>1, <2>2, <2>3, <2>4, <2>5, <2>6
<1>2. Shaped(q)
  BY <1>1 DEF Shaped
<1> QED
  BY <1>1, <1>2 DEF Has, Alerts

(***************************************************************************)
(* The decision on a bar                                                   *)
(***************************************************************************)

\* The request that bar b makes of the worker.
RequestOn(v, b, kind, side, n, at) ==
    ForwardRequest([day |-> DayOf(b.ts), kind |-> kind,
                    retry |-> Cardinality(Earlier(v, DayOf(b.ts), kind))], side, n, b.ts, at)

\* u has one intent more than v, which bar b asks for: an entry of the frozen size
\* without inventory and outside a halt, or an exit of all there is, at the exit
\* minute or with a halt.
Intends(v, u, b, at) ==
    \E kind \in Kind, side \in Side, n \in Nat \ {0} :
        /\ MayIntend(v, DayOf(b.ts), kind)
        /\ u.intents = Append(v.intents, [req   |-> RequestOn(v, b, kind, side, n, at),
                                          state |-> "pending"])
        /\ kind = "entry" => /\ Minute(b.ts) = OpeningBars - 1 /\ n = MaxQty
                             /\ Position(v.fills) = 0
                             /\ DayOf(b.ts) \notin u.halted /\ ~u.riskHalted
        /\ kind = "exit" => /\ n = Size(Position(v.fills))
                            /\ DayOf(b.ts) \in u.halted \/ Minute(b.ts) >= ExitMinute

LEMMA DecidedForward ==
    ASSUME NEW v \in WorkerLedger, NEW b \in Bar, NEW impulse \in {-1, 0, 1}, NEW risk \in Risk,
           NEW at \in Nat, NEW u, ForwardDecided(v, b, impulse, risk, at) = u
    PROVE  /\ u.intents = v.intents \/ Intends(v, u, b, at)
           /\ u.fills = v.fills /\ u.bars = v.bars \cup {b}
           /\ v.halted \subseteq u.halted /\ u.halted \subseteq v.halted \cup {DayOf(b.ts)}
           /\ v.riskHalted => u.riskHalted
           /\ u.riskHalted \in BOOLEAN
           /\ u = [intents |-> u.intents, fills |-> u.fills, bars |-> u.bars,
                   halted |-> u.halted, riskHalted |-> u.riskHalted]
<1> DEFINE o == Observed(v, b, risk)
           pos == Position(v.fills)
           day == DayOf(b.ts)
           In(kind, side, n) == Intend(o, kind, side, n, b, at)
           Kept(x) == /\ x.fills = v.fills /\ x.bars = v.bars \cup {b}
                      /\ x.halted = o.halted /\ x.riskHalted = o.riskHalted
                      /\ x = [intents |-> x.intents, fills |-> x.fills, bars |-> x.bars,
                              halted |-> x.halted, riskHalted |-> x.riskHalted]
<1>1. /\ o.intents = v.intents /\ Kept(o)
      /\ v.halted \subseteq o.halted /\ o.halted \subseteq v.halted \cup {day}
      /\ v.riskHalted => o.riskHalted
      /\ o.riskHalted \in BOOLEAN
  BY WorkerFields DEF Observed
<1> HIDE DEF o
<1>2. \A kind : Earlier(o, day, kind) = Earlier(v, day, kind) /\ (MayIntend(o, day, kind) <=> MayIntend(v, day, kind))
  BY <1>1 DEF Earlier, MayIntend
<1>3. pos \in Int /\ pos = Position(o.fills)
  BY <1>1, WorkerFields, PositionInt
<1>4. ASSUME NEW kind, NEW side, NEW n
      PROVE  /\ Kept(In(kind, side, n))
             /\ \/ In(kind, side, n).intents = v.intents
                \/ /\ MayIntend(v, day, kind)
                   /\ In(kind, side, n).intents
                        = Append(v.intents, [req   |-> RequestOn(v, b, kind, side, n, at),
                                             state |-> "pending"])
  <2>1. CASE MayIntend(o, day, kind)
    <3>1. In(kind, side, n)
            = WithIntents(o, Append(o.intents, [req   |-> RequestOn(v, b, kind, side, n, at),
                                                state |-> "pending"]))
      BY <1>2, <2>1 DEF Intend, RequestOn
    <3> QED
      BY <1>1, <1>2, <2>1, <3>1 DEF WithIntents
  <2>2. CASE ~MayIntend(o, day, kind)
    <3>1. In(kind, side, n) = o
      BY <2>2 DEF Intend
    <3> QED
      BY <1>1, <3>1
  <2> QED
    BY <2>1, <2>2
<1> HIDE DEF In, Kept, o
<1> DEFINE Goal == Kept(u) /\ (u.intents = v.intents \/ Intends(v, u, b, at))
<1>5. ASSUME WantsEntry(o, b, impulse)
      PROVE  Goal
  <2>1. u = In("entry", impulse, MaxQty)
    BY <1>5 DEF ForwardDecided, o, In
  <2>2. /\ Minute(b.ts) = OpeningBars - 1 /\ pos = 0 /\ impulse \in Side
        /\ day \notin o.halted /\ ~o.riskHalted /\ MaxQty \in Nat \ {0}
    BY <1>3, <1>5, MaxQtyAssumption DEF WantsEntry, Side
  <2>3. /\ Kept(u)
        /\ \/ u.intents = v.intents
           \/ /\ MayIntend(v, day, "entry")
              /\ u.intents = Append(v.intents, [req   |-> RequestOn(v, b, "entry", impulse, MaxQty, at),
                                                state |-> "pending"])
    BY <1>4, <2>1
  <2>4. "entry" \in Kind /\ "entry" # "exit" /\ u.halted = o.halted /\ u.riskHalted = o.riskHalted
    BY <2>3 DEF Kind, Kept
  <2>5. ASSUME MayIntend(v, day, "entry"),
               u.intents = Append(v.intents, [req   |-> RequestOn(v, b, "entry", impulse, MaxQty, at),
                                              state |-> "pending"])
        PROVE  Intends(v, u, b, at)
    <3> HIDE DEF o, In, Kept
    <3>1. \E kind \in Kind, side \in Side, n \in Nat \ {0} :
            /\ MayIntend(v, DayOf(b.ts), kind)
            /\ u.intents = Append(v.intents, [req   |-> RequestOn(v, b, kind, side, n, at),
                                              state |-> "pending"])
            /\ kind = "entry" => /\ Minute(b.ts) = OpeningBars - 1 /\ n = MaxQty
                                 /\ Position(v.fills) = 0
                                 /\ DayOf(b.ts) \notin u.halted /\ ~u.riskHalted
            /\ kind = "exit" => /\ n = Size(Position(v.fills))
                                /\ DayOf(b.ts) \in u.halted \/ Minute(b.ts) >= ExitMinute
      <4> USE <2>2, <2>4, <2>5
      <4> WITNESS "entry" \in Kind, impulse \in Side, MaxQty \in Nat \ {0}
      <4> QED
        OBVIOUS
    <3> QED
      BY <3>1 DEF Intends
  <2>6. u.intents = v.intents \/ Intends(v, u, b, at)
    BY <2>3, <2>5
  <2> QED
    BY <2>3, <2>6
<1>6. ASSUME ~WantsEntry(o, b, impulse) /\ WantsExit(o, b, risk)
      PROVE  Goal
  <2> DEFINE side == IF pos > 0 THEN -1 ELSE 1
  <2>1. u = In("exit", side, Size(pos))
    BY <1>3, <1>6 DEF ForwardDecided, o, In
  <2>2. /\ pos # 0 /\ side \in Side /\ Size(pos) \in Nat \ {0}
    BY <1>3, <1>6 DEF WantsExit, Side, Size
  <2> HIDE DEF side
  <2>3. /\ Kept(u)
        /\ \/ u.intents = v.intents
           \/ /\ MayIntend(v, day, "exit")
              /\ u.intents = Append(v.intents, [req   |-> RequestOn(v, b, "exit", side, Size(pos), at),
                                                state |-> "pending"])
    BY <1>4, <2>1
  <2>4. /\ "exit" \in Kind /\ "entry" # "exit"
        /\ DayOf(b.ts) \in u.halted \/ Minute(b.ts) >= ExitMinute
    <3>1. u.halted = o.halted
      BY <2>3 DEF Kept
    <3>2. risk # "none" => DayOf(b.ts) \in o.halted
      BY DEF o, Observed
    <3> QED
      BY <1>6, <3>1, <3>2 DEF Kind, WantsExit
  <2>5. ASSUME MayIntend(v, day, "exit"),
               u.intents = Append(v.intents, [req   |-> RequestOn(v, b, "exit", side, Size(pos), at),
                                              state |-> "pending"])
        PROVE  Intends(v, u, b, at)
    <3> HIDE DEF o, In, Kept
    <3>1. \E kind \in Kind, sign \in Side, n \in Nat \ {0} :
            /\ MayIntend(v, DayOf(b.ts), kind)
            /\ u.intents = Append(v.intents, [req   |-> RequestOn(v, b, kind, sign, n, at),
                                              state |-> "pending"])
            /\ kind = "entry" => /\ Minute(b.ts) = OpeningBars - 1 /\ n = MaxQty
                                 /\ Position(v.fills) = 0
                                 /\ DayOf(b.ts) \notin u.halted /\ ~u.riskHalted
            /\ kind = "exit" => /\ n = Size(Position(v.fills))
                                /\ DayOf(b.ts) \in u.halted \/ Minute(b.ts) >= ExitMinute
      <4> USE <2>2, <2>4, <2>5
      <4> WITNESS "exit" \in Kind, side \in Side, Size(pos) \in Nat \ {0}
      <4> QED
        OBVIOUS
    <3> QED
      BY <3>1 DEF Intends
  <2>6. u.intents = v.intents \/ Intends(v, u, b, at)
    BY <2>3, <2>5
  <2> QED
    BY <2>3, <2>6
<1>7. ASSUME ~WantsEntry(o, b, impulse) /\ ~WantsExit(o, b, risk)
      PROVE  Goal
  <2>1. u = o
    BY <1>7 DEF ForwardDecided, o
  <2>2. Kept(o)
    BY <1>1
  <2>3. Kept(u)
    BY <2>1, <2>2
  <2>4. u.intents = v.intents
    BY <1>1, <2>1
  <2> QED
    BY <2>3, <2>4
<1>8. Goal
  BY <1>5, <1>6, <1>7
<1> QED
  BY <1>1, <1>8 DEF Kept

(* What bar b asks for is a request of its day, after its latency, and of  *)
(* an identity the worker has not used.                                    *)
LEMMA RequestShape ==
    ASSUME NEW v \in WorkerLedger, NEW b \in Bar, NEW kind \in Kind, NEW side \in Side,
           NEW n \in Nat \ {0}, NEW at \in Nat,
           NEW req, RequestOn(v, b, kind, side, n, at) = req
    PROVE  /\ req \in Request
           /\ req.qty = n /\ req.side = side /\ req.submitted = b.ts + 1
           /\ req.id.day = DayOf(b.ts) /\ req.id.kind = kind
           /\ req.id.retry = Cardinality(Earlier(v, DayOf(b.ts), kind))
           /\ req.submitted + Latency <= req.eligible
           /\ kind = "entry" => req.expires = req.eligible + EntryLife
           /\ at <= b.ts + 1 => req.eligible = req.submitted + Latency
<1> DEFINE id == [day |-> DayOf(b.ts), kind |-> kind,
                  retry |-> Cardinality(Earlier(v, DayOf(b.ts), kind))]
           eligible == IF b.ts + 1 + Latency >= at + 1 THEN b.ts + 1 + Latency ELSE at + 1
           expires == eligible + (IF kind = "entry" THEN EntryLife ELSE ExitLife)
<1>1. b.ts \in Nat /\ DayOf(b.ts) \in Nat
  BY DayNat DEF Bar
<1>2. Latency \in Nat \ {0} /\ EntryLife \in Nat /\ ExitLife \in Nat
  BY SessionAssumption
<1>3. Cardinality(Earlier(v, DayOf(b.ts), kind)) \in Nat
  <2>1. IsFiniteSet(DOMAIN v.intents)
    BY WorkerFields, FS_Interval
  <2>2. Earlier(v, DayOf(b.ts), kind) \subseteq DOMAIN v.intents
    BY DEF Earlier
  <2> QED
    BY <2>1, <2>2, FS_Subset, FS_CardinalityType
<1>4. id \in Id
  BY <1>1, <1>3 DEF Id
<1>5. /\ eligible \in Nat /\ expires \in Nat /\ b.ts + 1 + Latency <= eligible
      /\ at <= b.ts + 1 => eligible = b.ts + 1 + Latency
  BY <1>1, <1>2
<1>6. req = [id |-> id, side |-> side, qty |-> n, decided |-> at, submitted |-> b.ts + 1,
             eligible |-> eligible, expires |-> expires]
  BY DEF RequestOn, ForwardRequest
<1> HIDE DEF eligible, id
<1>7. req \in Request
  BY <1>1, <1>4, <1>5, <1>6 DEF Request
<1> QED
  BY <1>5, <1>6, <1>7 DEF id

(* The decision on a bar the broker has advanced over, by a worker that is *)
(* reconciled, keeps the agreement, if at the minute that decides entries  *)
(* no entry of another day is live.                                        *)
LEMMA DecidedAgree ==
    ASSUME NEW db, NEW v, Agree(db, v), NEW b \in db.bars, v.fills = db.fills, NEW at \in Nat,
           Minute(b.ts) = OpeningBars - 1 => \A k \in DOMAIN v.intents :
               Live(db, v, k) => v.intents[k].req.id.day = DayOf(b.ts),
           NEW impulse \in {-1, 0, 1}, NEW risk \in Risk,
           NEW u, ForwardDecided(v, b, impulse, risk, at) = u
    PROVE  Agree(db, u)
<1>0. v \in WorkerLedger
  BY DEF Agree
<1>1. /\ db \in SimLedger /\ v \in WorkerLedger /\ Sound(db) /\ Booked(db) /\ b \in Bar
      /\ Ordered(db, v) /\ Observes(db, v) /\ Planned(v) /\ Contained(db, v)
  BY LedgerFields DEF Agree
<1>2. /\ u.intents = v.intents \/ Intends(v, u, b, at)
      /\ u.fills = v.fills /\ u.bars = v.bars \cup {b}
      /\ u.halted \subseteq v.halted \cup {DayOf(b.ts)} /\ u.riskHalted \in BOOLEAN
      /\ u = [intents |-> u.intents, fills |-> u.fills, bars |-> u.bars,
              halted |-> u.halted, riskHalted |-> u.riskHalted]
  BY <1>1, DecidedForward
<1>3. DayOf(b.ts) \in Nat /\ b.ts \in Nat
  BY <1>1, DayNat DEF Bar
<1>4. u.intents \in Seq(Intent) => u \in WorkerLedger
  <2>1. u.halted \in SUBSET Nat /\ u.bars \in SUBSET Bar /\ u.fills \in Seq(Fill)
    BY <1>1, <1>2, <1>3, WorkerFields
  <2> QED
    BY <1>2, <2>1 DEF WorkerLedger
<1>5. Observes(db, u)
  BY <1>1, <1>2 DEF Observes
<1>6. CASE u.intents = v.intents
  <2>1. \A day, kind : Earlier(u, day, kind) = Earlier(v, day, kind)
    BY <1>6 DEF Earlier
  <2>2. Planned(u)
    BY <1>1, <1>2, <1>6, <2>1, SMTT(30) DEF Planned
  <2>3. Ordered(db, u) /\ Contained(db, u)
    BY <1>1, <1>6 DEF Ordered, Contained, Exposed, Live
  <2>4. u \in WorkerLedger
    BY <1>1, <1>4, <1>6, WorkerFields
  <2> QED
    BY <1>1, <1>5, <2>2, <2>3, <2>4 DEF Agree
<1>7. CASE Intends(v, u, b, at)
  <2>1. PICK kind \in Kind, side \in Side, n \in Nat \ {0} :
          /\ MayIntend(v, DayOf(b.ts), kind)
          /\ u.intents = Append(v.intents, [req   |-> RequestOn(v, b, kind, side, n, at),
                                            state |-> "pending"])
          /\ kind = "entry" => /\ Minute(b.ts) = OpeningBars - 1 /\ n = MaxQty
                               /\ Position(v.fills) = 0
                               /\ DayOf(b.ts) \notin u.halted /\ ~u.riskHalted
          /\ kind = "exit" => n = Size(Position(v.fills))
    BY <1>7 DEF Intends
  <2> DEFINE day == DayOf(b.ts)
             old == Earlier(v, day, kind)
             m == Len(v.intents) + 1
  <2>2. PICK req : RequestOn(v, b, kind, side, n, at) = req
    OBVIOUS
  <2>3. /\ req \in Request
        /\ req.qty = n /\ req.side = side /\ req.submitted = b.ts + 1
        /\ req.id.day = day /\ req.id.kind = kind
        /\ req.id.retry = Cardinality(old)
        /\ req.submitted + Latency <= req.eligible
        /\ kind = "entry" => req.expires = req.eligible + EntryLife
    BY <1>1, <2>2, RequestShape
  <2> DEFINE t == [req |-> req, state |-> "pending"]
  <2>4. t \in Intent /\ t.req = req /\ t.state = "pending"
    BY <2>3 DEF Intent
  <2>5. u.intents = Append(v.intents, t)
    BY <2>1, <2>2
  <2> HIDE DEF t
  <2>6. /\ u.intents \in Seq(Intent) /\ Len(u.intents) = m
        /\ u.intents[m] = t
        /\ \A k \in 1..Len(v.intents) : u.intents[k] = v.intents[k]
    BY <1>1, <2>4, <2>5, WorkerFields, AppendProperties
  <2>7. u \in WorkerLedger
    BY <1>4, <2>6
  <2>8. /\ DOMAIN u.intents = DOMAIN v.intents \cup {m} /\ m \notin DOMAIN v.intents
        /\ \A k \in DOMAIN v.intents : u.intents[k] = v.intents[k]
    <3>1. /\ DOMAIN v.intents = 1..Len(v.intents) /\ Len(v.intents) \in Nat
          /\ DOMAIN u.intents = 1..Len(u.intents)
      BY <1>1, <2>7, WorkerFields
    <3> QED
      BY <2>6, <3>1
  <2> HIDE DEF m
  <2>9. /\ IsFiniteSet(old) /\ m \notin old /\ old \subseteq DOMAIN v.intents
        /\ Cardinality(old) \in Nat
        /\ Cardinality(old \cup {m}) = Cardinality(old) + 1
    <3>1. IsFiniteSet(old) /\ Cardinality(old) \in Nat /\ old \subseteq DOMAIN v.intents
      BY <1>0, EarlierFinite
    <3> HIDE DEF old
    <3> QED
      BY <2>8, <3>1, FS_AddElement
  <2>10. /\ Earlier(u, day, kind) = old \cup {m}
         /\ \A d, k : ~(d = day /\ k = kind) => Earlier(u, d, k) = Earlier(v, d, k)
    BY <2>3, <2>4, <2>6, <2>8, SMTT(30) DEF Earlier
  <2>11. kind = "entry" => old = {}
    BY <2>1 DEF MayIntend
  <2>12. Size(Position(v.fills)) = Cardinality(db.lots) /\ (Position(v.fills) = 0 => db.lots = {})
    <3>1. db.lots \in SUBSET Unit /\ IsFiniteSet(db.lots) /\ (\A x, y \in db.lots : x.side = y.side)
      BY <1>1, LedgerFields DEF Sound, Contained, Exposed
    <3>2. Position(v.fills) = Net(db.lots)
      BY <1>1, SimPositionNet DEF Booked, Balanced
    <3> QED
      BY <3>1, <3>2, OneSidedNet
  <2>13. n <= MaxQty
    <3>1. Cardinality(db.lots) <= MaxQty
      BY <1>1 DEF Contained, Exposed
    <3>2. kind = "entry" \/ kind = "exit"
      BY DEF Kind
    <3> QED
      BY <2>1, <2>12, <3>1, <3>2, MaxQtyAssumption
  <2> HIDE DEF old, day
  <2>14. Ordered(db, u)
    <3>1. \A k \in DOMAIN v.intents : v.intents[k].req.id # req.id
      <4> SUFFICES ASSUME NEW k \in DOMAIN v.intents, v.intents[k].req.id = req.id
                   PROVE  FALSE
        OBVIOUS
      <4>1. v.intents[k].req.id.retry < Cardinality(Earlier(v, v.intents[k].req.id.day, v.intents[k].req.id.kind))
        BY <1>1 DEF Planned
      <4>2. req.id.retry < Cardinality(old)
        BY <2>3, <4>1 DEF old
      <4> QED
        BY <2>3, <2>9, <4>2
    <3>2. \A j, k \in DOMAIN u.intents : u.intents[j].req.id = u.intents[k].req.id => j = k
      BY <1>1, <2>4, <2>6, <2>8, <3>1 DEF Ordered
    <3> QED
      BY <1>1, <2>4, <2>6, <2>8, <3>2 DEF Ordered
  <2>15. Planned(u)
    <3>1. \A k \in DOMAIN v.intents :
             Cardinality(Earlier(v, v.intents[k].req.id.day, v.intents[k].req.id.kind))
               <= Cardinality(Earlier(u, v.intents[k].req.id.day, v.intents[k].req.id.kind))
      <4> SUFFICES ASSUME NEW k \in DOMAIN v.intents, NEW d, v.intents[k].req.id.day = d,
                          NEW e, v.intents[k].req.id.kind = e
                   PROVE  Cardinality(Earlier(v, d, e)) <= Cardinality(Earlier(u, d, e))
        OBVIOUS
      <4>1. Cardinality(Earlier(v, d, e)) \in Nat
        BY <1>0, EarlierFinite
      <4>2. CASE d = day /\ e = kind
        <5>1. Earlier(v, d, e) = old
          BY <4>2 DEF old
        <5>2. Earlier(u, d, e) = old \cup {m}
          BY <2>10, <4>2
        <5> QED
          BY <2>9, <5>1, <5>2
      <4>3. CASE ~(d = day /\ e = kind)
        BY <2>10, <4>1, <4>3
      <4> QED
        BY <4>2, <4>3
    <3>2. ASSUME NEW k \in DOMAIN u.intents
          PROVE  LET q == u.intents[k].req
                 IN  /\ q.qty <= MaxQty /\ q.submitted + Latency <= q.eligible
                     /\ q.id.retry < Cardinality(Earlier(u, q.id.day, q.id.kind))
                     /\ \E c \in u.bars : q.submitted = c.ts + 1 /\ q.id.day = DayOf(c.ts)
                     /\ q.id.kind = "entry" =>
                           /\ q.qty = MaxQty /\ q.expires = q.eligible + EntryLife
                           /\ Minute(q.submitted - 1) = OpeningBars - 1
      <4>1. CASE k = m
        <5>1. u.intents[k].req = req
          BY <2>4, <2>6, <4>1
        <5>2. req.id.retry < Cardinality(Earlier(u, req.id.day, req.id.kind))
          BY <2>3, <2>9, <2>10
        <5>3. \E c \in u.bars : req.submitted = c.ts + 1 /\ req.id.day = DayOf(c.ts)
          BY <1>2, <2>3 DEF day
        <5>4. req.id.kind = "entry" => Minute(req.submitted - 1) = OpeningBars - 1
          <6>1. req.submitted - 1 = b.ts
            BY <1>3, <2>3
          <6> QED
            BY <2>1, <2>3, <6>1
        <5>5. req.id.kind = "entry" => req.qty = MaxQty
          BY <2>1, <2>3
        <5> QED
          BY <2>3, <2>13, <5>1, <5>2, <5>3, <5>4, <5>5
      <4>2. CASE k # m
        <5>1. k \in DOMAIN v.intents /\ u.intents[k] = v.intents[k]
          BY <2>8, <4>2
        <5> DEFINE q == v.intents[k].req
        <5>2. /\ q.qty <= MaxQty /\ q.submitted + Latency <= q.eligible
              /\ q.id.retry < Cardinality(Earlier(v, q.id.day, q.id.kind))
              /\ \E c \in v.bars : q.submitted = c.ts + 1 /\ q.id.day = DayOf(c.ts)
              /\ q.id.kind = "entry" =>
                    /\ q.qty = MaxQty /\ q.expires = q.eligible + EntryLife
                    /\ Minute(q.submitted - 1) = OpeningBars - 1
          BY <1>1, <5>1 DEF Planned
        <5>3. q.id.retry < Cardinality(Earlier(u, q.id.day, q.id.kind))
          <6>1. Cardinality(Earlier(v, q.id.day, q.id.kind)) <= Cardinality(Earlier(u, q.id.day, q.id.kind))
            BY <3>1, <5>1
          <6>2. /\ Cardinality(Earlier(v, q.id.day, q.id.kind)) \in Nat
                /\ Cardinality(Earlier(u, q.id.day, q.id.kind)) \in Nat
            BY <1>0, <2>7, EarlierFinite
          <6>3. q.id.retry \in Nat
            <7>1. q \in Request
              BY <1>1, <5>1, WorkerFields DEF Intent
            <7> HIDE DEF q
            <7> QED
              BY <7>1 DEF Request, Id
          <6> HIDE DEF q
          <6> QED
            BY <5>2, <6>1, <6>2, <6>3
        <5>4. \E c \in u.bars : q.submitted = c.ts + 1 /\ q.id.day = DayOf(c.ts)
          BY <1>2, <5>2
        <5>5. u.intents[k].req = q
          BY <5>1
        <5> HIDE DEF q
        <5> QED
          BY <5>2, <5>3, <5>4, <5>5
      <4> QED
        BY <4>1, <4>2
    <3>3. ASSUME NEW j \in DOMAIN u.intents, NEW k \in DOMAIN u.intents,
                 u.intents[j].req.id.kind = "entry", u.intents[k].req.id.kind = "entry",
                 u.intents[j].req.id.day = u.intents[k].req.id.day
          PROVE  j = k
      <4>1. CASE j # m /\ k # m
        BY <1>1, <2>8, <3>3, <4>1 DEF Planned
      <4>2. \A i \in DOMAIN v.intents :
               ~(req.id.kind = "entry" /\ u.intents[i].req.id.kind = "entry"
                 /\ u.intents[i].req.id.day = req.id.day)
        BY <2>3, <2>8, <2>11 DEF old, Earlier
      <4> QED
        BY <2>4, <2>6, <2>8, <3>3, <4>1, <4>2
    <3> QED
      BY <3>2, <3>3 DEF Planned
  <2>16. Contained(db, u)
    <3>1. m \notin DOMAIN db.orders /\ \A k \in DOMAIN db.orders : k \in DOMAIN v.intents
      BY <1>1, <2>8 DEF Ordered
    <3>2. ASSUME Fresh(db, req) PROVE db.lots = {}
      BY <2>1, <2>3, <2>12, <3>2 DEF Fresh
    <3>3. Exposed(db, u, MaxQty)
      BY <1>1, <2>4, <2>6, <2>8, <3>1, <3>2 DEF Contained, Exposed
    <3>4. ASSUME NEW k \in DOMAIN v.intents, Live(db, u, k), Live(db, u, m)
          PROVE  FALSE
      <4>1. Live(db, v, k)
        BY <2>8, <3>4 DEF Live
      <4>2. kind = "entry"
        BY <2>3, <2>4, <2>6, <3>4 DEF Live, Fresh
      <4>3. v.intents[k].req.id.day = day /\ v.intents[k].req.id.kind = "entry"
        BY <2>1, <3>4, <4>1, <4>2 DEF Live, Fresh, day
      <4> QED
        BY <2>11, <3>4, <4>2, <4>3 DEF old, Earlier
    <3>5. \A j, k \in DOMAIN u.intents : Live(db, u, j) /\ Live(db, u, k) => j = k
      <4>1. \A k \in DOMAIN v.intents : Live(db, u, k) => Live(db, v, k)
        BY <2>8 DEF Live
      <4> QED
        BY <1>1, <2>8, <3>4, <4>1 DEF Contained
    <3> QED
      BY <3>3, <3>5 DEF Contained
  <2> QED
    BY <1>1, <1>5, <2>7, <2>14, <2>15, <2>16 DEF Agree
<1> QED
  BY <1>2, <1>6, <1>7

(***************************************************************************)
(* Steps that no live entry survives                                       *)
(***************************************************************************)
\* In agenda q a cancel of scenario s is ahead of position f, after a dispatch
\* if the entry is still to be submitted.
Ahead(q, f, s, submit) ==
    \E i \in DOMAIN q :
        /\ i < f /\ q[i] = [do |-> "cancel", for |-> s]
        /\ submit => \E j \in DOMAIN q : j < i /\ q[j] = [do |-> "dispatch", for |-> s]

\* Steps that no live entry of scenario s may survive: its halt, a roll of the
\* contract, and every step of a bar that follows a gap.
Stops(op, s, rolls, missing) ==
    \/ op.do = "halt" /\ op.for = s
    \/ op.do = "flat"
    \/ op.do = "pin" /\ rolls
    \/ op.do \in {"contract", "pin"} /\ missing
    \/ op.do \in Steps /\ op.for = s /\ missing

\* A call that starts with q cancels the entries before every such step.
Shielded(q) ==
    \A s \in Scenario : \A m \in DOMAIN q : \A rolls, missing :
        Stops(q[m], s, rolls, missing) => Ahead(q, m, s, TRUE)

LEMMA AheadWeak ==
    ASSUME NEW q, NEW f, NEW s, NEW x, Ahead(q, f, s, x), NEW submit, submit => x
    PROVE  Ahead(q, f, s, submit)
BY DEF Ahead

LEMMA AheadStays ==
    ASSUME NEW a, NEW ops, NEW q, Spliced(a, ops, q), NEW f \in DOMAIN a, f # 1, NEW s,
           NEW submit \in BOOLEAN, Ahead(a, f, s, submit),
           a[1] = [do |-> "cancel", for |-> s] => submit,
           submit /\ a[1] = [do |-> "dispatch", for |-> s] =>
               \E m \in DOMAIN ops : ops[m] = [do |-> "dispatch", for |-> s]
    PROVE  Ahead(q, f - 1 + Len(ops), s, submit)
<1>1. /\ DOMAIN a = 1..Len(a) /\ Len(a) \in Nat /\ Len(ops) \in Nat
      /\ DOMAIN ops = 1..Len(ops)
      /\ \A i \in DOMAIN ops : i \in DOMAIN q /\ q[i] = ops[i]
      /\ \A j \in DOMAIN a : j # 1 => j - 1 + Len(ops) \in DOMAIN q /\ q[j - 1 + Len(ops)] = a[j]
  BY DEF Spliced
<1>2. PICK i \in DOMAIN a :
        /\ i < f /\ a[i] = [do |-> "cancel", for |-> s]
        /\ submit => \E j \in DOMAIN a : j < i /\ a[j] = [do |-> "dispatch", for |-> s]
  BY DEF Ahead
<1>3. i # 1
  <2>1. ASSUME i = 1
        PROVE  FALSE
    <3>1. PICK j \in DOMAIN a : j < i
      BY <1>2, <2>1
    <3> QED
      BY <1>1, <2>1, <3>1
  <2> QED
    BY <2>1
<1>4. /\ i - 1 + Len(ops) \in DOMAIN q /\ q[i - 1 + Len(ops)] = [do |-> "cancel", for |-> s]
      /\ i - 1 + Len(ops) < f - 1 + Len(ops)
  BY <1>1, <1>2, <1>3
<1>5. ASSUME submit
      PROVE  \E j \in DOMAIN q : j < i - 1 + Len(ops) /\ q[j] = [do |-> "dispatch", for |-> s]
  <2>1. PICK j \in DOMAIN a : j < i /\ a[j] = [do |-> "dispatch", for |-> s]
    BY <1>2, <1>5
  <2>2. CASE j = 1
    <3>1. PICK m \in DOMAIN ops : ops[m] = [do |-> "dispatch", for |-> s]
      BY <1>5, <2>1, <2>2
    <3>2. m < i - 1 + Len(ops)
      BY <1>1, <1>3, <3>1
    <3>3. m \in DOMAIN q /\ q[m] = [do |-> "dispatch", for |-> s]
      BY <1>1, <3>1
    <3> QED
      BY <3>2, <3>3
  <2>3. CASE j # 1
    <3>1. j - 1 + Len(ops) < i - 1 + Len(ops)
      BY <1>1, <2>1
    <3>2. j - 1 + Len(ops) \in DOMAIN q /\ q[j - 1 + Len(ops)] = [do |-> "dispatch", for |-> s]
      BY <1>1, <2>1, <2>3
    <3> QED
      BY <3>1, <3>2
  <2> QED
    BY <2>2, <2>3
<1> QED
  BY <1>4, <1>5 DEF Ahead

(* What may stand in front: no step of q is one of them.                   *)
LEMMA NothingStops ==
    ASSUME NEW q, \A i \in DOMAIN q : q[i].do \notin {"halt", "flat", "pin", "contract"} \cup Steps
    PROVE  Shielded(q)
BY DEF Shielded, Stops

(* halt_day cancels the entries of each scenario before it halts it.       *)
LEMMA HaltShielded ==
    ASSUME NEW day \in Nat, NEW hardly \in BOOLEAN, NEW q, HaltDay(day, hardly) = q
    PROVE  Shielded(q)
<1> DEFINE each(s) == <<[do |-> "reconcile", for |-> s], [do |-> "dispatch", for |-> s],
                        [do |-> "cancel", for |-> s],
                        [do |-> "halt", for |-> s, day |-> day, hard |-> hardly],
                        [do |-> "reconcile", for |-> s]>>
           first == IF hardly THEN <<[do |-> "hard_halt"]>> ELSE <<>>
<1>1. q = first \o (each("baseline") \o each("worse_costs"))
  BY DEF HaltDay, Each, Family, Do, DoFor
<1>2. Scenario = {"baseline", "worse_costs"}
  BY DEF Scenario
<1>3. ASSUME NEW s \in Scenario
      PROVE  /\ each(s) \in Seq(Agenda) /\ Len(each(s)) = 5
             /\ each(s)[1].do = "reconcile" /\ each(s)[5].do = "reconcile"
             /\ each(s)[2] = [do |-> "dispatch", for |-> s]
             /\ each(s)[3] = [do |-> "cancel", for |-> s]
             /\ each(s)[4].do = "halt" /\ each(s)[4].for = s
  <2>1. /\ each(s)[1] \in Agenda /\ each(s)[2] \in Agenda /\ each(s)[3] \in Agenda
        /\ each(s)[4] \in Agenda /\ each(s)[5] \in Agenda
    BY DEF Agenda
  <2> QED
    BY <2>1
<1>4. /\ first \in Seq(Agenda) /\ Len(first) \in {0, 1}
      /\ \A i \in 1..Len(first) : first[i].do = "hard_halt"
  <2>1. [do |-> "hard_halt"] \in Agenda
    BY <1>2, AgendaTyped
  <2>2. CASE hardly
    BY <2>1, <2>2
  <2>3. CASE ~hardly
    BY <2>3
  <2> QED
    BY <2>2, <2>3
<1> DEFINE b == each("baseline")
           c == each("worse_costs")
<1> HIDE DEF each, first
<1>5. PICK r : b \o c = r
  OBVIOUS
<1>6. /\ r \in Seq(Agenda) /\ Len(r) = 10
      /\ \A i \in 1..10 : r[i] = IF i <= 5 THEN b[i] ELSE c[i - 5]
  <2>1. b \in Seq(Agenda) /\ c \in Seq(Agenda) /\ Len(b) = 5 /\ Len(c) = 5
    BY <1>2, <1>3
  <2> HIDE DEF b, c
  <2>2. /\ b \o c \in Seq(Agenda) /\ Len(b \o c) = Len(b) + Len(c)
        /\ \A i \in 1..(Len(b) + Len(c)) : (b \o c)[i] = IF i <= Len(b) THEN b[i] ELSE c[i - Len(b)]
    BY <2>1, ConcatProperties, Zenon
  <2> QED
    BY <1>5, <2>1, <2>2
<1>7. PICK n \in {0, 1} : n = Len(first)
  BY <1>4
<1>8. /\ q \in Seq(Agenda) /\ Len(q) = n + 10
      /\ \A i \in 1..(n + 10) : q[i] = IF i <= n THEN first[i] ELSE r[i - n]
  <2>1. /\ first \o r \in Seq(Agenda) /\ Len(first \o r) = Len(first) + Len(r)
        /\ \A i \in 1..(Len(first) + Len(r)) :
              (first \o r)[i] = IF i <= Len(first) THEN first[i] ELSE r[i - Len(first)]
    BY <1>4, <1>6, ConcatProperties, Zenon
  <2>2. q = first \o r
    BY <1>1, <1>5
  <2> QED
    BY <1>6, <1>7, <2>1, <2>2
<1>9. /\ r[1].do = "reconcile" /\ r[5].do = "reconcile" /\ r[6].do = "reconcile"
      /\ r[10].do = "reconcile"
      /\ r[2] = [do |-> "dispatch", for |-> "baseline"]
      /\ r[3] = [do |-> "cancel", for |-> "baseline"] /\ r[4].do = "halt" /\ r[4].for = "baseline"
      /\ r[7] = [do |-> "dispatch", for |-> "worse_costs"]
      /\ r[8] = [do |-> "cancel", for |-> "worse_costs"] /\ r[9].do = "halt" /\ r[9].for = "worse_costs"
  <2>1. /\ r[1] = b[1] /\ r[2] = b[2] /\ r[3] = b[3] /\ r[4] = b[4] /\ r[5] = b[5]
        /\ r[6] = c[1] /\ r[7] = c[2] /\ r[8] = c[3] /\ r[9] = c[4] /\ r[10] = c[5]
    <3> HIDE DEF b, c
    <3> QED
      BY <1>6
  <2> QED
    BY <1>2, <1>3, <2>1
<1> SUFFICES ASSUME NEW s \in Scenario, NEW m \in DOMAIN q, NEW rolls, NEW missing,
                    Stops(q[m], s, rolls, missing)
             PROVE  Ahead(q, m, s, TRUE)
  BY DEF Shielded
<1>10. DOMAIN q = 1..(n + 10)
  BY <1>8, LenProperties
<1>11. ~(m <= n)
  <2>1. m <= n => q[m].do = "hard_halt"
    BY <1>4, <1>7, <1>8, <1>10
  <2> QED
    BY <2>1 DEF Stops, Steps
<1>12. q[m] = r[m - n] /\ m - n \in 1..10
  <2>1. m \in 1..(n + 10)
    BY <1>10
  <2>2. q[m] = IF m <= n THEN first[m] ELSE r[m - n]
    BY <1>8, <2>1
  <2>3. m - n \in 1..10
    BY <1>11, <2>1
  <2> QED
    BY <1>11, <2>2, <2>3
<1>13. (m = n + 4 /\ s = "baseline") \/ (m = n + 9 /\ s = "worse_costs")
  <2>1. PICK z \in 1..10 : m = n + z /\ q[m] = r[z]
    BY <1>10, <1>12
  <2>2. z \in {1, 2, 3, 4, 5, 6, 7, 8, 9, 10}
    BY <2>1
  <2>3. (z = 4 /\ s = "baseline") \/ (z = 9 /\ s = "worse_costs")
    BY <1>9, <2>1, <2>2 DEF Stops, Steps
  <2> QED
    BY <2>1, <2>3
<1>14. CASE m = n + 4 /\ s = "baseline"
  <2>1. /\ n + 3 \in DOMAIN q /\ n + 3 < m /\ q[n + 3] = r[3]
        /\ n + 2 \in DOMAIN q /\ n + 2 < n + 3 /\ q[n + 2] = r[2]
    BY <1>8, <1>10, <1>14
  <2> QED
    BY <1>9, <1>14, <2>1 DEF Ahead
<1>15. CASE m = n + 9 /\ s = "worse_costs"
  <2>1. /\ n + 8 \in DOMAIN q /\ n + 8 < m /\ q[n + 8] = r[8]
        /\ n + 7 \in DOMAIN q /\ n + 7 < n + 8 /\ q[n + 7] = r[7]
    BY <1>8, <1>10, <1>15
  <2> QED
    BY <1>9, <1>15, <2>1 DEF Ahead
<1> QED
  BY <1>13, <1>14, <1>15

(* A halt in front shields what comes after it.                            *)
LEMMA ShieldedJoin ==
    ASSUME NEW p \in Seq(Agenda), Shielded(p), \A s \in Scenario : Cancelling(p, s, TRUE),
           NEW r \in Seq(Agenda), NEW q, p \o r = q
    PROVE  Shielded(q)
<1>1. /\ DOMAIN q = 1..(Len(p) + Len(r)) /\ DOMAIN p = 1..Len(p) /\ Len(p) \in Nat /\ Len(r) \in Nat
      /\ \A i \in DOMAIN p : i \in DOMAIN q /\ q[i] = p[i]
  <2>1. /\ p \o r \in Seq(Agenda) /\ Len(p \o r) = Len(p) + Len(r)
        /\ \A i \in 1..(Len(p) + Len(r)) : (p \o r)[i] = IF i <= Len(p) THEN p[i] ELSE r[i - Len(p)]
    BY ConcatProperties, Zenon
  <2>2. /\ q \in Seq(Agenda) /\ Len(q) = Len(p) + Len(r)
        /\ \A i \in 1..(Len(p) + Len(r)) : q[i] = IF i <= Len(p) THEN p[i] ELSE r[i - Len(p)]
    BY <2>1
  <2>3. Len(p) \in Nat /\ Len(r) \in Nat /\ DOMAIN p = 1..Len(p) /\ DOMAIN q = 1..Len(q)
    BY <2>2, LenProperties
  <2> QED
    BY <2>2, <2>3
<1> SUFFICES ASSUME NEW s \in Scenario, NEW m \in DOMAIN q, NEW rolls, NEW missing,
                    Stops(q[m], s, rolls, missing)
             PROVE  Ahead(q, m, s, TRUE)
  BY DEF Shielded
<1>2. \E f \in 1..m : Ahead(p, f, s, TRUE)
  <2>1. CASE m \in DOMAIN p
    <3>1. Stops(p[m], s, rolls, missing)
      BY <1>1, <2>1
    <3>2. Ahead(p, m, s, TRUE)
      BY <2>1, <3>1 DEF Shielded
    <3>3. m \in 1..m
      BY <1>1, <2>1
    <3> QED
      BY <3>2, <3>3
  <2>2. CASE m \notin DOMAIN p
    <3>1. PICK i \in DOMAIN p :
            /\ p[i] = [do |-> "cancel", for |-> s]
            /\ \E j \in DOMAIN p : j < i /\ p[j] = [do |-> "dispatch", for |-> s]
      BY DEF Cancelling
    <3>2. i < m /\ m \in 1..m
      BY <1>1, <2>2, <3>1
    <3>3. Ahead(p, m, s, TRUE)
      BY <3>1, <3>2 DEF Ahead
    <3> QED
      BY <3>2, <3>3
  <2> QED
    BY <2>1, <2>2
<1>3. PICK f \in 1..m : Ahead(p, f, s, TRUE)
  BY <1>2
<1>4. PICK i \in DOMAIN p :
        /\ i < f /\ p[i] = [do |-> "cancel", for |-> s]
        /\ \E j \in DOMAIN p : j < i /\ p[j] = [do |-> "dispatch", for |-> s]
  BY <1>3 DEF Ahead
<1>5. i \in DOMAIN q /\ i < m /\ q[i] = [do |-> "cancel", for |-> s]
  BY <1>1, <1>3, <1>4
<1>6. \E j \in DOMAIN q : j < i /\ q[j] = [do |-> "dispatch", for |-> s]
  BY <1>1, <1>4
<1> QED
  BY <1>5, <1>6 DEF Ahead

LEMMA HaltThenShielded ==
    ASSUME NEW day \in Nat, NEW hardly \in BOOLEAN,
           NEW x \in {"contract", "applied", "flat", "exclude", "raise"}, NEW q,
           HaltDay(day, hardly) \o Do(x) = q
    PROVE  q \in Seq(Agenda) /\ Shielded(q)
<1>1. PICK p : HaltDay(day, hardly) = p
  OBVIOUS
<1>2. p \in Seq(Agenda) /\ Shielded(p) /\ \A s \in Scenario : Cancelling(p, s, TRUE)
  BY <1>1, HaltShielded, HaltDayShape DEF Plain
<1>3. PICK r : Do(x) = r
  OBVIOUS
<1>4. r \in Seq(Agenda)
  BY <1>3, Alone
<1>5. p \o r = q /\ p \o r \in Seq(Agenda)
  BY <1>1, <1>2, <1>3, <1>4
<1>6. Shielded(q)
  BY <1>2, <1>4, <1>5, ShieldedJoin
<1> QED
  BY <1>5, <1>6

LEMMA HaltsShielded ==
    ASSUME NEW day \in Nat, NEW q, HaltDay(day, TRUE) \o HaltDay(day, FALSE) = q
    PROVE  q \in Seq(Agenda) /\ Shielded(q)
<1>1. PICK p : HaltDay(day, TRUE) = p
  OBVIOUS
<1>2. PICK r : HaltDay(day, FALSE) = r
  OBVIOUS
<1>3. p \in Seq(Agenda) /\ Shielded(p) /\ \A s \in Scenario : Cancelling(p, s, TRUE)
  BY <1>1, HaltShielded, HaltDayShape DEF Plain
<1>4. r \in Seq(Agenda)
  BY <1>2, HaltDayShape DEF Plain
<1>5. p \o r = q /\ q \in Seq(Agenda)
  <2>1. p \o r = q
    BY <1>1, <1>2, Zenon
  <2>2. p \o r \in Seq(Agenda)
    BY <1>3, <1>4
  <2> QED
    BY <2>1, <2>2
<1>6. Shielded(q)
  BY <1>3, <1>4, <1>5, ShieldedJoin
<1> QED
  BY <1>5, <1>6

(***************************************************************************)
(* Inventory and its contract                                              *)
(***************************************************************************)
\* Only entries were filled from fill i on: its lot is still open.
Trailing(f, i) == \A k \in DOMAIN f : k >= i => f[k].reason = "entry"

Closes(f, i, j) ==
    /\ f[i].reason = "entry" /\ i < j
    /\ \A k \in (i + 1)..(j - 1) : f[k].reason = "entry"
    /\ f[j].reason # "entry"

(* What one broker's new fills keep: they are of the bar in hand, and that *)
(* bar is of the active contract.                                          *)
Adds(f, g, ts) ==
    /\ Len(f) \in Nat /\ Len(g) \in Nat /\ DOMAIN f = 1..Len(f) /\ DOMAIN g = 1..Len(g)
    /\ Len(f) <= Len(g) /\ \A k \in DOMAIN f : g[k] = f[k]
    /\ \A k \in DOMAIN g : k \notin DOMAIN f => g[k].ts = ts

LEMMA ClosesGrow ==
    ASSUME NEW f, NEW g, NEW ts, Adds(f, g, ts), NEW at, NEW c,
           \A i \in DOMAIN f : Trailing(f, i) => at[f[i].ts] = c,
           \A i, j \in DOMAIN f : Closes(f, i, j) => at[f[i].ts] = at[f[j].ts],
           g # f => at[ts] = c
    PROVE  /\ \A i \in DOMAIN g : Trailing(g, i) => at[g[i].ts] = c
           /\ \A i, j \in DOMAIN g : Closes(g, i, j) => at[g[i].ts] = at[g[j].ts]
<1>0. /\ Len(f) \in Nat /\ Len(g) \in Nat /\ DOMAIN f = 1..Len(f) /\ DOMAIN g = 1..Len(g)
      /\ Len(f) <= Len(g) /\ (\A k \in DOMAIN f : g[k] = f[k])
      /\ \A k \in DOMAIN g : k \notin DOMAIN f => g[k].ts = ts
  BY DEF Adds
<1>1. \A k \in DOMAIN f : k \in DOMAIN g
  BY <1>0
<1>2. ASSUME NEW k \in DOMAIN g, k \notin DOMAIN f
      PROVE  at[g[k].ts] = c
  <2>1. g # f
    BY <1>2
  <2> QED
    BY <1>0, <1>2, <2>1
<1>3. ASSUME NEW i \in DOMAIN f, \A k \in DOMAIN f : k >= i => g[k].reason = "entry"
      PROVE  at[g[i].ts] = c
  BY <1>0, <1>3 DEF Trailing
<1>4. ASSUME NEW i \in DOMAIN g, Trailing(g, i)
      PROVE  at[g[i].ts] = c
  <2>1. CASE i \in DOMAIN f
    BY <1>1, <1>3, <1>4, <2>1 DEF Trailing
  <2> QED
    BY <1>2, <2>1
<1>5. ASSUME NEW i \in DOMAIN g, NEW j \in DOMAIN g, Closes(g, i, j)
      PROVE  at[g[i].ts] = at[g[j].ts]
  <2>1. CASE j \in DOMAIN f
    <3>1. i \in DOMAIN f /\ \A k \in (i + 1)..(j - 1) : k \in DOMAIN f
      BY <1>0, <1>5, <2>1 DEF Closes
    <3>2. Closes(f, i, j)
      BY <1>0, <1>5, <2>1, <3>1 DEF Closes
    <3> QED
      BY <1>0, <2>1, <3>1, <3>2
  <2>2. CASE j \notin DOMAIN f
    <3>1. at[g[j].ts] = c
      BY <1>2, <2>2
    <3>2. CASE i \in DOMAIN f
      <4>1. \A k \in DOMAIN f : k >= i => g[k].reason = "entry"
        BY <1>0, <1>5, <2>2, <3>2 DEF Closes
      <4> QED
        BY <1>3, <3>1, <3>2, <4>1
    <3> QED
      BY <1>2, <3>1, <3>2
  <2> QED
    BY <2>1, <2>2
<1> QED
  BY <1>4, <1>5

LEMMA SubmitUnfilled ==
    ASSUME NEW db \in SimLedger, Unfilled(db), NEW req, NEW r, Submit(db, req, FALSE) = r
    PROVE  Unfilled(r)
<1>1. db.orders \in Seq(Order) /\ DOMAIN db.orders = 1..Len(db.orders) /\ Len(db.orders) \in Nat
  BY LedgerFields
<1>2. CASE Known(db, req.id)
  BY <1>2 DEF Submit
<1>3. CASE ~Known(db, req.id)
  <2>1. PICK o : [req |-> req, state |-> Admission(db, req, FALSE), filled |-> 0] = o
    OBVIOUS
  <2>2. r.orders = Append(db.orders, o)
    BY <1>3, <2>1 DEF Submit, SimLedger
  <2>3. /\ DOMAIN r.orders = 1..(Len(db.orders) + 1)
        /\ \A k \in DOMAIN db.orders : r.orders[k] = db.orders[k]
        /\ r.orders[Len(db.orders) + 1] = o
    BY <1>1, <2>2
  <2>4. o.filled = 0
    BY <2>1
  <2>5. \A k \in DOMAIN r.orders : k \in DOMAIN db.orders \/ r.orders[k].filled = 0
    BY <1>1, <2>3, <2>4
  <2> QED
    BY <2>3, <2>5 DEF Unfilled, ActiveOrders
<1> QED
  BY <1>2, <1>3

LEMMA CancelUnfilled ==
    ASSUME NEW db, Unfilled(db), NEW r, EntriesCancelled(db) = r
    PROVE  Unfilled(r)
<1>1. /\ DOMAIN r.orders = DOMAIN db.orders
      /\ \A k \in DOMAIN db.orders : r.orders[k] = db.orders[k]
                                     \/ r.orders[k] = Became(db.orders[k], "cancelled", db.orders[k].filled)
  BY DEF EntriesCancelled
<1>2. \A k \in DOMAIN db.orders : Became(db.orders[k], "cancelled", db.orders[k].filled).state \notin Active
  BY DEF Became, Active
<1> QED
  BY <1>1, <1>2 DEF Unfilled, ActiveOrders

(* What is known of a live entry: its request and its decision's bar.      *)
LEMMA LiveShape ==
    ASSUME NEW db, NEW v, Agree(db, v), NEW k \in DOMAIN v.intents, Live(db, v, k),
           NEW req, v.intents[k].req = req
    PROVE  /\ req \in Request /\ req.id.kind = "entry" /\ req.qty = MaxQty
           /\ req.submitted \in Nat /\ req.eligible \in Nat /\ req.expires \in Nat
           /\ req.submitted + Latency <= req.eligible /\ req.expires = req.eligible + EntryLife
           /\ Minute(req.submitted - 1) = OpeningBars - 1
           /\ \E b \in v.bars : /\ b \in db.bars /\ b.ts \in Nat /\ req.submitted = b.ts + 1
                                /\ req.id.day = DayOf(b.ts)
           /\ \A b \in db.bars : b.ts < req.expires
           /\ Unfilled(db) => db.lots = {}
<1>1. db \in SimLedger /\ Sound(db) /\ v \in WorkerLedger
  BY DEF Agree
<1>2. v.intents[k] \in Intent /\ v.bars \subseteq db.bars /\ db.bars \subseteq Bar
  BY <1>1, WorkerFields, LedgerFields DEF Agree, Observes
<1>3. /\ req \in Request /\ req.submitted \in Nat /\ req.eligible \in Nat /\ req.expires \in Nat
  BY <1>2 DEF Intent, Request
<1>4. req.id.kind = "entry" /\ \A b \in db.bars : b.ts < req.expires
  BY DEF Live, Fresh
<1>5. /\ req.qty = MaxQty /\ req.submitted + Latency <= req.eligible
      /\ req.expires = req.eligible + EntryLife /\ Minute(req.submitted - 1) = OpeningBars - 1
      /\ \E b \in v.bars : req.submitted = b.ts + 1 /\ req.id.day = DayOf(b.ts)
  BY <1>4 DEF Agree, Planned
<1>6. \E b \in v.bars : /\ b \in db.bars /\ b.ts \in Nat /\ req.submitted = b.ts + 1
                        /\ req.id.day = DayOf(b.ts)
  BY <1>2, <1>5 DEF Bar
<1>7. Unfilled(db) => db.lots = {}
  BY <1>1, <1>5, NoLots DEF Agree, Contained, Ordered
<1> QED
  BY <1>3, <1>4, <1>5, <1>6, <1>7

(* An entry that fills within its life fills on the day of its decision.   *)
LEMMA EntryDay ==
    ASSUME NEW a \in Nat, NEW b \in Nat, Minute(a) = OpeningBars - 1, a <= b,
           b < a + 1 + Latency + EntryLife
    PROVE  DayOf(b) = DayOf(a)
<1> DEFINE x == DayOf(a)
           y == DayOf(b)
           m == OpeningBars - 1
           n == Minute(b)
<1>1. /\ Stride \in Nat \ {0} /\ Latency \in Nat /\ EntryLife \in Nat /\ m \in Nat
      /\ x \in Nat /\ y \in Nat /\ n \in Nat /\ x <= y
  BY SessionAssumption, DayNat, DayMonotone DEF Minute
<1>2. a = Stride * x + m /\ b = Stride * y + n
  BY <1>1 DEF DayOf, Minute
<1>3. m + 1 + Latency + EntryLife <= Stride
  BY SessionAssumption, EntryLifeAssumption DEF m
<1> HIDE DEF x, y, m, n
<1>4. ASSUME x + 1 <= y
      PROVE  FALSE
  <2>1. Stride * (x + 1) <= Stride * y
    BY <1>1, <1>4
  <2>2. Stride * (x + 1) = Stride * x + Stride
    BY <1>1
  <2> DEFINE p == Stride * x
             q == Stride * y
  <2>3. p \in Nat /\ q \in Nat
    BY <1>1
  <2>4. p + Stride <= q /\ a = p + m /\ b = q + n
    BY <1>2, <2>1, <2>2
  <2> HIDE DEF p, q
  <2> QED
    BY <1>1, <1>3, <2>3, <2>4
<1>5. x = y
  BY <1>1, <1>4
<1> QED
  BY <1>5 DEF x, y

(* A nonempty set of numbers up to a bound has a greatest one.             *)
LEMMA GreatestNat ==
    ASSUME NEW S, NEW n \in Nat, S \subseteq 1..n, S # {}
    PROVE  \E x \in S : \A y \in S : y <= x
<1> DEFINE B == {m \in Nat : \A y \in S : y <= m}
<1>1. B \subseteq Nat /\ n \in B
  OBVIOUS
<1>2. PICK x \in B : \A m \in B : x <= m
  BY <1>1, LeastNat
<1>3. ASSUME x \notin S
      PROVE  FALSE
  <2>1. x \in Nat /\ \A y \in S : y < x /\ 1 <= y
    BY <1>2, <1>3
  <2>2. x - 1 \in Nat /\ \A y \in S : y <= x - 1
    <3>1. \A y \in S : y \in Nat
      OBVIOUS
    <3>2. PICK y \in S : y \in Nat
      BY <3>1
    <3>3. x - 1 \in Nat
      BY <2>1, <3>2
    <3> QED
      BY <2>1, <3>1, <3>3
  <2>3. x - 1 \in B
    BY <2>2
  <2> QED
    BY <1>2, <2>1, <2>3
<1> QED
  BY <1>2, <1>3

(* A bar that fills an entry fills a live one, before its expiry.          *)
LEMMA AdvanceEntry ==
    ASSUME NEW db, NEW v, NEW b, NEW x, Agree(db, v), Advances(db, v, b, x), b.ts \in Nat,
           \A e \in db.bars : e.ts \in Nat /\ e.ts <= b.ts,
           NEW i \in DOMAIN x.fills, i \notin DOMAIN db.fills, x.fills[i].reason = "entry"
    PROVE  /\ x.fills[i].ts = b.ts
           /\ \E k \in DOMAIN v.intents : /\ Live(db, v, k) /\ b.ts < v.intents[k].req.expires
                                          /\ v.intents[k].req.id = x.fills[i].order
<1>1. db \in SimLedger /\ x \in SimLedger /\ v \in WorkerLedger /\ Ordered(db, v)
  BY DEF Agree, Advances, Follows
<1>2. /\ DOMAIN db.orders = 1..Len(db.orders) /\ DOMAIN x.orders = 1..Len(x.orders)
      /\ Len(x.orders) = Len(db.orders) /\ \A j \in DOMAIN db.orders : x.orders[j].req = db.orders[j].req
  BY <1>1, LedgerFields DEF Advances, Follows, Extends
<1>3. x.fills[i].ts = b.ts /\ \E k \in ActiveOrders(db) : db.orders[k].req.id = x.fills[i].order
  BY DEF Advances
<1>4. PICK k \in ActiveOrders(db) : db.orders[k].req.id = x.fills[i].order
  BY <1>3
<1>5. k \in DOMAIN db.orders /\ db.orders[k].state \in Active
  BY <1>4 DEF ActiveOrders
<1>6. PICK j \in DOMAIN x.orders : /\ x.orders[j].req.id = x.fills[i].order
                                   /\ x.orders[j].req.id.kind = "entry"
                                   /\ b.ts < x.orders[j].req.expires
  BY <1>3 DEF Advances, Booked, InTime
<1>7. j = k
  BY <1>2, <1>4, <1>5, <1>6 DEF Advances, Booked, Distinct
<1>8. k \in DOMAIN v.intents /\ v.intents[k].req = db.orders[k].req
  BY <1>1, <1>5 DEF Ordered
<1>9. PICK req : v.intents[k].req = req
  OBVIOUS
<1>10. /\ req.id.kind = "entry" /\ b.ts < req.expires /\ req.id = x.fills[i].order
  BY <1>2, <1>5, <1>6, <1>7, <1>8, <1>9
<1>11. req.expires \in Nat
  BY <1>1, <1>8, <1>9, WorkerFields DEF Intent, Request
<1>12. \A e \in db.bars : e.ts < req.expires
  BY <1>10, <1>11
<1>13. Live(db, v, k)
  BY <1>5, <1>9, <1>10, <1>12 DEF Live, Fresh
<1> QED
  BY <1>3, <1>8, <1>9, <1>10, <1>13

(***************************************************************************)
(* Exits                                                                   *)
(***************************************************************************)
IsExit(v, j) == v.intents[j].req.id.kind = "exit"

\* An intent that is over is over as its order is.
Echoes(db, v) ==
    \A k \in DOMAIN v.intents : v.intents[k].state \in Final =>
        k \in DOMAIN db.orders /\ db.orders[k].state = v.intents[k].state

\* An exit is asked for with a halt or from the exit minute on.
Called(v) ==
    \A j \in DOMAIN v.intents : IsExit(v, j) =>
        \/ v.intents[j].req.id.day \in v.halted
        \/ Minute(v.intents[j].req.submitted - 1) >= ExitMinute

\* An entry in force is of a later day than any exit.
Apart(db, v) ==
    \A j, k \in DOMAIN v.intents : IsExit(v, j) /\ Live(db, v, k) =>
        v.intents[j].req.id.day < v.intents[k].req.id.day

\* On its day, an exit is for all the inventory that is left.
Covered(db, v) ==
    \A j \in DOMAIN v.intents : IsExit(v, j) =>
        \/ \E b \in db.bars : DayOf(b.ts) > v.intents[j].req.id.day
        \/ Cardinality(db.lots) + FilledOf(db, j) <= v.intents[j].req.qty

Leaving(db, v) == Echoes(db, v) /\ Called(v) /\ Apart(db, v) /\ Covered(db, v)

LEMMA EmptyLeaving == Leaving(EmptySim, EmptyWorker)
<1>1. DOMAIN EmptyWorker.intents = {}
  BY DEF EmptyWorker
<1> QED
  BY <1>1 DEF Leaving, Echoes, Called, Apart, Covered

(* The day and the bar of an intent.                                       *)
LEMMA IntentDay ==
    ASSUME NEW db, NEW v, Agree(db, v), NEW k \in DOMAIN v.intents, NEW req, v.intents[k].req = req
    PROVE  /\ req \in Request /\ req.id.day \in Nat /\ req.qty \in Nat
           /\ \E c \in v.bars : /\ c \in db.bars /\ c.ts \in Nat /\ req.submitted = c.ts + 1
                                /\ req.id.day = DayOf(c.ts)
<1>1. v \in WorkerLedger /\ db \in SimLedger
  BY DEF Agree
<1>2. v.intents[k] \in Intent /\ v.bars \subseteq db.bars /\ db.bars \subseteq Bar
  BY <1>1, WorkerFields, LedgerFields DEF Agree, Observes
<1>3. req \in Request
  BY <1>2 DEF Intent
<1>4. req.id.day \in Nat /\ req.qty \in Nat
  BY <1>3 DEF Request, Id
<1>5. \E c \in v.bars : req.submitted = c.ts + 1 /\ req.id.day = DayOf(c.ts)
  BY DEF Agree, Planned
<1> QED
  BY <1>2, <1>3, <1>4, <1>5 DEF Bar

(* A broker that adds no inventory keeps the exits.                        *)
LEMMA BrokerLeaving ==
    ASSUME NEW db, NEW v, Agree(db, v), NEW x, Agree(x, v), Leaving(db, v),
           Extends(db, x), db.bars \subseteq x.bars,
           \A j \in DOMAIN v.intents : IsExit(v, j) =>
              \/ \E b \in x.bars : DayOf(b.ts) > v.intents[j].req.id.day
              \/ Cardinality(x.lots) + FilledOf(x, j) <= Cardinality(db.lots) + FilledOf(db, j)
    PROVE  Leaving(x, v)
<1>1. db \in SimLedger /\ x \in SimLedger /\ v \in WorkerLedger /\ Sound(db) /\ Sound(x)
  BY DEF Agree
<1>2. DOMAIN db.orders \subseteq DOMAIN x.orders
  BY <1>1, LedgerFields DEF Extends
<1>3. Echoes(x, v)
  BY <1>2 DEF Leaving, Echoes, Extends
<1>4. Apart(x, v)
  BY <1>1, LiveShrinks DEF Leaving, Apart
<1>5. Cardinality(db.lots) \in Nat /\ Cardinality(x.lots) \in Nat
  BY <1>1, FS_CardinalityType DEF Sound
<1>6. ASSUME NEW j \in DOMAIN v.intents, IsExit(v, j), ~\E b \in x.bars : DayOf(b.ts) > v.intents[j].req.id.day
      PROVE  Cardinality(x.lots) + FilledOf(x, j) <= v.intents[j].req.qty
  <2>1. PICK req : v.intents[j].req = req
    OBVIOUS
  <2>2. req.qty \in Nat
    BY <2>1, IntentDay
  <2>3. FilledOf(db, j) \in Nat /\ FilledOf(x, j) \in Nat
    BY <1>1, LedgerFields DEF FilledOf
  <2>4. Cardinality(db.lots) + FilledOf(db, j) <= req.qty
    BY <1>6, <2>1 DEF Leaving, Covered
  <2>5. Cardinality(x.lots) + FilledOf(x, j) <= Cardinality(db.lots) + FilledOf(db, j)
    BY <1>6
  <2> QED
    BY <1>5, <2>1, <2>2, <2>3, <2>4, <2>5
<1>7. Covered(x, v)
  BY <1>6 DEF Covered
<1> QED
  BY <1>3, <1>4, <1>7 DEF Leaving

(* What a bar fills of an entry is of a later day than any exit.           *)
LEMMA AdvanceLeaving ==
    ASSUME NEW db, NEW v, Agree(db, v), NEW b \in Bar, \A c \in db.bars : c.ts <= b.ts,
           NEW x, Agree(x, v), Advances(db, v, b, x), Leaving(db, v)
    PROVE  Leaving(x, v)
<1>1. /\ db \in SimLedger /\ x \in SimLedger /\ Extends(db, x) /\ db.bars \subseteq x.bars /\ b \in x.bars
      /\ Len(x.orders) = Len(db.orders) /\ b.ts \in Nat /\ db.bars \subseteq Bar
  BY LedgerFields DEF Agree, Advances, Follows, Bar
<1>2. DOMAIN x.orders = DOMAIN db.orders
  BY <1>1, LedgerFields
<1> SUFFICES ASSUME NEW j \in DOMAIN v.intents, IsExit(v, j)
             PROVE  \/ \E c \in x.bars : DayOf(c.ts) > v.intents[j].req.id.day
                    \/ Cardinality(x.lots) + FilledOf(x, j) <= Cardinality(db.lots) + FilledOf(db, j)
  BY <1>1, BrokerLeaving
<1>3. CASE Enters(db, x)
  <2>1. PICK i \in DOMAIN x.fills : i \notin DOMAIN db.fills /\ x.fills[i].reason = "entry"
    BY <1>3 DEF Enters
  <2>2. \A c \in db.bars : c.ts \in Nat /\ c.ts <= b.ts
    BY <1>1 DEF Bar
  <2>3. PICK k \in DOMAIN v.intents : Live(db, v, k)
    BY <1>1, <2>1, <2>2, AdvanceEntry
  <2>4. PICK p, q : v.intents[j].req = p /\ v.intents[k].req = q
    OBVIOUS
  <2>5. p.id.day \in Nat /\ q.id.day \in Nat
    BY <2>4, IntentDay
  <2>6. PICK c \in db.bars : c.ts \in Nat /\ q.id.day = DayOf(c.ts)
    BY <2>4, IntentDay
  <2>7. p.id.day < q.id.day
    BY <2>3, <2>4 DEF Leaving, Apart
  <2>8. DayOf(c.ts) <= DayOf(b.ts) /\ DayOf(b.ts) \in Nat /\ DayOf(c.ts) \in Nat
    BY <1>1, <2>2, <2>6, DayMonotone, DayNat
  <2>9. DayOf(b.ts) > p.id.day
    BY <2>5, <2>6, <2>7, <2>8
  <2> QED
    BY <1>1, <2>4, <2>9
<1>4. CASE Reduces(db, x)
  <2>1. CASE j \in DOMAIN db.orders
    <3>1. db.orders[j].req = v.intents[j].req
      BY <2>1 DEF Agree, Ordered
    <3>2. Cardinality(x.lots) + x.orders[j].filled <= Cardinality(db.lots) + db.orders[j].filled
      BY <1>4, <2>1, <3>1 DEF Reduces, IsExit
    <3> QED
      BY <1>2, <2>1, <3>2 DEF FilledOf
  <2>2. CASE j \notin DOMAIN db.orders
    <3>1. FilledOf(x, j) = 0 /\ FilledOf(db, j) = 0
      BY <1>2, <2>2 DEF FilledOf
    <3>2. Cardinality(x.lots) <= Cardinality(db.lots) /\ Cardinality(x.lots) \in Nat /\ Cardinality(db.lots) \in Nat
      BY <1>4, FS_CardinalityType DEF Reduces, Agree, Sound
    <3> QED
      BY <3>1, <3>2
  <2> QED
    BY <2>1, <2>2
<1> QED
  BY <1>3, <1>4 DEF Advances

(* Submission and the cancellation of the entries leave inventory alone.   *)
LEMMA SubmitLeaving ==
    ASSUME NEW db, NEW v, Agree(db, v), Leaving(db, v), NEW i \in Pending(v), \A j \in Pending(v) : i <= j,
           NEW x, Submit(db, v.intents[i].req, FALSE) = x
    PROVE  Leaving(x, v)
<1>1. Takes(db, v, i, x)
  BY SubmittedAgree
<1>2. db \in SimLedger /\ DOMAIN db.orders = 1..Len(db.orders) /\ Len(db.orders) \in Nat
  BY LedgerFields DEF Agree
<1>3. \A j \in DOMAIN x.orders : j \notin DOMAIN db.orders => x.orders[j].filled = 0
  <2>1. CASE Known(db, v.intents[i].req.id)
    BY <2>1 DEF Submit
  <2>2. CASE ~Known(db, v.intents[i].req.id)
    <3>1. PICK o : [req |-> v.intents[i].req, state |-> Admission(db, v.intents[i].req, FALSE),
                    filled |-> 0] = o
      OBVIOUS
    <3>2. x.orders = Append(db.orders, o) /\ o.filled = 0
      BY <1>2, <2>2, <3>1 DEF Submit, SimLedger
    <3>3. db.orders \in Seq(Order)
      BY <1>2, LedgerFields
    <3> QED
      BY <1>2, <3>2, <3>3
  <2> QED
    BY <2>1, <2>2
<1>4. \A j \in DOMAIN v.intents : FilledOf(x, j) = FilledOf(db, j)
  BY <1>1, <1>3 DEF Takes, FilledOf, Extends
<1>5. /\ Agree(x, v) /\ Extends(db, x) /\ db.bars \subseteq x.bars /\ x.lots = db.lots
      /\ Cardinality(db.lots) \in Nat /\ \A j : FilledOf(db, j) \in Nat
  BY <1>1, <1>2, LedgerFields, FS_CardinalityType DEF Takes, Agree, Sound, FilledOf
<1> QED
  BY <1>4, <1>5, BrokerLeaving

LEMMA CancelLeaving ==
    ASSUME NEW db, NEW v, Agree(db, v), Leaving(db, v), NEW x, EntriesCancelled(db) = x
    PROVE  Leaving(x, v)
<1>1. /\ Agree(x, v) /\ Extends(db, x) /\ x.bars = db.bars /\ x.lots = db.lots
      /\ DOMAIN x.orders = DOMAIN db.orders
  BY CancelledAgree, Zenon
<1>2. \A j \in DOMAIN db.orders : x.orders[j].filled = db.orders[j].filled
  BY DEF EntriesCancelled, Became
<1>3. \A j : FilledOf(x, j) = FilledOf(db, j) /\ FilledOf(db, j) \in Nat
  BY <1>1, <1>2, LedgerFields DEF FilledOf, Agree
<1>4. Cardinality(db.lots) \in Nat
  BY FS_CardinalityType DEF Agree, Sound
<1> QED
  BY <1>1, <1>3, <1>4, BrokerLeaving

(* A worker that takes over what its broker says keeps the exits.          *)
LEMMA AnswerLeaving ==
    ASSUME NEW db, NEW v, Agree(db, v), Leaving(db, v), NEW u, Agree(db, u), SameIntents(v, u),
           v.halted \subseteq u.halted,
           \A k \in DOMAIN v.intents : \/ u.intents[k] = v.intents[k]
                                       \/ u.intents[k] = Answered(v.intents[k], db)
    PROVE  Leaving(db, u)
<1>1. db \in SimLedger /\ v \in WorkerLedger /\ u \in WorkerLedger /\ Distinct(db)
  BY DEF Agree, Booked
<1>2. DOMAIN u.intents = DOMAIN v.intents /\ \A k \in DOMAIN v.intents : u.intents[k].req = v.intents[k].req
  BY <1>1, WorkerFields DEF SameIntents
<1>3. ASSUME NEW k \in DOMAIN v.intents, u.intents[k].state \in Final
      PROVE  k \in DOMAIN db.orders /\ db.orders[k].state = u.intents[k].state
  <2>1. CASE u.intents[k] = v.intents[k]
    BY <1>3, <2>1 DEF Leaving, Echoes
  <2>2. CASE u.intents[k] = Answered(v.intents[k], db) /\ u.intents[k] # v.intents[k]
    <3>1. PICK t : v.intents[k] = t
      OBVIOUS
    <3>2. Known(db, t.req.id) /\ u.intents[k].state = BrokerState(db, t.req.id)
      BY <2>2, <3>1 DEF Answered
    <3>3. k \in DOMAIN db.orders
      BY <3>1, <3>2, KnownOrder
    <3>4. db.orders[k].req.id = t.req.id
      BY <3>1, <3>3 DEF Agree, Ordered
    <3>5. \A i \in DOMAIN db.orders : db.orders[i].req.id = t.req.id => i = k
      BY <1>1, <3>3, <3>4 DEF Distinct
    <3> QED
      BY <3>2, <3>3, <3>4, <3>5 DEF BrokerState
  <2> QED
    BY <1>3, <2>1, <2>2
<1>4. Echoes(db, u)
  BY <1>2, <1>3 DEF Echoes
<1>5. \A k : Live(db, u, k) /\ k \in DOMAIN v.intents => Live(db, v, k)
  BY <1>2 DEF Live
<1>6. Called(u) /\ Apart(db, u) /\ Covered(db, u)
  BY <1>2, <1>5 DEF Leaving, Called, Apart, Covered, IsExit
<1> QED
  BY <1>4, <1>6 DEF Leaving

(* Of two bars of one day the later one is of a later minute.              *)
LEMMA SameDayMinutes ==
    ASSUME NEW a \in Nat, NEW b \in Nat, a < b, DayOf(a) = DayOf(b)
    PROVE  Minute(a) < Minute(b)
<1> DEFINE x == DayOf(a)
           m == Minute(a)
           n == Minute(b)
<1>1. Stride \in Nat \ {0} /\ x \in Nat
  BY SessionAssumption, DayNat
<1>2. a = Stride * x + m /\ b = Stride * x + n /\ m \in Nat /\ n \in Nat
  BY <1>1 DEF DayOf, Minute
<1>3. Stride * x \in Nat
  BY <1>1
<1> DEFINE p == Stride * x
<1>4. p \in Nat /\ a = p + m /\ b = p + n /\ m \in Nat /\ n \in Nat
  BY <1>2, <1>3
<1> HIDE DEF p, m, n
<1>5. m < n
  BY <1>4
<1> QED
  BY <1>5 DEF m, n

(* What is carried is what the worker counts, and no entry is live then.   *)
LEMMA CarriedInventory ==
    ASSUME NEW db, NEW v, Agree(db, v), v.fills = db.fills
    PROVE  /\ Size(Position(v.fills)) = Cardinality(db.lots) /\ Cardinality(db.lots) \in Nat
           /\ Position(v.fills) = 0 <=> db.lots = {}
<1>1. db \in SimLedger /\ Sound(db) /\ Booked(db) /\ Contained(db, v)
  BY DEF Agree
<1>2. db.lots \in SUBSET Unit /\ IsFiniteSet(db.lots) /\ (\A x, y \in db.lots : x.side = y.side)
  BY <1>1, LedgerFields DEF Sound, Contained, Exposed
<1>3. Position(v.fills) = Net(db.lots)
  BY <1>1, SimPositionNet DEF Booked, Balanced
<1>4. Size(Position(v.fills)) = Cardinality(db.lots) /\ (Position(v.fills) = 0 => db.lots = {})
  BY <1>2, <1>3, OneSidedNet
<1>5. Cardinality(db.lots) \in Nat
  BY <1>2, FS_CardinalityType
<1>6. db.lots = {} => Position(v.fills) = 0
  <2> SUFFICES ASSUME db.lots = {} PROVE Position(v.fills) = 0
    OBVIOUS
  <2>1. Cardinality(db.lots) = 0
    BY FS_EmptySet
  <2>2. Position(v.fills) \in Int
    <3>1. v.fills \in Seq(Fill)
      BY <1>1, LedgerFields
    <3> QED
      BY <3>1, PositionInt
  <2> QED
    BY <1>4, <2>1, <2>2 DEF Size
<1> QED
  BY <1>4, <1>5, <1>6

(* The decision on a bar keeps the exits.                                  *)
LEMMA DecideLeaving ==
    ASSUME NEW db, NEW v, Agree(db, v), Leaving(db, v), Unfilled(db), v.fills = db.fills,
           NEW b \in db.bars, \A c \in v.bars : c.ts < b.ts, NEW at \in Nat,
           NEW impulse \in {-1, 0, 1}, NEW risk \in Risk,
           NEW u, ForwardDecided(v, b, impulse, risk, at) = u, Agree(db, u)
    PROVE  Leaving(db, u)
<1>1. /\ db \in SimLedger /\ v \in WorkerLedger /\ u \in WorkerLedger /\ b \in Bar
      /\ Ordered(db, v) /\ Ordered(db, u)
  BY LedgerFields DEF Agree
<1>2. /\ u.intents = v.intents \/ Intends(v, u, b, at)
      /\ v.halted \subseteq u.halted
  BY <1>1, DecidedForward
<1>3. CASE u.intents = v.intents
  BY <1>2, <1>3 DEF Leaving, Echoes, Called, Apart, Covered, IsExit, Live
<1>4. CASE Intends(v, u, b, at)
  <2>1. PICK kind \in Kind, side \in Side, n \in Nat \ {0} :
          /\ u.intents = Append(v.intents, [req   |-> RequestOn(v, b, kind, side, n, at),
                                            state |-> "pending"])
          /\ kind = "entry" => /\ Minute(b.ts) = OpeningBars - 1
                               /\ DayOf(b.ts) \notin u.halted
          /\ kind = "exit" => /\ n = Size(Position(v.fills))
                              /\ DayOf(b.ts) \in u.halted \/ Minute(b.ts) >= ExitMinute
    BY <1>4 DEF Intends
  <2>2. PICK req : RequestOn(v, b, kind, side, n, at) = req
    OBVIOUS
  <2>3. /\ req \in Request /\ req.qty = n /\ req.submitted = b.ts + 1
        /\ req.id.day = DayOf(b.ts) /\ req.id.kind = kind
    BY <1>1, <2>2, RequestShape
  <2> DEFINE m == Len(v.intents) + 1
             t == [req |-> req, state |-> "pending"]
  <2>4. t \in Intent /\ t.req = req /\ t.state = "pending" /\ "pending" \notin Final
    BY <2>3 DEF Intent, Final
  <2>5. u.intents = Append(v.intents, t)
    BY <2>1, <2>2
  <2> HIDE DEF t
  <2>6. /\ Len(u.intents) = m /\ u.intents[m] = t
        /\ \A k \in 1..Len(v.intents) : u.intents[k] = v.intents[k]
    BY <1>1, <2>4, <2>5, WorkerFields, AppendProperties
  <2>7. /\ DOMAIN u.intents = DOMAIN v.intents \cup {m} /\ m \notin DOMAIN v.intents
        /\ \A k \in DOMAIN v.intents : u.intents[k] = v.intents[k]
    <3>1. /\ DOMAIN v.intents = 1..Len(v.intents) /\ Len(v.intents) \in Nat
          /\ DOMAIN u.intents = 1..Len(u.intents)
      BY <1>1, WorkerFields
    <3> QED
      BY <2>6, <3>1
  <2> HIDE DEF m
  <2>8. b.ts \in Nat /\ b.ts = req.submitted - 1 /\ DayOf(b.ts) \in Nat
    BY <1>1, <2>3, DayNat DEF Bar
  <2>9. u.intents[m].req = req /\ u.intents[m].state = "pending" /\ m \in DOMAIN u.intents
    BY <2>4, <2>6, <2>7
  <2>10. Echoes(db, u)
    BY <2>4, <2>7, <2>9 DEF Leaving, Echoes
  <2>11. Called(u)
    <3>1. IsExit(u, m) => \/ req.id.day \in u.halted \/ Minute(req.submitted - 1) >= ExitMinute
      BY <2>1, <2>3, <2>8, <2>9 DEF IsExit
    <3>2. \A j \in DOMAIN v.intents : IsExit(u, j) =>
            \/ u.intents[j].req.id.day \in u.halted
            \/ Minute(u.intents[j].req.submitted - 1) >= ExitMinute
      BY <1>2, <2>7 DEF Leaving, Called, IsExit
    <3> QED
      BY <2>7, <2>9, <3>1, <3>2 DEF Called
  <2>12. Covered(db, u)
    <3>1. ASSUME kind = "exit"
          PROVE  Cardinality(db.lots) + FilledOf(db, m) <= req.qty
      <4>1. m \notin DOMAIN db.orders
        BY <1>1, <2>7 DEF Ordered
      <4>2. FilledOf(db, m) = 0 /\ req.qty = Cardinality(db.lots) /\ Cardinality(db.lots) \in Nat
        BY <2>1, <2>3, <3>1, <4>1, CarriedInventory DEF FilledOf
      <4> QED
        BY <4>2
    <3>2. IsExit(u, m) => Cardinality(db.lots) + FilledOf(db, m) <= u.intents[m].req.qty
      BY <2>3, <2>9, <3>1 DEF IsExit
    <3> QED
      BY <2>7, <3>2 DEF Leaving, Covered, IsExit
  <2>13. Apart(db, u)
    <3>1. \A j \in DOMAIN v.intents : /\ IsExit(u, j) <=> IsExit(v, j)
                                      /\ Live(db, u, j) <=> Live(db, v, j)
      BY <2>7 DEF IsExit, Live
    <3>2. \A j, k \in DOMAIN v.intents : IsExit(u, j) /\ Live(db, u, k) =>
             u.intents[j].req.id.day < u.intents[k].req.id.day
      BY <2>7, <3>1 DEF Leaving, Apart
    <3>3. ASSUME NEW k \in DOMAIN v.intents, IsExit(u, m), Live(db, v, k)
          PROVE  FALSE
      <4>1. PICK q : v.intents[k].req = q
        OBVIOUS
      <4>2. db.lots = {}
        BY <3>3, <4>1, LiveShape
      <4>3. kind = "exit"
        BY <2>3, <2>9, <3>3 DEF IsExit
      <4>4. n = Cardinality(db.lots)
        BY <2>1, <4>3, CarriedInventory
      <4> QED
        BY <4>2, <4>4, FS_EmptySet
    <3>4. ASSUME NEW j \in DOMAIN v.intents, IsExit(v, j), Live(db, u, m)
          PROVE  v.intents[j].req.id.day < req.id.day
      <4>1. kind = "entry"
        BY <2>3, <2>9, <3>4 DEF Live, Fresh
      <4>2. Minute(b.ts) = OpeningBars - 1 /\ DayOf(b.ts) \notin v.halted
        BY <1>2, <2>1, <4>1
      <4>3. PICK p : v.intents[j].req = p
        OBVIOUS
      <4>4. PICK c \in v.bars : c.ts \in Nat /\ p.submitted = c.ts + 1 /\ p.id.day = DayOf(c.ts)
        BY <4>3, IntentDay
      <4>5. c.ts < b.ts /\ c.ts = p.submitted - 1
        BY <4>4
      <4>6. DayOf(c.ts) <= DayOf(b.ts) /\ DayOf(c.ts) \in Nat
        BY <2>8, <4>4, <4>5, DayMonotone, DayNat
      <4>7. p.id.day \in v.halted \/ Minute(c.ts) >= ExitMinute
        BY <3>4, <4>3, <4>5 DEF Leaving, Called
      <4>8. ASSUME DayOf(c.ts) = DayOf(b.ts)
            PROVE  FALSE
        <5>1. Minute(c.ts) < Minute(b.ts)
          BY <2>8, <4>4, <4>5, <4>8, SameDayMinutes
        <5>2. Minute(c.ts) \in Nat /\ ExitMinute \in Nat /\ OpeningBars \in Nat
          BY <4>4, SessionAssumption DEF Minute
        <5>3. Minute(c.ts) >= ExitMinute
          BY <4>2, <4>4, <4>7, <4>8
        <5> QED
          BY <4>2, <5>1, <5>2, <5>3, ExitAssumption
      <4> QED
        BY <2>3, <2>8, <4>3, <4>4, <4>6, <4>8
    <3>5. ~(IsExit(u, m) /\ Live(db, u, m))
      BY <2>9 DEF IsExit, Live, Fresh
    <3> QED
      BY <2>7, <2>9, <3>1, <3>2, <3>3, <3>4, <3>5 DEF Apart
  <2> QED
    BY <2>10, <2>11, <2>12, <2>13 DEF Leaving
<1> QED
  BY <1>2, <1>3, <1>4

(* A decision from the exit minute on with inventory leaves an exit of its *)
(* day that is not over: a new one, or the last one asked for, which has   *)
(* not filled while inventory is left.                                     *)
LEMMA ExitWorks ==
    ASSUME NEW db, NEW v, Agree(db, v), Leaving(db, v), v.fills = db.fills,
           NEW b \in db.bars, \A c \in db.bars : c.ts <= b.ts,
           Minute(b.ts) >= ExitMinute, Position(v.fills) # 0, NEW at \in Nat,
           NEW impulse \in {-1, 0, 1}, NEW risk \in Risk,
           NEW u, ForwardDecided(v, b, impulse, risk, at) = u
    PROVE  \E i \in DOMAIN u.intents :
              /\ u.intents[i].req.id.day = DayOf(b.ts) /\ IsExit(u, i)
              /\ u.intents[i].state \notin Final
<1> DEFINE day == DayOf(b.ts)
           side == IF Position(v.fills) > 0 THEN -1 ELSE 1
           n == Size(Position(v.fills))
<1>1. /\ db \in SimLedger /\ v \in WorkerLedger /\ b \in Bar /\ b.ts \in Nat /\ day \in Nat
      /\ v.intents \in Seq(Intent) /\ v.fills \in Seq(Fill)
  BY LedgerFields, WorkerFields, DayNat DEF Agree, Bar
<1>2. PICK o : Observed(v, b, risk) = o
  OBVIOUS
<1>3. o.intents = v.intents /\ o.fills = v.fills
  BY <1>2 DEF Observed
<1>4. ~WantsEntry(o, b, impulse) /\ WantsExit(o, b, risk)
  BY <1>3 DEF WantsEntry, WantsExit
<1>5. Intend(o, "exit", side, n, b, at) = u
  BY <1>2, <1>3, <1>4 DEF ForwardDecided
<1>6. Position(v.fills) \in Int /\ side \in Side /\ n \in Nat \ {0} /\ "exit" \in Kind
  <2>1. Position(v.fills) \in Int
    BY <1>1, PositionInt
  <2> QED
    BY <2>1 DEF Size, Side, Kind
<1>7. CASE MayIntend(o, day, "exit")
  <2>1. PICK req : RequestOn(o, b, "exit", side, n, at) = req
    OBVIOUS
  <2>2. RequestOn(v, b, "exit", side, n, at) = req
    BY <1>3, <2>1 DEF RequestOn, Earlier
  <2>3. req.id.day = day /\ req.id.kind = "exit" /\ req \in Request
    BY <1>1, <1>6, <2>2, RequestShape
  <2>4. PICK t : [req |-> req, state |-> "pending"] = t
    OBVIOUS
  <2>5. t \in Intent /\ t.req = req /\ t.state = "pending"
    BY <2>3, <2>4 DEF Intent
  <2>6. u = WithIntents(o, Append(v.intents, t))
    BY <1>3, <1>5, <1>7, <2>1, <2>4 DEF Intend, RequestOn
  <2>7. u.intents = Append(v.intents, t)
    BY <2>6 DEF WithIntents
  <2>8. /\ Len(v.intents) + 1 \in DOMAIN u.intents
        /\ u.intents[Len(v.intents) + 1] = t
    BY <1>1, <2>5, <2>7
  <2> QED
    BY <2>3, <2>5, <2>8 DEF IsExit, Final
<1>8. CASE ~MayIntend(o, day, "exit")
  <2>1. u.intents = v.intents
    BY <1>3, <1>5, <1>8 DEF Intend
  <2>2. PICK i \in Earlier(o, day, "exit") :
          v.intents[i].state \notin {"cancelled", "rejected", "expired"}
    BY <1>3, <1>8 DEF MayIntend
  <2>3. /\ i \in DOMAIN v.intents /\ v.intents[i].req.id.day = day /\ IsExit(v, i)
    BY <1>3, <2>2 DEF Earlier, IsExit
  <2>4. v.intents[i].state # "filled"
    <3> SUFFICES ASSUME v.intents[i].state = "filled" PROVE FALSE
      OBVIOUS
    <3>1. i \in DOMAIN db.orders /\ db.orders[i].state = "filled"
      BY <2>3 DEF Leaving, Echoes, Final
    <3>2. db.orders[i].filled = db.orders[i].req.qty /\ db.orders[i].req = v.intents[i].req
      BY <2>3, <3>1 DEF Agree, Ordered, Sound, ValidLifecycle
    <3>3. \A c \in db.bars : c.ts \in Nat /\ DayOf(c.ts) \in Nat /\ DayOf(c.ts) <= day
      <4>1. \A c \in db.bars : c.ts \in Nat /\ c.ts <= b.ts
        BY <1>1, LedgerFields DEF Bar
      <4> QED
        BY <1>1, <4>1, DayMonotone, DayNat
    <3>4. Cardinality(db.lots) + FilledOf(db, i) <= v.intents[i].req.qty
      BY <1>1, <2>3, <3>3 DEF Leaving, Covered
    <3>5. v.intents[i].req.qty \in Nat /\ Cardinality(db.lots) \in Nat
      <4>1. PICK q : v.intents[i].req = q
        OBVIOUS
      <4> QED
        BY <2>3, <4>1, IntentDay, CarriedInventory
    <3>6. FilledOf(db, i) = v.intents[i].req.qty
      BY <3>1, <3>2 DEF FilledOf
    <3>7. Cardinality(db.lots) = 0
      BY <3>4, <3>5, <3>6
    <3>8. n = 0
      BY <3>7, CarriedInventory
    <3> QED
      BY <1>6, <3>8
  <2> QED
    BY <2>1, <2>2, <2>3, <2>4 DEF IsExit, Final
<1> QED
  BY <1>7, <1>8
==============================================================================
