----------------------------- MODULE ExecutionProofs -----------------------------
(***************************************************************************)
(* Theorems about Execution for all values of its constants: any symbols,  *)
(* bars, prices and limits, any number of orders, days, crashes and failed *)
(* commits.                                                                *)
(***************************************************************************)
EXTENDS Execution, FiniteSetTheorems, TLAPS

(***************************************************************************)
(* Induction over sets, and sums                                           *)
(***************************************************************************)

(* Induction over the natural numbers, for a set instead of a predicate.   *)
LEMMA NatSetInduction ==
    ASSUME NEW S, 0 \in S, \A n \in Nat : n \in S => n + 1 \in S
    PROVE  Nat \subseteq S
<1> DEFINE Less == {ss \in Nat \X Nat : ss[1] < ss[2]}
           Missing == Nat \ S
<1>1. IsWellFoundedOn(Less, Nat)
  BY NatLessThanWellFounded DEF OpToRel
<1>2. SUFFICES ASSUME Missing # {} PROVE FALSE
  OBVIOUS
<1>3. Missing \subseteq Nat
  OBVIOUS
<1> HIDE DEF Less
<1>4. PICK x \in Missing : \A y \in Missing : ~ (<<y, x>> \in Less)
  BY <1>1, <1>2, <1>3, WFMin
<1>5. x \in Nat /\ x # 0 /\ x - 1 \in Nat
  OBVIOUS
<1>6. x - 1 \in Missing
  BY <1>5
<1>7. <<x - 1, x>> \in Less
  BY <1>5 DEF Less
<1> QED
  BY <1>4, <1>6, <1>7

(* Among some subsets of a finite set there is one with no other inside.   *)
LEMMA SmallestSubset ==
    ASSUME NEW S, IsFiniteSet(S), NEW F, F \subseteq SUBSET S, F # {}
    PROVE  \E T \in F : \A U \in F : U \subseteq T => U = T
<1>1. IsWellFoundedOn(StrictSubsetOrdering(S), SUBSET S)
  BY FS_StrictSubsetOrderingWellFounded, FS_FiniteSubsetsOfFinite
<1>2. PICK T \in F : \A U \in F : ~ (<<U, T>> \in StrictSubsetOrdering(S))
  BY <1>1, WFMin
<1>3. ASSUME NEW U \in F, U \subseteq T PROVE U = T
  <2>1. U # T => <<U, T>> \in StrictSubsetOrdering(S)
    BY <1>3 DEF StrictSubsetOrdering
  <2> QED
    BY <1>2, <2>1
<1> QED
  BY <1>3

(* Induction over a finite set, element by element.                        *)
LEMMA SetInduction ==
    ASSUME NEW S, IsFiniteSet(S), NEW F, {} \in F,
           \A T \in SUBSET S : \A x \in S \ T : T \in F => T \cup {x} \in F
    PROVE  S \in F
<1> DEFINE Missing == {T \in SUBSET S : T \notin F}
<1>1. SUFFICES ASSUME Missing # {} PROVE FALSE
  OBVIOUS
<1>2. PICK T \in Missing : \A U \in Missing : U \subseteq T => U = T
  <2>1. Missing \subseteq SUBSET S
    OBVIOUS
  <2> HIDE DEF Missing
  <2> QED
    BY <1>1, <2>1, SmallestSubset
<1>3. PICK x : x \in T
  BY <1>2
<1>4. T \ {x} \in F
  BY <1>2, <1>3
<1>5. (T \ {x}) \cup {x} = T
  BY <1>3
<1>6. T \ {x} \in SUBSET S /\ x \in S \ (T \ {x})
  BY <1>3
<1> QED
  BY <1>2, <1>4, <1>5, <1>6

Picked(s) == CHOOSE x \in s : TRUE
Unrolled(t, f, s) == IF s = {} THEN 0 ELSE f[Picked(s)] + t[s \ {Picked(s)}]
IsTotal(t, f, S) == t = [s \in SUBSET S |-> Unrolled(t, f, s)]

(* The sum is what any function that unrolls the definition gives the set. *)
LEMMA SumDef ==
    ASSUME NEW f, NEW S, \E t : IsTotal(t, f, S)
    PROVE  \E t : IsTotal(t, f, S) /\ SumFunctionOnSet(f, S) = t[S]
  BY DEF IsTotal, Unrolled, Picked, SumFunctionOnSet, FoldFunctionOnSet, MapThenFoldSet

(* The element the definition takes out is one of the set.                 *)
LEMMA PickedIn == ASSUME NEW s, s # {} PROVE Picked(s) \in s
  BY DEF Picked

(* Two such functions agree where their arguments do.                      *)
LEMMA TotalsAgree ==
    ASSUME NEW S, NEW T, T \subseteq S, IsFiniteSet(T), NEW f, NEW g,
           \A x \in T : f[x] = g[x],
           NEW t, IsTotal(t, f, S), NEW u, IsTotal(u, g, T)
    PROVE  \A s \in SUBSET T : t[s] = u[s]
<1> DEFINE Missing == {s \in SUBSET T : t[s] # u[s]}
<1>1. SUFFICES ASSUME Missing # {} PROVE FALSE
  OBVIOUS
<1>2. PICK s \in Missing : \A r \in Missing : r \subseteq s => r = s
  <2>1. Missing \subseteq SUBSET T
    OBVIOUS
  <2> HIDE DEF Missing
  <2> QED
    BY <1>1, <2>1, SmallestSubset
<1>3. t[s] = Unrolled(t, f, s)
  BY DEF IsTotal
<1>4. u[s] = Unrolled(u, g, s)
  BY DEF IsTotal
<1>5. s # {}
  BY <1>3, <1>4 DEF Unrolled
<1>6. Picked(s) \in s
  BY <1>5, PickedIn
<1>7. t[s \ {Picked(s)}] = u[s \ {Picked(s)}]
  <2>1. s \ {Picked(s)} \notin Missing
    BY <1>2, <1>6
  <2> QED
    BY <2>1
<1> QED
  BY <1>2, <1>3, <1>4, <1>5, <1>6, <1>7 DEF Unrolled

(* There is such a function, built up by the size of the subsets.          *)
LEMMA TotalExists ==
    ASSUME NEW f, NEW S, IsFiniteSet(S)
    PROVE  \E t : IsTotal(t, f, S)
<1> DEFINE Level(n) == {s \in SUBSET S : Cardinality(s) <= n}
           Upto(t, n) == t = [s \in Level(n) |-> Unrolled(t, f, s)]
           Reached == {n \in Nat : \E t : Upto(t, n)}
<1>1. \A s \in SUBSET S : IsFiniteSet(s) /\ Cardinality(s) \in Nat
  BY FS_Subset, FS_CardinalityType
<1>2. \A s \in SUBSET S : s # {} => /\ Picked(s) \in s
                                    /\ s \ {Picked(s)} \in SUBSET S
                                    /\ Cardinality(s \ {Picked(s)}) = Cardinality(s) - 1
  BY <1>1, PickedIn, FS_RemoveElement
<1>3. 0 \in Reached
  <2> DEFINE t == [s \in Level(0) |-> 0]
  <2>1. \A s \in Level(0) : s = {}
    BY <1>1, FS_EmptySet
  <2>2. Upto(t, 0)
    BY <2>1 DEF Unrolled
  <2> QED
    BY <2>2
<1>4. \A n \in Nat : n \in Reached => n + 1 \in Reached
  <2> SUFFICES ASSUME NEW n \in Nat, n \in Reached PROVE n + 1 \in Reached
    OBVIOUS
  <2>0. PICK t : Upto(t, n)
    OBVIOUS
  <2> DEFINE u == [s \in Level(n + 1) |-> Unrolled(t, f, s)]
  <2>1. \A s \in Level(n) : s \in Level(n + 1) /\ t[s] = u[s]
    BY <1>1, <2>0
  <2>2. \A s \in Level(n + 1) : s # {} => s \ {Picked(s)} \in Level(n)
    BY <1>1, <1>2
  <2>3. \A s \in Level(n + 1) : Unrolled(t, f, s) = Unrolled(u, f, s)
    <3> HIDE DEF u, Upto, Level
    <3> QED
      BY <2>1, <2>2 DEF Unrolled
  <2>4. Upto(u, n + 1)
    BY <2>3
  <2>5. \E v : Upto(v, n + 1)
    BY <2>4
  <2> HIDE DEF Upto
  <2> QED
    BY <2>5
<1> HIDE DEF Reached
<1>5. Cardinality(S) \in Reached
  BY <1>1, <1>3, <1>4, NatSetInduction
<1> USE DEF Reached
<1>6. PICK t : Upto(t, Cardinality(S))
  BY <1>5
<1>7. Level(Cardinality(S)) = SUBSET S
  BY FS_Subset
<1> QED
  BY <1>6, <1>7 DEF IsTotal

(* Nothing adds up to zero.                                                *)
LEMMA SumEmpty == ASSUME NEW f PROVE SumFunctionOnSet(f, {}) = 0
<1>1. PICK t : IsTotal(t, f, {}) /\ SumFunctionOnSet(f, {}) = t[{}]
  BY TotalExists, SumDef, FS_EmptySet
<1> QED
  BY <1>1 DEF IsTotal, Unrolled

(* Only the values on the set matter.                                      *)
LEMMA SumSame ==
    ASSUME NEW f, NEW g, NEW S, IsFiniteSet(S), \A x \in S : f[x] = g[x]
    PROVE  SumFunctionOnSet(f, S) = SumFunctionOnSet(g, S)
<1>1. PICK t : IsTotal(t, f, S) /\ SumFunctionOnSet(f, S) = t[S]
  BY TotalExists, SumDef
<1>2. PICK u : IsTotal(u, g, S) /\ SumFunctionOnSet(g, S) = u[S]
  BY TotalExists, SumDef
<1>3. \A s \in SUBSET S : t[s] = u[s]
  BY <1>1, <1>2, TotalsAgree
<1> QED
  BY <1>1, <1>2, <1>3

(* The definition takes out one element, which it chooses.                 *)
LEMMA SumPicked ==
    ASSUME NEW f, NEW S, IsFiniteSet(S), S # {}
    PROVE  SumFunctionOnSet(f, S)
             = f[Picked(S)] + SumFunctionOnSet(f, S \ {Picked(S)})
<1> DEFINE T == S \ {Picked(S)}
<1>1. PICK t : IsTotal(t, f, S) /\ SumFunctionOnSet(f, S) = t[S]
  BY TotalExists, SumDef
<1>2. IsFiniteSet(T)
  BY FS_Subset
<1>3. PICK u : IsTotal(u, f, T) /\ SumFunctionOnSet(f, T) = u[T]
  BY <1>2, TotalExists, SumDef
<1>4. t[T] = u[T]
  BY <1>1, <1>2, <1>3, TotalsAgree
<1>5. t[S] = Unrolled(t, f, S)
  BY <1>1 DEF IsTotal
<1> QED
  BY <1>1, <1>3, <1>4, <1>5 DEF Unrolled

(* Integers add up to an integer.                                          *)
LEMMA SumInt ==
    ASSUME NEW f, NEW S, IsFiniteSet(S), \A x \in S : f[x] \in Int
    PROVE  SumFunctionOnSet(f, S) \in Int
<1> DEFINE Missing == {T \in SUBSET S : SumFunctionOnSet(f, T) \notin Int}
<1>1. SUFFICES ASSUME Missing # {} PROVE FALSE
  OBVIOUS
<1>2. PICK T \in Missing : \A U \in Missing : U \subseteq T => U = T
  <2>1. Missing \subseteq SUBSET S
    OBVIOUS
  <2> HIDE DEF Missing
  <2> QED
    BY <1>1, <2>1, SmallestSubset
<1>3. T # {} /\ IsFiniteSet(T)
  <2>1. T # {}
    BY SumEmpty
  <2> QED
    BY <2>1, FS_Subset
<1>4. Picked(T) \in T
  BY <1>3, PickedIn
<1>5. T \ {Picked(T)} \notin Missing
  BY <1>2, <1>4
<1>6. SumFunctionOnSet(f, T \ {Picked(T)}) \in Int /\ f[Picked(T)] \in Int
  BY <1>4, <1>5
<1>7. SumFunctionOnSet(f, T) = f[Picked(T)] + SumFunctionOnSet(f, T \ {Picked(T)})
  BY <1>3, SumPicked
<1> QED
  BY <1>6, <1>7

(* Any element may be taken out first.                                     *)
LEMMA SumTakeOut ==
    ASSUME NEW f, NEW S, IsFiniteSet(S), \A x \in S : f[x] \in Int, NEW a \in S
    PROVE  SumFunctionOnSet(f, S) = f[a] + SumFunctionOnSet(f, S \ {a})
<1> DEFINE Sum(T) == SumFunctionOnSet(f, T)
           Missing == {T \in SUBSET S : \E b \in T : Sum(T) # f[b] + Sum(T \ {b})}
<1>1. SUFFICES ASSUME Missing # {} PROVE FALSE
  OBVIOUS
<1>2. PICK T \in Missing : \A U \in Missing : U \subseteq T => U = T
  <2>1. Missing \subseteq SUBSET S
    OBVIOUS
  <2> HIDE DEF Missing
  <2> QED
    BY <1>1, <2>1, SmallestSubset
<1>3. PICK b \in T : Sum(T) # f[b] + Sum(T \ {b})
  OBVIOUS
<1> DEFINE p == Picked(T)
<1>4. p \in T /\ IsFiniteSet(T)
  BY PickedIn, FS_Subset
<1>5. Sum(T) = f[p] + Sum(T \ {p})
  BY <1>3, <1>4, SumPicked
<1>6. p # b
  BY <1>3, <1>5
<1> HIDE DEF p
<1>7. T \ {p} \notin Missing /\ T \ {b} \notin Missing
  BY <1>2, <1>3, <1>4
<1>8. Sum(T \ {p}) = f[b] + Sum((T \ {p}) \ {b})
  BY <1>3, <1>6, <1>7
<1>9. Sum(T \ {b}) = f[p] + Sum((T \ {b}) \ {p})
  BY <1>4, <1>6, <1>7
<1>10. (T \ {p}) \ {b} = (T \ {b}) \ {p}
  OBVIOUS
<1>11. f[p] \in Int /\ f[b] \in Int /\ Sum((T \ {p}) \ {b}) \in Int
  <2>1. IsFiniteSet((T \ {p}) \ {b})
    BY <1>4, FS_Subset
  <2> QED
    BY <1>4, <2>1, SumInt
<1> DEFINE rest == Sum((T \ {p}) \ {b})
<1>12. Sum(T) = f[p] + (f[b] + rest)
  BY <1>5, <1>8
<1>13. Sum(T \ {b}) = f[p] + rest
  BY <1>9, <1>10
<1>14. rest \in Int
  BY <1>11
<1> HIDE DEF rest, Sum, Missing
<1> QED
  BY <1>3, <1>11, <1>12, <1>13, <1>14

(* One more element adds its value.                                        *)
LEMMA SumAdd ==
    ASSUME NEW f, NEW S, IsFiniteSet(S), NEW a, a \notin S,
           \A x \in S \cup {a} : f[x] \in Int
    PROVE  SumFunctionOnSet(f, S \cup {a}) = f[a] + SumFunctionOnSet(f, S)
<1>1. IsFiniteSet(S \cup {a}) /\ (S \cup {a}) \ {a} = S
  BY FS_AddElement
<1> QED
  BY <1>1, SumTakeOut

(* A sum of greater values is greater.                                     *)
LEMMA SumAtMost ==
    ASSUME NEW f, NEW g, NEW S, IsFiniteSet(S),
           \A x \in S : f[x] \in Int /\ g[x] \in Int /\ f[x] <= g[x]
    PROVE  SumFunctionOnSet(f, S) <= SumFunctionOnSet(g, S)
<1> DEFINE Good == {T \in SUBSET S : SumFunctionOnSet(f, T) <= SumFunctionOnSet(g, T)}
<1>1. {} \in Good
  BY SumEmpty
<1>2. ASSUME NEW T \in SUBSET S, NEW x \in S \ T, T \in Good PROVE T \cup {x} \in Good
  <2>1. IsFiniteSet(T)
    BY FS_Subset
  <2>2. SumFunctionOnSet(f, T) \in Int /\ SumFunctionOnSet(g, T) \in Int
    BY <2>1, SumInt
  <2>3. SumFunctionOnSet(f, T \cup {x}) = f[x] + SumFunctionOnSet(f, T)
    BY <2>1, SumAdd
  <2>4. SumFunctionOnSet(g, T \cup {x}) = g[x] + SumFunctionOnSet(g, T)
    BY <2>1, SumAdd
  <2> QED
    BY <1>2, <2>2, <2>3, <2>4
<1> HIDE DEF Good
<1>3. S \in Good
  BY <1>1, <1>2, SetInduction
<1> QED
  BY <1>3 DEF Good

(* The sum over two disjoint sets.                                         *)
LEMMA SumUnion ==
    ASSUME NEW f, NEW S, IsFiniteSet(S), NEW R, IsFiniteSet(R), R \cap S = {},
           \A x \in S \cup R : f[x] \in Int
    PROVE  SumFunctionOnSet(f, R \cup S) = SumFunctionOnSet(f, R) + SumFunctionOnSet(f, S)
<1> DEFINE Sum(T) == SumFunctionOnSet(f, T)
           Good == {T \in SUBSET S : Sum(R \cup T) = Sum(R) + Sum(T)}
<1>0. Sum(R) \in Int
  BY SumInt
<1>1. {} \in Good
  <2>1. R \cup {} = R
    OBVIOUS
  <2> QED
    BY <1>0, <2>1, SumEmpty
<1>2. ASSUME NEW T \in SUBSET S, NEW x \in S \ T, T \in Good PROVE T \cup {x} \in Good
  <2>1. IsFiniteSet(T) /\ IsFiniteSet(R \cup T)
    BY FS_Subset, FS_Union
  <2>2. Sum(T) \in Int
    BY <2>1, SumInt
  <2>3. Sum(T \cup {x}) = f[x] + Sum(T)
    BY <2>1, SumAdd
  <2>4. Sum((R \cup T) \cup {x}) = f[x] + Sum(R \cup T)
    BY <2>1, SumAdd
  <2>5. (R \cup T) \cup {x} = R \cup (T \cup {x})
    OBVIOUS
  <2>6. f[x] \in Int
    OBVIOUS
  <2>7. Sum(R \cup T) = Sum(R) + Sum(T)
    BY <1>2
  <2>8. Sum(R \cup (T \cup {x})) = Sum(R) + Sum(T \cup {x})
    <3>1. Sum(R \cup (T \cup {x})) = f[x] + Sum(R \cup T)
      BY <2>4, <2>5, Zenon
    <3> DEFINE r == Sum(R)
               t == Sum(T)
    <3>2. r \in Int /\ t \in Int
      BY <1>0, <2>2
    <3>3. Sum(R \cup (T \cup {x})) = f[x] + (r + t)
      BY <2>7, <3>1
    <3>4. Sum(T \cup {x}) = f[x] + t
      BY <2>3
    <3> HIDE DEF Sum, t, r
    <3>5. f[x] + (r + t) = r + (f[x] + t)
      BY <2>6, <3>2
    <3> QED
      BY <3>3, <3>4, <3>5 DEF r
  <2> QED
    BY <2>8
<1> HIDE DEF Good
<1>3. S \in Good
  BY <1>1, <1>2, SetInduction
<1> QED
  BY <1>3 DEF Good

(* The sum of the negated values.                                          *)
LEMMA SumNegated ==
    ASSUME NEW f, NEW g, NEW S, IsFiniteSet(S),
           \A x \in S : f[x] \in Int /\ g[x] = -f[x]
    PROVE  SumFunctionOnSet(g, S) = -SumFunctionOnSet(f, S)
<1> DEFINE Good == {T \in SUBSET S : SumFunctionOnSet(g, T) = -SumFunctionOnSet(f, T)}
<1>1. {} \in Good
  BY SumEmpty
<1>2. ASSUME NEW T \in SUBSET S, NEW x \in S \ T, T \in Good PROVE T \cup {x} \in Good
  <2>1. IsFiniteSet(T)
    BY FS_Subset
  <2>2. SumFunctionOnSet(f, T) \in Int
    BY <2>1, SumInt
  <2>3. SumFunctionOnSet(f, T \cup {x}) = f[x] + SumFunctionOnSet(f, T)
    BY <2>1, SumAdd
  <2>4. SumFunctionOnSet(g, T \cup {x}) = g[x] + SumFunctionOnSet(g, T)
    BY <2>1, SumAdd
  <2>5. f[x] \in Int /\ g[x] = -f[x]
    OBVIOUS
  <2> QED
    BY <1>2, <2>2, <2>3, <2>4, <2>5
<1> HIDE DEF Good
<1>3. S \in Good
  BY <1>1, <1>2, SetInduction
<1> QED
  BY <1>3 DEF Good

(***************************************************************************)
(* The inductive invariant                                                 *)
(***************************************************************************)

\* The session differs from the database by stops that are not committed yet.
SameRow(t, u) == /\ t.sym = u.sym /\ t.order = u.order /\ t.day = u.day
                 /\ t.entry = u.entry /\ t.initial = u.initial
                 /\ t.open = u.open /\ t.net = u.net
SessionFollows ==
    /\ orm.pnl = db.pnl /\ orm.account = db.account
    /\ Len(orm.trades) = Len(db.trades)
    /\ \A i \in DOMAIN db.trades : SameRow(orm.trades[i], db.trades[i])

\* Every trade has an order of its own, and a symbol one open trade.
OwnOrders ==
    /\ Len(book.orders) <= MaxOrders
    /\ \A i \in DOMAIN db.trades : db.trades[i].order \in Placed
    /\ \A i, j \in DOMAIN db.trades : db.trades[i].order = db.trades[j].order => i = j
    /\ \A i, j \in Open(db) : db.trades[i].sym = db.trades[j].sym => i = j

\* An order that was exited has a trade, which stays open until it is booked.
ExitsRecorded ==
    /\ \A o \in Placed : book.orders[o].exit => \E i \in DOMAIN db.trades : db.trades[i].order = o
    /\ \A i \in ClosedTrades : book.orders[db.trades[i].order].exit

\* A position is that of an order not exited, and of the symbol's open trade.
Held(s) == book.positions[s] # NoPosition
PositionsHeld ==
    /\ \A s \in Symbols : Held(s) =>
          /\ book.positions[s].order \in Placed
          /\ ~book.orders[book.positions[s].order].exit
          /\ \A i \in Open(db) : db.trades[i].sym = s =>
                db.trades[i].order = book.positions[s].order
    /\ \A s, r \in Symbols : Held(s) /\ Held(r) /\ book.positions[s].order = book.positions[r].order
                                => s = r

\* What a handler has still to do is about different open trades, and what
\* cannot wait comes first.
OnTrade(op) == op.do \in {"check", "close", "manage", "finalize"}
AtOnce(op)  == op.do \in {"record", "manage", "finalize", "realize", "commit"}
AgendaMakesSense ==
    /\ \A k \in DOMAIN agenda :
          /\ OnTrade(agenda[k]) => agenda[k].trade \in Open(db)
          /\ AtOnce(agenda[k]) => k = 1
    /\ \A j, k \in DOMAIN agenda :
          OnTrade(agenda[j]) /\ OnTrade(agenda[k]) /\ agenda[j].trade = agenda[k].trade => j = k
    /\ Doing("finalize") => book.orders[db.trades[Op.trade].order].exit
    /\ Doing("record") =>
          /\ Held(Op.sym) /\ book.positions[Op.sym].order = Op.order
          /\ TradeOf(Op.order) = {}
          /\ \A i \in Open(db) : db.trades[i].sym # Op.sym

\* The account's profit and the day rows are sums over closed trades.
Tallied == /\ db.account.profit = Nets(ClosedTrades)
           /\ \A d \in 0..MaxDay : db.pnl[d] = Nets(ClosedTrades \cap TradesOf(d))

\* The outcome that is about to reach the broker's balance is a booked one.
BalanceFollows ==
    \E ids \in SUBSET ClosedTrades :
       /\ book.balance = Deposit + Nets(ids)
       /\ \/ ~Doing("realize") /\ Cardinality(ClosedTrades \ ids) <= faults
          \/ /\ Doing("realize")
             /\ \E i \in ClosedTrades \ ids :
                   /\ db.trades[i].net = Op.net
                   /\ Cardinality(ClosedTrades \ (ids \cup {i})) <= faults

\* A fill whose trade is not recorded yet was admitted by the exposure gate.
Admitted ==
    /\ \A i \in DOMAIN db.trades : db.trades[i].entry = Fill /\ db.trades[i].initial \in Stops
    /\ Doing("record") => WorstOf(clock.day) - (Entry - Op.stop) > -LossLimit

LifeInv == /\ TypeOK /\ SessionFollows /\ OwnOrders /\ ExitsRecorded
           /\ PositionsHeld /\ AgendaMakesSense
BookInv == LifeInv /\ Tallied /\ BalanceFollows
LossInv == BookInv /\ Admitted /\ DayLossBounded

(***************************************************************************)
(* Types of parts, and the agenda                                          *)
(***************************************************************************)

(* The parts of the tables and of the broker's file.                       *)
LEMMA Parts ==
    ASSUME TypeOK
    PROVE  /\ db.trades \in Seq(Trade) /\ db.pnl \in [0..MaxDay -> Int] /\ db.account \in Account
           /\ orm.trades \in Seq(Trade) /\ orm.pnl \in [0..MaxDay -> Int] /\ orm.account \in Account
           /\ book.balance \in Int /\ book.orders \in Seq(OrderRecord)
           /\ book.positions \in [Symbols -> {NoPosition} \cup Position]
           /\ agenda \in Seq(Ops)
           /\ Len(db.trades) \in Nat /\ DOMAIN db.trades = 1..Len(db.trades)
           /\ Len(orm.trades) \in Nat /\ DOMAIN orm.trades = 1..Len(orm.trades)
           /\ Len(book.orders) \in Nat /\ DOMAIN book.orders = 1..Len(book.orders)
           /\ Len(agenda) \in Nat /\ DOMAIN agenda = 1..Len(agenda)
BY DEF TypeOK, Tables, State

(* An element of a sequence has its type.                                  *)
LEMMA Element == ASSUME NEW T, NEW s \in Seq(T), NEW i \in DOMAIN s PROVE s[i] \in T
OBVIOUS

(* A sequence with another element at one place.                           *)
LEMMA ElementChanged ==
    ASSUME NEW T, NEW s \in Seq(T), NEW i \in DOMAIN s, NEW v \in T
    PROVE  LET t == [s EXCEPT ![i] = v] IN
           /\ t \in Seq(T) /\ Len(t) = Len(s) /\ DOMAIN t = DOMAIN s /\ t[i] = v
           /\ \A j \in DOMAIN s : j # i => t[j] = s[j]
OBVIOUS

(* A file is saved with its parts.                                         *)
LEMMA SavedState ==
    ASSUME book.balance \in Int,
           NEW positions \in [Symbols -> {NoPosition} \cup Position],
           NEW orders \in Seq(OrderRecord)
    PROVE  Saved(positions, orders) \in State
BY DEF Saved, State

(* The orders with another exit fill.                                      *)
LEMMA FillRecorded ==
    ASSUME book.orders \in Seq(OrderRecord), NEW o \in DOMAIN book.orders,
           NEW price \in Int, NEW flag \in BOOLEAN
    PROVE  /\ ExitRecorded(o, price, flag) \in Seq(OrderRecord)
           /\ Len(ExitRecorded(o, price, flag)) = Len(book.orders)
           /\ ExitRecorded(o, price, flag)[o] = [exit |-> TRUE, price |-> price, flag |-> flag]
           /\ \A q \in DOMAIN book.orders :
                 q # o => ExitRecorded(o, price, flag)[q] = book.orders[q]
<1>1. PICK fill \in OrderRecord : fill = [exit |-> TRUE, price |-> price, flag |-> flag]
  BY DEF OrderRecord
<1>2. ExitRecorded(o, price, flag) = [book.orders EXCEPT ![o] = fill]
  BY <1>1 DEF ExitRecorded
<1> QED
  BY <1>1, <1>2, ElementChanged

(* What the head of the agenda is about.                                   *)
LEMMA HeadOp ==
    ASSUME TypeOK, agenda # <<>>
    PROVE  /\ 1 \in DOMAIN agenda /\ Op = agenda[1] /\ Op \in Ops
           /\ Op.do \in {"check", "close", "manage", "finalize"} => Op.trade \in Nat \ {0}
           /\ Op.do \in {"manage", "finalize"} => Op.price \in Int
           /\ Op.do = "realize" => Op.net \in Int
           /\ Op.do \in {"scan", "record"} => Op.sym \in Symbols
           /\ Op.do = "record" => Op.order \in Nat \ {0} /\ Op.stop \in Stops
           /\ Op.by \in By
<1>1. agenda \in Seq(Ops) /\ 1 \in DOMAIN agenda /\ Op = agenda[1]
  BY Parts DEF Op
<1>2. Op \in Ops
  BY <1>1, Element
<1> QED
  BY <1>1, <1>2 DEF Ops

(* What is left when the head and some of what follows is given up.        *)
LEMMA Rest ==
    ASSUME TypeOK, agenda # <<>>, NEW k \in 2..Len(agenda) + 1
    PROVE  LET rest == SubSeq(agenda, k, Len(agenda))
           IN  /\ rest \in Seq(Ops) /\ DOMAIN rest = 1..Len(agenda) - k + 1
               /\ \A j \in DOMAIN rest : j + k - 1 \in DOMAIN agenda /\ rest[j] = agenda[j + k - 1]
BY Parts, SMTT(30)

(* The head alone is given up.                                             *)
LEMMA TailIsRest ==
    ASSUME TypeOK, agenda # <<>>
    PROVE  Tail(agenda) = SubSeq(agenda, 2, Len(agenda))
BY Parts

(* Giving up the head and some of what follows leaves an agenda that makes *)
(* sense, if the trades it is about are open still.                        *)
LEMMA AgendaShortened ==
    ASSUME TypeOK, AgendaMakesSense, agenda # <<>>,
           NEW k \in 2..Len(agenda) + 1, agenda' = SubSeq(agenda, k, Len(agenda)),
           \A j \in 2..Len(agenda) : OnTrade(agenda[j]) => agenda[j].trade \in Open(db')
    PROVE  /\ agenda' \in Seq(Ops) /\ AgendaMakesSense'
           /\ ~Doing("realize")' /\ ~Doing("record")'
<1>1. /\ agenda' \in Seq(Ops) /\ DOMAIN agenda' = 1..Len(agenda) - k + 1
      /\ \A j \in DOMAIN agenda' : j + k - 1 \in DOMAIN agenda /\ agenda'[j] = agenda[j + k - 1]
  BY Rest
<1>2. Len(agenda) \in Nat /\ DOMAIN agenda = 1..Len(agenda)
  BY Parts
<1>3. \A j \in DOMAIN agenda' : j + k - 1 \in 2..Len(agenda)
  BY <1>1, <1>2
<1>4. \A j \in DOMAIN agenda' : ~AtOnce(agenda'[j])
  BY <1>1, <1>3 DEF AgendaMakesSense
<1>5. \A op : AtOnce([do |-> op]) => ~Doing(op)'
  <2> SUFFICES ASSUME NEW op, AtOnce([do |-> op]), Doing(op)' PROVE FALSE
    OBVIOUS
  <2>1. 1 \in DOMAIN agenda' /\ agenda'[1].do = op
    BY <1>1 DEF Doing
  <2> QED
    BY <1>4, <2>1 DEF AtOnce
<1>6. ~Doing("realize")' /\ ~Doing("record")' /\ ~Doing("finalize")'
  BY <1>5 DEF AtOnce
<1>7. \A j \in DOMAIN agenda' : OnTrade(agenda'[j]) => agenda'[j].trade \in Open(db')
  BY <1>1, <1>3
<1>8. \A j, l \in DOMAIN agenda' :
        OnTrade(agenda'[j]) /\ OnTrade(agenda'[l]) /\ agenda'[j].trade = agenda'[l].trade => j = l
  <2> SUFFICES ASSUME NEW j \in DOMAIN agenda', NEW l \in DOMAIN agenda',
                      OnTrade(agenda'[j]), OnTrade(agenda'[l]), agenda'[j].trade = agenda'[l].trade
               PROVE  j = l
    OBVIOUS
  <2>1. j + k - 1 = l + k - 1
    BY <1>1 DEF AgendaMakesSense
  <2> QED
    BY <1>1, <2>1
<1> QED
  BY <1>1, <1>4, <1>6, <1>7, <1>8 DEF AgendaMakesSense

(* Putting another thing in the place of the head leaves an agenda that    *)
(* makes sense, if it does.                                                *)
LEMMA AgendaReplaced ==
    ASSUME TypeOK, AgendaMakesSense, agenda # <<>>,
           NEW op \in Ops, agenda' = <<op>> \o Tail(agenda),
           \A j \in 2..Len(agenda) : OnTrade(agenda[j]) => agenda[j].trade \in Open(db'),
           OnTrade(op) => /\ op.trade \in Open(db')
                          /\ OnTrade(Op) /\ op.trade = Op.trade,
           op.do = "finalize" => book'.orders[db'.trades[op.trade].order].exit,
           op.do = "record" =>
              /\ Held(op.sym)' /\ book'.positions[op.sym].order = op.order
              /\ TradeOf(op.order)' = {}
              /\ \A i \in Open(db') : db'.trades[i].sym # op.sym
    PROVE  /\ agenda' \in Seq(Ops) /\ AgendaMakesSense'
           /\ \A do : Doing(do)' <=> op.do = do
           /\ Op' = op
<1>1. agenda \in Seq(Ops) /\ Len(agenda) \in Nat /\ DOMAIN agenda = 1..Len(agenda)
      /\ 1 \in DOMAIN agenda /\ Op = agenda[1]
  BY Parts, HeadOp
<1>2. /\ agenda' \in Seq(Ops) /\ DOMAIN agenda' = DOMAIN agenda
      /\ agenda'[1] = op /\ \A j \in DOMAIN agenda : j # 1 => agenda'[j] = agenda[j]
  BY <1>1
<1>3. agenda' # <<>> /\ Op' = op /\ \A do : Doing(do)' <=> op.do = do
  BY <1>1, <1>2 DEF Op, Doing
<1>4. \A j \in DOMAIN agenda' : /\ OnTrade(agenda'[j]) => agenda'[j].trade \in Open(db')
                                /\ AtOnce(agenda'[j]) => j = 1
  BY <1>1, <1>2, SMTT(30) DEF AgendaMakesSense
<1>5. \A j \in DOMAIN agenda : OnTrade(op) /\ OnTrade(agenda[j]) /\ j # 1 => agenda[j].trade # op.trade
  BY <1>1 DEF AgendaMakesSense
<1>6. \A j, l \in DOMAIN agenda' :
        OnTrade(agenda'[j]) /\ OnTrade(agenda'[l]) /\ agenda'[j].trade = agenda'[l].trade => j = l
  <2> SUFFICES ASSUME NEW j \in DOMAIN agenda', NEW l \in DOMAIN agenda', j # l,
                      OnTrade(agenda'[j]), OnTrade(agenda'[l])
               PROVE  agenda'[j].trade # agenda'[l].trade
    OBVIOUS
  <2>1. CASE j = 1
    BY <1>2, <1>5, <2>1
  <2>2. CASE l = 1
    BY <1>2, <1>5, <2>2
  <2>3. CASE j # 1 /\ l # 1
    BY <1>2, <2>3 DEF AgendaMakesSense
  <2> QED
    BY <2>1, <2>2, <2>3
<1> HIDE DEF Op
<1> QED
  BY <1>2, <1>3, <1>4, <1>6 DEF AgendaMakesSense

(* An exception gives up the head and perhaps more.                        *)
LEMMA RaiseShortens ==
    ASSUME TypeOK, AgendaMakesSense, agenda # <<>>, Raise, db' = db
    PROVE  /\ agenda' \in Seq(Ops) /\ AgendaMakesSense'
           /\ ~Doing("realize")' /\ ~Doing("record")'
<1>1. PICK k \in 2..Len(agenda) + 1 : agenda' = SubSeq(agenda, k, Len(agenda))
  BY DEF Raise
<1>2. \A j \in 2..Len(agenda) : OnTrade(agenda[j]) => agenda[j].trade \in Open(db')
  BY Parts DEF AgendaMakesSense
<1> QED
  BY <1>1, <1>2, AgendaShortened

(* A handler's operation is done with.                                     *)
LEMMA ReturnShortens ==
    ASSUME TypeOK, AgendaMakesSense, agenda # <<>>, Return, Open(db') = Open(db)
    PROVE  /\ agenda' \in Seq(Ops) /\ AgendaMakesSense'
           /\ ~Doing("realize")' /\ ~Doing("record")'
<1>1. agenda' = SubSeq(agenda, 2, Len(agenda)) /\ 2 \in 2..Len(agenda) + 1
  BY TailIsRest, Parts DEF Return
<1>2. \A j \in 2..Len(agenda) : OnTrade(agenda[j]) => agenda[j].trade \in Open(db')
  BY Parts DEF AgendaMakesSense
<1> QED
  BY <1>1, <1>2, AgendaShortened

(* One sequence after another.                                             *)
LEMMA Joined ==
    ASSUME NEW T, NEW s \in Seq(T), NEW t \in Seq(T)
    PROVE  /\ s \o t \in Seq(T)
           /\ DOMAIN (s \o t) = 1..Len(s) + Len(t)
           /\ \A k \in DOMAIN (s \o t) :
                 \/ k \in DOMAIN s /\ (s \o t)[k] = s[k]
                 \/ k \notin DOMAIN s /\ k - Len(s) \in DOMAIN t /\ (s \o t)[k] = t[k - Len(s)]
OBVIOUS

(* The scans of a cycle are about no trade.                                *)
LEMMA AgendaPrefixed ==
    ASSUME TypeOK, AgendaMakesSense, agenda # <<>>, db' = db,
           NEW pre \in Seq(Ops), agenda' = pre \o Tail(agenda),
           \A k \in DOMAIN pre : ~OnTrade(pre[k]) /\ ~AtOnce(pre[k])
    PROVE  /\ agenda' \in Seq(Ops) /\ AgendaMakesSense'
           /\ ~Doing("realize")' /\ ~Doing("record")'
<1> DEFINE n == Len(pre)
           rest == SubSeq(agenda, 2, Len(agenda))
<1>1. /\ rest \in Seq(Ops) /\ DOMAIN rest = 1..Len(agenda) - 1
      /\ \A j \in DOMAIN rest : j + 1 \in DOMAIN agenda /\ rest[j] = agenda[j + 1]
  <2>1. 2 \in 2..Len(agenda) + 1
    BY Parts
  <2> QED
    BY <2>1, Rest, Parts, SMTT(30)
<1>2. agenda' = pre \o rest
  BY TailIsRest
<1> HIDE DEF rest
<1>3. /\ n \in Nat /\ DOMAIN pre = 1..n /\ agenda' \in Seq(Ops) /\ DOMAIN agenda' \subseteq Int
      /\ \A k \in DOMAIN agenda' : \/ k \in DOMAIN pre /\ agenda'[k] = pre[k]
                                   \/ k \notin DOMAIN pre /\ k - n \in DOMAIN rest /\ agenda'[k] = rest[k - n]
  <2>1. n \in Nat /\ DOMAIN pre = 1..n
    OBVIOUS
  <2>2. /\ pre \o rest \in Seq(Ops) /\ DOMAIN (pre \o rest) = 1..n + Len(rest)
        /\ \A k \in DOMAIN (pre \o rest) :
              \/ k \in DOMAIN pre /\ (pre \o rest)[k] = pre[k]
              \/ k \notin DOMAIN pre /\ k - n \in DOMAIN rest /\ (pre \o rest)[k] = rest[k - n]
    BY <1>1, Joined
  <2>3. 1..n + Len(rest) \subseteq Int
    OBVIOUS
  <2> QED
    BY <1>2, <2>1, <2>2, <2>3
<1> HIDE DEF n
<1>4. \A k \in DOMAIN agenda' : OnTrade(agenda'[k]) \/ AtOnce(agenda'[k]) =>
         k - n + 1 \in DOMAIN agenda /\ k - n + 1 \in 2..Len(agenda) /\ agenda'[k] = agenda[k - n + 1]
  <2> SUFFICES ASSUME NEW k \in DOMAIN agenda', OnTrade(agenda'[k]) \/ AtOnce(agenda'[k])
               PROVE  /\ k - n + 1 \in DOMAIN agenda /\ k - n + 1 \in 2..Len(agenda)
                      /\ agenda'[k] = agenda[k - n + 1]
    OBVIOUS
  <2>1. k - n \in DOMAIN rest /\ agenda'[k] = rest[k - n]
    BY <1>3
  <2> QED
    BY <1>1, <2>1, Parts, SMTT(30)
<1>5. \A k \in DOMAIN agenda' : ~AtOnce(agenda'[k])
  BY <1>4, SMTT(30) DEF AgendaMakesSense
<1>6. \A k \in DOMAIN agenda' : OnTrade(agenda'[k]) => agenda'[k].trade \in Open(db')
  BY <1>4 DEF AgendaMakesSense
<1>7. \A j, k \in DOMAIN agenda' :
         OnTrade(agenda'[j]) /\ OnTrade(agenda'[k]) /\ agenda'[j].trade = agenda'[k].trade => j = k
  <2> SUFFICES ASSUME NEW j \in DOMAIN agenda', NEW k \in DOMAIN agenda', OnTrade(agenda'[j]),
                      OnTrade(agenda'[k]), agenda'[j].trade = agenda'[k].trade
               PROVE  j = k
    OBVIOUS
  <2> DEFINE a == j - n + 1
             b == k - n + 1
  <2>1. a \in DOMAIN agenda /\ b \in DOMAIN agenda /\ agenda'[j] = agenda[a] /\ agenda'[k] = agenda[b]
    BY <1>4
  <2>2. a = b => j = k
    BY <1>3
  <2> HIDE DEF a, b
  <2>3. a = b
    BY <2>1 DEF AgendaMakesSense
  <2> QED
    BY <2>2, <2>3
<1>8. agenda' # <<>> => Head(agenda') = agenda'[1] /\ 1 \in DOMAIN agenda'
  BY <1>3
<1>9. ~Doing("realize")' /\ ~Doing("record")' /\ ~Doing("finalize")'
  BY <1>5, <1>8 DEF Doing, AtOnce
<1> QED
  BY <1>3, <1>5, <1>6, <1>7, <1>9 DEF AgendaMakesSense

(* The open trades are finitely many, and each is listed once.             *)
LEMMA Listed ==
    ASSUME TypeOK, NEW ids \in SetToSeqs(Open(db))
    PROVE  /\ IsFiniteSet(Open(db)) /\ Cardinality(Open(db)) \in Nat
           /\ ids \in Seq(Open(db)) /\ DOMAIN ids = 1..Len(ids) /\ Len(ids) \in Nat
           /\ \A j, k \in DOMAIN ids : ids[j] = ids[k] => j = k
           /\ \A k \in DOMAIN ids : ids[k] \in Open(db) /\ ids[k] \in Nat \ {0}
<1>1. Open(db) \subseteq 1..Len(db.trades) /\ Len(db.trades) \in Nat
  BY Parts DEF Open
<1>2. IsFiniteSet(1..Len(db.trades))
  BY <1>1, FS_Interval
<1>3. IsFiniteSet(Open(db)) /\ Cardinality(Open(db)) \in Nat
  BY <1>1, <1>2, FS_Subset, FS_CardinalityType
<1>4. ids \in [1..Cardinality(Open(db)) -> Open(db)]
  BY DEF SetToSeqs
<1>5. \A j, k \in DOMAIN ids : ids[j] = ids[k] => j = k
  BY <1>4 DEF SetToSeqs
<1>6. ids \in Seq(Open(db)) /\ DOMAIN ids = 1..Len(ids) /\ Len(ids) \in Nat
  BY <1>3, <1>4
<1>7. \A k \in DOMAIN ids : ids[k] \in Open(db) /\ ids[k] \in Nat \ {0}
  BY <1>1, <1>6
<1> QED
  BY <1>3, <1>5, <1>6, <1>7

(* A new agenda of one operation per open trade, and one more, makes sense.*)
LEMMA AgendaMade ==
    ASSUME TypeOK, db' = db, NEW ids \in Seq(Nat \ {0}), NEW f \in Seq(Ops), Len(f) = Len(ids),
           \A k \in DOMAIN ids : /\ ids[k] \in Open(db)
                                 /\ f[k].do \in {"check", "close"}
                                 /\ f[k].trade = ids[k],
           \A j, k \in DOMAIN ids : ids[j] = ids[k] => j = k,
           NEW rest \in Seq(Ops), \A k \in DOMAIN rest : ~OnTrade(rest[k]) /\ ~AtOnce(rest[k]),
           agenda' = f \o rest
    PROVE  /\ agenda' \in Seq(Ops) /\ AgendaMakesSense'
           /\ ~Doing("realize")' /\ ~Doing("record")'
<1> DEFINE n == Len(ids)
<1>1. n \in Nat /\ DOMAIN f = 1..n /\ DOMAIN ids = 1..n
  OBVIOUS
<1>2. Len(f) = n
  OBVIOUS
<1>3. /\ agenda' \in Seq(Ops)
      /\ \A k \in DOMAIN agenda' : \/ k \in 1..n /\ agenda'[k] = f[k]
                                   \/ k \notin 1..n /\ k - n \in DOMAIN rest /\ agenda'[k] = rest[k - n]
  BY <1>1, <1>2, Joined
<1> HIDE DEF n
<1>4. \A k \in DOMAIN agenda' : ~AtOnce(agenda'[k])
  BY <1>1, <1>3 DEF AtOnce
<1>5. \A k \in DOMAIN agenda' : OnTrade(agenda'[k]) => k \in DOMAIN ids /\ agenda'[k].trade = ids[k]
  BY <1>1, <1>3
<1>6. agenda' # <<>> => Head(agenda') = agenda'[1] /\ 1 \in DOMAIN agenda'
  BY <1>3
<1>7. ~Doing("realize")' /\ ~Doing("record")' /\ ~Doing("finalize")'
  BY <1>4, <1>6 DEF Doing, AtOnce
<1> QED
  BY <1>3, <1>4, <1>5, <1>7 DEF AgendaMakesSense

(***************************************************************************)
(* Steps that leave the trades and the life of every order as they were    *)
(***************************************************************************)

(* The trade that the head of the agenda is about.                         *)
LEMMA HeadTrade ==
    ASSUME LifeInv, agenda # <<>>, OnTrade(Op)
    PROVE  /\ Op.trade \in DOMAIN db.trades /\ Op.trade \in DOMAIN orm.trades
           /\ Op.trade \in Open(db) /\ Op.trade \in Nat \ {0}
           /\ db.trades[Op.trade] \in Trade /\ orm.trades[Op.trade] \in Trade
           /\ SameRow(orm.trades[Op.trade], db.trades[Op.trade])
           /\ orm.trades[Op.trade].sym \in Symbols
           /\ orm.trades[Op.trade].order \in Placed
           /\ orm.trades[Op.trade].open
<1>1. 1 \in DOMAIN agenda /\ Op = agenda[1]
  BY HeadOp DEF LifeInv
<1>2. Op.trade \in Open(db)
  BY <1>1 DEF LifeInv, AgendaMakesSense
<1>3. Op.trade \in DOMAIN db.trades /\ db.trades[Op.trade].open
  BY <1>2 DEF Open
<1>4. Op.trade \in DOMAIN orm.trades /\ Op.trade \in Nat \ {0}
  BY <1>3, Parts DEF LifeInv, SessionFollows
<1>5. db.trades[Op.trade] \in Trade /\ orm.trades[Op.trade] \in Trade
  BY <1>3, <1>4, Parts, Element DEF LifeInv
<1>6. SameRow(orm.trades[Op.trade], db.trades[Op.trade])
  BY <1>3 DEF LifeInv, SessionFollows
<1>7. orm.trades[Op.trade].sym \in Symbols
  BY <1>5 DEF Trade
<1>8. orm.trades[Op.trade].order \in Placed
  BY <1>3, <1>6 DEF LifeInv, OwnOrders, SameRow
<1> QED
  BY <1>2, <1>3, <1>4, <1>5, <1>6, <1>7, <1>8 DEF SameRow

(* A position is one that has an order.                                    *)
LEMMA PositionOrder ==
    ASSUME NEW p \in {NoPosition} \cup Position
    PROVE  /\ p # NoPosition <=> p.order # 0
           /\ p # NoPosition => p \in Position
<1>1. NoPosition.order = 0
  BY DEF NoPosition
<1>2. \A q \in Position : q.order # 0
  BY DEF Position
<1> QED
  BY <1>1, <1>2

(* A symbol holds a position when it has an order.                         *)
LEMMA HeldOrder ==
    ASSUME TypeOK, NEW s \in Symbols
    PROVE  /\ Held(s) <=> book.positions[s].order # 0
           /\ Held(s) => book.positions[s] \in Position
<1>1. book.positions[s] \in {NoPosition} \cup Position
  BY Parts
<1> QED
  BY <1>1, PositionOrder DEF Held

\* The trades, the exits and whose positions are held stay what they were.
LivesKept ==
    /\ Len(db'.trades) = Len(db.trades)
    /\ \A i \in DOMAIN db.trades : SameRow(db'.trades[i], db.trades[i])
    /\ Len(book'.orders) = Len(book.orders)
    /\ \A o \in Placed : book'.orders[o].exit = book.orders[o].exit
    /\ \A s \in Symbols : book'.positions[s].order = book.positions[s].order

(* Such a step keeps the invariant and is one at which no order moves.     *)
LEMMA QuietStep ==
    ASSUME LifeInv, TypeOK', SessionFollows', AgendaMakesSense', LivesKept
    PROVE  LifeInv' /\ UNCHANGED Life!vars
<1>0. DOMAIN db'.trades = DOMAIN db.trades
  <2>1. db'.trades \in Seq(Trade) /\ db.trades \in Seq(Trade)
    BY DEF LifeInv, TypeOK, Tables
  <2> QED
    BY <2>1 DEF LivesKept
<1> USE DEF LivesKept
<1>1. Open(db') = Open(db) /\ Placed' = Placed /\ ClosedTrades' = ClosedTrades
      /\ DOMAIN db'.trades = DOMAIN db.trades
  BY <1>0 DEF Open, Placed, ClosedTrades, SameRow
<1>9. \A i \in DOMAIN db.trades : /\ db'.trades[i].order = db.trades[i].order
                                     /\ db'.trades[i].sym = db.trades[i].sym
  BY DEF SameRow
<1>10. Open(db) \subseteq DOMAIN db.trades /\ ClosedTrades \subseteq DOMAIN db.trades
  BY DEF Open, ClosedTrades
<1> HIDE DEF LivesKept
<1>2. \A o : TradeOf(o)' = TradeOf(o)
  BY <1>0, <1>9 DEF TradeOf
<1>3. \A o : At(o)' = At(o) /\ RecordOf(o)' = RecordOf(o)
  BY <1>1, <1>2 DEF At, RecordOf, LivesKept
<1>4. UNCHANGED Life!vars
  BY <1>3 DEF Life!vars
<1>5. OwnOrders'
  <2>1. Len(book'.orders) = Len(book.orders)
    BY DEF LivesKept
  <2> QED
    BY <1>1, <1>9, <1>10, <2>1 DEF LifeInv, OwnOrders
<1>6. ExitsRecorded'
  <2>1. \A i \in ClosedTrades : db.trades[i].order \in Placed
    BY DEF LifeInv, OwnOrders, ClosedTrades
  <2> QED
    BY <1>1, <1>9, <1>10, <2>1, SMTT(30) DEF LifeInv, ExitsRecorded, LivesKept
<1>7. \A s \in Symbols : Held(s)' = Held(s)
  <2>1. ASSUME NEW s \in Symbols PROVE Held(s)' <=> book'.positions[s].order # 0
    <3>1. book'.positions[s] \in {NoPosition} \cup Position
      BY DEF TypeOK, State
    <3> QED
      BY <3>1, PositionOrder DEF Held
  <2>2. ASSUME NEW s \in Symbols PROVE Held(s)' = Held(s)
    <3>1. book'.positions[s].order = book.positions[s].order
      BY DEF LivesKept
    <3> QED
      BY <2>1, <3>1, HeldOrder DEF LifeInv, Held
  <2> QED
    BY <2>2
<1>8. PositionsHeld'
  BY <1>1, <1>7, <1>9, <1>10, SMTT(30) DEF LifeInv, PositionsHeld, LivesKept
<1> QED
  BY <1>4, <1>5, <1>6, <1>8 DEF LifeInv

(* Nothing but the agenda, the clock and counters change.                  *)
LEMMA IdleStep ==
    ASSUME LifeInv, UNCHANGED <<db, orm, book>>, TypeOK', AgendaMakesSense'
    PROVE  LifeInv' /\ UNCHANGED Life!vars
<1>1. SessionFollows'
  BY DEF LifeInv, SessionFollows
<1>2. LivesKept
  BY DEF LivesKept, SameRow
<1> QED
  BY <1>1, <1>2, QuietStep

\* Nothing that was begun has to be ended before anything else.
Settled == ~Doing("realize") /\ ~Doing("record")

(* What follows the head is about open trades.                             *)
LEMMA RestIsOpen ==
    ASSUME TypeOK, AgendaMakesSense
    PROVE  \A j \in 2..Len(agenda) : OnTrade(agenda[j]) => agenda[j].trade \in Open(db)
BY Parts, SMTT(30) DEF AgendaMakesSense

(* An empty agenda makes sense.                                            *)
LEMMA EmptyAgenda ==
    ASSUME agenda' = <<>>
    PROVE  agenda' \in Seq(Ops) /\ AgendaMakesSense' /\ Settled'
BY DEF AgendaMakesSense, Settled, Doing

(* One operation at a time makes sense, too.                               *)
LEMMA SingleAgenda ==
    ASSUME NEW op \in Ops, agenda' = <<op>>, ~AtOnce(op), OnTrade(op) => op.trade \in Open(db')
    PROVE  agenda' \in Seq(Ops) /\ AgendaMakesSense' /\ Settled'
<1>1. agenda' \in Seq(Ops) /\ DOMAIN agenda' = {1} /\ agenda'[1] = op /\ Head(agenda') = op
  OBVIOUS
<1>2. Settled' /\ ~Doing("finalize")'
  BY <1>1 DEF Settled, Doing, AtOnce
<1> QED
  BY <1>1, <1>2 DEF AgendaMakesSense, Settled

LEMMA GateStep ==
    ASSUME LifeInv, Gate
    PROVE  LifeInv' /\ UNCHANGED Life!vars /\ Settled'
<1> USE DEF Gate
<1>1. agenda # <<>> /\ TypeOK /\ AgendaMakesSense
  BY DEF LifeInv, Doing
<1> DEFINE scans == [k \in DOMAIN SYMBOLS |-> [do |-> "scan", sym |-> SYMBOLS[k], by |-> "cycle"]]
<1>2. agenda' = scans \o Tail(agenda) => agenda' \in Seq(Ops) /\ AgendaMakesSense' /\ Settled'
  <2>1. SYMBOLS \in Seq(STRING)
    BY ExecutionAssumption
  <2>2. scans \in Seq(Ops) /\ DOMAIN scans = DOMAIN SYMBOLS
    <3>1. \A k \in DOMAIN SYMBOLS : scans[k] \in Ops
      BY DEF Ops, Symbols, By
    <3>2. scans \in [1..Len(SYMBOLS) -> Ops] /\ Len(SYMBOLS) \in Nat
      BY <2>1, <3>1
    <3> QED
      BY <2>1, <3>2
  <2>3. \A k \in DOMAIN scans : ~OnTrade(scans[k]) /\ ~AtOnce(scans[k])
    BY DEF OnTrade, AtOnce
  <2> HIDE DEF scans
  <2> QED
    BY <1>1, <2>2, <2>3, AgendaPrefixed DEF Settled
<1>3. agenda' = Tail(agenda) => agenda' \in Seq(Ops) /\ AgendaMakesSense' /\ Settled'
  BY <1>1, ReturnShortens DEF Return, Settled
<1>4. agenda' \in Seq(Ops) /\ AgendaMakesSense' /\ Settled'
  BY <1>2, <1>3
<1>5. TypeOK'
  BY <1>1, <1>4 DEF TypeOK
<1> QED
  BY <1>4, <1>5, IdleStep

LEMMA NoTradeStep ==
    ASSUME LifeInv, NoTrade
    PROVE  LifeInv' /\ UNCHANGED Life!vars /\ Settled'
<1> USE DEF NoTrade
<1>1. agenda # <<>> /\ TypeOK /\ AgendaMakesSense
  BY DEF LifeInv, Doing
<1>2. agenda' \in Seq(Ops) /\ AgendaMakesSense' /\ Settled'
  BY <1>1, ReturnShortens DEF Settled
<1>3. TypeOK'
  BY <1>1, <1>2 DEF TypeOK
<1> QED
  BY <1>2, <1>3, IdleStep

LEMMA CheckGoneStep ==
    ASSUME LifeInv, CheckGone
    PROVE  LifeInv' /\ UNCHANGED Life!vars /\ Settled'
<1> USE DEF CheckGone
<1>1. agenda # <<>> /\ TypeOK /\ AgendaMakesSense /\ Op.do = "check"
  BY DEF LifeInv, Doing, Op
<1> DEFINE i == Op.trade
           fill == book.orders[orm.trades[i].order]
<1>2. /\ i \in Open(db) /\ i \in Nat \ {0} /\ orm.trades[i].order \in Placed
      /\ orm.trades[i].order = db.trades[i].order /\ OnTrade(Op) /\ Op.by \in By
  BY <1>1, HeadTrade, HeadOp DEF OnTrade, SameRow
<1>3. fill \in OrderRecord
  BY <1>1, <1>2, Parts, Element DEF Placed
<1>4. CASE Return
  <2>1. agenda' \in Seq(Ops) /\ AgendaMakesSense' /\ Settled'
    BY <1>1, <1>4, ReturnShortens DEF Settled
  <2>2. TypeOK'
    BY <1>1, <2>1 DEF TypeOK
  <2> QED
    BY <2>1, <2>2, IdleStep
<1>5. CASE fill.exit /\ Then(FinalizeOp(i, fill.price))
  <2> DEFINE op == FinalizeOp(i, fill.price)
  <2>1. op \in Ops /\ op.do = "finalize" /\ op.trade = i
    BY <1>2, <1>3 DEF FinalizeOp, Ops, OrderRecord
  <2>2. agenda' = <<op>> \o Tail(agenda)
    BY <1>5 DEF Then
  <2>3. \A j \in 2..Len(agenda) : OnTrade(agenda[j]) => agenda[j].trade \in Open(db')
    BY <1>1, RestIsOpen
  <2>4. book'.orders[db'.trades[op.trade].order].exit
    BY <1>2, <1>5, <2>1
  <2> HIDE DEF op
  <2>5. agenda' \in Seq(Ops) /\ AgendaMakesSense' /\ Settled'
    BY <1>1, <1>2, <2>1, <2>2, <2>3, <2>4, AgendaReplaced, SMTT(30) DEF Settled
  <2>6. TypeOK'
    BY <1>1, <2>5 DEF TypeOK
  <2> QED
    BY <2>5, <2>6, IdleStep
<1> QED
  BY <1>4, <1>5 DEF Reconcile

LEMMA TickStep ==
    ASSUME LifeInv, Tick
    PROVE  LifeInv' /\ UNCHANGED Life!vars /\ Settled'
<1> USE DEF Tick
<1>1. TypeOK /\ AgendaMakesSense
  BY DEF LifeInv
<1>2. clock' \in [day : 0..MaxDay, phase : Phases, halts : Nat]
  <2>1. clock \in [day : 0..MaxDay, phase : Phases, halts : Nat]
    BY <1>1 DEF TypeOK
  <2>2. MaxDay \in Nat
    BY ExecutionAssumption
  <2>3. NextPhase[clock.phase] \in Phases
    BY <2>1 DEF Phases, NextPhase
  <2>4. CASE clock' = [clock EXCEPT !.phase = NextPhase[clock.phase],
                                    !.halts = @ + IF clock.phase = "halt" THEN 1 ELSE 0]
    <3> DEFINE h == IF clock.phase = "halt" THEN 1 ELSE 0
    <3>1. clock.day \in 0..MaxDay /\ clock.halts \in Nat /\ h \in Nat
      BY <2>1
    <3>2. clock' = [day |-> clock.day, phase |-> NextPhase[clock.phase], halts |-> clock.halts + h]
      BY <2>1, <2>4
    <3> HIDE DEF h
    <3> QED
      BY <2>3, <3>1, <3>2
  <2>5. CASE /\ clock.day < MaxDay
             /\ clock' = [day |-> clock.day + 1, phase |-> "open",
                          halts |-> clock.halts + IF clock.phase = "closing" THEN 1 ELSE 0]
    BY <2>1, <2>2, <2>5 DEF Phases
  <2> QED
    BY <2>4, <2>5
<1>3. AgendaMakesSense' /\ Settled'
  BY <1>1 DEF AgendaMakesSense, Settled, Unhurried, Doing, Op, TradeOf, Open, Held
<1>4. TypeOK'
  BY <1>1, <1>2 DEF TypeOK
<1> QED
  BY <1>3, <1>4, IdleStep

LEMMA ArmStep ==
    ASSUME LifeInv, Arm
    PROVE  LifeInv' /\ UNCHANGED Life!vars
<1>1. TypeOK' /\ AgendaMakesSense' /\ UNCHANGED <<db, orm, book>>
  BY DEF LifeInv, Arm, TypeOK, AgendaMakesSense, Doing, Op, TradeOf, Open, Held
<1> QED
  BY <1>1, IdleStep

LEMMA TradingStopStep ==
    ASSUME LifeInv, TradingStop
    PROVE  LifeInv' /\ UNCHANGED Life!vars /\ Settled'
<1>1. agenda' = <<>> /\ UNCHANGED <<db, orm, book>>
  BY DEF TradingStop
<1>2. TypeOK'
  BY DEF LifeInv, TradingStop, TypeOK
<1> QED
  BY <1>1, <1>2, EmptyAgenda, IdleStep

LEMMA CloseTradeStep ==
    ASSUME LifeInv, NEW i \in DOMAIN orm.trades, CloseTrade(i)
    PROVE  LifeInv' /\ UNCHANGED Life!vars /\ Settled'
<1> USE DEF CloseTrade
<1> DEFINE op == CloseOp(i, "http")
<1>1. TypeOK
  BY DEF LifeInv
<1>2. i \in Nat \ {0} /\ i \in Open(db)
  <2>1. i \in DOMAIN db.trades /\ i \in Nat \ {0}
    BY <1>1, Parts DEF LifeInv, SessionFollows
  <2> QED
    BY <2>1 DEF LifeInv, SessionFollows, SameRow, Open
<1>3. op \in Ops /\ ~AtOnce(op) /\ op.trade = i
  BY <1>2 DEF CloseOp, Ops, By, AtOnce
<1>4. agenda' = <<op>>
  OBVIOUS
<1> HIDE DEF op
<1>5. agenda' \in Seq(Ops) /\ AgendaMakesSense' /\ Settled'
  BY <1>2, <1>3, <1>4, SingleAgenda
<1>6. TypeOK'
  BY <1>1, <1>5 DEF TypeOK
<1> QED
  BY <1>5, <1>6, IdleStep

LEMMA CloseAllStep ==
    ASSUME LifeInv, CloseAll
    PROVE  LifeInv' /\ UNCHANGED Life!vars /\ Settled'
<1> USE DEF CloseAll
<1>1. TypeOK
  BY DEF LifeInv
<1>2. PICK ids \in SetToSeqs(Open(db)) : agenda' = [k \in DOMAIN ids |-> CloseOp(ids[k], "http")]
  OBVIOUS
<1> DEFINE f == [k \in DOMAIN ids |-> CloseOp(ids[k], "http")]
<1>3. /\ ids \in Seq(Nat \ {0}) /\ DOMAIN ids = 1..Len(ids) /\ Len(ids) \in Nat
      /\ \A k \in DOMAIN ids : ids[k] \in Open(db) /\ ids[k] \in Nat \ {0}
      /\ \A j, k \in DOMAIN ids : ids[j] = ids[k] => j = k
  BY <1>1, Listed
<1>4. \A k \in DOMAIN ids : f[k] \in Ops /\ f[k].do \in {"check", "close"} /\ f[k].trade = ids[k]
  BY <1>3 DEF CloseOp, Ops, By
<1>5. f \in Seq(Ops) /\ Len(f) = Len(ids)
  <2>1. f \in [1..Len(ids) -> Ops]
    BY <1>3, <1>4
  <2> QED
    BY <1>3, <2>1
<1> HIDE DEF f
<1>6. agenda' = f \o <<>>
  BY <1>2, <1>5 DEF f
<1>7. agenda' \in Seq(Ops) /\ AgendaMakesSense' /\ Settled'
  <2>1. <<>> \in Seq(Ops) /\ \A k \in DOMAIN <<>> : ~OnTrade(<<>>[k]) /\ ~AtOnce(<<>>[k])
    OBVIOUS
  <2> QED
    BY <1>1, <1>3, <1>4, <1>5, <1>6, <2>1, AgendaMade DEF Settled
<1>8. TypeOK'
  BY <1>1, <1>7 DEF TypeOK
<1> QED
  BY <1>7, <1>8, IdleStep

LEMMA CycleStep ==
    ASSUME LifeInv, Cycle
    PROVE  LifeInv' /\ UNCHANGED Life!vars /\ Settled'
<1> USE DEF Cycle
<1> DEFINE gate == <<[do |-> "gate", by |-> "cycle"]>>
<1>1. TypeOK
  BY DEF LifeInv
<1>2. /\ [do |-> "gate", by |-> "cycle"] \in Ops
      /\ ~OnTrade([do |-> "gate", by |-> "cycle"]) /\ ~AtOnce([do |-> "gate", by |-> "cycle"])
  BY DEF Ops, By, OnTrade, AtOnce
<1>3. /\ gate \in Seq(Ops) /\ DOMAIN gate = {1}
      /\ \A k \in DOMAIN gate : ~OnTrade(gate[k]) /\ ~AtOnce(gate[k])
  BY <1>2
<1>4. Today \in [active : Int, realized : Int, date : Int]
  <2>1. risk \in [active : Int, realized : Int, date : Int] /\ clock.day \in Int
    BY <1>1, ExecutionAssumption DEF TypeOK
  <2> QED
    BY <2>1 DEF Today
<1>5. CASE /\ poisoned
           /\ risk' = Today /\ agenda' = gate
           /\ orm' = db
  <2>1. agenda' \in Seq(Ops) /\ AgendaMakesSense' /\ Settled'
    BY <1>2, <1>5, SingleAgenda
  <2>2. TypeOK'
    BY <1>1, <1>4, <1>5, <2>1 DEF TypeOK
  <2>3. SessionFollows' /\ LivesKept
    BY <1>5 DEF SessionFollows, SameRow, LivesKept
  <2> QED
    BY <2>1, <2>2, <2>3, QuietStep
<1>6. CASE /\ risk' = [Today EXCEPT !.active = Cardinality(Open(db))]
           /\ \E ids \in SetToSeqs(Open(db)) :
                 agenda' = [k \in DOMAIN ids |-> CheckOp(ids[k])] \o gate
           /\ UNCHANGED orm
  <2>1. PICK ids \in SetToSeqs(Open(db)) : agenda' = [k \in DOMAIN ids |-> CheckOp(ids[k])] \o gate
    BY <1>6
  <2> DEFINE f == [k \in DOMAIN ids |-> CheckOp(ids[k])]
  <2>2. /\ ids \in Seq(Nat \ {0}) /\ DOMAIN ids = 1..Len(ids) /\ Len(ids) \in Nat
        /\ \A k \in DOMAIN ids : ids[k] \in Open(db) /\ ids[k] \in Nat \ {0}
        /\ \A j, k \in DOMAIN ids : ids[j] = ids[k] => j = k
        /\ Cardinality(Open(db)) \in Int
    BY <1>1, Listed
  <2>3. \A k \in DOMAIN ids : f[k] \in Ops /\ f[k].do \in {"check", "close"} /\ f[k].trade = ids[k]
    BY <2>2 DEF CheckOp, Ops, By
  <2>4. f \in Seq(Ops) /\ Len(f) = Len(ids)
    <3>1. f \in [1..Len(ids) -> Ops]
      BY <2>2, <2>3
    <3> QED
      BY <2>2, <3>1
  <2>5. agenda' = f \o gate
    BY <2>1
  <2> HIDE DEF f, gate
  <2>6. agenda' \in Seq(Ops) /\ AgendaMakesSense' /\ Settled'
    BY <1>1, <1>3, <2>2, <2>3, <2>4, <2>5, AgendaMade DEF Settled
  <2>7. risk' \in [active : Int, realized : Int, date : Int]
    BY <1>4, <1>6, <2>2
  <2>8. TypeOK'
    BY <1>1, <1>6, <2>6, <2>7 DEF TypeOK
  <2> QED
    BY <1>6, <2>6, <2>8, IdleStep
<1> QED
  BY <1>5, <1>6

LEMMA CrashStep ==
    ASSUME LifeInv, Crash
    PROVE  LifeInv' /\ UNCHANGED Life!vars /\ Settled'
<1> USE DEF Crash
<1>1. agenda' \in Seq(Ops) /\ AgendaMakesSense' /\ Settled'
  BY EmptyAgenda
<1>2. TypeOK'
  <2>1. [active |-> 0, realized |-> 0, date |-> -1] \in [active : Int, realized : Int, date : Int]
    OBVIOUS
  <2>2. faults' \in Nat
    BY DEF LifeInv, TypeOK
  <2> QED
    BY <1>1, <2>1, <2>2 DEF LifeInv, TypeOK
<1>3. SessionFollows' /\ LivesKept
  BY DEF SessionFollows, SameRow, LivesKept
<1> QED
  BY <1>1, <1>2, <1>3, QuietStep

LEMMA SyncStep ==
    ASSUME LifeInv, Sync
    PROVE  LifeInv' /\ UNCHANGED Life!vars /\ Settled'
<1> USE DEF Sync
<1>1. agenda' \in Seq(Ops) /\ AgendaMakesSense' /\ Settled'
  BY EmptyAgenda
<1>2. TypeOK /\ book.balance \in Int /\ db \in Tables /\ orm \in Tables
  BY Parts DEF LifeInv, TypeOK
<1>3. db' \in Tables /\ orm' \in Tables
  BY <1>2 DEF Tables, Account
<1>4. TypeOK'
  BY <1>1, <1>2, <1>3 DEF TypeOK
<1>5. /\ db'.trades = db.trades /\ orm'.trades = orm.trades
      /\ db'.pnl = db.pnl /\ orm'.pnl = orm.pnl
      /\ db'.account = [db.account EXCEPT !.balance = book.balance]
      /\ orm'.account = [orm.account EXCEPT !.balance = book.balance]
  BY <1>2 DEF Tables
<1>6. SessionFollows' /\ LivesKept
  BY <1>5 DEF LifeInv, SessionFollows, LivesKept, SameRow
<1> QED
  BY <1>1, <1>4, <1>6, QuietStep

LEMMA RealizeStep ==
    ASSUME LifeInv, Realize
    PROVE  LifeInv' /\ UNCHANGED Life!vars /\ Settled'
<1> USE DEF Realize
<1>1. agenda # <<>> /\ TypeOK /\ AgendaMakesSense /\ Op.do = "realize"
  BY DEF LifeInv, Doing, Op
<1>2. agenda' \in Seq(Ops) /\ AgendaMakesSense' /\ Settled'
  BY <1>1, ReturnShortens DEF Settled
<1>3. book' \in State
  <2>1. Op.net \in Int /\ book \in State
    BY <1>1, HeadOp DEF TypeOK
  <2> QED
    BY <2>1 DEF State
<1>4. TypeOK'
  BY <1>1, <1>2, <1>3 DEF TypeOK
<1>5. SessionFollows' /\ LivesKept
  <2>1. book'.orders = book.orders /\ book'.positions = book.positions
    BY <1>1 DEF TypeOK, State
  <2> QED
    BY <2>1 DEF LifeInv, SessionFollows, LivesKept, SameRow
<1> QED
  BY <1>2, <1>4, <1>5, QuietStep

(* A commit that fails leaves the database and the broker as they were.    *)
LEMMA FailedCommit ==
    ASSUME LifeInv, agenda # <<>>, MayFail, faults' = faults + 1, orm' = db, UNCHANGED db, Raise,
           UNCHANGED <<book, clock, armed, running>>,
           risk' \in [active : Int, realized : Int, date : Int]
    PROVE  LifeInv' /\ UNCHANGED Life!vars /\ Settled'
<1>1. TypeOK /\ AgendaMakesSense
  BY DEF LifeInv
<1>2. agenda' \in Seq(Ops) /\ AgendaMakesSense' /\ Settled'
  BY <1>1, RaiseShortens DEF Settled
<1>3. poisoned' \in BOOLEAN
  BY DEF Raise
<1>4. TypeOK'
  BY <1>1, <1>2, <1>3 DEF TypeOK
<1>5. SessionFollows' /\ LivesKept
  BY DEF SessionFollows, SameRow, LivesKept
<1> QED
  BY <1>2, <1>4, <1>5, QuietStep

LEMMA CommitStep ==
    ASSUME LifeInv, Commit
    PROVE  LifeInv' /\ UNCHANGED Life!vars /\ Settled'
<1> USE DEF Commit
<1>1. agenda # <<>> /\ TypeOK /\ AgendaMakesSense
  BY DEF LifeInv, Doing
<1>2. CASE /\ db' = orm /\ orm' = orm
           /\ UNCHANGED <<poisoned, faults>>
  <2>1. Return
    BY <1>2 DEF Committed
  <2>2. /\ Len(orm.trades) = Len(db.trades) /\ DOMAIN orm.trades = DOMAIN db.trades
        /\ \A i \in DOMAIN db.trades : SameRow(orm.trades[i], db.trades[i])
    BY <1>1, Parts DEF LifeInv, SessionFollows
  <2>3. Open(orm) = Open(db)
    BY <2>2 DEF Open, SameRow
  <2>4. agenda' \in Seq(Ops) /\ AgendaMakesSense' /\ Settled'
    BY <1>1, <1>2, <2>1, <2>3, ReturnShortens DEF Settled
  <2>5. TypeOK'
    BY <1>1, <1>2, <2>4 DEF TypeOK
  <2>6. SessionFollows'
    BY <1>2 DEF SessionFollows, SameRow
  <2>7. LivesKept
    BY <1>2, <2>2 DEF LivesKept
  <2> QED
    BY <2>4, <2>5, <2>6, <2>7, QuietStep
<1>3. CASE /\ MayFail /\ faults' = faults + 1
           /\ orm' = db /\ UNCHANGED db
           /\ Raise
  <2>1. risk' \in [active : Int, realized : Int, date : Int]
    BY <1>1 DEF TypeOK
  <2> QED
    BY <1>1, <1>3, <2>1, FailedCommit
<1> QED
  BY <1>2, <1>3 DEF Commits

(* A judged or flagged position is the same order's.                       *)
LEMMA PositionChanged ==
    ASSUME LifeInv, NEW s \in Symbols, Held(s), NEW p \in Position,
           p.order = book.positions[s].order,
           book' = [book EXCEPT !.positions[s] = p], UNCHANGED <<db, orm>>
    PROVE  book' \in State /\ LivesKept /\ SessionFollows' /\ book'.orders = book.orders
<1>1. /\ book \in State /\ book.positions \in [Symbols -> {NoPosition} \cup Position]
  BY Parts DEF LifeInv, TypeOK
<1>2. book' = Saved([book.positions EXCEPT ![s] = p], book.orders)
  BY <1>1 DEF State, Saved
<1>3. [book.positions EXCEPT ![s] = p] \in [Symbols -> {NoPosition} \cup Position]
  BY <1>1
<1>4. /\ book'.positions = [book.positions EXCEPT ![s] = p]
      /\ book'.orders = book.orders /\ book'.balance = book.balance
  BY <1>2 DEF Saved
<1>5. book' \in State
  BY <1>1, <1>2, <1>3 DEF State, Saved
<1>6. \A r \in Symbols : book'.positions[r].order = book.positions[r].order
  BY <1>1, <1>4
<1>7. LivesKept
  BY <1>4, <1>6 DEF LivesKept, SameRow
<1> QED
  BY <1>4, <1>5, <1>7 DEF LifeInv, SessionFollows

LEMMA CheckBlindStep ==
    ASSUME LifeInv, CheckBlind
    PROVE  LifeInv' /\ UNCHANGED Life!vars /\ Settled'
<1> USE DEF CheckBlind
<1> DEFINE s == orm.trades[Op.trade].sym
           pos == book.positions[s]
<1>1. agenda # <<>> /\ TypeOK /\ AgendaMakesSense /\ OnTrade(Op)
  BY DEF LifeInv, Doing, Op, OnTrade
<1>2. s \in Symbols /\ pos \in Position /\ Held(s)
  BY <1>1, HeadTrade, HeldOrder DEF Held
<1> HIDE DEF s
<1>3. book' = [book EXCEPT !.positions[s] = [pos EXCEPT !.flag = TRUE]]
  <2>1. book \in State /\ book.positions \in [Symbols -> {NoPosition} \cup Position]
    BY <1>1, Parts DEF TypeOK
  <2>2. book' = [book EXCEPT !.positions[s].flag = TRUE]
    BY DEF s
  <2> QED
    BY <1>2, <2>1, <2>2 DEF State
<1>4. [pos EXCEPT !.flag = TRUE] \in Position /\ [pos EXCEPT !.flag = TRUE].order = pos.order
  BY <1>2 DEF Position
<1>5. book' \in State /\ LivesKept /\ SessionFollows'
  BY <1>2, <1>3, <1>4, PositionChanged
<1>6. agenda' \in Seq(Ops) /\ AgendaMakesSense' /\ Settled'
  BY <1>1, ReturnShortens DEF Settled
<1>7. TypeOK'
  BY <1>1, <1>5, <1>6, SMTT(30) DEF TypeOK
<1> QED
  BY <1>5, <1>6, <1>7, QuietStep

LEMMA CheckHeldStep ==
    ASSUME LifeInv, NEW bars \in BarSeqs, NEW missing \in BOOLEAN, CheckHeld(bars, missing)
    PROVE  LifeInv' /\ UNCHANGED Life!vars /\ Settled'
<1> DEFINE s == orm.trades[Op.trade].sym
           pos == book.positions[s]
           price == IF bars = <<>> THEN pos.price ELSE bars[Len(bars)].close
           flag == pos.flag \/ (bars # <<>> /\ Gap(pos, missing))
           halts == IF bars = <<>> THEN pos.halts ELSE clock.halts
           p == [order |-> pos.order, stop |-> pos.stop, target |-> pos.target,
                 price |-> price, flag |-> flag, halts |-> halts]
<1>1. agenda # <<>> /\ TypeOK /\ AgendaMakesSense /\ OnTrade(Op) /\ pos # NoPosition
  BY DEF CheckHeld, LifeInv, Doing, Op, OnTrade
<1>2. /\ s \in Symbols /\ pos \in Position /\ Held(s)
      /\ Op.trade \in Open(db) /\ Op.trade \in Nat \ {0} /\ Op.by \in By
  BY <1>1, HeadTrade, HeadOp, HeldOrder DEF Held
<1>3. price \in Int
  <2>1. bars # <<>> => bars[Len(bars)] \in Bars
    <3>1. PICK n \in 0..MaxBars : bars \in [1..n -> Bars]
      BY DEF BarSeqs
    <3>2. n \in Nat /\ (bars # <<>> => n # 0) /\ Len(bars) = n
      BY <3>1, ExecutionAssumption
    <3> QED
      BY <3>1, <3>2
  <2>2. bars # <<>> => bars[Len(bars)].close \in Nat
    BY <2>1, ExecutionAssumption
  <2>3. pos.price \in Int
    BY <1>2 DEF Position
  <2> QED
    BY <2>2, <2>3
<1>4. flag \in BOOLEAN
  BY <1>2 DEF Position, Gap
<1>5. halts \in Nat
  <2>1. pos.halts \in Nat
    BY <1>2 DEF Position
  <2>2. clock.halts \in Nat
    BY <1>1 DEF TypeOK
  <2> QED
    BY <2>1, <2>2
<1>6. /\ book' = [book EXCEPT !.positions[s] = p]
      /\ IF flag THEN Return ELSE Then(ManageOp(Op.trade, price))
      /\ UNCHANGED <<db, orm, risk, clock, armed, running, poisoned>>
      /\ faults' = IF missing THEN faults + 1 ELSE faults
  BY DEF CheckHeld
<1> HIDE DEF price, flag, halts
<1>7. p \in Position /\ p.order = pos.order
  BY <1>2, <1>3, <1>4, <1>5 DEF Position
<1> HIDE DEF p
<1>8. book' \in State /\ LivesKept /\ SessionFollows' /\ book'.orders = book.orders
  BY <1>2, <1>6, <1>7, PositionChanged
<1>9. agenda' \in Seq(Ops) /\ AgendaMakesSense' /\ Settled'
  <2>1. CASE Return
    BY <1>1, <1>6, <2>1, ReturnShortens DEF Settled
  <2>2. CASE Then(ManageOp(Op.trade, price))
    <3> DEFINE op == ManageOp(Op.trade, price)
    <3>1. op \in Ops /\ op.do = "manage" /\ op.trade = Op.trade
      BY <1>2, <1>3 DEF ManageOp, Ops
    <3>2. agenda' = <<op>> \o Tail(agenda)
      BY <2>2 DEF Then
    <3>3. \A j \in 2..Len(agenda) : OnTrade(agenda[j]) => agenda[j].trade \in Open(db')
      BY <1>1, <1>6, RestIsOpen
    <3>4. Open(db') = Open(db)
      BY <1>6
    <3> HIDE DEF op
    <3> QED
      BY <1>1, <1>2, <3>1, <3>2, <3>3, <3>4, AgendaReplaced, SMTT(30) DEF Settled
  <2> QED
    BY <1>6, <2>1, <2>2
<1>10. faults' \in Nat
  BY <1>1, <1>6 DEF TypeOK
<1>11. TypeOK'
  BY <1>1, <1>6, <1>8, <1>9, <1>10 DEF TypeOK
<1> QED
  BY <1>8, <1>9, <1>11, QuietStep

(* The rules of the stop stay within the integers.                         *)
LEMMA StopInt ==
    ASSUME NEW t \in Trade, NEW price \in Int, NEW ema \in Emas
    PROVE  NewStop(t, price, ema) \in Int
<1>1. t.entry \in Int /\ t.initial \in Int /\ t.stop \in Int /\ ema \in Int
  BY ExecutionAssumption DEF Trade
<1>2. \A a, b \in Int : Larger(a, b) \in Int /\ Smaller(a, b) \in Int
  BY DEF Larger, Smaller
<1>3. BreakEven(t, price) \in Int
  BY <1>1, <1>2 DEF BreakEven
<1>4. Behind(t, price, ema) \in Int
  <2>1. (4 * price - (t.entry - t.initial)) \div 4 \in Int
    BY <1>1
  <2> QED
    BY <1>1, <1>2, <2>1 DEF Behind
<1>5. TrailV2(t, price, ema) \in Int
  BY <1>1, <1>2, <1>4 DEF TrailV2
<1> QED
  BY <1>3, <1>5 DEF NewStop

LEMMA ManageStep ==
    ASSUME LifeInv, NEW ema \in Emas, Manage(ema)
    PROVE  LifeInv' /\ UNCHANGED Life!vars /\ Settled'
<1> DEFINE i == Op.trade
           t == orm.trades[i]
           stop == NewStop(t, Op.price, ema)
           op == IF ForceClose THEN CloseOp(i, Op.by) ELSE [do |-> "commit", by |-> Op.by]
<1>1. agenda # <<>> /\ TypeOK /\ AgendaMakesSense /\ OnTrade(Op) /\ Op.do = "manage"
  BY DEF Manage, LifeInv, Doing, Op, OnTrade
<1>2. /\ i \in DOMAIN orm.trades /\ i \in DOMAIN db.trades /\ i \in Open(db) /\ i \in Nat \ {0}
      /\ t \in Trade /\ Op.price \in Int /\ Op.by \in By /\ t.order # 0
  BY <1>1, HeadTrade, HeadOp DEF Trade
<1>3. stop \in Int
  BY <1>2, StopInt
<1>4. /\ \/ /\ book' = WithStop(t.order, stop)
            /\ orm' = [orm EXCEPT !.trades[i].stop = stop]
         \/ UNCHANGED <<book, orm>>
      /\ agenda' = <<op>> \o Tail(agenda)
      /\ UNCHANGED <<db, risk, clock, armed, running, poisoned, faults>>
  BY DEF Manage, Then
<1>5. op \in Ops /\ op.do \in {"close", "commit"} /\ (OnTrade(op) => op.trade = i)
  BY <1>2 DEF CloseOp, Ops, OnTrade
<1> HIDE DEF op, stop
<1>6. /\ book' \in State /\ book'.orders = book.orders
      /\ \A s \in Symbols : book'.positions[s].order = book.positions[s].order
  <2>1. book \in State /\ book.positions \in [Symbols -> {NoPosition} \cup Position]
    BY <1>1, Parts DEF TypeOK
  <2>2. CASE book' = WithStop(t.order, stop)
    <3> DEFINE changed == [s \in Symbols |-> IF book.positions[s].order = t.order
                                             THEN [book.positions[s] EXCEPT !.stop = stop]
                                             ELSE book.positions[s]]
    <3>1. book' = Saved(changed, book.orders)
      BY <2>1, <2>2 DEF WithStop, Saved, State
    <3>2. ASSUME NEW s \in Symbols
          PROVE  /\ changed[s] \in {NoPosition} \cup Position
                 /\ changed[s].order = book.positions[s].order
      <4>1. book.positions[s] \in {NoPosition} \cup Position
        BY <2>1
      <4>2. CASE book.positions[s].order = t.order
        <5>1. book.positions[s] \in Position
          BY <1>2, <4>1, <4>2, PositionOrder
        <5>2. /\ [book.positions[s] EXCEPT !.stop = stop] \in Position
              /\ [book.positions[s] EXCEPT !.stop = stop].order = book.positions[s].order
          BY <1>3, <5>1 DEF Position
        <5> QED
          BY <4>2, <5>2
      <4> QED
        BY <4>1, <4>2
    <3>3. changed \in [Symbols -> {NoPosition} \cup Position]
      BY <3>2
    <3> HIDE DEF changed
    <3> QED
      BY <2>1, <3>1, <3>2, <3>3 DEF Saved, State
  <2> QED
    BY <1>4, <2>1, <2>2
<1>7. /\ orm' \in Tables /\ SessionFollows'
  <2>1. orm \in Tables /\ orm.trades \in Seq(Trade)
    BY <1>1, Parts DEF TypeOK
  <2>2. CASE orm' = [orm EXCEPT !.trades[i].stop = stop]
    <3> DEFINE u == [t EXCEPT !.stop = stop]
    <3>1. u \in Trade /\ SameRow(u, t)
      BY <1>2, <1>3 DEF Trade, SameRow
    <3>2. orm' = [orm EXCEPT !.trades = [orm.trades EXCEPT ![i] = u]]
      BY <1>2, <2>1, <2>2 DEF Tables
    <3> HIDE DEF u
    <3>3. /\ orm'.trades = [orm.trades EXCEPT ![i] = u]
          /\ orm'.pnl = orm.pnl /\ orm'.account = orm.account
      BY <2>1, <3>2 DEF Tables
    <3>4. orm'.trades \in Seq(Trade) /\ Len(orm'.trades) = Len(orm.trades)
          /\ DOMAIN orm'.trades = DOMAIN orm.trades
      BY <1>2, <2>1, <3>1, <3>3
    <3>5. orm' \in Tables
      BY <2>1, <3>2, <3>3, <3>4 DEF Tables
    <3>6. \A j \in DOMAIN db.trades : SameRow(orm'.trades[j], db.trades[j])
      <4>1. DOMAIN orm.trades = DOMAIN db.trades
        BY <1>1, Parts DEF LifeInv, SessionFollows
      <4>2. ASSUME NEW j \in DOMAIN db.trades PROVE SameRow(orm'.trades[j], db.trades[j])
        <5>1. SameRow(orm.trades[j], db.trades[j])
          BY DEF LifeInv, SessionFollows
        <5>2. orm'.trades[j] = IF j = i THEN u ELSE orm.trades[j]
          BY <2>1, <3>3, <4>1
        <5> QED
          BY <3>1, <5>1, <5>2 DEF SameRow
      <4> QED
        BY <4>2
    <3> QED
      BY <1>4, <3>3, <3>4, <3>5, <3>6 DEF LifeInv, SessionFollows
  <2>3. CASE orm' = orm
    BY <1>4, <2>1, <2>3 DEF LifeInv, SessionFollows
  <2> QED
    BY <1>4, <2>2, <2>3
<1>8. LivesKept
  BY <1>4, <1>6 DEF LivesKept, SameRow
<1>9. agenda' \in Seq(Ops) /\ AgendaMakesSense' /\ Settled'
  <2>1. \A j \in 2..Len(agenda) : OnTrade(agenda[j]) => agenda[j].trade \in Open(db')
    BY <1>1, <1>4, RestIsOpen
  <2>2. Open(db') = Open(db)
    BY <1>4
  <2> QED
    BY <1>1, <1>2, <1>4, <1>5, <2>1, <2>2, AgendaReplaced DEF Settled
<1>10. TypeOK'
  BY <1>1, <1>4, <1>6, <1>7, <1>9 DEF TypeOK
<1> QED
  BY <1>7, <1>8, <1>9, <1>10, QuietStep

(***************************************************************************)
(* Steps at which an order moves                                           *)
(***************************************************************************)

(* The position of the trade that the head of the agenda is about.         *)
LEMMA HeldByTrade ==
    ASSUME LifeInv, agenda # <<>>, OnTrade(Op),
           NEW s \in Symbols, orm.trades[Op.trade].sym = s, Held(s)
    PROVE  /\ book.positions[s].order \in Placed /\ ~book.orders[book.positions[s].order].exit
           /\ db.trades[Op.trade].order = book.positions[s].order
           /\ orm.trades[Op.trade].order = book.positions[s].order
<1>1. /\ Op.trade \in Open(db) /\ db.trades[Op.trade].sym = s
      /\ orm.trades[Op.trade].order = db.trades[Op.trade].order
  BY HeadTrade DEF SameRow
<1> QED
  BY <1>1 DEF LifeInv, PositionsHeld

(* The broker records the exit fill of the position that the trade of the  *)
(* head of the agenda stands for.                                          *)
LEMMA ExitSaved ==
    ASSUME LifeInv, agenda # <<>>, OnTrade(Op),
           NEW s \in Symbols, orm.trades[Op.trade].sym = s, Held(s),
           NEW o, book.positions[s].order = o,
           NEW price \in Int, NEW flag \in BOOLEAN,
           book' = Saved([book.positions EXCEPT ![s] = NoPosition],
                         ExitRecorded(o, price, flag))
    PROVE  /\ o \in Placed /\ ~book.orders[o].exit
           /\ db.trades[Op.trade].order = o /\ orm.trades[Op.trade].order = o
           /\ book' \in State /\ Len(book'.orders) = Len(book.orders)
           /\ book'.orders[o] = [exit |-> TRUE, price |-> price, flag |-> flag]
           /\ \A q \in Placed : q # o => book'.orders[q] = book.orders[q]
           /\ book'.positions[s] = NoPosition
           /\ \A r \in Symbols : r # s => book'.positions[r] = book.positions[r]
<1>1. /\ book \in State /\ book.positions \in [Symbols -> {NoPosition} \cup Position]
      /\ book.orders \in Seq(OrderRecord) /\ DOMAIN book.orders = Placed
  BY Parts DEF LifeInv, TypeOK, Placed
<1>2. /\ Op.trade \in Open(db) /\ db.trades[Op.trade].sym = s
      /\ orm.trades[Op.trade].order = db.trades[Op.trade].order
  BY HeadTrade DEF SameRow
<1>3. o \in Placed /\ ~book.orders[o].exit /\ db.trades[Op.trade].order = o
  BY <1>2 DEF LifeInv, PositionsHeld
<1> DEFINE positions == [book.positions EXCEPT ![s] = NoPosition]
           orders == ExitRecorded(o, price, flag)
<1>4. /\ positions \in [Symbols -> {NoPosition} \cup Position]
      /\ positions[s] = NoPosition
      /\ \A r \in Symbols : r # s => positions[r] = book.positions[r]
  BY <1>1
<1>5. /\ orders \in Seq(OrderRecord) /\ Len(orders) = Len(book.orders)
      /\ orders[o] = [exit |-> TRUE, price |-> price, flag |-> flag]
      /\ \A q \in Placed : q # o => orders[q] = book.orders[q]
  <2>1. book.orders \in Seq(OrderRecord) /\ o \in DOMAIN book.orders
    BY <1>1, <1>3
  <2> QED
    BY <1>1, <2>1, FillRecorded
<1>6. book' = Saved(positions, orders)
  OBVIOUS
<1> HIDE DEF positions, orders
<1>7. book'.positions = positions /\ book'.orders = orders
  BY <1>6 DEF Saved
<1>8. book' \in State
  <2>1. book.balance \in Int
    BY Parts DEF LifeInv
  <2> QED
    BY <1>4, <1>5, <1>6, <2>1, SavedState
<1> QED
  BY <1>2, <1>3, <1>4, <1>5, <1>7, <1>8

(* An exit fill for an open trade's order keeps the invariant, and is the  *)
(* exit of that order.                                                     *)
LEMMA ExitStep ==
    ASSUME LifeInv, NEW i \in Open(db), NEW s \in Symbols, Held(s),
           NEW o \in Placed, book.positions[s].order = o, db.trades[i].order = o,
           ~book.orders[o].exit, book'.orders[o].exit, Len(book'.orders) = Len(book.orders),
           \A q \in Placed : q # o => book'.orders[q] = book.orders[q],
           book'.positions[s] = NoPosition,
           \A r \in Symbols : r # s => book'.positions[r] = book.positions[r],
           UNCHANGED <<db, orm>>, TypeOK', AgendaMakesSense'
    PROVE  LifeInv' /\ Life!Next
<1>1. /\ ~book.orders[o].exit /\ book'.orders[o].exit /\ Len(book'.orders) = Len(book.orders)
      /\ \A q \in Placed : q # o => book'.orders[q] = book.orders[q]
      /\ book'.positions[s] = NoPosition
      /\ \A r \in Symbols : r # s => book'.positions[r] = book.positions[r]
  OBVIOUS
<1>2. i \in DOMAIN db.trades
  BY DEF Open
<1>3. Placed' = Placed /\ Open(db') = Open(db) /\ ClosedTrades' = ClosedTrades
      /\ \A q : TradeOf(q)' = TradeOf(q) /\ RecordOf(q)' = RecordOf(q)
  BY <1>1 DEF Placed, Open, ClosedTrades, TradeOf, RecordOf
<1>4. SessionFollows' /\ OwnOrders'
  BY <1>1, <1>3 DEF LifeInv, SessionFollows, OwnOrders
<1>5. ExitsRecorded'
  <2>1. \A j \in ClosedTrades : db.trades[j].order \in Placed
    BY DEF LifeInv, OwnOrders, ClosedTrades
  <2>2. \A q \in Placed : book.orders[q].exit => book'.orders[q].exit
    BY <1>1
  <2>3. \A q \in Placed : book'.orders[q].exit => q = o \/ book.orders[q].exit
    BY <1>1
  <2> QED
    BY <1>1, <1>2, <1>3, <2>1, <2>2, <2>3 DEF LifeInv, ExitsRecorded
<1>6. PositionsHeld'
  <2>1. \A r \in Symbols : Held(r)' => r # s /\ Held(r) /\ book'.positions[r] = book.positions[r]
    BY <1>1 DEF Held
  <2>0. PositionsHeld
    BY DEF LifeInv
  <2>2. \A r \in Symbols : Held(r)' => book'.positions[r].order # o
    BY <2>0, <2>1 DEF PositionsHeld
  <2>3. \A r \in Symbols : Held(r)' => /\ book'.positions[r].order \in Placed
                                       /\ ~book'.orders[book'.positions[r].order].exit
    BY <1>1, <2>1, <2>2 DEF LifeInv, PositionsHeld
  <2>4. \A r \in Symbols : Held(r)' =>
           \A j \in Open(db) : db.trades[j].sym = r => db.trades[j].order = book'.positions[r].order
    BY <2>1 DEF LifeInv, PositionsHeld
  <2>5. \A q, r \in Symbols : Held(q)' /\ Held(r)'
                              /\ book'.positions[q].order = book'.positions[r].order => q = r
    BY <2>1 DEF LifeInv, PositionsHeld
  <2> QED
    BY <1>3, <2>3, <2>4, <2>5 DEF PositionsHeld
<1>7. Life!Exit(o) /\ o \in 1..MaxOrders
  <2>1. o \in 1..MaxOrders
    BY <1>1, Parts, ExecutionAssumption, SMTT(30) DEF LifeInv, OwnOrders, Placed
  <2>2. At(o) = "held" /\ At(o)' = "exited" /\ RecordOf(o) = "open"
    BY <1>1, <1>2, <1>3 DEF At, RecordOf, TradeOf
  <2>3. \A q : q # o => At(q)' = At(q)
    BY <1>1, <1>3 DEF At
  <2> DEFINE at == [q \in 1..MaxOrders |-> At(q)]
  <2>4. at' = [at EXCEPT ![o] = "exited"]
    BY <2>1, <2>2, <2>3
  <2>5. [q \in 1..MaxOrders |-> RecordOf(q)]' = [q \in 1..MaxOrders |-> RecordOf(q)]
    BY <1>3
  <2> QED
    BY <2>1, <2>2, <2>4, <2>5 DEF Life!Exit
<1> QED
  BY <1>4, <1>5, <1>6, <1>7 DEF LifeInv, Life!Next

(* An exit at a price of the book's, after which the head of the agenda is *)
(* given up or becomes the booking of that exit.                           *)
LEMMA ExitHandled ==
    ASSUME LifeInv, agenda # <<>>, OnTrade(Op),
           NEW s \in Symbols, orm.trades[Op.trade].sym = s, Held(s),
           NEW o, book.positions[s].order = o,
           NEW price \in Int, NEW flag \in BOOLEAN,
           book' = Saved([book.positions EXCEPT ![s] = NoPosition],
                         ExitRecorded(o, price, flag)),
           Return \/ Then(FinalizeOp(Op.trade, price)),
           UNCHANGED <<db, orm, risk, clock, armed, running, poisoned>>, faults' \in Nat
    PROVE  LifeInv' /\ Life!Next /\ Settled'
<1>1. /\ TypeOK /\ AgendaMakesSense
      /\ Op.trade \in Open(db) /\ Op.trade \in Nat \ {0} /\ Op.by \in By
  BY HeadTrade, HeadOp DEF LifeInv
<1>2. /\ o \in Placed /\ ~book.orders[o].exit
      /\ db.trades[Op.trade].order = o
      /\ book' \in State /\ Len(book'.orders) = Len(book.orders)
      /\ book'.orders[o] = [exit |-> TRUE, price |-> price, flag |-> flag]
      /\ \A q \in Placed : q # o => book'.orders[q] = book.orders[q]
      /\ book'.positions[s] = NoPosition
      /\ \A r \in Symbols : r # s => book'.positions[r] = book.positions[r]
  BY ExitSaved, SMTT(30)
<1>3. agenda' \in Seq(Ops) /\ AgendaMakesSense' /\ Settled'
  <2>1. CASE Return
    BY <1>1, <2>1, ReturnShortens DEF Settled
  <2>2. CASE Then(FinalizeOp(Op.trade, price))
    <3>1. PICK op \in Ops : FinalizeOp(Op.trade, price) = op
      BY <1>1 DEF FinalizeOp, Ops
    <3>2. op.do = "finalize" /\ op.trade = Op.trade
      BY <3>1 DEF FinalizeOp
    <3>3. agenda' = <<op>> \o Tail(agenda)
      BY <2>2, <3>1 DEF Then
    <3>4. \A j \in 2..Len(agenda) : OnTrade(agenda[j]) => agenda[j].trade \in Open(db')
      BY <1>1, RestIsOpen
    <3>5. book'.orders[db'.trades[op.trade].order].exit
      BY <1>2, <3>2
    <3>6. op.trade \in Open(db') /\ op.do # "record"
      BY <1>1, <3>2
    <3> QED
      BY <1>1, <3>2, <3>3, <3>4, <3>5, <3>6, AgendaReplaced, SMTT(30) DEF Settled
  <2> QED
    BY <2>1, <2>2
<1>4. TypeOK'
  BY <1>1, <1>2, <1>3 DEF TypeOK
<1>5. book.positions[s].order = o /\ book'.orders[o].exit
  BY <1>2
<1>6. LifeInv' /\ Life!Next
  <2>1. UNCHANGED <<db, orm>>
    OBVIOUS
  <2>2. PICK i \in Open(db) : i = Op.trade
    BY <1>1
  <2>3. db.trades[i].order = o
    BY <1>2, <2>2
  <2> QED
    BY <1>2, <1>3, <1>4, <1>5, <2>1, <2>3, ExitStep
<1> QED
  BY <1>3, <1>6

LEMMA CheckHitStep ==
    ASSUME LifeInv, NEW bars \in BarSeqs, NEW missing \in BOOLEAN, CheckHit(bars, missing)
    PROVE  LifeInv' /\ Life!Next /\ Settled'
<1>1. agenda # <<>> /\ TypeOK /\ OnTrade(Op)
  BY DEF CheckHit, LifeInv, Doing, Op, OnTrade
<1>2. PICK s \in Symbols : orm.trades[Op.trade].sym = s
  BY <1>1, HeadTrade
<1>3. PICK pos \in Position : book.positions[s] = pos /\ Held(s)
  <2>1. book.positions[s] # NoPosition
    BY <1>2 DEF CheckHit
  <2> QED
    BY <1>1, <2>1, HeldOrder DEF Held
<1>4. PICK last \in Bars : bars[Len(bars)] = last
  <2>1. PICK n \in 0..MaxBars : bars \in [1..n -> Bars]
    BY DEF BarSeqs
  <2>2. bars # <<>>
    BY DEF CheckHit
  <2>3. n \in Nat /\ n # 0 /\ Len(bars) = n
    BY <2>1, <2>2, ExecutionAssumption
  <2> QED
    BY <2>1, <2>3
<1>5. PICK price \in Int : FillOf(pos, last) = price
  <2>1. last.open \in Int
    BY ExecutionAssumption
  <2>2. pos.stop \in Int /\ pos.target \in Int
    BY DEF Position
  <2> QED
    BY <2>1, <2>2, SlipAssumption DEF FillOf, Exit, Smaller
<1>6. PICK flag \in BOOLEAN : (pos.flag \/ Gap(pos, missing)) = flag
  OBVIOUS
<1>7. PICK o : pos.order = o
  OBVIOUS
<1>8. PICK orders : ExitRecorded(o, price, flag) = orders
  OBVIOUS
<1>9. book' = Saved([book.positions EXCEPT ![s] = NoPosition], orders)
      /\ Reconcile(Op.trade, orders)
  BY <1>2, <1>3, <1>4, <1>5, <1>6, <1>7, <1>8 DEF CheckHit
<1>10. orders[o].price = price /\ orm.trades[Op.trade].order = o
  <2>1. /\ book.positions[s].order = o
        /\ book' = Saved([book.positions EXCEPT ![s] = NoPosition], ExitRecorded(o, price, flag))
    BY <1>3, <1>7, <1>8, <1>9
  <2>2. o \in Placed /\ orm.trades[Op.trade].order = o
    <3>1. Held(s)
      BY <1>3
    <3>2. orm.trades[Op.trade].order = book.positions[s].order /\ book.positions[s].order \in Placed
      BY <1>1, <1>2, <3>1, HeldByTrade
    <3> QED
      BY <2>1, <3>2
  <2>3. book.orders \in Seq(OrderRecord) /\ o \in DOMAIN book.orders
    BY <1>1, <2>2, Parts DEF Placed
  <2>4. orders[o] = [exit |-> TRUE, price |-> price, flag |-> flag]
    BY <1>8, <2>3, FillRecorded
  <2> QED
    BY <2>2, <2>4
<1>11. Return \/ Then(FinalizeOp(Op.trade, price))
  <2>1. Return \/ Then(FinalizeOp(Op.trade, orders[orm.trades[Op.trade].order].price))
    BY <1>9 DEF Reconcile
  <2> QED
    BY <1>10, <2>1
<1>12. UNCHANGED <<db, orm, risk, clock, armed, running, poisoned>> /\ faults' \in Nat
  <2>1. /\ UNCHANGED <<db, orm, risk, clock, armed, running, poisoned>>
        /\ faults' = IF missing THEN faults + 1 ELSE faults
    BY DEF CheckHit
  <2>2. faults \in Nat
    BY <1>1 DEF TypeOK
  <2> QED
    BY <2>1, <2>2
<1>13. book.positions[s].order = o
       /\ book' = Saved([book.positions EXCEPT ![s] = NoPosition], ExitRecorded(o, price, flag))
  BY <1>3, <1>7, <1>8, <1>9
<1> QED
  BY <1>1, <1>2, <1>3, <1>11, <1>12, <1>13, ExitHandled

LEMMA CloseStep ==
    ASSUME LifeInv, Close
    PROVE  /\ LifeInv' /\ Settled'
           /\ Life!Next \/ UNCHANGED Life!vars
<1>1. agenda # <<>> /\ TypeOK /\ AgendaMakesSense /\ OnTrade(Op)
  BY DEF Close, LifeInv, Doing, Op, OnTrade
<1>2. PICK s \in Symbols : orm.trades[Op.trade].sym = s
  BY <1>1, HeadTrade
<1>3. UNCHANGED <<db, orm, risk, clock, armed, running, poisoned, faults>>
  BY DEF Close
<1>4. CASE Return /\ UNCHANGED book
  <2>1. agenda' \in Seq(Ops) /\ AgendaMakesSense' /\ Settled'
    BY <1>1, <1>3, <1>4, ReturnShortens DEF Settled
  <2>2. TypeOK'
    BY <1>1, <1>3, <1>4, <2>1 DEF TypeOK
  <2> QED
    BY <1>3, <1>4, <2>1, <2>2, IdleStep
<1>5. CASE /\ Held(s)
           /\ book' = Saved([book.positions EXCEPT ![s] = NoPosition],
                            ExitRecorded(book.positions[s].order, Exit(book.positions[s].price), FALSE))
           /\ Then(FinalizeOp(Op.trade, Exit(book.positions[s].price)))
  <2>1. PICK price \in Int : Exit(book.positions[s].price) = price
    <3>1. book.positions[s].price \in Int
      BY <1>1, <1>5, HeldOrder DEF Position
    <3> QED
      BY <3>1, SlipAssumption DEF Exit
  <2>2. PICK o : book.positions[s].order = o
    OBVIOUS
  <2>3. faults' \in Nat
    BY <1>1, <1>3 DEF TypeOK
  <2> QED
    BY <1>1, <1>2, <1>3, <1>5, <2>1, <2>2, <2>3, ExitHandled
<1>6. (Return /\ UNCHANGED book)
      \/ (/\ Held(s)
          /\ book' = Saved([book.positions EXCEPT ![s] = NoPosition],
                            ExitRecorded(book.positions[s].order, Exit(book.positions[s].price), FALSE))
          /\ Then(FinalizeOp(Op.trade, Exit(book.positions[s].price))))
  BY <1>2 DEF Close, Held
<1> QED
  BY <1>4, <1>5, <1>6

(* A sequence with one more element.                                       *)
LEMMA Appended ==
    ASSUME NEW T, NEW s \in Seq(T), NEW v \in T
    PROVE  LET t == Append(s, v) IN
           /\ t \in Seq(T) /\ Len(t) = Len(s) + 1 /\ DOMAIN t = 1..Len(s) + 1
           /\ t[Len(s) + 1] = v /\ \A j \in DOMAIN s : t[j] = s[j]
OBVIOUS

(* The broker's file after a bracket order.                                *)
LEMMA BracketSaved ==
    ASSUME TypeOK, NEW s \in Symbols, NEW order, Len(book.orders) + 1 = order,
           NEW stop \in Stops, book' = Bracket(s, order, stop)
    PROVE  /\ book' \in State
           /\ Placed' = Placed \cup {order} /\ order \notin Placed
           /\ Len(book'.orders) = order /\ order \in Nat \ {0}
           /\ ~book'.orders[order].exit
           /\ \A q \in Placed : book'.orders[q] = book.orders[q]
           /\ book'.positions[s] \in Position /\ book'.positions[s].order = order
           /\ \A r \in Symbols : r # s => book'.positions[r] = book.positions[r]
<1>1. /\ book.balance \in Int /\ book.orders \in Seq(OrderRecord)
      /\ book.positions \in [Symbols -> {NoPosition} \cup Position]
      /\ Len(book.orders) \in Nat /\ DOMAIN book.orders = 1..Len(book.orders)
  BY Parts
<1>2. order \in Nat \ {0}
  BY <1>1
<1>3. Fill \in Int /\ Target \in Int /\ stop \in Int /\ clock.halts \in Nat
  <2>1. Entry \in Nat /\ Target \in Nat /\ stop \in Nat
    BY ExecutionAssumption
  <2>2. Fill \in Int
    BY <2>1, SlipAssumption DEF Fill, Filled
  <2>3. clock.halts \in Nat
    BY DEF TypeOK
  <2> QED
    BY <2>1, <2>2, <2>3
<1>4. PICK p \in Position : p = [order |-> order, stop |-> stop, target |-> Target,
                                 price |-> Fill, halts |-> clock.halts, flag |-> FALSE]
  BY <1>2, <1>3 DEF Position
<1>5. PICK fill \in OrderRecord : fill = [exit |-> FALSE, price |-> Fill, flag |-> FALSE]
  BY <1>3 DEF OrderRecord
<1>6. PICK positions : positions = [book.positions EXCEPT ![s] = p]
  OBVIOUS
<1>7. PICK orders : orders = Append(book.orders, fill)
  OBVIOUS
<1>8. book' = Saved(positions, orders)
  BY <1>4, <1>5, <1>6, <1>7 DEF Bracket
<1>9. /\ positions \in [Symbols -> {NoPosition} \cup Position] /\ positions[s] = p
      /\ \A r \in Symbols : r # s => positions[r] = book.positions[r]
  BY <1>1, <1>6
<1>10. /\ orders \in Seq(OrderRecord) /\ Len(orders) = Len(book.orders) + 1
       /\ orders[Len(book.orders) + 1] = fill
       /\ \A j \in DOMAIN book.orders : orders[j] = book.orders[j]
  BY <1>1, <1>7, Appended
<1>11. book' \in State /\ book'.positions = positions /\ book'.orders = orders
  BY <1>1, <1>8, <1>9, <1>10, SavedState DEF Saved
<1>12. Placed = DOMAIN book.orders /\ Placed' = Placed \cup {order} /\ order \notin Placed
  BY <1>1, <1>2, <1>10, <1>11 DEF Placed
<1>13. ~book'.orders[order].exit
  BY <1>5, <1>10, <1>11
<1>14. p.order = order
  BY <1>4
<1> QED
  BY <1>2, <1>9, <1>10, <1>11, <1>12, <1>13, <1>14

LEMMA SubmitStep ==
    ASSUME LifeInv, NEW stop \in Stops, Submit(stop)
    PROVE  LifeInv' /\ Life!Next
<1>1. agenda # <<>> /\ TypeOK /\ AgendaMakesSense /\ Op.do = "scan" /\ ~OnTrade(Op)
  BY DEF Submit, LifeInv, Doing, Op, OnTrade
<1>2. PICK s \in Symbols : Op.sym = s
  BY <1>1, HeadOp
<1>3. PICK order : Len(book.orders) + 1 = order
  OBVIOUS
<1>4. /\ \A i \in Open(db) : db.trades[i].sym # s
      /\ book.positions[s] = NoPosition
      /\ order <= MaxOrders
      /\ book' = Bracket(s, order, stop)
      /\ Then([do |-> "record", sym |-> s, order |-> order, stop |-> stop, by |-> "cycle"])
      /\ UNCHANGED <<db, orm, risk, clock, armed, running, poisoned, faults>>
  BY <1>2, <1>3 DEF Submit
<1>5. /\ book' \in State
      /\ Placed' = Placed \cup {order} /\ order \notin Placed
      /\ Len(book'.orders) = order /\ order \in Nat \ {0}
      /\ ~book'.orders[order].exit
      /\ \A q \in Placed : book'.orders[q] = book.orders[q]
      /\ book'.positions[s] \in Position /\ book'.positions[s].order = order
      /\ \A r \in Symbols : r # s => book'.positions[r] = book.positions[r]
  BY <1>1, <1>3, <1>4, BracketSaved
<1>6. ~Held(s) /\ Held(s)'
  BY <1>4, <1>5, PositionOrder DEF Held
<1>7. Open(db') = Open(db) /\ ClosedTrades' = ClosedTrades
      /\ \A q : TradeOf(q)' = TradeOf(q) /\ RecordOf(q)' = RecordOf(q)
  BY <1>4 DEF Open, ClosedTrades, TradeOf, RecordOf
<1>8. TradeOf(order) = {}
  BY <1>5 DEF LifeInv, OwnOrders, TradeOf
<1>9. agenda' \in Seq(Ops) /\ AgendaMakesSense'
  <2>1. PICK op \in Ops : op = [do |-> "record", sym |-> s, order |-> order, stop |-> stop,
                                by |-> "cycle"]
    BY <1>5 DEF Ops, By
  <2>2. op.do = "record" /\ op.sym = s /\ op.order = order
    BY <2>1
  <2>3. agenda' = <<op>> \o Tail(agenda)
    BY <1>4, <2>1 DEF Then
  <2>4. \A j \in 2..Len(agenda) : OnTrade(agenda[j]) => agenda[j].trade \in Open(db')
    BY <1>1, <1>7, RestIsOpen
  <2>5. ~OnTrade(op) /\ op.do # "finalize"
    BY <2>2 DEF OnTrade
  <2>6. /\ Held(op.sym)' /\ book'.positions[op.sym].order = op.order
        /\ TradeOf(op.order)' = {}
        /\ \A i \in Open(db') : db'.trades[i].sym # op.sym
    BY <1>4, <1>5, <1>6, <1>7, <1>8, <2>2
  <2> QED
    BY <1>1, <2>3, <2>4, <2>5, <2>6, AgendaReplaced
<1>10. TypeOK'
  BY <1>1, <1>4, <1>5, <1>9 DEF TypeOK
<1>11. SessionFollows' /\ OwnOrders'
  BY <1>4, <1>5, <1>7 DEF LifeInv, SessionFollows, OwnOrders
<1>12. ExitsRecorded'
  <2>1. \A j \in ClosedTrades : db.trades[j].order \in Placed
    BY DEF LifeInv, OwnOrders, ClosedTrades
  <2> QED
    BY <1>4, <1>5, <1>7, <2>1 DEF LifeInv, ExitsRecorded
<1>13. PositionsHeld'
  <2>1. \A r \in Symbols : r # s /\ Held(r)' => Held(r) /\ book'.positions[r] = book.positions[r]
    BY <1>5 DEF Held
  <2>2. \A r \in Symbols : r # s /\ Held(r)' => book'.positions[r].order \in Placed
    BY <2>1 DEF LifeInv, PositionsHeld
  <2>3. \A r \in Symbols : Held(r)' => /\ book'.positions[r].order \in Placed'
                                       /\ ~book'.orders[book'.positions[r].order].exit
    BY <1>5, <2>1, <2>2 DEF LifeInv, PositionsHeld
  <2>4. \A r \in Symbols : Held(r)' =>
           \A j \in Open(db) : db.trades[j].sym = r => db.trades[j].order = book'.positions[r].order
    BY <1>4, <2>1 DEF LifeInv, PositionsHeld
  <2>5. \A q, r \in Symbols : Held(q)' /\ Held(r)'
                              /\ book'.positions[q].order = book'.positions[r].order => q = r
    BY <1>5, <2>1, <2>2 DEF LifeInv, PositionsHeld
  <2> QED
    BY <1>4, <1>7, <2>3, <2>4, <2>5 DEF PositionsHeld
<1>14. Life!Submit(order) /\ order \in 1..MaxOrders
  <2>1. order \in 1..MaxOrders
    BY <1>4, <1>5, ExecutionAssumption, SMTT(30)
  <2>2. At(order) = "none" /\ At(order)' = "held" /\ RecordOf(order) = "none"
    BY <1>5, <1>8 DEF At, RecordOf
  <2>3. \A q : q # order => At(q)' = At(q)
    BY <1>5 DEF At
  <2> DEFINE at == [q \in 1..MaxOrders |-> At(q)]
  <2>4. at' = [at EXCEPT ![order] = "held"]
    BY <2>1, <2>2, <2>3
  <2>5. [q \in 1..MaxOrders |-> RecordOf(q)]' = [q \in 1..MaxOrders |-> RecordOf(q)]
    BY <1>7
  <2> QED
    BY <2>1, <2>2, <2>4, <2>5 DEF Life!Submit
<1> QED
  BY <1>9, <1>10, <1>11, <1>12, <1>13, <1>14 DEF LifeInv, Life!Next

(* Tables are made of their parts.                                         *)
LEMMA TablesMade ==
    ASSUME NEW rows \in Seq(Trade), NEW pnl \in [0..MaxDay -> Int], NEW account \in Account
    PROVE  [trades |-> rows, pnl |-> pnl, account |-> account] \in Tables
BY DEF Tables

(* The trades table with one more trade.                                   *)
LEMMA TradeAdded ==
    ASSUME TypeOK, SessionFollows, NEW t \in Trade,
           db' = [orm EXCEPT !.trades = Append(orm.trades, t)]
    PROVE  /\ db' \in Tables /\ db'.pnl = db.pnl /\ db'.account = db.account
           /\ DOMAIN db'.trades = DOMAIN db.trades \cup {Len(db.trades) + 1}
           /\ Len(db.trades) + 1 \notin DOMAIN db.trades
           /\ db'.trades[Len(db.trades) + 1] = t
           /\ \A j \in DOMAIN db.trades : SameRow(db'.trades[j], db.trades[j])
<1>1. /\ orm \in Tables /\ orm.trades \in Seq(Trade) /\ Len(orm.trades) = Len(db.trades)
      /\ orm.pnl = db.pnl /\ orm.account = db.account
      /\ Len(db.trades) \in Nat /\ DOMAIN db.trades = 1..Len(db.trades)
      /\ DOMAIN orm.trades = DOMAIN db.trades
  BY Parts DEF TypeOK, SessionFollows
<1>2. PICK rows : rows = Append(orm.trades, t)
  OBVIOUS
<1>3. /\ rows \in Seq(Trade) /\ DOMAIN rows = 1..Len(db.trades) + 1
      /\ rows[Len(db.trades) + 1] = t
      /\ \A j \in DOMAIN db.trades : rows[j] = orm.trades[j]
  BY <1>1, <1>2, Appended
<1>4. /\ db' = [trades |-> rows, pnl |-> orm.pnl, account |-> orm.account]
  BY <1>1, <1>2 DEF Tables
<1>5. db' \in Tables /\ db'.trades = rows /\ db'.pnl = orm.pnl /\ db'.account = orm.account
  <2>1. db'.trades = rows /\ db'.pnl = orm.pnl /\ db'.account = orm.account
    BY <1>4
  <2>2. orm.pnl \in [0..MaxDay -> Int] /\ orm.account \in Account
    BY Parts
  <2>3. db' \in Tables
    <3>1. rows \in Seq(Trade)
      BY <1>3
    <3>2. [trades |-> rows, pnl |-> orm.pnl, account |-> orm.account] \in Tables
      BY <2>2, <3>1, TablesMade
    <3> QED
      BY <1>4, <3>2
  <2> QED
    BY <2>1, <2>3
<1>6. \A j \in DOMAIN db.trades : SameRow(db'.trades[j], db.trades[j])
  BY <1>3, <1>5 DEF SessionFollows
<1>7. DOMAIN db'.trades = DOMAIN db.trades \cup {Len(db.trades) + 1}
      /\ Len(db.trades) + 1 \notin DOMAIN db.trades
  BY <1>1, <1>3, <1>5
<1> QED
  BY <1>1, <1>3, <1>5, <1>6, <1>7

\* The commit of a recorded trade went through.
Recorded == /\ db' = [orm EXCEPT !.trades = Append(orm.trades,
                        NewTrade(Op.sym, Op.order, Op.stop, clock.day))]
            /\ orm' = db' /\ UNCHANGED <<poisoned, faults, book, clock, armed, running>>
            /\ Return

\* What the tables are after it
RecordedRows ==
    /\ db' \in Tables /\ db'.pnl = db.pnl /\ db'.account = db.account
    /\ DOMAIN db'.trades = DOMAIN db.trades \cup {Len(db.trades) + 1}
    /\ Len(db.trades) + 1 \notin DOMAIN db.trades
    /\ db'.trades[Len(db.trades) + 1] = NewTrade(Op.sym, Op.order, Op.stop, clock.day)
    /\ \A j \in DOMAIN db.trades : SameRow(db'.trades[j], db.trades[j])

(* A trade row has its type.                                               *)
LEMMA TradeTyped ==
    ASSUME NEW s \in Symbols, NEW o \in Nat \ {0}, NEW stop \in Stops, NEW d \in 0..MaxDay
    PROVE  NewTrade(s, o, stop, d) \in Trade
<1>1. Entry \in Nat /\ stop \in Nat
  BY ExecutionAssumption
<1>2. Fill \in Int
  BY <1>1, SlipAssumption DEF Fill, Filled
<1> QED
  BY <1>1, <1>2 DEF NewTrade, Trade

LEMMA RecordedTables ==
    ASSUME LifeInv, agenda # <<>>, Op.do = "record", Recorded
    PROVE  RecordedRows
<1>1. Op.sym \in Symbols /\ Op.order \in Nat \ {0} /\ Op.stop \in Stops /\ TypeOK /\ SessionFollows
  BY HeadOp DEF LifeInv
<1>2. PICK t \in Trade : t = NewTrade(Op.sym, Op.order, Op.stop, clock.day)
  <2>1. clock.day \in 0..MaxDay
    BY <1>1 DEF TypeOK
  <2> QED
    BY <1>1, <2>1, TradeTyped
<1>3. db' = [orm EXCEPT !.trades = Append(orm.trades, t)]
  BY <1>2 DEF Recorded
<1> QED
  BY <1>1, <1>2, <1>3, TradeAdded DEF RecordedRows

LEMMA RecordStep ==
    ASSUME LifeInv, Record
    PROVE  /\ LifeInv' /\ Settled'
           /\ Life!Next \/ UNCHANGED Life!vars
           /\ \/ Recorded
              \/ UNCHANGED Life!vars /\ UNCHANGED <<db, book>> /\ faults' = faults + 1
<1>1. agenda # <<>> /\ TypeOK /\ AgendaMakesSense /\ SessionFollows /\ Op.do = "record"
      /\ Doing("record")
  BY DEF Record, LifeInv, Doing, Op
<1>2. /\ UNCHANGED <<book, clock, armed, running>>
      /\ risk' = [risk EXCEPT !.active = @ + 1]
  BY DEF Record
<1>3. risk' \in [active : Int, realized : Int, date : Int]
  <2>1. risk \in [active : Int, realized : Int, date : Int]
    BY <1>1 DEF TypeOK
  <2> QED
    BY <1>2, <2>1
<1>4. CASE /\ MayFail /\ faults' = faults + 1
           /\ orm' = db /\ UNCHANGED db
           /\ Raise
  BY <1>1, <1>2, <1>3, <1>4, FailedCommit
<1>5. CASE Recorded
  <2> DEFINE n == Len(db.trades) + 1
             t == db'.trades[n]
  <2>1. RecordedRows
    BY <1>1, <1>5, RecordedTables
  <2>2. PICK s \in Symbols : Op.sym = s
    BY <1>1, HeadOp
  <2>3. PICK o : Op.order = o
    OBVIOUS
  <2>4. /\ Held(s) /\ book.positions[s].order = o /\ TradeOf(o) = {}
        /\ \A i \in Open(db) : db.trades[i].sym # s
    BY <1>1, <2>2, <2>3 DEF AgendaMakesSense
  <2>5. o \in Placed /\ ~book.orders[o].exit
    BY <2>4 DEF LifeInv, PositionsHeld
  <2>6. t.sym = s /\ t.order = o /\ t.open
    BY <2>1, <2>2, <2>3 DEF RecordedRows, NewTrade
  <2> HIDE DEF n
  <2>7. /\ DOMAIN db'.trades = DOMAIN db.trades \cup {n} /\ n \notin DOMAIN db.trades
        /\ \A j \in DOMAIN db.trades : /\ db'.trades[j].sym = db.trades[j].sym
                                       /\ db'.trades[j].order = db.trades[j].order
                                       /\ db'.trades[j].open = db.trades[j].open
    BY <2>1 DEF RecordedRows, SameRow, n
  <2> HIDE DEF t
  <2>8. Open(db') = Open(db) \cup {n} /\ ClosedTrades' = ClosedTrades
    BY <2>6, <2>7 DEF Open, ClosedTrades, t
  <2>9. Placed' = Placed /\ book' = book
    BY <1>2 DEF Placed
  <2>10. agenda' \in Seq(Ops) /\ AgendaMakesSense' /\ Settled'
    <3>1. agenda' = SubSeq(agenda, 2, Len(agenda)) /\ 2 \in 2..Len(agenda) + 1
      BY <1>1, <1>5, TailIsRest, Parts DEF Return, Recorded
    <3>2. \A j \in 2..Len(agenda) : OnTrade(agenda[j]) => agenda[j].trade \in Open(db')
      BY <1>1, <2>8, RestIsOpen
    <3> QED
      BY <1>1, <3>1, <3>2, AgendaShortened DEF Settled
  <2>11. TypeOK'
    BY <1>1, <1>2, <1>3, <1>5, <2>1, <2>10 DEF TypeOK, Recorded, RecordedRows
  <2>12. SessionFollows'
    BY <1>5 DEF SessionFollows, SameRow, Recorded
  <2>13. TradeOf(o)' = {n} /\ \A q : q # o => TradeOf(q)' = TradeOf(q)
    BY <2>4, <2>6, <2>7 DEF TradeOf, t
  <2>14. OwnOrders'
    <3>1. \A i \in DOMAIN db'.trades : db'.trades[i].order \in Placed
      BY <2>5, <2>6, <2>7 DEF LifeInv, OwnOrders, t
    <3>2. \A j \in DOMAIN db.trades : db.trades[j].order # o
      BY <2>4 DEF TradeOf
    <3>3. \A i, j \in DOMAIN db'.trades : db'.trades[i].order = db'.trades[j].order => i = j
      BY <2>6, <2>7, <3>2 DEF LifeInv, OwnOrders, t
    <3>4. \A i, j \in Open(db') : db'.trades[i].sym = db'.trades[j].sym => i = j
      <4>1. Open(db) \subseteq DOMAIN db.trades
        BY DEF Open
      <4> QED
        BY <2>4, <2>6, <2>7, <2>8, <4>1 DEF LifeInv, OwnOrders, t
    <3> QED
      BY <2>9, <3>1, <3>3, <3>4 DEF LifeInv, OwnOrders
  <2>15. ExitsRecorded'
    <3>1. ClosedTrades \subseteq DOMAIN db.trades
      BY DEF ClosedTrades
    <3> QED
      BY <2>7, <2>8, <2>9, <3>1 DEF LifeInv, ExitsRecorded
  <2>16. PositionsHeld'
    <3>1. \A r \in Symbols : Held(r)' = Held(r)
      BY <2>9 DEF Held
    <3>2. Open(db) \subseteq DOMAIN db.trades
      BY DEF Open
    <3>3. \A r \in Symbols : Held(r) =>
             \A j \in Open(db') : db'.trades[j].sym = r => db'.trades[j].order = book.positions[r].order
      BY <2>4, <2>6, <2>7, <2>8, <3>2 DEF LifeInv, PositionsHeld, t
    <3> QED
      BY <2>9, <3>1, <3>3 DEF LifeInv, PositionsHeld
  <2>17. Life!Record(o) /\ o \in 1..MaxOrders
    <3>1. o \in 1..MaxOrders
      BY <1>1, <2>5, Parts, ExecutionAssumption, SMTT(30) DEF LifeInv, OwnOrders, Placed
    <3>2. RecordOf(o) = "none" /\ RecordOf(o)' = "open" /\ At(o) = "held"
      BY <2>4, <2>5, <2>8, <2>13 DEF At, RecordOf
    <3>3. \A q : q # o => RecordOf(q)' = RecordOf(q)
      <4>1. \A q : q # o => TradeOf(q) \cap Open(db') = TradeOf(q) \cap Open(db)
        BY <2>7, <2>8 DEF TradeOf
      <4> QED
        BY <2>13, <4>1 DEF RecordOf
    <3> DEFINE record == [q \in 1..MaxOrders |-> RecordOf(q)]
    <3>4. record' = [record EXCEPT ![o] = "open"]
      BY <3>1, <3>2, <3>3
    <3>5. [q \in 1..MaxOrders |-> At(q)]' = [q \in 1..MaxOrders |-> At(q)]
      BY <2>9 DEF At
    <3> QED
      BY <3>1, <3>2, <3>4, <3>5 DEF Life!Record
  <2> QED
    BY <1>5, <2>10, <2>11, <2>12, <2>14, <2>15, <2>16, <2>17 DEF LifeInv, Life!Next
<1>6. Recorded \/ (/\ MayFail /\ faults' = faults + 1
                   /\ orm' = db /\ UNCHANGED db
                   /\ Raise)
  BY DEF Record, Recorded, Commits, Committed
<1> QED
  BY <1>2, <1>4, <1>5, <1>6

\* The commit of a trade's outcome went through.
Outcome == Op.price - orm.trades[Op.trade].entry - Commission
Finalized == /\ db' = Booked(Op.trade, Op.price) /\ orm' = db'
             /\ UNCHANGED <<poisoned, faults, book, clock, armed, running>>
             /\ Then([do |-> "realize", net |-> Outcome, by |-> Op.by])

\* What the tables are after it
FinalizedRows(i, net) ==
    /\ db' \in Tables /\ Len(db'.trades) = Len(db.trades) /\ DOMAIN db'.trades = DOMAIN db.trades
    /\ \A j \in DOMAIN db.trades : j # i => SameRow(db'.trades[j], db.trades[j])
    /\ db'.trades[i].sym = db.trades[i].sym /\ db'.trades[i].order = db.trades[i].order
    /\ db'.trades[i].day = db.trades[i].day /\ db'.trades[i].entry = db.trades[i].entry
    /\ db'.trades[i].initial = db.trades[i].initial
    /\ db'.trades[i].net = net /\ ~db'.trades[i].open
    /\ db'.pnl = [db.pnl EXCEPT ![db.trades[i].day] = @ + net]
    /\ db'.account.profit = db.account.profit + net

(* The larger of two integers is an integer.                               *)
LEMMA MaxInt == ASSUME NEW a \in Int, NEW b \in Int PROVE Max({a, b}) \in Int
<1>1. Max({a, b}) = IF a >= b THEN a ELSE b
  BY DEF Max
<1> QED
  BY <1>1

LEMMA FinalizedTables ==
    ASSUME LifeInv, agenda # <<>>, Op.do = "finalize", db' = Booked(Op.trade, Op.price)
    PROVE  Outcome \in Int /\ FinalizedRows(Op.trade, Outcome)
<1>1. TypeOK /\ SessionFollows /\ OnTrade(Op)
  BY DEF LifeInv, OnTrade
<1>2. PICK i \in DOMAIN orm.trades : Op.trade = i
  BY <1>1, HeadTrade
<1>3. PICK t \in Trade : orm.trades[i] = t
  BY <1>1, <1>2, HeadTrade
<1>4. PICK price \in Int : Op.price = price
  BY <1>1, HeadOp
<1>5. t.entry \in Int /\ Commission \in Int /\ t.day \in 0..MaxDay
  BY ExecutionAssumption DEF Trade
<1>6. PICK net \in Int : price - t.entry - Commission = net
  BY <1>5
<1>7. Outcome = net
  BY <1>2, <1>3, <1>4, <1>6 DEF Outcome
<1>8. /\ orm.trades \in Seq(Trade) /\ orm.pnl \in [0..MaxDay -> Int] /\ orm.account \in Account
      /\ orm.pnl = db.pnl /\ orm.account = db.account
      /\ Len(orm.trades) = Len(db.trades) /\ DOMAIN orm.trades = DOMAIN db.trades
  BY <1>1, Parts DEF SessionFollows
<1>9. PICK u : u = [sym |-> t.sym, order |-> t.order, entry |-> t.entry, initial |-> t.initial,
                    stop |-> t.stop, day |-> t.day, open |-> FALSE, exit |-> price, net |-> net]
  OBVIOUS
<1>10. PICK rows : [orm.trades EXCEPT ![i] = u] = rows
  OBVIOUS
<1>11. PICK pnl : [orm.pnl EXCEPT ![t.day] = @ + net] = pnl
  OBVIOUS
<1>12. /\ orm.account.balance \in Int /\ orm.account.peak \in Int
       /\ orm.account.drawdown \in Int /\ orm.account.profit \in Int
  BY <1>8 DEF Account
<1>13. PICK account \in Account :
          /\ account.profit = orm.account.profit + net
          /\ db' = [trades |-> rows, pnl |-> pnl, account |-> account]
  <2>1. PICK balance \in Int : orm.account.balance + net = balance
    BY <1>12
  <2>2. PICK peak \in Int : Max({orm.account.peak, balance}) = peak
    BY <1>12, MaxInt
  <2>3. peak - balance \in Int
    OBVIOUS
  <2>4. PICK drawdown \in Int : Max({orm.account.drawdown, peak - balance}) = drawdown
    BY <1>12, <2>3, MaxInt
  <2>5. PICK profit \in Int : orm.account.profit + net = profit
    BY <1>12
  <2>6. db' = [trades |-> rows, pnl |-> pnl,
               account |-> [balance |-> balance, peak |-> peak, drawdown |-> drawdown,
                            profit |-> profit]]
    BY <1>2, <1>3, <1>4, <1>6, <1>9, <1>10, <1>11, <2>1, <2>2, <2>4, <2>5 DEF Booked
  <2>7. [balance |-> balance, peak |-> peak, drawdown |-> drawdown, profit |-> profit] \in Account
    BY DEF Account
  <2> QED
    BY <2>5, <2>6, <2>7
<1>14. u \in Trade
  BY <1>9 DEF Trade
<1>15. /\ rows \in Seq(Trade) /\ Len(rows) = Len(orm.trades) /\ DOMAIN rows = DOMAIN orm.trades
       /\ rows[i] = u /\ \A j \in DOMAIN orm.trades : j # i => rows[j] = orm.trades[j]
  BY <1>8, <1>10, <1>14, ElementChanged
<1>16. pnl \in [0..MaxDay -> Int]
  <2>1. PICK before \in [0..MaxDay -> Int] : orm.pnl = before
    BY <1>8
  <2>2. PICK d \in 0..MaxDay : t.day = d
    BY <1>5
  <2>3. [before EXCEPT ![d] = @ + net] \in [0..MaxDay -> Int]
    OBVIOUS
  <2> QED
    BY <1>11, <2>1, <2>2, <2>3
<1>17. db' \in Tables
  BY <1>13, <1>15, <1>16, TablesMade
<1>18. db'.trades = rows /\ db'.pnl = pnl /\ db'.account = account
  BY <1>13
<1>19. SameRow(t, db.trades[i])
  BY <1>1, <1>3, <1>8 DEF SessionFollows
<1>20. /\ t.sym = db.trades[i].sym /\ t.order = db.trades[i].order /\ t.day = db.trades[i].day
       /\ t.entry = db.trades[i].entry /\ t.initial = db.trades[i].initial
  BY <1>19 DEF SameRow
<1>21. /\ u.sym = t.sym /\ u.order = t.order /\ u.day = t.day /\ u.entry = t.entry
       /\ u.initial = t.initial /\ u.net = net /\ ~u.open
  BY <1>9
<1>22. \A j \in DOMAIN db.trades : j # i => SameRow(db'.trades[j], db.trades[j])
  BY <1>1, <1>8, <1>15, <1>18 DEF SessionFollows
<1>23. /\ db'.trades[i].sym = db.trades[i].sym /\ db'.trades[i].order = db.trades[i].order
       /\ db'.trades[i].day = db.trades[i].day /\ db'.trades[i].entry = db.trades[i].entry
       /\ db'.trades[i].initial = db.trades[i].initial
       /\ db'.trades[i].net = net /\ ~db'.trades[i].open
  BY <1>15, <1>18, <1>20, <1>21
<1>24. /\ db'.pnl = [db.pnl EXCEPT ![db.trades[i].day] = @ + net]
       /\ db'.account.profit = db.account.profit + net
  BY <1>8, <1>11, <1>13, <1>18, <1>20
<1>25. Len(db'.trades) = Len(db.trades) /\ DOMAIN db'.trades = DOMAIN db.trades
  BY <1>8, <1>15, <1>18
<1>26. FinalizedRows(i, net)
  BY <1>17, <1>22, <1>23, <1>24, <1>25 DEF FinalizedRows
<1> QED
  BY <1>2, <1>7, <1>26

LEMMA FinalizeStep ==
    ASSUME LifeInv, Finalize
    PROVE  /\ LifeInv'
           /\ Life!Next \/ UNCHANGED Life!vars
           /\ \/ Finalized
              \/ /\ UNCHANGED Life!vars /\ UNCHANGED <<db, book>> /\ Settled'
                 /\ faults' \in {faults, faults + 1}
<1>1. agenda # <<>> /\ TypeOK /\ AgendaMakesSense /\ SessionFollows /\ Op.do = "finalize"
      /\ Doing("finalize") /\ OnTrade(Op)
  BY DEF Finalize, LifeInv, Doing, Op, OnTrade
<1>2. UNCHANGED <<book, clock, armed, running>>
  BY DEF Finalize
<1>3. Outcome \in Int
  <2>1. orm.trades[Op.trade].entry \in Int
    BY <1>1, HeadTrade DEF Trade
  <2>2. Op.price \in Int /\ Commission \in Int
    BY <1>1, HeadOp, ExecutionAssumption
  <2> QED
    BY <2>1, <2>2 DEF Outcome
<1>4. risk \in [active : Int, realized : Int, date : Int]
  BY <1>1 DEF TypeOK
<1>5. TradeLeft(Outcome) \in [active : Int, realized : Int, date : Int]
  <2>1. risk.active - 1 \in Int /\ risk.realized + Outcome \in Int /\ risk.date \in Int
    BY <1>3, <1>4
  <2>2. Max({0, risk.active - 1}) \in Int
    BY <2>1, MaxInt
  <2> QED
    BY <2>1, <2>2 DEF TradeLeft
<1>6. CASE Return /\ UNCHANGED <<db, orm, risk, poisoned, faults>>
  <2>1. agenda' \in Seq(Ops) /\ AgendaMakesSense' /\ Settled'
    BY <1>1, <1>6, ReturnShortens DEF Settled
  <2>2. TypeOK'
    BY <1>1, <1>2, <1>6, <2>1 DEF TypeOK
  <2> QED
    BY <1>2, <1>6, <2>1, <2>2, IdleStep
<1>7. CASE /\ MayFail /\ faults' = faults + 1
           /\ orm' = db /\ UNCHANGED db
           /\ Raise
           /\ risk' = TradeLeft(Outcome)
  <2>1. risk' \in [active : Int, realized : Int, date : Int]
    BY <1>5, <1>7
  <2> QED
    BY <1>1, <1>2, <1>7, <2>1, FailedCommit
<1>8. CASE Finalized /\ risk' = TradeLeft(Outcome)
  <2>1. PICK i \in Open(db) : Op.trade = i
    BY <1>1, HeadTrade
  <2>2. FinalizedRows(i, Outcome)
    BY <1>1, <1>8, <2>1, FinalizedTables DEF Finalized
  <2>3. i \in DOMAIN db.trades /\ db.trades[i].open
    BY <2>1 DEF Open
  <2>4. /\ DOMAIN db'.trades = DOMAIN db.trades
        /\ \A j \in DOMAIN db.trades : /\ db'.trades[j].sym = db.trades[j].sym
                                       /\ db'.trades[j].order = db.trades[j].order
                                       /\ j # i => db'.trades[j].open = db.trades[j].open
        /\ ~db'.trades[i].open
    BY <2>2 DEF FinalizedRows, SameRow
  <2>5. Open(db') = Open(db) \ {i} /\ ClosedTrades' = ClosedTrades \cup {i}
        /\ \A q : TradeOf(q)' = TradeOf(q)
    BY <2>3, <2>4 DEF Open, ClosedTrades, TradeOf
  <2>6. PICK o : db.trades[i].order = o
    OBVIOUS
  <2>7. o \in Placed /\ book.orders[o].exit
    BY <1>1, <2>1, <2>3, <2>6 DEF LifeInv, OwnOrders, AgendaMakesSense
  <2>8. agenda' \in Seq(Ops) /\ AgendaMakesSense'
    <3>1. PICK op \in Ops : op = [do |-> "realize", net |-> Outcome, by |-> Op.by]
      BY <1>1, <1>3, HeadOp DEF Ops
    <3>2. op.do = "realize" /\ ~OnTrade(op)
      BY <3>1 DEF OnTrade
    <3>3. agenda' = <<op>> \o Tail(agenda)
      BY <1>8, <3>1 DEF Then, Finalized
    <3>4. \A j \in 2..Len(agenda) : OnTrade(agenda[j]) => agenda[j].trade \in Open(db')
      <4>1. ASSUME NEW j \in 2..Len(agenda), OnTrade(agenda[j]) PROVE agenda[j].trade \in Open(db')
        <5>1. 1 \in DOMAIN agenda /\ Op = agenda[1] /\ j \in DOMAIN agenda /\ j # 1
          BY <1>1, HeadOp, Parts
        <5>2. agenda[j].trade # i
          BY <1>1, <2>1, <4>1, <5>1 DEF AgendaMakesSense
        <5>3. agenda[j].trade \in Open(db)
          BY <1>1, <4>1, <5>1 DEF AgendaMakesSense
        <5> QED
          BY <2>5, <5>2, <5>3
      <4> QED
        BY <4>1
    <3> QED
      BY <1>1, <3>2, <3>3, <3>4, AgendaReplaced
  <2>9. TypeOK'
    BY <1>1, <1>2, <1>5, <1>8, <2>2, <2>8 DEF TypeOK, Finalized, FinalizedRows
  <2>10. SessionFollows'
    BY <1>8 DEF SessionFollows, SameRow, Finalized
  <2>11. Placed' = Placed /\ book' = book
    BY <1>2 DEF Placed
  <2>12. OwnOrders'
    <3>1. Open(db) \subseteq DOMAIN db.trades
      BY DEF Open
    <3> QED
      BY <2>4, <2>5, <2>11, <3>1 DEF LifeInv, OwnOrders
  <2>13. ExitsRecorded'
    <3>1. ClosedTrades \subseteq DOMAIN db.trades
      BY DEF ClosedTrades
    <3>2. \A j \in ClosedTrades' : book.orders[db'.trades[j].order].exit
      BY <2>3, <2>4, <2>5, <2>6, <2>7, <3>1 DEF LifeInv, ExitsRecorded
    <3> QED
      BY <2>4, <2>11, <3>2 DEF LifeInv, ExitsRecorded
  <2>14. PositionsHeld'
    <3>1. \A r \in Symbols : Held(r)' = Held(r)
      BY <2>11 DEF Held
    <3>2. Open(db) \subseteq DOMAIN db.trades
      BY DEF Open
    <3> QED
      BY <2>4, <2>5, <2>11, <3>1, <3>2 DEF LifeInv, PositionsHeld
  <2>15. Life!Book(o) /\ o \in 1..MaxOrders
    <3>1. o \in 1..MaxOrders
      BY <1>1, <2>7, Parts, ExecutionAssumption, SMTT(30) DEF LifeInv, OwnOrders, Placed
    <3>2. TradeOf(o) = {i}
      BY <2>3, <2>6 DEF TradeOf, LifeInv, OwnOrders
    <3>3. RecordOf(o) = "open" /\ RecordOf(o)' = "booked" /\ At(o) = "exited"
      BY <2>1, <2>5, <2>7, <3>2 DEF At, RecordOf
    <3>4. \A q : q # o => RecordOf(q)' = RecordOf(q)
      <4>1. \A q : q # o => i \notin TradeOf(q)
        BY <2>6 DEF TradeOf
      <4>2. \A q : q # o => TradeOf(q) \cap Open(db') = TradeOf(q) \cap Open(db)
        BY <2>5, <4>1
      <4> QED
        BY <2>5, <4>2 DEF RecordOf
    <3> DEFINE record == [q \in 1..MaxOrders |-> RecordOf(q)]
    <3>5. record' = [record EXCEPT ![o] = "booked"]
      BY <3>1, <3>3, <3>4
    <3>6. [q \in 1..MaxOrders |-> At(q)]' = [q \in 1..MaxOrders |-> At(q)]
      BY <2>11 DEF At
    <3> QED
      BY <3>1, <3>3, <3>5, <3>6 DEF Life!Book
  <2> QED
    BY <1>8, <2>8, <2>9, <2>10, <2>12, <2>13, <2>14, <2>15 DEF LifeInv, Life!Next
<1>9. \/ Return /\ UNCHANGED <<db, orm, risk, poisoned, faults>>
      \/ /\ risk' = TradeLeft(Outcome)
         /\ \/ Finalized
            \/ /\ MayFail /\ faults' = faults + 1
               /\ orm' = db /\ UNCHANGED db
               /\ Raise
  BY DEF Finalize, Finalized, Commits, Committed, Outcome
<1> QED
  BY <1>2, <1>6, <1>7, <1>8, <1>9

(***************************************************************************)
(* The invariant, and the two specifications                               *)
(***************************************************************************)

(* The invariant holds before anything was traded.                         *)
LEMMA LifeInit == Init => LifeInv /\ Life!Init
<1> SUFFICES ASSUME Init PROVE LifeInv /\ Life!Init
  OBVIOUS
<1>1. /\ MaxDay \in Nat /\ MaxOrders \in Nat /\ Deposit \in Nat
  BY ExecutionAssumption
<1>2. [balance |-> Deposit, peak |-> Deposit, drawdown |-> 0, profit |-> 0] \in Account
  BY <1>1 DEF Account
<1>3. [d \in 0..MaxDay |-> 0] \in [0..MaxDay -> Int]
  OBVIOUS
<1>4. <<>> \in Seq(Trade)
  OBVIOUS
<1>5. /\ db = [trades |-> <<>>, pnl |-> [d \in 0..MaxDay |-> 0],
               account |-> [balance |-> Deposit, peak |-> Deposit, drawdown |-> 0, profit |-> 0]]
      /\ orm = db
  BY DEF Init, NoOutcomes
<1>6. db \in Tables /\ orm \in Tables
  BY <1>2, <1>3, <1>4, <1>5, TablesMade
<1>7. book \in State
  <2>1. PICK positions \in [Symbols -> {NoPosition} \cup Position] :
           positions = [s \in Symbols |-> NoPosition]
    OBVIOUS
  <2>2. book = [balance |-> Deposit, positions |-> positions, orders |-> <<>>]
    BY <2>1 DEF Init
  <2> QED
    BY <1>1, <2>2 DEF State
<1>8. agenda = <<>> /\ book.orders = <<>> /\ db.trades = <<>> /\ orm.trades = <<>>
      /\ book.positions = [s \in Symbols |-> NoPosition]
  BY DEF Init
<1>9. TypeOK
  <2>1. risk \in [active : Int, realized : Int, date : Int]
    BY DEF Init
  <2>2. clock \in [day : 0..MaxDay, phase : Phases, halts : Nat]
    BY <1>1 DEF Init, Phases
  <2>3. agenda \in Seq(Ops)
    BY <1>8
  <2>4. armed \in BOOLEAN /\ running \in BOOLEAN /\ poisoned \in BOOLEAN /\ faults \in Nat
    BY DEF Init
  <2> QED
    BY <1>6, <1>7, <2>1, <2>2, <2>3, <2>4 DEF TypeOK
<1>10. Placed = {} /\ Open(db) = {} /\ ClosedTrades = {} /\ DOMAIN db.trades = {}
  BY <1>8 DEF Placed, Open, ClosedTrades
<1>11. SessionFollows
  BY <1>5, <1>10 DEF SessionFollows
<1>12. OwnOrders
  BY <1>1, <1>8, <1>10 DEF OwnOrders
<1>13. ExitsRecorded
  BY <1>10 DEF ExitsRecorded
<1>14. PositionsHeld
  BY <1>8 DEF PositionsHeld, Held
<1>15. AgendaMakesSense
  BY <1>8 DEF AgendaMakesSense, Doing
<1>16. Life!Init
  <2>1. \A o : At(o) = "none" /\ RecordOf(o) = "none"
    BY <1>10 DEF At, RecordOf, TradeOf
  <2> QED
    BY <2>1 DEF Life!Init
<1> QED
  BY <1>9, <1>11, <1>12, <1>13, <1>14, <1>15, <1>16 DEF LifeInv

(* Every step keeps the invariant, and moves at most one order, along its  *)
(* life.                                                                   *)
LEMMA LifeStep ==
    ASSUME LifeInv, [Next]_vars
    PROVE  LifeInv' /\ [Life!Next]_(Life!vars)
<1>1. CASE Gate
  BY <1>1, GateStep
<1>2. CASE NoTrade
  BY <1>2, NoTradeStep
<1>3. CASE \E stop \in Stops : Submit(stop)
  BY <1>3, SubmitStep
<1>4. CASE Record
  BY <1>4, RecordStep
<1>5. CASE Check
  <2>1. CASE CheckGone
    BY <2>1, CheckGoneStep
  <2>2. CASE CheckBlind
    BY <2>2, CheckBlindStep
  <2>3. ASSUME NEW bars \in BarSeqs, NEW missing \in BOOLEAN, CheckHeld(bars, missing)
        PROVE  LifeInv' /\ [Life!Next]_(Life!vars)
    BY <2>3, CheckHeldStep
  <2>4. ASSUME NEW bars \in BarSeqs, NEW missing \in BOOLEAN, CheckHit(bars, missing)
        PROVE  LifeInv' /\ [Life!Next]_(Life!vars)
    BY <2>4, CheckHitStep
  <2> QED
    BY <1>5, <2>1, <2>2, <2>3, <2>4 DEF Check
<1>6. CASE \E ema \in Emas : Manage(ema)
  BY <1>6, ManageStep
<1>7. CASE Commit
  BY <1>7, CommitStep
<1>8. CASE Close
  BY <1>8, CloseStep
<1>9. CASE Finalize
  BY <1>9, FinalizeStep
<1>10. CASE Realize
  BY <1>10, RealizeStep
<1>11. CASE Cycle
  BY <1>11, CycleStep
<1>12. CASE Arm
  BY <1>12, ArmStep
<1>13. CASE TradingStop
  BY <1>13, TradingStopStep
<1>14. CASE Sync
  BY <1>14, SyncStep
<1>15. CASE CloseAll
  BY <1>15, CloseAllStep
<1>16. CASE \E i \in DOMAIN orm.trades : CloseTrade(i)
  BY <1>16, CloseTradeStep
<1>17. CASE Tick
  BY <1>17, TickStep
<1>18. CASE Crash
  BY <1>18, CrashStep
<1>19. CASE UNCHANGED vars
  <2>1. UNCHANGED <<db, orm, book>> /\ TypeOK' /\ AgendaMakesSense'
    BY <1>19 DEF vars, LifeInv, TypeOK, AgendaMakesSense, Doing, Op, Held, TradeOf
  <2> QED
    BY <2>1, IdleStep
<1> QED
  BY <1>1, <1>2, <1>3, <1>4, <1>5, <1>6, <1>7, <1>8, <1>9, <1>10, <1>11, <1>12, <1>13,
     <1>14, <1>15, <1>16, <1>17, <1>18, <1>19 DEF Next, Handler, Operator

(* The invariant always holds.                                             *)
LEMMA LifeInvariant == Spec => []LifeInv
<1>1. Init => LifeInv
  BY LifeInit
<1>2. LifeInv /\ [Next]_vars => LifeInv'
  BY LifeStep
<1> QED
  BY <1>1, <1>2, PTL DEF Spec

(* The tables, the broker's file and what is running always have their     *)
(* types.                                                                  *)
THEOREM Typed == Spec => []TypeOK
<1>1. LifeInv => TypeOK
  BY DEF LifeInv
<1> QED
  BY <1>1, LifeInvariant, PTL

(* Every order lives the life of TradeBook, whatever failed or crashed on  *)
(* the way: the broker holds it before a trade records it, and its trade   *)
(* is booked once, after a real exit (submit_bracket_order, process_signal,*)
(* close_position, _finalize_trade).                                       *)
THEOREM TradeBookImplemented == Spec => ImplementsTradeBook
<1>1. Init => Life!Init
  BY LifeInit
<1>2. LifeInv /\ [Next]_vars => [Life!Next]_(Life!vars)
  BY LifeStep
<1> QED
  BY <1>1, <1>2, LifeInvariant, PTL DEF Spec, ImplementsTradeBook, Life!Spec

(***************************************************************************)
(* The books                                                               *)
(***************************************************************************)

\* Neither a trade, nor a sum over trades, nor the broker's balance changes.
Kept == /\ DOMAIN db'.trades = DOMAIN db.trades
        /\ \A i \in DOMAIN db.trades : SameRow(db'.trades[i], db.trades[i])
        /\ db'.pnl = db.pnl /\ db'.account.profit = db.account.profit
        /\ book'.balance = book.balance
        /\ faults' \in {faults, faults + 1}

(* What is kept when the tables are not written.                           *)
LEMMA KeptTables ==
    ASSUME UNCHANGED db, book'.balance = book.balance, faults' \in {faults, faults + 1}
    PROVE  Kept
BY DEF Kept, SameRow

(* A file of other positions and orders has the same balance.              *)
LEMMA BalanceKept ==
    ASSUME TypeOK, \/ \E positions, orders : book' = Saved(positions, orders)
                   \/ \E positions : book' = [book EXCEPT !.positions = positions]
    PROVE  book'.balance = book.balance
<1>1. book \in State
  BY DEF TypeOK
<1> QED
  BY <1>1 DEF Saved, State

(* While a handler does one thing it does no other.                        *)
LEMMA DoesOne ==
    ASSUME NEW a, NEW b, a # b, Doing(a)
    PROVE  ~Doing(b)
BY DEF Doing

(* The position a check changes is that of its trade's symbol.             *)
LEMMA CheckKept ==
    ASSUME LifeInv, Check
    PROVE  Kept
<1>1. TypeOK /\ faults \in Nat
  BY DEF LifeInv, TypeOK
<1>2. CASE CheckGone
  BY <1>2, KeptTables DEF CheckGone
<1>3. CASE CheckBlind
  <2>1. \E positions : book' = [book EXCEPT !.positions = positions]
    <3>1. book' = [book EXCEPT !.positions[orm.trades[Op.trade].sym].flag = TRUE]
      BY <1>3 DEF CheckBlind
    <3> QED
      BY <3>1
  <2>2. UNCHANGED db /\ faults' = faults + 1
    BY <1>3 DEF CheckBlind
  <2> QED
    BY <1>1, <2>1, <2>2, BalanceKept, KeptTables
<1>4. ASSUME NEW bars \in BarSeqs, NEW missing \in BOOLEAN,
             CheckHeld(bars, missing) \/ CheckHit(bars, missing)
      PROVE  Kept
  <2>1. UNCHANGED db /\ faults' = IF missing THEN faults + 1 ELSE faults
    BY <1>4 DEF CheckHeld, CheckHit
  <2>2. CASE CheckHeld(bars, missing)
    <3>1. \E positions : book' = [book EXCEPT !.positions = positions]
      BY <2>2 DEF CheckHeld
    <3> QED
      BY <1>1, <2>1, <3>1, BalanceKept, KeptTables
  <2>3. CASE CheckHit(bars, missing)
    <3>1. \E positions, orders : book' = Saved(positions, orders)
      BY <2>3 DEF CheckHit
    <3> QED
      BY <1>1, <2>1, <3>1, BalanceKept, KeptTables
  <2> QED
    BY <1>4, <2>2, <2>3
<1> QED
  BY <1>2, <1>3, <1>4 DEF Check

LEMMA ManageKept ==
    ASSUME LifeInv, NEW ema \in Emas, Manage(ema)
    PROVE  Kept
<1>1. TypeOK
  BY DEF LifeInv
<1>2. UNCHANGED <<db, faults>>
  BY DEF Manage
<1>3. CASE UNCHANGED book
  BY <1>2, <1>3, KeptTables
<1>4. CASE \E positions : book' = [book EXCEPT !.positions = positions]
  BY <1>1, <1>2, <1>4, BalanceKept, KeptTables
<1> QED
  BY <1>3, <1>4 DEF Manage, WithStop

LEMMA CommitKept ==
    ASSUME LifeInv, Commit
    PROVE  Kept
<1>1. CASE db' = orm /\ UNCHANGED faults
  <2>1. /\ DOMAIN orm.trades = DOMAIN db.trades
        /\ \A i \in DOMAIN db.trades : SameRow(orm.trades[i], db.trades[i])
        /\ orm.pnl = db.pnl /\ orm.account = db.account
    BY Parts DEF LifeInv, SessionFollows
  <2>2. UNCHANGED book
    BY DEF Commit
  <2> QED
    BY <1>1, <2>1, <2>2 DEF Kept
<1>2. CASE UNCHANGED db /\ faults' = faults + 1
  BY <1>2, KeptTables DEF Commit
<1> QED
  BY <1>1, <1>2 DEF Commit, Commits

LEMMA SyncKept ==
    ASSUME LifeInv, Sync
    PROVE  Kept
<1>1. db \in Tables /\ db.account \in Account
  BY Parts DEF LifeInv, TypeOK
<1>2. db' = [db EXCEPT !.account.balance = book.balance] /\ UNCHANGED <<book, faults>>
  BY DEF Sync
<1>3. db'.trades = db.trades /\ db'.pnl = db.pnl
      /\ db'.account = [db.account EXCEPT !.balance = book.balance]
  BY <1>1, <1>2 DEF Tables
<1>4. db'.account.profit = db.account.profit
  BY <1>1, <1>3 DEF Account
<1> QED
  BY <1>2, <1>3, <1>4 DEF Kept, SameRow

(* Every step is of one of six kinds: one after which nothing is under way *)
(* that the books wait for, one that leaves the agenda, a fill, the record *)
(* of a trade, the booking of its outcome, and the broker's share in it.   *)
LEMMA StepKinds ==
    ASSUME LifeInv, [Next]_vars
    PROVE  \/ Kept /\ Settled' /\ (~Doing("realize") \/ faults' = faults + 1)
           \/ Kept /\ UNCHANGED <<agenda, faults, clock>>
           \/ Kept /\ \E stop \in Stops : Submit(stop)
           \/ Record /\ Recorded
           \/ Finalize /\ Finalized
           \/ Realize
<1>1. CASE Gate
  <2>1. Kept
    BY <1>1, KeptTables DEF Gate
  <2>2. ~Doing("realize")
    BY <1>1, DoesOne DEF Gate
  <2> QED
    BY <1>1, <2>1, <2>2, GateStep
<1>2. CASE NoTrade
  <2>1. Kept
    BY <1>2, KeptTables DEF NoTrade
  <2>2. ~Doing("realize")
    BY <1>2, DoesOne DEF NoTrade
  <2> QED
    BY <1>2, <2>1, <2>2, NoTradeStep
<1>3. ASSUME NEW stop \in Stops, Submit(stop)
      PROVE  Kept
  <2>1. TypeOK /\ UNCHANGED <<db, faults>>
    BY <1>3 DEF LifeInv, Submit
  <2>2. book'.balance = book.balance
    <3>1. \E positions, orders : book' = Saved(positions, orders)
      BY <1>3 DEF Submit, Bracket
    <3> QED
      BY <2>1, <3>1, BalanceKept
  <2> QED
    BY <2>1, <2>2, KeptTables
<1>4. CASE Record
  <2>1. ~Doing("realize")
    BY <1>4, DoesOne DEF Record
  <2>2. CASE UNCHANGED <<db, book>> /\ faults' = faults + 1
    BY <1>4, <2>1, <2>2, KeptTables, RecordStep
  <2> QED
    BY <1>4, <2>2, RecordStep
<1>5. CASE Check
  <2>1. Kept
    BY <1>5, CheckKept
  <2>2. ~Doing("realize")
    BY <1>5, DoesOne DEF Check, CheckGone, CheckBlind, CheckHeld, CheckHit
  <2>3. Settled'
    BY <1>5, CheckGoneStep, CheckBlindStep, CheckHeldStep, CheckHitStep DEF Check
  <2> QED
    BY <2>1, <2>2, <2>3
<1>6. ASSUME NEW ema \in Emas, Manage(ema)
      PROVE  Kept /\ Settled' /\ ~Doing("realize")
  <2>1. ~Doing("realize")
    BY <1>6, DoesOne DEF Manage
  <2> QED
    BY <1>6, <2>1, ManageKept, ManageStep
<1>7. CASE Commit
  <2>1. ~Doing("realize")
    BY <1>7, DoesOne DEF Commit
  <2> QED
    BY <1>7, <2>1, CommitKept, CommitStep
<1>8. CASE Close
  <2>1. ~Doing("realize") /\ UNCHANGED <<db, faults>> /\ TypeOK
    BY <1>8, DoesOne DEF Close, LifeInv
  <2>2. book'.balance = book.balance
    <3>1. UNCHANGED book \/ \E positions, orders : book' = Saved(positions, orders)
      BY <1>8 DEF Close
    <3> QED
      BY <2>1, <3>1, BalanceKept
  <2> QED
    BY <1>8, <2>1, <2>2, KeptTables, CloseStep
<1>9. CASE Finalize
  <2>1. ~Doing("realize")
    BY <1>9, DoesOne DEF Finalize
  <2>2. CASE UNCHANGED <<db, book>> /\ Settled' /\ faults' \in {faults, faults + 1}
    BY <2>1, <2>2, KeptTables
  <2> QED
    BY <1>9, <2>2, FinalizeStep
<1>10. CASE Cycle
  <2>1. ~Doing("realize") /\ UNCHANGED <<db, book, faults>>
    BY <1>10 DEF Cycle, Doing
  <2> QED
    BY <1>10, <2>1, KeptTables, CycleStep
<1>11. CASE Arm
  BY <1>11, KeptTables DEF Arm
<1>12. CASE TradingStop
  <2>1. ~Doing("realize") /\ UNCHANGED <<db, book, faults>>
    BY <1>12 DEF TradingStop, Doing
  <2> QED
    BY <1>12, <2>1, KeptTables, TradingStopStep
<1>13. CASE Sync
  <2>1. ~Doing("realize")
    BY <1>13 DEF Sync, Doing
  <2> QED
    BY <1>13, <2>1, SyncKept, SyncStep
<1>14. CASE CloseAll
  <2>1. ~Doing("realize") /\ UNCHANGED <<db, book, faults>>
    BY <1>14 DEF CloseAll, Doing
  <2> QED
    BY <1>14, <2>1, KeptTables, CloseAllStep
<1>15. ASSUME NEW i \in DOMAIN orm.trades, CloseTrade(i)
       PROVE  Kept /\ Settled' /\ ~Doing("realize")
  <2>1. ~Doing("realize") /\ UNCHANGED <<db, book, faults>>
    BY <1>15 DEF CloseTrade, Doing
  <2> QED
    BY <1>15, <2>1, KeptTables, CloseTradeStep
<1>16. CASE Tick
  <2>1. ~Doing("realize") /\ UNCHANGED <<db, book, faults>>
    BY <1>16 DEF Tick, Unhurried, Doing, Op
  <2> QED
    BY <1>16, <2>1, KeptTables, TickStep
<1>17. CASE Crash
  <2>1. UNCHANGED <<db, book>> /\ faults' = faults + 1
    BY <1>17 DEF Crash
  <2> QED
    BY <1>17, <2>1, KeptTables, CrashStep
<1>18. CASE UNCHANGED vars
  BY <1>18, KeptTables DEF vars
<1> QED
  BY <1>1, <1>2, <1>3, <1>4, <1>5, <1>6, <1>7, <1>8, <1>9, <1>10, <1>11, <1>12, <1>13,
     <1>14, <1>15, <1>16, <1>17, <1>18 DEF Next, Handler, Operator

(* There are finitely many trades, each with an integer outcome.           *)
LEMMA NetsTyped ==
    ASSUME TypeOK
    PROVE  /\ ClosedTrades \subseteq DOMAIN db.trades /\ IsFiniteSet(ClosedTrades)
           /\ IsFiniteSet(DOMAIN db.trades)
           /\ \A i \in DOMAIN db.trades : db.trades[i].net \in Int
           /\ \A ids \in SUBSET DOMAIN db.trades : IsFiniteSet(ids) /\ Nets(ids) \in Int
<1>1. DOMAIN db.trades = 1..Len(db.trades) /\ Len(db.trades) \in Nat /\ db.trades \in Seq(Trade)
  BY Parts
<1>2. IsFiniteSet(DOMAIN db.trades)
  BY <1>1, FS_Interval
<1>3. ClosedTrades \subseteq DOMAIN db.trades
  BY DEF ClosedTrades
<1>4. \A ids \in SUBSET DOMAIN db.trades : IsFiniteSet(ids)
  BY <1>2, FS_Subset
<1>5. \A i \in DOMAIN db.trades : db.trades[i].net \in Int
  <2>1. \A i \in DOMAIN db.trades : db.trades[i] \in Trade
    BY <1>1, Element
  <2> QED
    BY <2>1 DEF Trade
<1>6. ASSUME NEW ids \in SUBSET DOMAIN db.trades PROVE Nets(ids) \in Int
  <2> DEFINE net == [i \in DOMAIN db.trades |-> db.trades[i].net]
  <2>1. \A i \in ids : net[i] \in Int
    BY <1>5
  <2>2. IsFiniteSet(ids)
    BY <1>4
  <2> HIDE DEF net
  <2>3. SumFunctionOnSet(net, ids) \in Int
    BY <2>1, <2>2, SumInt
  <2> QED
    BY <2>3 DEF Nets, net
<1> QED
  BY <1>2, <1>3, <1>4, <1>5, <1>6

(* Trades with the same outcomes add up to the same.                       *)
LEMMA NetsKept ==
    ASSUME TypeOK, NEW ids \in SUBSET DOMAIN db.trades, ids \subseteq DOMAIN db'.trades,
           \A i \in ids : db'.trades[i].net = db.trades[i].net
    PROVE  Nets(ids)' = Nets(ids)
<1>1. PICK f : f = [i \in DOMAIN db.trades |-> db.trades[i].net]
  OBVIOUS
<1>2. PICK g : g = [i \in DOMAIN db'.trades |-> db'.trades[i].net]
  OBVIOUS
<1>3. IsFiniteSet(ids)
  BY NetsTyped
<1>4. \A i \in ids : f[i] = g[i]
  BY <1>1, <1>2
<1>5. SumFunctionOnSet(f, ids) = SumFunctionOnSet(g, ids)
  BY <1>3, <1>4, SumSame
<1> QED
  BY <1>1, <1>2, <1>5 DEF Nets

(* One more trade adds its outcome.                                        *)
LEMMA NetsAdd ==
    ASSUME TypeOK, NEW ids \in SUBSET DOMAIN db.trades, NEW i \in DOMAIN db.trades \ ids
    PROVE  Nets(ids \cup {i}) = db.trades[i].net + Nets(ids)
<1>1. PICK f : f = [j \in DOMAIN db.trades |-> db.trades[j].net]
  OBVIOUS
<1>2. IsFiniteSet(ids)
  BY NetsTyped
<1>3. \A j \in ids \cup {i} : f[j] \in Int
  BY <1>1, NetsTyped
<1>4. SumFunctionOnSet(f, ids \cup {i}) = f[i] + SumFunctionOnSet(f, ids)
  BY <1>2, <1>3, SumAdd
<1> QED
  BY <1>1, <1>4 DEF Nets

(* The trade whose outcome a step writes adds that outcome after it.       *)
LEMMA NetsAddNext ==
    ASSUME TypeOK, NEW ids \in SUBSET DOMAIN db.trades, NEW i \in DOMAIN db.trades \ ids,
           DOMAIN db'.trades = DOMAIN db.trades,
           \A j \in ids : db'.trades[j].net = db.trades[j].net,
           NEW net \in Int, db'.trades[i].net = net
    PROVE  Nets(ids \cup {i})' = net + Nets(ids)
<1>1. PICK f : f = [j \in DOMAIN db.trades |-> db.trades[j].net]
  OBVIOUS
<1>2. PICK g : g = [j \in DOMAIN db'.trades |-> db'.trades[j].net]
  OBVIOUS
<1>3. IsFiniteSet(ids)
  BY NetsTyped
<1>4. g[i] = net /\ \A j \in ids : g[j] = f[j] /\ g[j] \in Int
  BY <1>1, <1>2, NetsTyped
<1>5. SumFunctionOnSet(g, ids \cup {i}) = g[i] + SumFunctionOnSet(g, ids)
  <2>1. \A j \in ids \cup {i} : g[j] \in Int
    BY <1>4
  <2> QED
    BY <1>3, <2>1, SumAdd
<1>6. SumFunctionOnSet(g, ids) = SumFunctionOnSet(f, ids)
  BY <1>3, <1>4, SumSame
<1> QED
  BY <1>1, <1>2, <1>4, <1>5, <1>6 DEF Nets

(* The broker's balance lacks one more outcome while it is under way.      *)
LEMMA BalanceLacks ==
    ASSUME TypeOK, BalanceFollows
    PROVE  \E ids \in SUBSET ClosedTrades :
              /\ book.balance = Deposit + Nets(ids)
              /\ Cardinality(ClosedTrades \ ids)
                    <= faults + (IF Doing("realize") THEN 1 ELSE 0)
<1>1. PICK ids \in SUBSET ClosedTrades :
         /\ book.balance = Deposit + Nets(ids)
         /\ \/ ~Doing("realize") /\ Cardinality(ClosedTrades \ ids) <= faults
            \/ /\ Doing("realize")
               /\ \E i \in ClosedTrades \ ids :
                     /\ db.trades[i].net = Op.net
                     /\ Cardinality(ClosedTrades \ (ids \cup {i})) <= faults
  BY DEF BalanceFollows
<1>2. CASE ~Doing("realize")
  <2>1. Cardinality(ClosedTrades \ ids) <= faults
    BY <1>1, <1>2
  <2>2. faults + 0 = faults
    BY DEF TypeOK
  <2> QED
    BY <1>1, <1>2, <2>1, <2>2
<1>3. CASE Doing("realize")
  <2>1. PICK i \in ClosedTrades \ ids : Cardinality(ClosedTrades \ (ids \cup {i})) <= faults
    BY <1>1, <1>3
  <2>2. /\ IsFiniteSet(ClosedTrades \ (ids \cup {i}))
        /\ i \notin ClosedTrades \ (ids \cup {i})
        /\ (ClosedTrades \ (ids \cup {i})) \cup {i} = ClosedTrades \ ids
    BY NetsTyped, FS_Subset
  <2>3. Cardinality(ClosedTrades \ ids) = Cardinality(ClosedTrades \ (ids \cup {i})) + 1
    BY <2>2, FS_AddElement
  <2>4. Cardinality(ClosedTrades \ (ids \cup {i})) \in Nat /\ faults \in Nat
    BY <2>2, FS_CardinalityType DEF TypeOK
  <2>5. Cardinality(ClosedTrades \ ids) <= faults + 1
    BY <2>1, <2>3, <2>4
  <2> QED
    BY <1>1, <1>3, <2>5
<1> QED
  BY <1>2, <1>3

(* A step that writes no closed trade, no sum over them and no balance.    *)
LEMMA BooksKept ==
    ASSUME TypeOK, Tallied, BalanceFollows, faults' \in Nat,
           ClosedTrades' = ClosedTrades,
           \A i \in ClosedTrades : /\ i \in DOMAIN db'.trades
                                   /\ db'.trades[i].net = db.trades[i].net
                                   /\ db'.trades[i].day = db.trades[i].day,
           db'.pnl = db.pnl, db'.account.profit = db.account.profit,
           book'.balance = book.balance,
           \/ ~Doing("realize") /\ ~Doing("realize")' /\ faults' >= faults
           \/ ~Doing("realize")' /\ faults' = faults + 1
           \/ UNCHANGED <<agenda, faults>>
    PROVE  Tallied' /\ BalanceFollows'
<1>1. ClosedTrades \subseteq DOMAIN db.trades /\ ClosedTrades \subseteq DOMAIN db'.trades
  BY NetsTyped
<1>2. \A ids \in SUBSET ClosedTrades : Nets(ids)' = Nets(ids)
  BY <1>1, NetsKept
<1>3. \A d : (ClosedTrades \cap TradesOf(d))' = ClosedTrades \cap TradesOf(d)
  BY <1>1 DEF TradesOf
<1>4. Tallied'
  <2>1. db'.account.profit = Nets(ClosedTrades)'
    BY <1>2 DEF Tallied
  <2>2. \A d \in 0..MaxDay : db'.pnl[d] = Nets(ClosedTrades \cap TradesOf(d))'
    BY <1>2, <1>3 DEF Tallied
  <2> QED
    BY <2>1, <2>2 DEF Tallied
<1>5. BalanceFollows'
  <2>1. PICK ids \in SUBSET ClosedTrades :
           /\ book.balance = Deposit + Nets(ids)
           /\ \/ ~Doing("realize") /\ Cardinality(ClosedTrades \ ids) <= faults
              \/ /\ Doing("realize")
                 /\ \E i \in ClosedTrades \ ids :
                       /\ db.trades[i].net = Op.net
                       /\ Cardinality(ClosedTrades \ (ids \cup {i})) <= faults
    BY DEF BalanceFollows
  <2>2. book'.balance = Deposit + Nets(ids)'
    BY <1>2, <2>1
  <2>3. IsFiniteSet(ClosedTrades \ ids)
    BY NetsTyped, FS_Subset
  <2>4. Cardinality(ClosedTrades \ ids) \in Nat /\ faults \in Nat
    BY <2>3, FS_CardinalityType DEF TypeOK
  <2>5. CASE ~Doing("realize") /\ ~Doing("realize")' /\ faults' >= faults
    <3>1. Cardinality(ClosedTrades \ ids) <= faults'
      BY <2>1, <2>4, <2>5
    <3> QED
      BY <2>2, <2>5, <3>1 DEF BalanceFollows
  <2>6. CASE ~Doing("realize")' /\ faults' = faults + 1
    <3>1. Cardinality(ClosedTrades \ ids) <= faults + (IF Doing("realize") THEN 1 ELSE 0)
      <4>1. CASE ~Doing("realize")
        BY <2>1, <2>4, <4>1
      <4>2. CASE Doing("realize")
        <5>1. PICK i \in ClosedTrades \ ids : Cardinality(ClosedTrades \ (ids \cup {i})) <= faults
          BY <2>1, <4>2
        <5>2. /\ IsFiniteSet(ClosedTrades \ (ids \cup {i}))
              /\ i \notin ClosedTrades \ (ids \cup {i})
              /\ (ClosedTrades \ (ids \cup {i})) \cup {i} = ClosedTrades \ ids
          BY <2>3, NetsTyped, FS_Subset
        <5>3. Cardinality(ClosedTrades \ ids) = Cardinality(ClosedTrades \ (ids \cup {i})) + 1
          BY <5>2, FS_AddElement
        <5>4. Cardinality(ClosedTrades \ (ids \cup {i})) \in Nat
          BY <5>2, FS_CardinalityType
        <5> QED
          BY <2>4, <4>2, <5>1, <5>3, <5>4
      <4> QED
        BY <4>1, <4>2
    <3>2. Cardinality(ClosedTrades \ ids) <= faults'
      BY <2>4, <2>6, <3>1
    <3> QED
      BY <2>2, <2>6, <3>2 DEF BalanceFollows
  <2>7. CASE UNCHANGED <<agenda, faults>>
    <3>1. Doing("realize")' = Doing("realize") /\ Op' = Op
      BY <2>7 DEF Doing, Op
    <3>2. \A i \in ClosedTrades : db'.trades[i].net = db.trades[i].net
      OBVIOUS
    <3> QED
      BY <2>1, <2>2, <2>7, <3>1, <3>2 DEF BalanceFollows
  <2> QED
    BY <2>5, <2>6, <2>7
<1> QED
  BY <1>4, <1>5

(* A booked outcome reaches the account, its day and, next, the broker.    *)
LEMMA BooksFinalized ==
    ASSUME LifeInv, TypeOK', Tallied, BalanceFollows, Finalize, Finalized
    PROVE  Tallied' /\ BalanceFollows'
<1>1. agenda # <<>> /\ TypeOK /\ Op.do = "finalize" /\ OnTrade(Op) /\ ~Doing("realize")
  BY DEF Finalize, LifeInv, Doing, Op, OnTrade
<1>2. PICK i \in Open(db) : Op.trade = i
  BY <1>1, HeadTrade
<1>3. PICK net \in Int : Outcome = net /\ FinalizedRows(i, net)
  BY <1>1, <1>2, FinalizedTables DEF Finalized
<1>4. i \in DOMAIN db.trades /\ i \notin ClosedTrades
  BY <1>2 DEF Open, ClosedTrades
<1>5. /\ DOMAIN db'.trades = DOMAIN db.trades
      /\ \A j \in DOMAIN db.trades : /\ db'.trades[j].day = db.trades[j].day
                                     /\ j # i => /\ db'.trades[j].net = db.trades[j].net
                                                 /\ db'.trades[j].open = db.trades[j].open
      /\ db'.trades[i].net = net /\ ~db'.trades[i].open
      /\ db'.pnl = [db.pnl EXCEPT ![db.trades[i].day] = @ + net]
      /\ db'.account.profit = db.account.profit + net
  BY <1>3, <1>4 DEF FinalizedRows, SameRow
<1>6. ClosedTrades' = ClosedTrades \cup {i} /\ \A d : TradesOf(d)' = TradesOf(d)
  BY <1>4, <1>5 DEF ClosedTrades, Open, TradesOf
<1>7. \A ids \in SUBSET ClosedTrades : Nets(ids)' = Nets(ids) /\ Nets(ids) \in Int
                                       /\ Nets(ids \cup {i})' = net + Nets(ids)
  <2> SUFFICES ASSUME NEW ids \in SUBSET ClosedTrades
               PROVE  Nets(ids)' = Nets(ids) /\ Nets(ids) \in Int
                      /\ Nets(ids \cup {i})' = net + Nets(ids)
    OBVIOUS
  <2>1. ids \in SUBSET DOMAIN db.trades /\ i \notin ids
    BY <1>1, <1>4, NetsTyped
  <2>2. Nets(ids)' = Nets(ids) /\ Nets(ids) \in Int
    BY <1>1, <1>5, <2>1, NetsKept, NetsTyped
  <2>3. i \in DOMAIN db.trades \ ids
    BY <1>4, <2>1
  <2>4. \A j \in ids : db'.trades[j].net = db.trades[j].net
    BY <1>5, <2>1
  <2>5. Nets(ids \cup {i})' = net + Nets(ids)
    BY <1>1, <1>5, <2>1, <2>3, <2>4, NetsAddNext
  <2> QED
    BY <2>2, <2>5
<1>8. Tallied'
  <2>1. db.account.profit = Nets(ClosedTrades) /\ Nets(ClosedTrades) \in Int
    BY <1>7 DEF Tallied
  <2>2. db'.account.profit = Nets(ClosedTrades)'
    <3>1. PICK closed \in SUBSET ClosedTrades : closed = ClosedTrades
      OBVIOUS
    <3>2. ClosedTrades' = closed \cup {i}
      BY <1>6, <3>1
    <3>3. Nets(closed \cup {i})' = net + Nets(closed)
      BY <1>7
    <3>4. db.account.profit = Nets(closed) /\ Nets(closed) \in Int
      BY <2>1, <3>1
    <3>5. db'.account.profit = Nets(closed \cup {i})'
      BY <1>5, <3>3, <3>4
    <3> QED
      BY <3>2, <3>5
  <2>3. ASSUME NEW d \in 0..MaxDay
        PROVE  db'.pnl[d] = Nets(ClosedTrades \cap TradesOf(d))'
    <3>1. db.pnl \in [0..MaxDay -> Int]
      BY <1>1, Parts
    <3>2. PICK ids \in SUBSET ClosedTrades : ids = ClosedTrades \cap TradesOf(d)
      OBVIOUS
    <3>3. db.pnl[d] = Nets(ids) /\ Nets(ids) \in Int
      BY <1>7, <3>2 DEF Tallied
    <3>4. CASE db.trades[i].day = d
      <4>1. (ClosedTrades \cap TradesOf(d))' = ids \cup {i}
        BY <1>4, <1>6, <3>2, <3>4, ZenonT(30) DEF TradesOf
      <4>2. db'.pnl[d] = db.pnl[d] + net
        BY <1>5, <3>1, <3>4
      <4>3. Nets(ids \cup {i})' = net + Nets(ids)
        BY <1>7
      <4>4. db'.pnl[d] = Nets(ids \cup {i})'
        BY <3>3, <4>2, <4>3
      <4> QED
        BY <4>1, <4>4
    <3>5. CASE db.trades[i].day # d
      <4>1. (ClosedTrades \cap TradesOf(d))' = ids
        BY <1>4, <1>6, <3>2, <3>5 DEF TradesOf
      <4>2. db'.pnl[d] = db.pnl[d]
        BY <1>5, <3>1, <3>5
      <4>3. db'.pnl[d] = Nets(ids)'
        BY <1>7, <3>3, <4>2
      <4> QED
        BY <4>1, <4>3
    <3> QED
      BY <3>4, <3>5
  <2> QED
    BY <2>2, <2>3 DEF Tallied
<1>9. BalanceFollows'
  <2>1. PICK ids \in SUBSET ClosedTrades :
           book.balance = Deposit + Nets(ids) /\ Cardinality(ClosedTrades \ ids) <= faults
    BY <1>1 DEF BalanceFollows
  <2>2. book'.balance = Deposit + Nets(ids)' /\ faults' = faults
    BY <1>7, <2>1 DEF Finalized
  <2>3. ids \in SUBSET ClosedTrades' /\ i \in ClosedTrades' \ ids
        /\ ClosedTrades' \ (ids \cup {i}) = ClosedTrades \ ids
    BY <1>4, <1>6
  <2>4. Doing("realize")' /\ Op'.net = net
    <3>1. agenda' = <<[do |-> "realize", net |-> net, by |-> Op.by]>> \o Tail(agenda)
      BY <1>3 DEF Finalized, Then
    <3>2. agenda' # <<>> /\ Head(agenda') = [do |-> "realize", net |-> net, by |-> Op.by]
      BY <1>1, <3>1, Parts
    <3> QED
      BY <3>2 DEF Doing, Op
  <2>5. Cardinality(ClosedTrades' \ (ids \cup {i})) <= faults'
    BY <2>1, <2>2, <2>3
  <2>6. db'.trades[i].net = Op'.net
    BY <1>5, <2>4
  <2> QED
    BY <2>2, <2>3, <2>4, <2>5, <2>6 DEF BalanceFollows
<1> QED
  BY <1>8, <1>9

(* The broker's balance takes in the outcome that was just booked.         *)
LEMMA BooksRealized ==
    ASSUME LifeInv, Tallied, BalanceFollows, Realize
    PROVE  Tallied' /\ BalanceFollows'
<1>1. agenda # <<>> /\ TypeOK /\ Doing("realize") /\ UNCHANGED <<db, faults>>
      /\ book' = [book EXCEPT !.balance = @ + Op.net]
  BY DEF Realize, LifeInv, Doing
<1>2. ClosedTrades' = ClosedTrades /\ (\A ids : Nets(ids)' = Nets(ids))
      /\ \A d : TradesOf(d)' = TradesOf(d)
  BY <1>1 DEF ClosedTrades, Open, Nets, TradesOf
<1>3. Tallied'
  BY <1>1, <1>2 DEF Tallied
<1>4. PICK ids \in SUBSET ClosedTrades, i \in ClosedTrades : i \notin ids /\
         /\ book.balance = Deposit + Nets(ids)
         /\ db.trades[i].net = Op.net
         /\ Cardinality(ClosedTrades \ (ids \cup {i})) <= faults
  BY <1>1 DEF BalanceFollows
<1>5. ids \in SUBSET DOMAIN db.trades /\ i \in DOMAIN db.trades \ ids
      /\ Nets(ids) \in Int /\ db.trades[i].net \in Int
  BY <1>1, <1>4, NetsTyped
<1>6. Nets(ids \cup {i}) = db.trades[i].net + Nets(ids)
  BY <1>1, <1>5, NetsAdd
<1>7. book'.balance = book.balance + Op.net
  <2>1. book \in State
    BY <1>1 DEF TypeOK
  <2> QED
    BY <1>1, <2>1 DEF State
<1>8. book'.balance = Deposit + Nets(ids \cup {i})
  <2>1. Deposit \in Int
    BY ExecutionAssumption
  <2> QED
    BY <1>4, <1>5, <1>6, <1>7, <2>1
<1>9. Settled'
  BY RealizeStep
<1>10. ids \cup {i} \in SUBSET ClosedTrades
  OBVIOUS
<1>11. BalanceFollows'
  BY <1>1, <1>2, <1>4, <1>8, <1>9, <1>10 DEF BalanceFollows, Settled
<1> QED
  BY <1>3, <1>11

(* Before anything was traded the books balance.                           *)
LEMMA BookInit == Init => BookInv
<1> SUFFICES ASSUME Init PROVE BookInv
  OBVIOUS
<1>1. LifeInv /\ TypeOK
  BY LifeInit DEF LifeInv
<1>2. /\ db.trades = <<>> /\ db.account.profit = 0 /\ db.pnl = [d \in 0..MaxDay |-> 0]
      /\ book.balance = Deposit /\ agenda = <<>> /\ faults = 0
  BY DEF Init, NoOutcomes
<1>3. ClosedTrades = {} /\ \A d : ClosedTrades \cap TradesOf(d) = {}
  BY <1>2 DEF ClosedTrades
<1>4. Nets({}) = 0
  BY SumEmpty DEF Nets
<1>5. Tallied
  BY <1>2, <1>3, <1>4 DEF Tallied
<1>6. BalanceFollows
  <2>1. ~Doing("realize")
    BY <1>2 DEF Doing
  <2>2. book.balance = Deposit + Nets({})
    BY <1>2, <1>4, ExecutionAssumption
  <2>3. Cardinality(ClosedTrades \ {}) <= faults
    BY <1>2, <1>3, FS_EmptySet
  <2> QED
    BY <2>1, <2>2, <2>3 DEF BalanceFollows
<1> QED
  BY <1>1, <1>5, <1>6 DEF BookInv

(* Every step keeps the books.                                             *)
LEMMA BookStep ==
    ASSUME BookInv, [Next]_vars
    PROVE  BookInv'
<1>1. LifeInv /\ TypeOK /\ Tallied /\ BalanceFollows /\ LifeInv' /\ TypeOK' /\ faults' \in Nat /\ faults \in Nat
  BY LifeStep DEF BookInv, LifeInv, TypeOK
<1>2. ASSUME Kept
      PROVE  /\ ClosedTrades' = ClosedTrades
             /\ \A i \in ClosedTrades : /\ i \in DOMAIN db'.trades
                                        /\ db'.trades[i].net = db.trades[i].net
                                        /\ db'.trades[i].day = db.trades[i].day
             /\ db'.pnl = db.pnl /\ db'.account.profit = db.account.profit
             /\ book'.balance = book.balance /\ faults' >= faults
  BY <1>1, <1>2 DEF Kept, SameRow, ClosedTrades, Open
<1>3. CASE Kept /\ Settled' /\ (~Doing("realize") \/ faults' = faults + 1)
  BY <1>1, <1>2, <1>3, BooksKept DEF BookInv, Settled
<1>4. CASE Kept /\ UNCHANGED <<agenda, faults, clock>>
  BY <1>1, <1>2, <1>4, BooksKept DEF BookInv
<1>5. ASSUME Kept, NEW stop \in Stops, Submit(stop)
      PROVE  BookInv'
  <2>1. ~Doing("realize") /\ ~Doing("realize")'
    <3>1. ~Doing("realize")
      BY <1>5, DoesOne DEF Submit
    <3>2. \E op : op.do = "record" /\ agenda' = <<op>> \o Tail(agenda) /\ agenda # <<>>
      BY <1>5 DEF Submit, Then, Doing
    <3>3. Doing("record")'
      BY <1>1, <3>2, Parts DEF Doing
    <3> QED
      BY <3>1, <3>3 DEF Doing
  <2> QED
    BY <1>1, <1>2, <1>5, <2>1, BooksKept DEF BookInv
<1>6. CASE Record /\ Recorded
  <2>1. agenda # <<>> /\ Op.do = "record" /\ ~Doing("realize")
    BY <1>6, DoesOne DEF Record, Doing, Op
  <2>2. RecordedRows
    BY <1>1, <1>6, <2>1, RecordedTables
  <2>3. ~Doing("realize")' /\ book' = book /\ faults' = faults
    BY <1>1, <1>6, RecordStep DEF Recorded, Settled
  <2>4. db'.trades[Len(db.trades) + 1].open
    BY <2>2 DEF RecordedRows, NewTrade
  <2>5. ClosedTrades' = ClosedTrades
    BY <2>2, <2>4 DEF RecordedRows, SameRow, ClosedTrades, Open
  <2>6. \A i \in ClosedTrades : /\ i \in DOMAIN db'.trades
                                /\ db'.trades[i].net = db.trades[i].net
                                /\ db'.trades[i].day = db.trades[i].day
    BY <2>2 DEF RecordedRows, SameRow, ClosedTrades
  <2>7. db'.pnl = db.pnl /\ db'.account = db.account
    BY <2>2 DEF RecordedRows
  <2> QED
    BY <1>1, <2>1, <2>3, <2>5, <2>6, <2>7, BooksKept DEF BookInv
<1>7. CASE Finalize /\ Finalized
  BY <1>1, <1>7, BooksFinalized DEF BookInv
<1>8. CASE Realize
  BY <1>1, <1>8, BooksRealized DEF BookInv
<1> QED
  BY <1>1, <1>3, <1>4, <1>5, <1>6, <1>7, <1>8, StepKinds

(* The invariant of the books always holds.                                *)
LEMMA BookInvariant == Spec => []BookInv
<1>1. BookInv /\ [Next]_vars => BookInv'
  BY BookStep
<1> QED
  BY <1>1, BookInit, PTL DEF Spec

(* Whatever failed or was retried, the account's profit is the sum of the  *)
(* closed trades, each day's row the sum of the trades opened on it, no    *)
(* outcome moved the broker's balance twice, and it lacks at most one      *)
(* outcome per fault (_finalize_trade, realize_pnl).                       *)
THEOREM BooksAlwaysBalance == Spec => []BooksBalance
<1>1. BookInv => BooksBalance
  <2> SUFFICES ASSUME BookInv PROVE BooksBalance
    OBVIOUS
  <2>1. TypeOK /\ Tallied /\ BalanceFollows
    BY DEF BookInv, LifeInv
  <2> QED
    BY <2>1, BalanceLacks DEF BooksBalance, Tallied
<1> QED
  BY <1>1, BookInvariant, PTL

(***************************************************************************)
(* The limit on a day's loss                                               *)
(***************************************************************************)

(* Values that are not positive add up to nothing positive.                *)
LEMMA SumNotPositive ==
    ASSUME NEW f, NEW S, IsFiniteSet(S), \A x \in S : f[x] \in Int /\ f[x] <= 0
    PROVE  SumFunctionOnSet(f, S) <= 0
<1> DEFINE Good == {T \in SUBSET S : SumFunctionOnSet(f, T) <= 0}
<1>1. {} \in Good
  BY SumEmpty
<1>2. ASSUME NEW T \in SUBSET S, NEW x \in S \ T, T \in Good PROVE T \cup {x} \in Good
  <2>1. IsFiniteSet(T)
    BY FS_Subset
  <2>2. SumFunctionOnSet(f, T) \in Int
    BY <2>1, SumInt
  <2>3. SumFunctionOnSet(f, T \cup {x}) = f[x] + SumFunctionOnSet(f, T)
    BY <2>1, SumAdd
  <2> QED
    BY <1>2, <2>2, <2>3
<1> HIDE DEF Good
<1>3. S \in Good
  BY <1>1, <1>2, SetInduction
<1> QED
  BY <1>3 DEF Good

(* What a trade lost of what it was admitted with is an integer.           *)
LEMMA WorstInt ==
    ASSUME NEW t \in Trade
    PROVE  Worst(t) \in Int /\ AtRisk(t) \in Int
<1>1. Entry \in Int /\ t.initial \in Int /\ t.net \in Int
  BY ExecutionAssumption DEF Trade
<1> QED
  BY <1>1 DEF Worst, AtRisk, Larger

LEMMA WorstTyped ==
    ASSUME TypeOK
    PROVE  /\ \A i \in DOMAIN db.trades : /\ db.trades[i] \in Trade
                                          /\ Worst(db.trades[i]) \in Int
           /\ \A d : TradesOf(d) \subseteq DOMAIN db.trades /\ IsFiniteSet(TradesOf(d))
           /\ \A d : WorstOf(d) \in Int
<1>1. \A i \in DOMAIN db.trades : db.trades[i] \in Trade
  BY Parts, Element
<1>2. \A i \in DOMAIN db.trades : Worst(db.trades[i]) \in Int
  BY <1>1, WorstInt
<1>3. \A d : TradesOf(d) \subseteq DOMAIN db.trades
  BY DEF TradesOf
<1>4. \A d : IsFiniteSet(TradesOf(d))
  BY <1>3, NetsTyped, FS_Subset
<1>5. ASSUME NEW d PROVE WorstOf(d) \in Int
  <2>1. PICK f : f = [i \in DOMAIN db.trades |-> Worst(db.trades[i])]
    OBVIOUS
  <2>2. \A i \in TradesOf(d) : f[i] \in Int
    BY <1>2, <1>3, <2>1
  <2>3. SumFunctionOnSet(f, TradesOf(d)) \in Int
    BY <1>4, <2>2, SumInt
  <2> QED
    BY <2>1, <2>3 DEF WorstOf
<1> QED
  BY <1>1, <1>2, <1>3, <1>4, <1>5

(* Trades of which none is worse than before are no worse in sum.          *)
LEMMA WorstGrows ==
    ASSUME TypeOK, TypeOK', DOMAIN db'.trades = DOMAIN db.trades,
           \A i \in DOMAIN db.trades : /\ db'.trades[i].day = db.trades[i].day
                                       /\ Worst(db.trades[i]) <= Worst(db'.trades[i])
    PROVE  \A d : /\ TradesOf(d)' = TradesOf(d) /\ WorstOf(d) <= WorstOf(d)'
                  /\ WorstOf(d)' \in Int
<1>1. \A d : TradesOf(d)' = TradesOf(d)
  BY DEF TradesOf
<1>2. ASSUME NEW d PROVE WorstOf(d) <= WorstOf(d)' /\ WorstOf(d)' \in Int
  <2>1. PICK f : f = [i \in DOMAIN db.trades |-> Worst(db.trades[i])]
    OBVIOUS
  <2>2. PICK g : g = [i \in DOMAIN db'.trades |-> Worst(db'.trades[i])]
    OBVIOUS
  <2>3. PICK S \in SUBSET DOMAIN db.trades : S = TradesOf(d) /\ IsFiniteSet(S)
    BY WorstTyped
  <2>4. \A i \in DOMAIN db'.trades : Worst(db'.trades[i]) \in Int
    <3>1. db'.trades \in Seq(Trade)
      BY DEF TypeOK, Tables
    <3>2. \A i \in DOMAIN db'.trades : db'.trades[i] \in Trade
      BY <3>1, Element
    <3> QED
      BY <3>2, WorstInt
  <2>5. \A i \in S : f[i] \in Int /\ g[i] \in Int /\ f[i] <= g[i]
    BY <2>1, <2>2, <2>3, <2>4, WorstTyped
  <2>6. SumFunctionOnSet(f, S) <= SumFunctionOnSet(g, S) /\ SumFunctionOnSet(g, S) \in Int
    BY <2>3, <2>5, SumAtMost, SumInt
  <2> QED
    BY <1>1, <2>1, <2>2, <2>3, <2>6 DEF WorstOf
<1> QED
  BY <1>1, <1>2

(* What is projected for the day counts every open trade at its initial    *)
(* stop, so no day ends worse than that.                                   *)
LEMMA ProjectedIsEnough ==
    ASSUME BookInv, Admitted, NEW stop \in Stops
    PROVE  /\ Projected(stop) <= WorstOf(clock.day) - (Entry - stop)
           /\ Projected(stop) \in Int
<1>1. TypeOK /\ Tallied
  BY DEF BookInv, LifeInv
<1>2. PICK d \in 0..MaxDay : clock.day = d
  BY <1>1 DEF TypeOK
<1>3. PICK atRisk : atRisk = [i \in Open(db) |-> db.trades[i].entry - db.trades[i].initial]
  OBVIOUS
<1>4. PICK w : w = [i \in DOMAIN db.trades |-> Worst(db.trades[i])]
  OBVIOUS
<1>5. PICK neg : neg = [i \in Open(db) |-> -(db.trades[i].entry - db.trades[i].initial)]
  OBVIOUS
<1>6. PICK net : net = [i \in DOMAIN db.trades |-> db.trades[i].net]
  OBVIOUS
<1> DEFINE ours == TradesOf(d)
           o == Open(db) \cap ours
           c == ClosedTrades \cap ours
           other == Open(db) \ ours
<1>7. /\ IsFiniteSet(Open(db)) /\ IsFiniteSet(o) /\ IsFiniteSet(c) /\ IsFiniteSet(other)
      /\ o \cap c = {} /\ o \cup c = ours /\ o \cap other = {} /\ o \cup other = Open(db)
      /\ o \subseteq DOMAIN db.trades /\ c \subseteq DOMAIN db.trades
      /\ other \subseteq DOMAIN db.trades /\ Open(db) \subseteq DOMAIN db.trades
      /\ o \subseteq Open(db) /\ c \subseteq ClosedTrades /\ other \subseteq Open(db)
  <2>1. Open(db) \subseteq DOMAIN db.trades /\ ours \subseteq DOMAIN db.trades
    BY DEF Open, TradesOf
  <2>2. o \cap c = {} /\ o \cup c = ours
    BY <2>1 DEF ClosedTrades
  <2>3. c \subseteq DOMAIN db.trades
    BY <2>1
  <2> QED
    BY <1>1, <2>1, <2>2, <2>3, NetsTyped, FS_Subset
<1> HIDE DEF ours, o, c, other
<1>8. Slip \in Int /\ Slip >= 0 /\ Entry \in Int /\ stop \in Int /\ stop < Entry
  BY SlipAssumption, ExecutionAssumption
<1>9. \A i \in DOMAIN db.trades : /\ Worst(db.trades[i]) \in Int /\ db.trades[i].net \in Int
                                  /\ db.trades[i].initial \in Int /\ db.trades[i].entry = Entry + Slip
                                  /\ db.trades[i].initial < Entry
  <2>1. \A i \in DOMAIN db.trades : Worst(db.trades[i]) \in Int /\ db.trades[i].net \in Int
    BY <1>1, WorstTyped, NetsTyped
  <2>2. \A i \in DOMAIN db.trades : db.trades[i].initial \in Stops /\ db.trades[i].entry = Entry + Slip
    BY DEF Admitted, Fill, Filled
  <2> QED
    BY <2>1, <2>2, ExecutionAssumption, SMTT(30)
<1>10. \A i \in Open(db) : /\ neg[i] \in Int /\ neg[i] <= 0 /\ w[i] \in Int /\ neg[i] <= w[i]
                           /\ atRisk[i] \in Int /\ neg[i] = -atRisk[i]
  <2> SUFFICES ASSUME NEW i \in Open(db)
               PROVE  /\ neg[i] \in Int /\ neg[i] <= 0 /\ w[i] \in Int /\ neg[i] <= w[i]
                      /\ atRisk[i] \in Int /\ neg[i] = -atRisk[i]
    OBVIOUS
  <2>1. i \in DOMAIN db.trades /\ db.trades[i].open
    BY DEF Open
  <2>2. PICK a \in Int : db.trades[i].initial = a
    BY <1>9, <2>1
  <2>3. w[i] = -(Entry - a)
    BY <1>4, <2>1, <2>2 DEF Worst, AtRisk
  <2>4. neg[i] = -((Entry + Slip) - a) /\ atRisk[i] = (Entry + Slip) - a /\ a < Entry
    <3>1. db.trades[i].entry = Entry + Slip /\ a < Entry
      BY <1>9, <2>1, <2>2
    <3>2. /\ neg[i] = -(db.trades[i].entry - db.trades[i].initial)
          /\ atRisk[i] = db.trades[i].entry - db.trades[i].initial
      BY <1>3, <1>5
    <3>3. neg[i] = -((Entry + Slip) - a)
      BY <2>2, <3>1, <3>2, Zenon
    <3>4. atRisk[i] = (Entry + Slip) - a
      BY <2>2, <3>1, <3>2, Zenon
    <3> QED
      BY <3>1, <3>3, <3>4
  <2> QED
    BY <1>8, <2>3, <2>4
<1>11. \A i \in c : w[i] \in Int /\ net[i] \in Int /\ net[i] <= w[i]
  <2> SUFFICES ASSUME NEW i \in c
               PROVE  w[i] \in Int /\ net[i] \in Int /\ net[i] <= w[i]
    OBVIOUS
  <2>1. i \in DOMAIN db.trades /\ ~db.trades[i].open
    BY <1>7 DEF ClosedTrades, Open
  <2>2. db.trades[i].net \in Int /\ AtRisk(db.trades[i]) \in Int
    BY <1>8, <1>9, <2>1 DEF AtRisk
  <2>3. Worst(db.trades[i]) = Larger(db.trades[i].net, -AtRisk(db.trades[i]))
    BY <2>1 DEF Worst
  <2>4. db.trades[i].net <= Larger(db.trades[i].net, -AtRisk(db.trades[i]))
    BY <2>2 DEF Larger
  <2> QED
    BY <1>4, <1>6, <1>9, <2>1, <2>3, <2>4
<1>12. db.pnl[d] = SumFunctionOnSet(net, c) /\ db.pnl[d] \in Int
  <2>1. db.pnl[d] = Nets(c) /\ db.pnl[d] \in Int
    BY <1>1, Parts DEF Tallied, c, ours
  <2> QED
    BY <1>6, <2>1 DEF Nets
<1>13. SumFunctionOnSet(net, c) <= SumFunctionOnSet(w, c) /\ SumFunctionOnSet(w, c) \in Int
  BY <1>7, <1>11, SumAtMost, SumInt
<1>14. /\ SumFunctionOnSet(neg, o) <= SumFunctionOnSet(w, o)
       /\ SumFunctionOnSet(w, o) \in Int /\ SumFunctionOnSet(neg, o) \in Int
  <2>1. \A i \in o : neg[i] \in Int /\ w[i] \in Int /\ neg[i] <= w[i]
    BY <1>7, <1>10
  <2> QED
    BY <1>7, <2>1, SumAtMost, SumInt
<1>15. SumFunctionOnSet(neg, other) <= 0 /\ SumFunctionOnSet(neg, other) \in Int
  <2>1. \A i \in other : neg[i] \in Int /\ neg[i] <= 0
    BY <1>7, <1>10
  <2> QED
    BY <1>7, <2>1, SumNotPositive, SumInt
<1>16. SumFunctionOnSet(neg, Open(db)) = SumFunctionOnSet(neg, o) + SumFunctionOnSet(neg, other)
  <2>1. \A i \in other \cup o : neg[i] \in Int
    BY <1>7, <1>10
  <2> QED
    BY <1>7, <2>1, SumUnion
<1>17. SumFunctionOnSet(neg, Open(db)) = -SumFunction(atRisk) /\ SumFunction(atRisk) \in Int
  <2>1. SumFunctionOnSet(neg, Open(db)) = -SumFunctionOnSet(atRisk, Open(db))
    BY <1>7, <1>10, SumNegated
  <2>2. SumFunctionOnSet(atRisk, Open(db)) \in Int
    BY <1>7, <1>10, SumInt
  <2>3. DOMAIN atRisk = Open(db)
    BY <1>3
  <2> QED
    BY <2>1, <2>2, <2>3 DEF SumFunction
<1>18. WorstOf(d) = SumFunctionOnSet(w, o) + SumFunctionOnSet(w, c)
  <2>1. \A i \in c \cup o : w[i] \in Int
    BY <1>7, <1>10, <1>11
  <2>2. SumFunctionOnSet(w, o \cup c) = SumFunctionOnSet(w, o) + SumFunctionOnSet(w, c)
    BY <1>7, <2>1, SumUnion
  <2> QED
    BY <1>4, <1>7, <2>2 DEF WorstOf, ours
<1>19. PICK least \in Int : Min({db.pnl[d], risk.realized}) = least /\ least <= db.pnl[d]
  <2>1. risk.realized \in Int
    BY <1>1 DEF TypeOK
  <2>2. \A a, b \in Int : Min({a, b}) = IF a <= b THEN a ELSE b
    BY DEF Min
  <2> QED
    BY <1>12, <2>1, <2>2
<1>20. Projected(stop) = least - (Entry - stop) - SumFunction(atRisk)
  BY <1>2, <1>3, <1>19 DEF Projected
<1> DEFINE worst == WorstOf(d)
           now == SumFunction(atRisk)
           a == SumFunctionOnSet(neg, o)
           b == SumFunctionOnSet(neg, other)
           x == SumFunctionOnSet(w, o)
           y == SumFunctionOnSet(w, c)
           p == db.pnl[d]
<1>21. /\ worst = x + y /\ p <= y /\ a <= x /\ b <= 0 /\ a + b = -now /\ least <= p
       /\ x \in Int /\ y \in Int /\ a \in Int /\ b \in Int /\ now \in Int /\ p \in Int
  BY <1>12, <1>13, <1>14, <1>15, <1>16, <1>17, <1>18, <1>19
<1> HIDE DEF worst, now, a, b, x, y, p
<1>22. /\ least - (Entry - stop) - now <= worst - (Entry - stop)
       /\ least - (Entry - stop) - now \in Int
  BY <1>8, <1>21
<1> QED
  BY <1>2, <1>20, <1>22 DEF worst, now

(* The limit holds before anything was traded.                             *)
LEMMA LossInit == Init => LossInv
<1> SUFFICES ASSUME Init PROVE LossInv
  OBVIOUS
<1>1. db.trades = <<>> /\ agenda = <<>>
  BY DEF Init
<1>2. Admitted
  BY <1>1 DEF Admitted, Doing
<1>3. DayLossBounded
  BY <1>1 DEF DayLossBounded, TradesOf
<1> QED
  BY <1>2, <1>3, BookInit DEF LossInv

(* A step at which no trade's outcome gets worse, nor is one recorded.     *)
LEMMA LossKept ==
    ASSUME LossInv, TypeOK', DOMAIN db'.trades = DOMAIN db.trades,
           \A i \in DOMAIN db.trades : /\ db'.trades[i].day = db.trades[i].day
                                       /\ db'.trades[i].entry = db.trades[i].entry
                                       /\ db'.trades[i].initial = db.trades[i].initial
                                       /\ Worst(db.trades[i]) <= Worst(db'.trades[i]),
           \/ ~Doing("record")'
           \/ UNCHANGED <<agenda, clock>>
           \/ /\ Doing("record")' /\ clock' = clock
              /\ WorstOf(clock.day) - (Entry - Op'.stop) > -LossLimit
              /\ Op'.stop \in Stops
    PROVE  Admitted' /\ DayLossBounded'
<1>1. TypeOK /\ Admitted /\ DayLossBounded
  BY DEF LossInv, BookInv, LifeInv
<1>2. \A d : /\ TradesOf(d)' = TradesOf(d) /\ WorstOf(d) <= WorstOf(d)'
             /\ WorstOf(d) \in Int
  BY <1>1, WorstGrows, WorstTyped
<1>3. \A d : WorstOf(d)' \in Int
  BY <1>1, WorstGrows
<1>4. LossLimit \in Int /\ Entry \in Int
  BY ExecutionAssumption
<1>5. DayLossBounded'
  <2> SUFFICES ASSUME NEW d \in 0..MaxDay, TradesOf(d)' # {}
               PROVE  WorstOf(d)' > -LossLimit
    BY DEF DayLossBounded
  <2>1. WorstOf(d) > -LossLimit
    BY <1>1, <1>2 DEF DayLossBounded
  <2> QED
    BY <1>2, <1>3, <1>4, <2>1
<1>6. Doing("record")' => WorstOf(clock.day)' - (Entry - Op'.stop) > -LossLimit
  <2> SUFFICES ASSUME Doing("record")'
               PROVE  WorstOf(clock.day)' - (Entry - Op'.stop) > -LossLimit
    OBVIOUS
  <2>1. /\ clock' = clock /\ Op'.stop \in Stops
        /\ WorstOf(clock.day) - (Entry - Op'.stop) > -LossLimit
    <3>1. CASE UNCHANGED <<agenda, clock>>
      <4>1. Doing("record") /\ Op' = Op /\ agenda # <<>> /\ Op.do = "record"
        BY <3>1 DEF Doing, Op
      <4>2. Op.stop \in Stops
        BY <1>1, <4>1, HeadOp
      <4> QED
        BY <1>1, <3>1, <4>1, <4>2 DEF Admitted
    <3> QED
      BY <3>1
  <2>2. PICK d : clock.day = d
    OBVIOUS
  <2>3. PICK stop \in Stops : Op'.stop = stop
    BY <2>1
  <2>4. stop \in Int
    BY ExecutionAssumption
  <2>5. WorstOf(d)' - (Entry - stop) > -LossLimit
    <3>1. WorstOf(d) - (Entry - stop) > -LossLimit
      BY <2>1, <2>2, <2>3
    <3>2. WorstOf(d) <= WorstOf(d)' /\ WorstOf(d) \in Int /\ WorstOf(d)' \in Int
      BY <1>2, <1>3
    <3> QED
      BY <1>4, <2>4, <3>1, <3>2
  <2>6. clock'.day = d
    BY <2>1, <2>2
  <2>7. WorstOf(clock.day)' = WorstOf(d)'
    BY <2>6
  <2> QED
    BY <2>3, <2>5, <2>7
<1>7. Admitted'
  <2>1. \A i \in DOMAIN db'.trades : db'.trades[i].entry = Fill /\ db'.trades[i].initial \in Stops
    BY <1>1 DEF Admitted
  <2> QED
    BY <1>6, <2>1 DEF Admitted
<1> QED
  BY <1>5, <1>7

(* The record of a trade adds what it was admitted with to its day.        *)
LEMMA LossRecorded ==
    ASSUME LossInv, TypeOK', Record, Recorded, ~Doing("record")'
    PROVE  Admitted' /\ DayLossBounded'
<1>1. agenda # <<>> /\ TypeOK /\ Op.do = "record" /\ Doing("record") /\ LifeInv
      /\ Admitted /\ DayLossBounded
  BY DEF Record, LossInv, BookInv, LifeInv, Doing, Op
<1>2. RecordedRows
  BY <1>1, RecordedTables
<1>3. PICK n : Len(db.trades) + 1 = n
  OBVIOUS
<1>4. PICK stop \in Stops : Op.stop = stop
  BY <1>1, HeadOp
<1>5. PICK day : clock.day = day
  OBVIOUS
<1>6. stop \in Int /\ Entry \in Int /\ LossLimit \in Int
  BY ExecutionAssumption
<1>7. /\ DOMAIN db'.trades = DOMAIN db.trades \cup {n} /\ n \notin DOMAIN db.trades
      /\ db'.trades[n] = NewTrade(Op.sym, Op.order, stop, day)
      /\ \A j \in DOMAIN db.trades : SameRow(db'.trades[j], db.trades[j])
  BY <1>2, <1>3, <1>4, <1>5 DEF RecordedRows
<1>8. /\ db'.trades[n].day = day /\ db'.trades[n].entry = Fill
      /\ db'.trades[n].initial = stop /\ Worst(db'.trades[n]) = -(Entry - stop)
  BY <1>7 DEF NewTrade, Worst, AtRisk
<1>9. \A j \in DOMAIN db.trades : /\ db'.trades[j].day = db.trades[j].day
                                  /\ db'.trades[j].entry = db.trades[j].entry
                                  /\ db'.trades[j].initial = db.trades[j].initial
                                  /\ Worst(db'.trades[j]) = Worst(db.trades[j])
  BY <1>7 DEF SameRow, Worst, AtRisk
<1>10. /\ TradesOf(day)' = TradesOf(day) \cup {n} /\ n \notin TradesOf(day)
       /\ \A d : d # day => TradesOf(d)' = TradesOf(d)
  BY <1>7, <1>8, <1>9 DEF TradesOf
<1>11. PICK f : f = [i \in DOMAIN db.trades |-> Worst(db.trades[i])]
  OBVIOUS
<1>12. PICK g : g = [i \in DOMAIN db'.trades |-> Worst(db'.trades[i])]
  OBVIOUS
<1>13. /\ \A d : TradesOf(d) \subseteq DOMAIN db.trades /\ IsFiniteSet(TradesOf(d))
       /\ \A i \in DOMAIN db.trades : f[i] \in Int /\ g[i] = f[i]
       /\ \A d : WorstOf(d) \in Int
  BY <1>1, <1>7, <1>9, <1>11, <1>12, WorstTyped
<1>14. g[n] = -(Entry - stop) /\ g[n] \in Int
  BY <1>6, <1>7, <1>8, <1>12
<1>15. \A d : SumFunctionOnSet(g, TradesOf(d)) = WorstOf(d)
  <2>1. ASSUME NEW d PROVE SumFunctionOnSet(g, TradesOf(d)) = SumFunctionOnSet(f, TradesOf(d))
    <3>1. IsFiniteSet(TradesOf(d)) /\ \A i \in TradesOf(d) : g[i] = f[i]
      BY <1>13
    <3> QED
      BY <3>1, SumSame
  <2> QED
    BY <1>11, <2>1 DEF WorstOf
<1>16. \A d : d # day => WorstOf(d)' = WorstOf(d)
  BY <1>10, <1>12, <1>15 DEF WorstOf
<1>17. WorstOf(day)' = WorstOf(day) - (Entry - stop)
  <2>1. PICK S : S = TradesOf(day) /\ IsFiniteSet(S) /\ n \notin S
    BY <1>10, <1>13
  <2>2. \A i \in S \cup {n} : g[i] \in Int
    BY <1>13, <1>14, <2>1
  <2>3. SumFunctionOnSet(g, S \cup {n}) = g[n] + SumFunctionOnSet(g, S)
    BY <2>1, <2>2, SumAdd
  <2>4. WorstOf(day)' = SumFunctionOnSet(g, S \cup {n})
    BY <1>10, <1>12, <2>1 DEF WorstOf
  <2>5. WorstOf(day)' = -(Entry - stop) + WorstOf(day)
    BY <1>14, <1>15, <2>1, <2>3, <2>4
  <2>6. WorstOf(day) \in Int
    BY <1>13
  <2> QED
    BY <1>6, <2>5, <2>6
<1>18. WorstOf(day) - (Entry - stop) > -LossLimit
  BY <1>1, <1>4, <1>5 DEF Admitted
<1>19. DayLossBounded'
  BY <1>1, <1>10, <1>16, <1>17, <1>18 DEF DayLossBounded
<1>20. Admitted'
  BY <1>1, <1>7, <1>8, <1>9 DEF Admitted
<1> QED
  BY <1>19, <1>20

(* Every step keeps the limit.                                             *)
LEMMA LossStep ==
    ASSUME LossInv, [Next]_vars
    PROVE  LossInv'
<1>1. LifeInv /\ TypeOK /\ BookInv /\ Admitted /\ LifeInv' /\ TypeOK' /\ BookInv'
  BY LifeStep, BookStep DEF LossInv, BookInv, LifeInv
<1>2. ASSUME Kept
      PROVE  /\ DOMAIN db'.trades = DOMAIN db.trades
             /\ \A i \in DOMAIN db.trades : /\ db'.trades[i].day = db.trades[i].day
                                            /\ db'.trades[i].entry = db.trades[i].entry
                                            /\ db'.trades[i].initial = db.trades[i].initial
                                            /\ Worst(db.trades[i]) <= Worst(db'.trades[i])
  <2>1. \A i \in DOMAIN db.trades : /\ db'.trades[i].day = db.trades[i].day
                                    /\ db'.trades[i].entry = db.trades[i].entry
                                    /\ db'.trades[i].initial = db.trades[i].initial
                                    /\ Worst(db.trades[i]) = Worst(db'.trades[i])
    BY <1>2 DEF Kept, SameRow, Worst, AtRisk
  <2>2. \A i \in DOMAIN db.trades : Worst(db.trades[i]) \in Int
    BY <1>1, WorstTyped
  <2> QED
    BY <1>2, <2>1, <2>2 DEF Kept
<1>3. CASE Kept /\ Settled'
  BY <1>1, <1>2, <1>3, LossKept DEF LossInv, Settled
<1>4. CASE Kept /\ UNCHANGED <<agenda, faults, clock>>
  BY <1>1, <1>2, <1>4, LossKept DEF LossInv
<1>5. ASSUME Kept, NEW stop \in Stops, Submit(stop)
      PROVE  LossInv'
  <2>1. PICK op : op.do = "record" /\ op.stop = stop /\ agenda' = <<op>> \o Tail(agenda)
    BY <1>5 DEF Submit, Then
  <2>2. agenda # <<>> /\ clock' = clock /\ Projected(stop) > -LossLimit
    BY <1>5 DEF Submit, Doing
  <2>3. Doing("record")' /\ Op'.stop = stop
    <3>1. agenda' # <<>> /\ Head(agenda') = op
      BY <1>1, <2>1, <2>2, Parts
    <3> QED
      BY <2>1, <3>1 DEF Doing, Op
  <2>4. WorstOf(clock.day) - (Entry - stop) > -LossLimit
    <3>1. Projected(stop) <= WorstOf(clock.day) - (Entry - stop)
      BY <1>1, ProjectedIsEnough
    <3>2. WorstOf(clock.day) \in Int /\ Entry \in Int /\ stop \in Int /\ LossLimit \in Int
      BY <1>1, WorstTyped, ExecutionAssumption
    <3>3. Projected(stop) \in Int
      BY <1>1, ProjectedIsEnough
    <3> QED
      BY <2>2, <3>1, <3>2, <3>3
  <2> QED
    BY <1>1, <1>2, <1>5, <2>2, <2>3, <2>4, LossKept DEF LossInv
<1>6. CASE Record /\ Recorded
  <2>1. ~Doing("record")'
    BY <1>1, <1>6, RecordStep DEF Settled
  <2> QED
    BY <1>1, <1>6, <2>1, LossRecorded DEF LossInv
<1>7. CASE Finalize /\ Finalized
  <2>1. agenda # <<>> /\ Op.do = "finalize" /\ OnTrade(Op)
    BY <1>7 DEF Finalize, Doing, Op, OnTrade
  <2>2. PICK i \in Open(db) : Op.trade = i
    BY <1>1, <2>1, HeadTrade
  <2>3. PICK net \in Int : Outcome = net /\ FinalizedRows(i, net)
    BY <1>1, <1>7, <2>1, <2>2, FinalizedTables DEF Finalized
  <2>4. i \in DOMAIN db.trades /\ db.trades[i].open
    BY <2>2 DEF Open
  <2>5. /\ DOMAIN db'.trades = DOMAIN db.trades
        /\ \A j \in DOMAIN db.trades : /\ db'.trades[j].day = db.trades[j].day
                                       /\ db'.trades[j].entry = db.trades[j].entry
                                       /\ db'.trades[j].initial = db.trades[j].initial
                                       /\ j # i => /\ db'.trades[j].open = db.trades[j].open
                                                   /\ db'.trades[j].net = db.trades[j].net
        /\ ~db'.trades[i].open /\ db'.trades[i].net = net
    BY <2>3, <2>4 DEF FinalizedRows, SameRow
  <2>6. \A j \in DOMAIN db.trades : Worst(db.trades[j]) <= Worst(db'.trades[j])
    <3> SUFFICES ASSUME NEW j \in DOMAIN db.trades
                 PROVE  Worst(db.trades[j]) <= Worst(db'.trades[j])
      OBVIOUS
    <3>1. Worst(db.trades[j]) \in Int /\ db.trades[j] \in Trade /\ AtRisk(db.trades[j]) \in Int
      BY <1>1, WorstTyped, WorstInt
    <3>2. AtRisk(db'.trades[j]) = AtRisk(db.trades[j])
      BY <2>5 DEF AtRisk
    <3>3. CASE j # i
      <4>1. Worst(db'.trades[j]) = Worst(db.trades[j])
        BY <2>5, <3>2, <3>3 DEF Worst
      <4> QED
        BY <3>1, <4>1
    <3>4. CASE j = i
      <4>1. Worst(db.trades[j]) = -AtRisk(db.trades[j])
        BY <2>4, <3>4 DEF Worst
      <4>2. Worst(db'.trades[j]) = Larger(net, -AtRisk(db.trades[j]))
        BY <2>5, <3>2, <3>4 DEF Worst
      <4>3. \A a \in Int : -a <= Larger(net, -a)
        BY DEF Larger
      <4> QED
        BY <3>1, <4>1, <4>2, <4>3
    <3> QED
      BY <3>3, <3>4
  <2>7. ~Doing("record")'
    <3>1. \E op : op.do = "realize" /\ agenda' = <<op>> \o Tail(agenda)
      BY <1>7 DEF Finalized, Then
    <3>2. Doing("realize")'
      BY <1>1, <2>1, <3>1, Parts DEF Doing
    <3> QED
      BY <3>2 DEF Doing
  <2> QED
    BY <1>1, <2>5, <2>6, <2>7, LossKept DEF LossInv
<1>8. CASE Realize
  <2>1. ~Doing("record")'
    BY <1>1, <1>8, RealizeStep DEF Settled
  <2>2. UNCHANGED db
    BY <1>8 DEF Realize
  <2>3. \A i \in DOMAIN db.trades : Worst(db.trades[i]) <= Worst(db'.trades[i])
    <3>1. \A i \in DOMAIN db.trades : Worst(db.trades[i]) \in Int
      BY <1>1, WorstTyped
    <3> QED
      BY <2>2, <3>1
  <2> QED
    BY <1>1, <2>1, <2>2, <2>3, LossKept DEF LossInv
<1> QED
  BY <1>1, <1>3, <1>4, <1>5, <1>6, <1>7, <1>8, StepKinds

(* A day's loss passes the limit by no more than its exits were worse than *)
(* the stops they were admitted with, for any number of symbols, trades    *)
(* and faults (process_signal's exposure gate).                            *)
THEOREM DayLossStaysBounded == Spec => []DayLossBounded
<1>1. LossInv /\ [Next]_vars => LossInv'
  BY LossStep
<1>2. LossInv => DayLossBounded
  BY DEF LossInv
<1> QED
  BY <1>1, <1>2, LossInit, PTL DEF Spec
==============================================================================
