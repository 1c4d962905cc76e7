-------------------------- MODULE InventoryProofs --------------------------
(***************************************************************************)
(* Theorems about Inventory for any products, prices, inputs and number of *)
(* overlapping repository calls: types, the row-lock discipline, sales     *)
(* that never oversell, rows that exist only once committed, a stock that  *)
(* is always what the movements add up to, and waits and calls that end.   *)
(***************************************************************************)
EXTENDS Inventory, FoldTheorems, TLAPS

-----------------------------------------------------------------------------
(* The two folds over the lines of a sale, as the last of a sequence of    *)
(* accumulators, one for each line.                                        *)

AddLine(a, l, p) == IF l.product = p THEN a + l.delta ELSE a

AddProduct(a, l) == IF Contains(a, l.product) THEN a ELSE Append(a, l.product)

IsNetFold(lines, p, g) ==
  g = [s \in SUBSET DOMAIN lines |->
         IF s = {} THEN 0 ELSE AddLine(g[s \ {Max(s)}], lines[Max(s)], p)]

IsProductFold(lines, g) ==
  g = [s \in SUBSET DOMAIN lines |->
         IF s = {} THEN <<>> ELSE AddProduct(g[s \ {Max(s)}], lines[Max(s)])]

LEMMA NetFoldExists ==
  ASSUME NEW lines \in Seq(Lines), NEW p
  PROVE  \E g : IsNetFold(lines, p, g)
<1> DEFINE n == Len(lines)
           F == [x \in (1 .. n) \X Int |-> AddLine(x[2], lines[x[1]], p)]
<1>1. \A k \in 1 .. n, a \in Int : AddLine(a, lines[k], p) \in Int
  <2>1. \A k \in 1 .. n : lines[k] \in Lines
    OBVIOUS
  <2>2. QED
    BY <2>1 DEF AddLine, Lines
<1>2. F \in [(1 .. n) \X Int -> Int]
  <2>1. \A x \in (1 .. n) \X Int : AddLine(x[2], lines[x[1]], p) \in Int
    BY <1>1
  <2>2. QED
    BY <2>1
<1>3. \A k \in 1 .. n, a \in Int : F[k, a] = AddLine(a, lines[k], p)
  OBVIOUS
<1>4. n \in Nat /\ DOMAIN lines = 1 .. n /\ 0 \in Int
  OBVIOUS
<1> HIDE DEF F, n
<1>5. PICK g \in [SUBSET (1 .. n) -> Int] : FoldsLeft(g, n, 0, F)
  BY <1>2, <1>4, FoldExists
<1>6. \A s \in SUBSET (1 .. n) : s # {} =>
        F[Max(s), g[s \ {Max(s)}]] = AddLine(g[s \ {Max(s)}], lines[Max(s)], p)
  <2>1. \A s \in SUBSET (1 .. n) : s # {} => Max(s) \in 1 .. n /\ g[s \ {Max(s)}] \in Int
    BY <1>4, <1>5, MaxIsMember
  <2>2. QED
    BY <1>3, <2>1
<1>7. g = [s \in SUBSET DOMAIN lines |->
             IF s = {} THEN 0 ELSE AddLine(g[s \ {Max(s)}], lines[Max(s)], p)]
  BY <1>4, <1>5, <1>6 DEF FoldsLeft
<1>8. QED
  BY <1>7 DEF IsNetFold

LEMMA NetAccumulates ==
  ASSUME NEW lines \in Seq(Lines), NEW p
  PROVE  \E a : /\ a[0] = 0
                /\ \A k \in 1 .. Len(lines) : a[k] = AddLine(a[k - 1], lines[k], p)
                /\ NetChange(lines, p) = a[Len(lines)]
<1> DEFINE g == CHOOSE g : IsNetFold(lines, p, g)
           a == [k \in 0 .. Len(lines) |-> g[1 .. k]]
<1>1. IsNetFold(lines, p, g)
  BY NetFoldExists
<1>2. NetChange(lines, p) = g[DOMAIN lines]
  BY DEF NetChange, FoldLeft, MapThenFoldSet, IsNetFold, AddLine
<1> HIDE DEF g
<1>3. Len(lines) \in Nat /\ DOMAIN lines = 1 .. Len(lines)
  OBVIOUS
<1>4. a[0] = 0
  <2>1. 1 .. 0 = {} /\ {} \in SUBSET DOMAIN lines
    OBVIOUS
  <2>2. g[{}] = 0
    BY <1>1, <2>1 DEF IsNetFold
  <2>3. QED
    BY <1>3, <2>1, <2>2
<1>5. ASSUME NEW k \in 1 .. Len(lines)
      PROVE  a[k] = AddLine(a[k - 1], lines[k], p)
  <2>1. 1 .. k \in SUBSET DOMAIN lines /\ 1 .. k # {}
    <3>1. 1 .. k \subseteq 1 .. Len(lines) /\ 1 \in 1 .. k
      BY <1>3
    <3>2. QED
      BY <1>3, <3>1
  <2>2. g[1 .. k] = AddLine(g[(1 .. k) \ {Max(1 .. k)}], lines[Max(1 .. k)], p)
    BY <1>1, <2>1 DEF IsNetFold
  <2>3. Max(1 .. k) = k /\ (1 .. k) \ {Max(1 .. k)} = 1 .. (k - 1)
    BY <1>3, MaxOfInterval
  <2>4. g[1 .. k] = AddLine(g[1 .. (k - 1)], lines[k], p)
    BY <2>2, <2>3
  <2>5. QED
    BY <1>3, <2>4
<1>6. a[Len(lines)] = g[DOMAIN lines]
  BY <1>3
<1>7. QED
  BY <1>2, <1>4, <1>5, <1>6

LEMMA ProductFoldExists ==
  ASSUME NEW lines \in Seq(Lines)
  PROVE  \E g : IsProductFold(lines, g)
<1> DEFINE n == Len(lines)
           F == [x \in (1 .. n) \X Seq(Products) |-> AddProduct(x[2], lines[x[1]])]
<1>1. \A k \in 1 .. n, a \in Seq(Products) : AddProduct(a, lines[k]) \in Seq(Products)
  <2>1. \A k \in 1 .. n : lines[k].product \in Products
    <3>1. \A k \in 1 .. n : lines[k] \in Lines
      OBVIOUS
    <3>2. QED
      BY <3>1 DEF Lines
  <2>2. QED
    BY <2>1 DEF AddProduct
<1>2. F \in [(1 .. n) \X Seq(Products) -> Seq(Products)]
  <2>1. \A x \in (1 .. n) \X Seq(Products) : AddProduct(x[2], lines[x[1]]) \in Seq(Products)
    BY <1>1
  <2>2. QED
    BY <2>1
<1>3. \A k \in 1 .. n, a \in Seq(Products) : F[k, a] = AddProduct(a, lines[k])
  OBVIOUS
<1>4. n \in Nat /\ DOMAIN lines = 1 .. n /\ <<>> \in Seq(Products)
  OBVIOUS
<1> HIDE DEF F, n
<1>5. PICK g \in [SUBSET (1 .. n) -> Seq(Products)] : FoldsLeft(g, n, <<>>, F)
  BY <1>2, <1>4, FoldExists
<1>6. \A s \in SUBSET (1 .. n) : s # {} =>
        F[Max(s), g[s \ {Max(s)}]] = AddProduct(g[s \ {Max(s)}], lines[Max(s)])
  <2>1. \A s \in SUBSET (1 .. n) : s # {} =>
          Max(s) \in 1 .. n /\ g[s \ {Max(s)}] \in Seq(Products)
    BY <1>4, <1>5, MaxIsMember
  <2>2. QED
    BY <1>3, <2>1
<1>7. g = [s \in SUBSET DOMAIN lines |->
             IF s = {} THEN <<>> ELSE AddProduct(g[s \ {Max(s)}], lines[Max(s)])]
  BY <1>4, <1>5, <1>6 DEF FoldsLeft
<1>8. QED
  BY <1>7 DEF IsProductFold

LEMMA ProductsAccumulate ==
  ASSUME NEW lines \in Seq(Lines)
  PROVE  \E a : /\ a[0] = <<>>
                /\ \A k \in 1 .. Len(lines) : a[k] = AddProduct(a[k - 1], lines[k])
                /\ ProductsInOrder(lines) = a[Len(lines)]
<1> DEFINE g == CHOOSE g : IsProductFold(lines, g)
           a == [k \in 0 .. Len(lines) |-> g[1 .. k]]
<1>1. IsProductFold(lines, g)
  BY ProductFoldExists
<1>2. ProductsInOrder(lines) = g[DOMAIN lines]
  BY DEF ProductsInOrder, FoldLeft, MapThenFoldSet, IsProductFold, AddProduct
<1> HIDE DEF g
<1>3. Len(lines) \in Nat /\ DOMAIN lines = 1 .. Len(lines)
  OBVIOUS
<1>4. a[0] = <<>>
  <2>1. 1 .. 0 = {} /\ {} \in SUBSET DOMAIN lines
    OBVIOUS
  <2>2. g[{}] = <<>>
    BY <1>1, <2>1 DEF IsProductFold
  <2>3. QED
    BY <1>3, <2>1, <2>2
<1>5. ASSUME NEW k \in 1 .. Len(lines)
      PROVE  a[k] = AddProduct(a[k - 1], lines[k])
  <2>1. 1 .. k \in SUBSET DOMAIN lines /\ 1 .. k # {}
    <3>1. 1 .. k \subseteq 1 .. Len(lines) /\ 1 \in 1 .. k
      BY <1>3
    <3>2. QED
      BY <1>3, <3>1
  <2>2. g[1 .. k] = AddProduct(g[(1 .. k) \ {Max(1 .. k)}], lines[Max(1 .. k)])
    BY <1>1, <2>1 DEF IsProductFold
  <2>3. Max(1 .. k) = k /\ (1 .. k) \ {Max(1 .. k)} = 1 .. (k - 1)
    BY <1>3, MaxOfInterval
  <2>4. g[1 .. k] = AddProduct(g[1 .. (k - 1)], lines[k])
    BY <2>2, <2>3
  <2>5. QED
    BY <1>3, <2>4
<1>6. a[Len(lines)] = g[DOMAIN lines]
  BY <1>3
<1>7. QED
  BY <1>2, <1>4, <1>5, <1>6

-----------------------------------------------------------------------------
(* What they return for any lines.                                         *)

LEMMA NetChangeTypes ==
  ASSUME NEW lines \in Seq(Lines), NEW p
  PROVE  NetChange(lines, p) \in Int
<1>1. PICK a : /\ a[0] = 0
               /\ \A k \in 1 .. Len(lines) : a[k] = AddLine(a[k - 1], lines[k], p)
               /\ NetChange(lines, p) = a[Len(lines)]
  BY NetAccumulates
<1> DEFINE Bad == {k \in 0 .. Len(lines) : a[k] \notin Int}
<1>2. SUFFICES ASSUME Bad # {} PROVE FALSE
  BY <1>1
<1>3. PICK k \in 0 .. Len(lines) : k \in Bad /\ \A m \in Bad : k <= m
  <2>1. Bad \in SUBSET Nat /\ Bad \subseteq 0 .. Len(lines)
    OBVIOUS
  <2> HIDE DEF Bad
  <2>2. PICK k \in Bad : \A m \in Bad : k <= m
    BY <1>2, <2>1, Least
  <2>3. QED
    BY <2>1, <2>2
<1>4. k # 0
  BY <1>1, <1>3
<1>5. k \in 1 .. Len(lines) /\ k - 1 \in 0 .. Len(lines) /\ ~(k <= k - 1)
  BY <1>4
<1>6. a[k - 1] \in Int
  BY <1>3, <1>5
<1>7. lines[k] \in Lines
  BY <1>5
<1>8. QED
  BY <1>1, <1>3, <1>5, <1>6, <1>7 DEF AddLine, Lines

LEMMA NetChangeOfOne ==
  ASSUME NEW lines \in Seq(Lines), Len(lines) = 1, NEW p
  PROVE  NetChange(lines, p) = IF lines[1].product = p THEN lines[1].delta ELSE 0
<1>1. PICK a : /\ a[0] = 0
               /\ \A k \in 1 .. Len(lines) : a[k] = AddLine(a[k - 1], lines[k], p)
               /\ NetChange(lines, p) = a[Len(lines)]
  BY NetAccumulates
<1>2. a[1] = AddLine(a[1 - 1], lines[1], p)
  BY <1>1
<1>3. 1 - 1 = 0 /\ lines[1].delta \in Int
  <2>1. lines[1] \in Lines
    OBVIOUS
  <2>2. QED
    BY <2>1 DEF Lines
<1>4. QED
  BY <1>1, <1>2, <1>3 DEF AddLine

LEMMA NetChangeOfNone ==
  ASSUME NEW lines \in Seq(Lines), NEW p, \A i \in DOMAIN lines : lines[i].product # p
  PROVE  NetChange(lines, p) = 0
<1>1. PICK a : /\ a[0] = 0
               /\ \A k \in 1 .. Len(lines) : a[k] = AddLine(a[k - 1], lines[k], p)
               /\ NetChange(lines, p) = a[Len(lines)]
  BY NetAccumulates
<1> DEFINE Bad == {k \in 0 .. Len(lines) : a[k] # 0}
<1>2. SUFFICES ASSUME Bad # {} PROVE FALSE
  BY <1>1
<1>3. PICK k \in 0 .. Len(lines) : k \in Bad /\ \A m \in Bad : k <= m
  <2>1. Bad \in SUBSET Nat /\ Bad \subseteq 0 .. Len(lines)
    OBVIOUS
  <2> HIDE DEF Bad
  <2>2. PICK k \in Bad : \A m \in Bad : k <= m
    BY <1>2, <2>1, Least
  <2>3. QED
    BY <2>1, <2>2
<1>4. k # 0
  BY <1>1, <1>3
<1>5. k \in 1 .. Len(lines) /\ k - 1 \in 0 .. Len(lines) /\ ~(k <= k - 1)
  BY <1>4
<1>6. a[k - 1] = 0
  BY <1>3, <1>5
<1>7. lines[k].product # p
  BY <1>5
<1>8. QED
  BY <1>1, <1>3, <1>5, <1>6, <1>7 DEF AddLine

Lists(products, p) == \E i \in DOMAIN products : products[i] = p

LEMMA ProductsAreListed ==
  ASSUME NEW lines \in Seq(Lines)
  PROVE  /\ ProductsInOrder(lines) \in Seq(Products)
         /\ \A i \in DOMAIN lines : Lists(ProductsInOrder(lines), lines[i].product)
         /\ \A p : ~Lists(ProductsInOrder(lines), p) =>
              \A i \in DOMAIN lines : lines[i].product # p
<1>1. PICK a : /\ a[0] = <<>>
               /\ \A k \in 1 .. Len(lines) : a[k] = AddProduct(a[k - 1], lines[k])
               /\ ProductsInOrder(lines) = a[Len(lines)]
  BY ProductsAccumulate
<1> DEFINE Ok(k) == /\ a[k] \in Seq(Products)
                    /\ \A i \in 1 .. k : Lists(a[k], lines[i].product)
           Bad == {k \in 0 .. Len(lines) : ~Ok(k)}
<1>2. Bad = {}
  <2>1. SUFFICES ASSUME Bad # {} PROVE FALSE
    OBVIOUS
  <2>2. PICK k \in 0 .. Len(lines) : k \in Bad /\ \A m \in Bad : k <= m
    <3>1. Bad \in SUBSET Nat /\ Bad \subseteq 0 .. Len(lines)
      OBVIOUS
    <3> HIDE DEF Bad
    <3>2. PICK k \in Bad : \A m \in Bad : k <= m
      BY <2>1, <3>1, Least
    <3>3. QED
      BY <3>1, <3>2
  <2>3. k # 0
    <3>1. Ok(0)
      BY <1>1
    <3>2. QED
      BY <2>2, <3>1
  <2>4. k \in 1 .. Len(lines) /\ k - 1 \in 0 .. Len(lines) /\ ~(k <= k - 1)
    BY <2>3
  <2>5. Ok(k - 1)
    BY <2>2, <2>4
  <2> DEFINE b == a[k - 1]
             q == lines[k].product
  <2>6. q \in Products /\ b \in Seq(Products)
    <3>1. lines[k] \in Lines
      BY <2>4
    <3>2. QED
      BY <2>5, <3>1 DEF Lines
  <2>7. a[k] = AddProduct(b, lines[k])
    BY <1>1, <2>4
  <2>8. \A p : Lists(b, p) => Lists(Append(b, q), p)
    <3> HIDE DEF b, q
    <3>1. \A i \in DOMAIN b : i \in DOMAIN Append(b, q) /\ Append(b, q)[i] = b[i]
      BY <2>6
    <3>2. QED
      BY <3>1 DEF Lists
  <2>9. Lists(Append(b, q), q)
    <3> HIDE DEF b, q
    <3>1. Len(b) + 1 \in DOMAIN Append(b, q) /\ Append(b, q)[Len(b) + 1] = q
      BY <2>6
    <3>2. QED
      BY <3>1 DEF Lists
  <2>10. Contains(b, q) => Lists(b, q)
    BY DEF Contains, Lists
  <2>11. a[k] \in Seq(Products) /\ Lists(a[k], q) /\ \A p : Lists(b, p) => Lists(a[k], p)
    <3>1. CASE Contains(b, q)
      BY <2>6, <2>7, <2>10, <3>1 DEF AddProduct
    <3>2. CASE ~Contains(b, q)
      <4>1. a[k] = Append(b, q)
        BY <2>7, <3>2 DEF AddProduct
      <4> HIDE DEF b, q
      <4>2. Append(b, q) \in Seq(Products)
        BY <2>6
      <4>3. QED
        BY <2>8, <2>9, <4>1, <4>2
    <3>3. QED
      BY <3>1, <3>2
  <2>12. \A i \in 1 .. k : i = k \/ i \in 1 .. (k - 1)
    OBVIOUS
  <2>13. \A i \in 1 .. k : Lists(a[k], lines[i].product)
    BY <2>5, <2>11, <2>12
  <2>14. QED
    BY <2>2, <2>11, <2>13
<1>3. Len(lines) \in 0 .. Len(lines) /\ DOMAIN lines = 1 .. Len(lines)
  OBVIOUS
<1>4. Ok(Len(lines))
  BY <1>2, <1>3
<1>5. QED
  BY <1>1, <1>3, <1>4

-----------------------------------------------------------------------------
(* The inductive invariant of the types, the locks and the calls.          *)

Working(r) == r.pc \in {"reading", "checking", "updating"}
Adjusts(r) == r.kind \in {"movement", "delete"}

\* The stock r will have changed once it commits, for the rows it has locked.
OwnsItsChanges(o, r, lk, st) ==
  \A p \in Products : r.change[p] # 0 =>
    /\ lk[p] = o
    /\ r.kind = "sale" => st[p] + r.change[p] >= 0

(* One call against the catalog, the locks and the stock it runs on.       *)
Good(o, r, cat, lk, st) ==
  /\ r \in OpStates
  /\ ~Working(r) => r = [NewOp EXCEPT !.pc = r.pc]
  /\ Adjusts(r) /\ r.pc # "reading" => r.lines \in Seq(Lines) /\ Len(r.lines) = 1
  /\ Adjusts(r) => \A i \in DOMAIN r.todo : r.todo[i] \in cat
  /\ r.pc = "checking" => Adjusts(r)
  /\ r.pc = "updating" => r.kind \in Kinds
  /\ DOMAIN r.seen \subseteq cat
  /\ OwnsItsChanges(o, r, lk, st)

TableTypes ==
  /\ opening \in [Products -> Nat]
  /\ stock \in [Products -> Int]
  /\ price \in PriceLists
  /\ movements \subseteq Movements
  /\ sales \subseteq Sales

LockTypes ==
  /\ lock \in [Products -> Ops \cup {None}]
  /\ \A p \in Products : lock[p] # None => p \in catalog

OpTypes ==
  /\ op \in [Ops -> OpStates]
  /\ \A o \in Ops : Good(o, op[o], catalog, lock, stock)

IInv == TableTypes /\ LockTypes /\ OpTypes

-----------------------------------------------------------------------------
(* Building blocks.                                                        *)

LEMMA PriceListDomain ==
  /\ \A f \in PriceLists : DOMAIN f \subseteq Products
  /\ \A f \in PriceLists : \A p \in DOMAIN f : f[p] \in Prices
  /\ \A S \in SUBSET Products : [S -> Prices] \subseteq PriceLists
BY DEF PriceLists

LEMMA NoPrices == <<>> \in PriceLists /\ DOMAIN <<>> = {}
<1>1. <<>> \in [{} -> Prices]
  OBVIOUS
<1>2. {} \in SUBSET Products
  OBVIOUS
<1>3. QED
  BY <1>1, <1>2 DEF PriceLists

LEMMA IdleOp ==
  ASSUME NEW o, NEW pc \in {"new", "ok", "error"}, NEW cat, NEW lk, NEW st
  PROVE  Good(o, [NewOp EXCEPT !.pc = pc], cat, lk, st)
<1> DEFINE r == [NewOp EXCEPT !.pc = pc]
<1>1. r \in OpStates
  <2>1. <<>> \in Seq(Lines) /\ <<>> \in Seq(Products)
    OBVIOUS
  <2>2. NoChange \in [Products -> Int]
    BY DEF NoChange
  <2>3. QED
    BY <2>1, <2>2, NoPrices DEF NewOp, OpStates
<1>2. /\ r.pc = pc /\ r.kind = None /\ r.todo = <<>> /\ r.change = NoChange
      /\ r.seen = <<>>
  BY DEF NewOp
<1>3. r = [NewOp EXCEPT !.pc = r.pc]
  BY <1>2
<1>4. OwnsItsChanges(o, r, lk, st)
  BY <1>2 DEF OwnsItsChanges, NoChange
<1>5. None \notin {"sale", "movement", "delete"}
  BY NoneAssumption
<1> HIDE DEF r
<1>6. Good(o, r, cat, lk, st)
  BY <1>1, <1>2, <1>3, <1>4, <1>5, NoPrices DEF Good, Working, Adjusts
<1>7. QED
  BY <1>6 DEF r

(* A call is left alone by what others do to rows it has not locked.       *)
LEMMA OthersKeep ==
  ASSUME NEW q, NEW r, NEW cat, NEW lk, NEW st, NEW cat2, NEW lk2, NEW st2,
         Good(q, r, cat, lk, st),
         cat \subseteq cat2,
         \A p \in Products : lk[p] = q => lk2[p] = q /\ st2[p] = st[p]
  PROVE  Good(q, r, cat2, lk2, st2)
<1>1. OwnsItsChanges(q, r, lk2, st2)
  BY DEF Good, OwnsItsChanges
<1>2. QED
  BY <1>1 DEF Good

\* A statement that takes no lock and writes no product row.
LEMMA StatementKeeps ==
  ASSUME IInv, NEW o \in Ops, NEW r, UNCHANGED <<rows, lock>>,
         op' = [op EXCEPT ![o] = r],
         Good(o, r, catalog, lock, stock)
  PROVE  IInv'
<1>1. catalog' = catalog /\ lock' = lock /\ stock' = stock
  BY DEF catalog, rows
<1>2. TableTypes' /\ LockTypes'
  BY <1>1 DEF IInv, TableTypes, LockTypes, rows
<1>3. op' \in [Ops -> OpStates]
  BY DEF IInv, OpTypes, Good
<1>4. \A q \in Ops : Good(q, op'[q], catalog, lock, stock)
  BY DEF IInv, OpTypes
<1>5. (\A q \in Ops : Good(q, op[q], catalog, lock, stock))'
  BY <1>1, <1>4
<1>6. QED
  BY <1>2, <1>3, <1>5 DEF IInv, OpTypes

LEMMA EndKeeps ==
  ASSUME IInv, NEW o \in Ops, NEW outcome \in {"ok", "error"}, End(o, outcome),
         price' = price,
         \/ stock' = stock
         \/ stock' = [p \in Products |-> stock[p] + op[o].change[p]]
  PROVE  /\ LockTypes' /\ OpTypes'
         /\ stock' \in [Products -> Int]
<1>1. catalog' = catalog
  BY DEF catalog
<1>2. lock' \in [Products -> Ops \cup {None}]
  BY DEF IInv, LockTypes, End, Unlocked
<1>3. \A p \in Products : lock'[p] = IF lock[p] = o THEN None ELSE lock[p]
  BY DEF End, Unlocked
<1>4. LockTypes'
  BY <1>1, <1>2, <1>3 DEF IInv, LockTypes
<1>5. \A p \in Products : op[o].change[p] \in Int /\ stock[p] \in Int
  BY DEF IInv, OpTypes, OpStates, TableTypes
<1>6. \A p \in Products : lock[p] # o => stock'[p] = stock[p]
  <2>1. \A p \in Products : lock[p] # o => op[o].change[p] = 0
    BY DEF IInv, OpTypes, Good, OwnsItsChanges
  <2>2. QED
    BY <1>5, <2>1
<1>7. stock' \in [Products -> Int]
  BY <1>5 DEF IInv, TableTypes
<1>8. op' = [op EXCEPT ![o] = [NewOp EXCEPT !.pc = outcome]]
  BY DEF End
<1>9. ASSUME NEW q \in Ops
      PROVE  Good(q, op'[q], catalog', lock', stock')
  <2>1. CASE q = o
    <3>1. op'[q] = [NewOp EXCEPT !.pc = outcome]
      BY <1>8, <2>1 DEF IInv, OpTypes
    <3>2. QED
      BY <3>1, IdleOp
  <2>2. CASE q # o
    <3>1. op'[q] = op[q]
      BY <1>8, <2>2
    <3>2. Good(q, op[q], catalog, lock, stock)
      BY DEF IInv, OpTypes
    <3>3. \A p \in Products : lock[p] = q => lock'[p] = q /\ stock'[p] = stock[p]
      BY <1>3, <1>6, <2>2
    <3>4. QED
      BY <1>1, <3>1, <3>2, <3>3, OthersKeep
  <2>3. QED
    BY <2>1, <2>2
<1>10. op' \in [Ops -> OpStates]
  BY <1>8, <1>9 DEF Good, IInv, OpTypes
<1>11. QED
  BY <1>4, <1>7, <1>9, <1>10 DEF OpTypes

LEMMA RollbackKeeps ==
  ASSUME IInv, NEW o \in Ops, Rollback(o)
  PROVE  IInv'
<1>1. LockTypes' /\ OpTypes'
  BY EndKeeps DEF Rollback, rows
<1>2. TableTypes'
  BY DEF Rollback, rows, IInv, TableTypes
<1>3. QED
  BY <1>1, <1>2 DEF IInv

(* UPDATE of a product's row with the change delta.                        *)
LEMMA UpdateKeeps ==
  ASSUME IInv, NEW o \in Ops, NEW delta \in Int, AtUpdate(o), Update(o, delta),
         Wanted(o) \in catalog,
         op[o].kind = "sale" => stock[Wanted(o)] + delta >= 0
  PROVE  IInv'
<1> DEFINE p == Wanted(o)
           r == [op[o] EXCEPT !.todo = Tail(@), !.change[p] = delta]
<1>1. UNCHANGED rows /\ catalog' = catalog /\ stock' = stock
  BY DEF Update, rows, catalog
<1>2. op[o] \in OpStates /\ op[o].pc = "updating" /\ Good(o, op[o], catalog, lock, stock)
  BY DEF IInv, OpTypes, AtUpdate
<1>3. op[o].todo \in Seq(Products) /\ op[o].todo # <<>> /\ p \in Products
  BY <1>2 DEF AtUpdate, OpStates, Wanted
<1>4. op' = [op EXCEPT ![o] = r]
  BY DEF Update, IInv, OpTypes
<1>5. lock' = [lock EXCEPT ![p] = o] /\ lock[p] = None
  BY DEF Update
<1>6. Tail(op[o].todo) \in Seq(Products)
  BY <1>3
<1>7. r \in OpStates
  BY <1>2, <1>3, <1>6 DEF OpStates
<1>8. Good(o, r, catalog, lock', stock)
  <2>1. \A i \in DOMAIN r.todo : i + 1 \in DOMAIN op[o].todo /\ r.todo[i] = op[o].todo[i + 1]
    BY <1>2, <1>3 DEF OpStates
  <2>2. Adjusts(r) => \A i \in DOMAIN r.todo : r.todo[i] \in catalog
    BY <1>2, <2>1 DEF Good, Adjusts
  <2>3. OwnsItsChanges(o, r, lock', stock)
    <3>1. r.change = [op[o].change EXCEPT ![p] = delta] /\ r.kind = op[o].kind
      BY <1>2 DEF OpStates
    <3>2. op[o].change \in [Products -> Int]
      BY <1>2 DEF OpStates
    <3>3. OwnsItsChanges(o, op[o], lock, stock)
      BY <1>2 DEF Good
    <3>4. QED
      BY <1>3, <1>5, <3>1, <3>2, <3>3 DEF OwnsItsChanges, IInv, LockTypes
  <2>4. /\ r.pc = "updating" /\ r.kind = op[o].kind /\ r.lines = op[o].lines
        /\ r.seen = op[o].seen
    BY <1>2 DEF OpStates
  <2> HIDE DEF r
  <2>5. QED
    BY <1>2, <1>7, <2>2, <2>3, <2>4 DEF Good, Working, Adjusts
<1> HIDE DEF r
<1>9. ASSUME NEW q \in Ops
      PROVE  Good(q, op'[q], catalog', lock', stock')
  <2>1. CASE q = o
    BY <1>1, <1>4, <1>8, <2>1 DEF IInv, OpTypes
  <2>2. CASE q # o
    <3>1. op'[q] = op[q]
      BY <1>4, <2>2
    <3>2. Good(q, op[q], catalog, lock, stock)
      BY DEF IInv, OpTypes
    <3>3. \A x \in Products : lock[x] = q => lock'[x] = q /\ stock'[x] = stock[x]
      BY <1>1, <1>5, NoneAssumption DEF IInv, LockTypes
    <3>4. QED
      BY <1>1, <3>1, <3>2, <3>3, OthersKeep
  <2>3. QED
    BY <2>1, <2>2
<1>10. op' \in [Ops -> OpStates]
  BY <1>4, <1>7 DEF IInv, OpTypes
<1>11. OpTypes'
  BY <1>9, <1>10 DEF OpTypes
<1>12. LockTypes'
  BY <1>1, <1>3, <1>5 DEF IInv, LockTypes
<1>13. TableTypes'
  BY <1>1 DEF IInv, TableTypes, rows
<1>14. QED
  BY <1>11, <1>12, <1>13 DEF IInv

-----------------------------------------------------------------------------
(* One lemma per action.                                                   *)

LEMMA CreateProductKeeps ==
  ASSUME IInv, NEW p \in Products, NEW n \in Openings, NEW c \in Prices,
         CreateProduct(p, n, c)
  PROVE  IInv'
<1>1. price' \in PriceLists /\ catalog' = catalog \cup {p}
  <2>1. catalog \subseteq Products /\ \A q \in catalog : price[q] \in Prices
    BY PriceListDomain DEF IInv, TableTypes, catalog
  <2>2. price' \in [catalog \cup {p} -> Prices]
    BY <2>1 DEF CreateProduct
  <2>3. catalog' = catalog \cup {p}
    BY <2>2 DEF catalog
  <2>4. catalog \cup {p} \in SUBSET Products
    BY <2>1
  <2>5. QED
    BY <2>2, <2>3, <2>4, PriceListDomain
<1>2. n \in Nat
  BY OpeningAssumption
<1>3. TableTypes'
  BY <1>1, <1>2 DEF IInv, TableTypes, CreateProduct
<1>4. LockTypes'
  BY <1>1 DEF IInv, LockTypes, CreateProduct
<1>5. op' = op /\ lock' = lock
  BY DEF CreateProduct
<1>6. \A x \in Products : lock[x] # None => stock'[x] = stock[x]
  BY DEF IInv, LockTypes, TableTypes, CreateProduct
<1>7. ASSUME NEW q \in Ops
      PROVE  Good(q, op'[q], catalog', lock', stock')
  <2>1. \A x \in Products : lock[x] = q => lock'[x] = q /\ stock'[x] = stock[x]
    BY <1>5, <1>6, NoneAssumption
  <2>2. Good(q, op[q], catalog, lock, stock)
    BY DEF IInv, OpTypes
  <2>3. QED
    BY <1>1, <1>5, <2>1, <2>2, OthersKeep
<1>8. OpTypes'
  BY <1>5, <1>7 DEF OpTypes, IInv
<1>9. QED
  BY <1>3, <1>4, <1>8 DEF IInv

LEMMA UpdatePriceKeeps ==
  ASSUME IInv, NEW p \in Products, NEW c \in Prices, UpdatePrice(p, c)
  PROVE  IInv'
<1>1. price' \in PriceLists /\ catalog' = catalog
  <2>1. catalog \in SUBSET Products /\ price \in [catalog -> Prices]
    BY DEF IInv, TableTypes, catalog, PriceLists
  <2>2. price' \in [catalog -> Prices]
    BY <2>1 DEF UpdatePrice
  <2>3. QED
    BY <2>1, <2>2, PriceListDomain DEF catalog
<1>2. TableTypes' /\ LockTypes'
  BY <1>1 DEF IInv, TableTypes, LockTypes, UpdatePrice
<1>3. op' = op /\ lock' = lock /\ stock' = stock
  BY DEF UpdatePrice
<1>4. (\A q \in Ops : Good(q, op[q], catalog, lock, stock))'
  BY <1>1, <1>3 DEF IInv, OpTypes
<1>5. OpTypes'
  BY <1>3, <1>4 DEF IInv, OpTypes
<1>6. QED
  BY <1>2, <1>5 DEF IInv

\* The record of a call that has not begun.
LEMMA NewCall ==
  ASSUME IInv, NEW o \in Ops, op[o].pc = "new"
  PROVE  /\ op[o] \in OpStates
         /\ op[o].todo = <<>> /\ op[o].seen = <<>> /\ op[o].change = NoChange
<1>1. op[o] = [NewOp EXCEPT !.pc = "new"] /\ op[o] \in OpStates
  BY DEF IInv, OpTypes, Good, Working
<1>2. QED
  BY <1>1 DEF NewOp

(* Any record of a call that has changed nothing is good once its fields   *)
(* agree with its kind and its place.                                      *)
LEMMA FreshIsGood ==
  ASSUME NEW o, NEW r \in OpStates, NEW cat, NEW lk, NEW st,
         r.change = NoChange, Working(r), r.kind \in Kinds,
         Adjusts(r) /\ r.pc # "reading" => r.lines \in Seq(Lines) /\ Len(r.lines) = 1,
         Adjusts(r) => \A i \in DOMAIN r.todo : r.todo[i] \in cat,
         r.pc = "checking" => Adjusts(r),
         DOMAIN r.seen \subseteq cat
  PROVE  Good(o, r, cat, lk, st)
<1>1. OwnsItsChanges(o, r, lk, st)
  BY DEF OwnsItsChanges, NoChange
<1>2. QED
  BY <1>1 DEF Good

LEMMA BeginMovementKeeps ==
  ASSUME IInv, NEW o \in Ops, NEW line \in MovementInputs, BeginMovement(o, line)
  PROVE  IInv'
<1> DEFINE r == [op[o] EXCEPT !.pc = "checking", !.kind = "movement", !.lines = <<line>>]
<1>1. /\ op[o] \in OpStates
      /\ op[o].todo = <<>> /\ op[o].seen = <<>> /\ op[o].change = NoChange
  BY NewCall DEF BeginMovement
<1>2. op' = [op EXCEPT ![o] = r]
  BY DEF BeginMovement, IInv, OpTypes
<1>3. <<line>> \in Seq(Lines) /\ Len(<<line>>) = 1
  BY InputAssumption
<1>4. /\ r \in OpStates /\ r.pc = "checking" /\ r.kind = "movement" /\ r.lines = <<line>>
      /\ r.todo = <<>> /\ r.seen = <<>> /\ r.change = NoChange
  BY <1>1, <1>3 DEF OpStates, Kinds
<1> HIDE DEF r
<1>5. Good(o, r, catalog, lock, stock)
  BY <1>3, <1>4, FreshIsGood, NoPrices DEF Working, Adjusts, Kinds
<1>6. QED
  BY <1>2, <1>5, StatementKeeps DEF BeginMovement

LEMMA BeginSaleKeeps ==
  ASSUME IInv, NEW o \in Ops, NEW lines \in SaleInputs, BeginSale(o, lines)
  PROVE  IInv'
<1> DEFINE r == [op[o] EXCEPT !.pc = "reading", !.kind = "sale", !.lines = lines]
<1>1. /\ op[o] \in OpStates
      /\ op[o].todo = <<>> /\ op[o].seen = <<>> /\ op[o].change = NoChange
  BY NewCall DEF BeginSale
<1>2. op' = [op EXCEPT ![o] = r]
  BY DEF BeginSale, IInv, OpTypes
<1>3. lines \in Seq(Lines)
  BY InputAssumption
<1>4. /\ r \in OpStates /\ r.pc = "reading" /\ r.kind = "sale" /\ r.lines = lines
      /\ r.todo = <<>> /\ r.seen = <<>> /\ r.change = NoChange
  BY <1>1, <1>3 DEF OpStates, Kinds
<1> HIDE DEF r
<1>5. Good(o, r, catalog, lock, stock)
  BY <1>4, FreshIsGood, NoPrices DEF Working, Adjusts, Kinds
<1>6. QED
  BY <1>2, <1>5, StatementKeeps DEF BeginSale

LEMMA BeginDeleteKeeps ==
  ASSUME IInv, NEW o \in Ops, NEW m \in movements, BeginDelete(o, m)
  PROVE  IInv'
<1> DEFINE r == [op[o] EXCEPT !.pc = "reading", !.kind = "delete", !.target = m.id]
<1>1. /\ op[o] \in OpStates
      /\ op[o].todo = <<>> /\ op[o].seen = <<>> /\ op[o].change = NoChange
  BY NewCall DEF BeginDelete
<1>2. op' = [op EXCEPT ![o] = r]
  BY DEF BeginDelete, IInv, OpTypes
<1>3. m.id \in Ids
  BY DEF IInv, TableTypes, Movements
<1>4. /\ r \in OpStates /\ r.pc = "reading" /\ r.kind = "delete"
      /\ r.todo = <<>> /\ r.seen = <<>> /\ r.change = NoChange
  BY <1>1, <1>3 DEF OpStates, Kinds
<1> HIDE DEF r
<1>5. Good(o, r, catalog, lock, stock)
  BY <1>4, FreshIsGood, NoPrices DEF Working, Adjusts, Kinds
<1>6. QED
  BY <1>2, <1>5, StatementKeeps DEF BeginDelete

LEMMA ReadMovementKeeps ==
  ASSUME IInv, NEW o \in Ops, ReadMovement(o)
  PROVE  IInv'
<1>1. CASE (\A m \in movements : m.id # op[o].target) /\ Rollback(o)
  BY <1>1, RollbackKeeps
<1>2. CASE \E m \in movements :
             /\ m.id = op[o].target
             /\ op' = [op EXCEPT ![o].pc = "checking",
                                 ![o].lines = <<Line(m.product, -m.delta, None)>>]
             /\ UNCHANGED <<rows, lock>>
  <2>1. PICK m \in movements :
             /\ op' = [op EXCEPT ![o].pc = "checking",
                                 ![o].lines = <<Line(m.product, -m.delta, None)>>]
             /\ UNCHANGED <<rows, lock>>
    BY <1>2
  <2> DEFINE line == Line(m.product, -m.delta, None)
             r == [op[o] EXCEPT !.pc = "checking", !.lines = <<line>>]
  <2>2. m.product \in Products /\ m.delta \in Int
    BY DEF IInv, TableTypes, Movements
  <2>3. line \in Lines
    BY <2>2 DEF Line, Lines
  <2>4. op' = [op EXCEPT ![o] = r]
    BY <2>1 DEF IInv, OpTypes
  <2> HIDE DEF line
  <2>5. <<line>> \in Seq(Lines) /\ Len(<<line>>) = 1
    BY <2>3
  <2>6. op[o] \in OpStates /\ op[o].kind = "delete" /\ Good(o, op[o], catalog, lock, stock)
    BY DEF IInv, OpTypes, ReadMovement
  <2>7. /\ r \in OpStates /\ r.pc = "checking" /\ r.kind = "delete" /\ r.lines = <<line>>
        /\ r.todo = op[o].todo /\ r.seen = op[o].seen /\ r.change = op[o].change
    BY <2>5, <2>6 DEF OpStates
  <2> HIDE DEF r
  <2>8. OwnsItsChanges(o, r, lock, stock)
    BY <2>6, <2>7 DEF Good, OwnsItsChanges
  <2>9. Good(o, r, catalog, lock, stock)
    BY <2>5, <2>6, <2>7, <2>8 DEF Good, Working, Adjusts
  <2>10. QED
    BY <2>1, <2>4, <2>9, StatementKeeps
<1>3. QED
  BY <1>1, <1>2 DEF ReadMovement

LEMMA CheckStockKeeps ==
  ASSUME IInv, NEW o \in Ops, CheckStock(o)
  PROVE  IInv'
<1> DEFINE line == op[o].lines[1]
           r == [op[o] EXCEPT !.pc = "updating", !.todo = <<line.product>>]
<1>1. CASE Rollback(o)
  BY <1>1, RollbackKeeps
<1>2. CASE /\ line.product \in catalog
           /\ op' = [op EXCEPT ![o].pc = "updating", ![o].todo = <<line.product>>]
           /\ UNCHANGED <<rows, lock>>
  <2>1. op[o] \in OpStates /\ op[o].pc = "checking" /\ Good(o, op[o], catalog, lock, stock)
    BY DEF IInv, OpTypes, CheckStock
  <2>2. Adjusts(op[o]) /\ op[o].lines \in Seq(Lines) /\ Len(op[o].lines) = 1
    BY <2>1 DEF Good
  <2>3. line.product \in Products
    <3>1. op[o].lines[1] \in Lines
      BY <2>2
    <3>2. QED
      BY <3>1 DEF Lines
  <2>4. op' = [op EXCEPT ![o] = r]
    BY <1>2 DEF IInv, OpTypes
  <2> HIDE DEF line
  <2>5. <<line.product>> \in Seq(Products)
    BY <2>3
  <2>6. /\ r \in OpStates /\ r.pc = "updating" /\ r.kind = op[o].kind
        /\ r.lines = op[o].lines /\ r.todo = <<line.product>> /\ r.seen = op[o].seen
        /\ r.change = op[o].change
    BY <2>1, <2>5 DEF OpStates
  <2> HIDE DEF r
  <2>7. OwnsItsChanges(o, r, lock, stock)
    BY <2>1, <2>6 DEF Good, OwnsItsChanges
  <2>8. \A i \in DOMAIN r.todo : r.todo[i] \in catalog
    BY <1>2, <2>6
  <2>9. Good(o, r, catalog, lock, stock)
    BY <2>1, <2>2, <2>6, <2>7, <2>8 DEF Good, Working, Adjusts, Kinds
  <2>10. QED
    BY <1>2, <2>4, <2>9, StatementKeeps
<1>3. QED
  BY <1>1, <1>2 DEF CheckStock

LEMMA AdjustStockKeeps ==
  ASSUME IInv, NEW o \in Ops, AdjustStock(o)
  PROVE  IInv'
<1>1. /\ op[o] \in OpStates /\ AtUpdate(o) /\ Adjusts(op[o])
      /\ Good(o, op[o], catalog, lock, stock)
  BY DEF AdjustStock, Adjusts, IInv, OpTypes
<1>2. op[o].lines[1].delta \in Int
  <2>1. op[o].lines \in Seq(Lines) /\ Len(op[o].lines) = 1
    BY <1>1 DEF Good, AtUpdate
  <2>2. op[o].lines[1] \in Lines
    BY <2>1
  <2>3. QED
    BY <2>2 DEF Lines
<1>3. Wanted(o) \in catalog
  <2>1. op[o].todo \in Seq(Products) /\ op[o].todo # <<>>
    BY <1>1 DEF AtUpdate, OpStates
  <2>2. 1 \in DOMAIN op[o].todo /\ Wanted(o) = op[o].todo[1]
    BY <2>1 DEF Wanted
  <2>3. QED
    BY <1>1, <2>2 DEF Good
<1>4. op[o].kind # "sale"
  BY <1>1 DEF Adjusts
<1>5. Update(o, op[o].lines[1].delta)
  BY DEF AdjustStock
<1>6. QED
  BY <1>1, <1>2, <1>3, <1>4, <1>5, UpdateKeeps

LEMMA ReadCatalogKeeps ==
  ASSUME IInv, NEW o \in Ops, ReadCatalog(o)
  PROVE  IInv'
<1> DEFINE todo == ProductsInOrder(op[o].lines)
           r == [op[o] EXCEPT !.pc = "updating", !.todo = todo, !.seen = price]
<1>1. op[o] \in OpStates /\ op[o].kind = "sale" /\ Good(o, op[o], catalog, lock, stock)
  BY DEF IInv, OpTypes, ReadCatalog
<1>2. todo \in Seq(Products)
  BY <1>1, ProductsAreListed DEF OpStates
<1>3. op' = [op EXCEPT ![o] = r]
  BY DEF ReadCatalog, IInv, OpTypes
<1> HIDE DEF todo
<1>4. price \in PriceLists
  BY DEF IInv, TableTypes
<1>5. /\ r \in OpStates /\ r.pc = "updating" /\ r.kind = "sale" /\ r.lines = op[o].lines
      /\ r.seen = price /\ r.change = op[o].change
  BY <1>1, <1>2, <1>4 DEF OpStates
<1> HIDE DEF r
<1>6. OwnsItsChanges(o, r, lock, stock)
  BY <1>1, <1>5 DEF Good, OwnsItsChanges
<1>7. DOMAIN r.seen \subseteq catalog
  BY <1>5 DEF catalog
<1>8. Good(o, r, catalog, lock, stock)
  BY <1>1, <1>5, <1>6, <1>7 DEF Good, Working, Adjusts, Kinds
<1>9. QED
  BY <1>3, <1>8, StatementKeeps DEF ReadCatalog

LEMMA DecrementStockKeeps ==
  ASSUME IInv, NEW o \in Ops, DecrementStock(o)
  PROVE  IInv'
<1>1. /\ op[o] \in OpStates /\ AtUpdate(o) /\ op[o].kind = "sale"
      /\ Good(o, op[o], catalog, lock, stock)
  BY DEF DecrementStock, IInv, OpTypes
<1>2. Wanted(o) \in catalog
  BY <1>1 DEF Good, DecrementStock
<1>3. Wanted(o) \in Products
  BY <1>2, PriceListDomain DEF catalog, IInv, TableTypes
<1>4. Taken(o) \in Int
  BY <1>1, NetChangeTypes DEF OpStates, Taken
<1>5. stock[Wanted(o)] + Taken(o) >= 0
  BY DEF DecrementStock, InStock
<1>6. Update(o, Taken(o))
  BY DEF DecrementStock
<1>7. QED
  BY <1>1, <1>2, <1>4, <1>5, <1>6, UpdateKeeps

-----------------------------------------------------------------------------
(* Commits.                                                                *)

LEMMA RowTypes ==
  ASSUME NEW o \in Ops, op[o].lines \in Seq(Lines), NEW sold \in BOOLEAN
  PROVE  Rows(o, sold) \subseteq Movements
<1>1. \A i \in DOMAIN op[o].lines :
        op[o].lines[i] \in Lines /\ i \in Nat \ {0}
  OBVIOUS
<1>2. QED
  BY <1>1 DEF Rows, Movements, Lines, Ids

\* Committing writes the changed stock and only adds or removes typed rows.
LEMMA CommitKeeps ==
  ASSUME IInv, NEW o \in Ops, CommitStock(o),
         movements' \subseteq Movements, sales' \subseteq Sales
  PROVE  IInv'
<1>1. LockTypes' /\ OpTypes' /\ stock' \in [Products -> Int]
  BY EndKeeps DEF CommitStock
<1>2. TableTypes'
  BY <1>1 DEF CommitStock, IInv, TableTypes
<1>3. QED
  BY <1>1, <1>2 DEF IInv

LEMMA FinishMovementKeeps ==
  ASSUME IInv, NEW o \in Ops, FinishMovement(o)
  PROVE  IInv'
<1>1. op[o].lines \in Seq(Lines)
  BY DEF FinishMovement, Updated, IInv, OpTypes, OpStates
<1>2. Rows(o, FALSE) \subseteq Movements
  BY <1>1, RowTypes
<1>3. QED
  BY <1>2, CommitKeeps DEF FinishMovement, IInv, TableTypes

LEMMA FinishDeleteKeeps ==
  ASSUME IInv, NEW o \in Ops, FinishDelete(o)
  PROVE  IInv'
BY CommitKeeps DEF FinishDelete, IInv, TableTypes

LEMMA FinishSaleKeeps ==
  ASSUME IInv, NEW o \in Ops, FinishSale(o)
  PROVE  IInv'
<1>1. op[o].lines \in Seq(Lines)
  BY DEF FinishSale, Updated, IInv, OpTypes, OpStates
<1>2. Rows(o, TRUE) \subseteq Movements
  BY <1>1, RowTypes
<1>3. [id |-> o, lines |-> op[o].lines] \in Sales
  BY <1>1 DEF Sales
<1>4. QED
  BY <1>2, <1>3, CommitKeeps DEF FinishSale, IInv, TableTypes

-----------------------------------------------------------------------------
LEMMA Initially == Init => IInv
<1> SUFFICES ASSUME Init PROVE IInv
  OBVIOUS
<1>1. TableTypes
  BY NoPrices DEF Init, TableTypes
<1>2. LockTypes
  BY DEF Init, LockTypes
<1>3. [NewOp EXCEPT !.pc = "new"] = NewOp
  BY DEF NewOp
<1>4. \A o \in Ops : Good(o, NewOp, catalog, lock, stock)
  BY <1>3, IdleOp
<1>5. op \in [Ops -> OpStates] /\ \A o \in Ops : op[o] = NewOp
  <2>1. \A o \in Ops : NewOp \in OpStates
    BY <1>4 DEF Good
  <2>2. QED
    BY <2>1 DEF Init
<1>6. OpTypes
  BY <1>4, <1>5 DEF OpTypes
<1>7. QED
  BY <1>1, <1>2, <1>6 DEF IInv

LEMMA StepKeeps ==
  ASSUME IInv, NEW o \in Ops, Begin(o) \/ Step(o) \/ Abort(o)
  PROVE  IInv'
<1>1. CASE Begin(o)
  BY <1>1, BeginSaleKeeps, BeginMovementKeeps, BeginDeleteKeeps DEF Begin
<1>2. CASE Abort(o)
  BY <1>2, RollbackKeeps DEF Abort
<1>3. CASE ReadMovement(o) \/ CheckStock(o) \/ AdjustStock(o)
  BY <1>3, ReadMovementKeeps, CheckStockKeeps, AdjustStockKeeps
<1>4. CASE FinishMovement(o) \/ FinishDelete(o)
  BY <1>4, FinishMovementKeeps, FinishDeleteKeeps
<1>5. CASE ReadCatalog(o) \/ DecrementStock(o) \/ FinishSale(o)
  BY <1>5, ReadCatalogKeeps, DecrementStockKeeps, FinishSaleKeeps
<1>6. CASE DeleteRefused(o) \/ SaleUnavailable(o) \/ PriceChanged(o) \/ DeadlockVictim(o)
  BY <1>6, RollbackKeeps DEF DeleteRefused, SaleUnavailable, PriceChanged, DeadlockVictim
<1>7. QED
  BY <1>1, <1>2, <1>3, <1>4, <1>5, <1>6 DEF Step

LEMMA InductiveStep == IInv /\ [Next]_vars => IInv'
<1> SUFFICES ASSUME IInv, [Next]_vars PROVE IInv'
  OBVIOUS
<1>1. CASE UNCHANGED vars
  BY <1>1 DEF vars, IInv, TableTypes, LockTypes, OpTypes, catalog
<1>2. CASE \E p \in Products, n \in Openings, c \in Prices : CreateProduct(p, n, c)
  BY <1>2, CreateProductKeeps
<1>3. CASE \E p \in Products, c \in Prices : UpdatePrice(p, c)
  BY <1>3, UpdatePriceKeeps
<1>4. CASE \E o \in Ops : Begin(o) \/ Step(o) \/ Abort(o)
  BY <1>4, StepKeeps
<1>5. QED
  BY <1>1, <1>2, <1>3, <1>4 DEF Next

LEMMA Invariance == Spec => []IInv
<1>1. QED
  BY Initially, InductiveStep, PTL DEF Spec

(* Every variable keeps its type, the records of open transactions         *)
(* included.                                                               *)
THEOREM InventoryTypesCorrect == Spec => []TypeOK
<1>1. IInv => TypeOK
  BY DEF IInv, TableTypes, LockTypes, OpTypes, TypeOK
<1>2. QED
  BY <1>1, Invariance, PTL

(* However many sales, movements and price changes overlap, a sale never   *)
(* takes stock that is not there: what it took while holding the rows'     *)
(* locks still fits the stock it commits to.                               *)
THEOREM SalesFitTheStock == Spec => SalesNeverOversell
<1>1. ASSUME IInv, [Next]_vars, NEW o \in Ops, Open(o)
      PROVE  SoldInStock(o)
  <2> SUFFICES ASSUME op[o].kind = "sale", op'[o].pc = "ok",
                      NEW p \in Products, stock'[p] < stock[p]
               PROVE  stock'[p] >= 0
    BY DEF SoldInStock
  <2>1. op[o].pc # "ok" /\ op[o].pc # "new"
    BY <1>1 DEF Open
  <2>2. FinishSale(o)
    <3>1. op' # op
      BY <2>1
    <3>2. PICK q \in Ops : Begin(q) \/ Step(q) \/ Abort(q)
      BY <1>1, <3>1 DEF Next, vars, CreateProduct, UpdatePrice
    <3>3. op \in [Ops -> OpStates]
      BY <1>1 DEF IInv, OpTypes
    <3>4. op'[o].pc = "ok" => q = o
      BY <2>1, <3>2, <3>3 DEF Begin, BeginSale, BeginMovement, BeginDelete, Step, Abort,
        ReadMovement, CheckStock, AdjustStock, FinishMovement, FinishDelete,
        DeleteRefused, ReadCatalog, DecrementStock, SaleUnavailable, FinishSale,
        PriceChanged, DeadlockVictim, Update, CommitStock, Rollback, End
    <3>5. ~Begin(o) /\ ~Rollback(o)
      BY <2>1, <3>3 DEF Begin, BeginSale, BeginMovement, BeginDelete, Rollback, End, NewOp
    <3>6. ~AdjustStock(o) /\ ~DecrementStock(o) /\ ~ReadCatalog(o)
      BY <2>1, <3>3 DEF AdjustStock, DecrementStock, ReadCatalog, AtUpdate, Update, OpStates
    <3>7. ~ReadMovement(o) /\ ~CheckStock(o)
      BY <2>1, <3>3, <3>5 DEF ReadMovement, CheckStock, OpStates
    <3>8. ~FinishMovement(o) /\ ~FinishDelete(o)
      BY DEF FinishMovement, FinishDelete, Updated
    <3>9. QED
      BY <3>2, <3>4, <3>5, <3>6, <3>7, <3>8 DEF Step, Abort, DeleteRefused,
        SaleUnavailable, PriceChanged, DeadlockVictim
  <2>3. stock'[p] = stock[p] + op[o].change[p]
    BY <2>2 DEF FinishSale, CommitStock
  <2>4. op[o].change[p] \in Int /\ stock[p] \in Int
    BY <1>1 DEF IInv, OpTypes, OpStates, TableTypes
  <2>5. op[o].change[p] # 0 => stock[p] + op[o].change[p] >= 0
    BY <1>1 DEF IInv, OpTypes, Good, OwnsItsChanges
  <2>6. QED
    BY <2>3, <2>4, <2>5
<1>2. IInv /\ [Next]_vars => [\A o \in Ops : Open(o) => SoldInStock(o)]_vars
  BY <1>1
<1>3. QED
  BY <1>2, Invariance, PTL DEF Spec, SalesNeverOversell

-----------------------------------------------------------------------------
(* Rows.  Only the three commits write movements and sales.                *)

LEMMA WhoWritesRows ==
  ASSUME [Next]_vars
  PROVE  \/ UNCHANGED <<movements, sales>>
         \/ \E o \in Ops : FinishMovement(o) \/ FinishDelete(o) \/ FinishSale(o)
<1>1. CASE \E o \in Ops : Begin(o)
  BY <1>1 DEF Begin, BeginSale, BeginMovement, BeginDelete, rows
<1>2. CASE \E o \in Ops : Abort(o)
  BY <1>2 DEF Abort, Rollback, rows
<1>3. CASE \E o \in Ops : Step(o)
  BY <1>3 DEF Step, ReadMovement, CheckStock, AdjustStock, DeleteRefused, ReadCatalog,
    DecrementStock, SaleUnavailable, PriceChanged, DeadlockVictim, Update, Rollback, rows
<1>4. QED
  BY <1>1, <1>2, <1>3 DEF Next, vars, CreateProduct, UpdatePrice

LEMMA AnsweredStays ==
  ASSUME IInv, [Next]_vars, NEW q \in Ops, op[q].pc = "ok"
  PROVE  op'[q].pc = "ok"
<1>1. op \in [Ops -> OpStates]
  BY DEF IInv, OpTypes
<1>2. CASE op' = op
  BY <1>2
<1>3. CASE \E o \in Ops : Begin(o)
  BY <1>1, <1>3 DEF Begin, BeginSale, BeginMovement, BeginDelete
<1>4. CASE \E o \in Ops : Abort(o)
  BY <1>1, <1>4 DEF Abort, Open, Rollback, End
<1>5. CASE \E o \in Ops : ReadMovement(o) \/ CheckStock(o) \/ ReadCatalog(o)
  BY <1>1, <1>5 DEF ReadMovement, CheckStock, ReadCatalog, Rollback, End
<1>6. CASE \E o \in Ops : AdjustStock(o) \/ DecrementStock(o)
  BY <1>1, <1>6 DEF AdjustStock, DecrementStock, AtUpdate, Update
<1>7. CASE \E o \in Ops : FinishMovement(o) \/ FinishDelete(o) \/ FinishSale(o)
  BY <1>1, <1>7 DEF FinishMovement, FinishDelete, FinishSale, Updated, CommitStock, End
<1>8. CASE \E o \in Ops : DeleteRefused(o) \/ PriceChanged(o)
  BY <1>1, <1>8 DEF DeleteRefused, PriceChanged, Updated, Rollback, End
<1>9. CASE \E o \in Ops : SaleUnavailable(o)
  BY <1>1, <1>9 DEF SaleUnavailable, AtUpdate, Rollback, End
<1>10. CASE \E o \in Ops : DeadlockVictim(o)
  <2>1. PICK o \in Ops : Deadlocked(o) /\ Rollback(o)
    BY <1>10 DEF DeadlockVictim
  <2>2. op[o].pc = "updating"
    BY <2>1 DEF Deadlocked, WaitsFor, AtUpdate
  <2>3. QED
    BY <1>1, <2>1, <2>2 DEF Rollback, End
<1>11. QED
  BY <1>2, <1>3, <1>4, <1>5, <1>6, <1>7, <1>8, <1>9, <1>10
    DEF Next, Step, vars, CreateProduct, UpdatePrice

LEMMA CommitAnswers ==
  ASSUME IInv, NEW o \in Ops, CommitStock(o)
  PROVE  op'[o].pc = "ok"
BY DEF CommitStock, End, NewOp, IInv, OpTypes

LEMMA RowsOf ==
  ASSUME NEW o \in Ops, NEW sold
  PROVE  \A m \in Rows(o, sold) : m.id[1] = o /\ m.sold = sold
BY DEF Rows

LEMMA CommittedRowsStay ==
  ASSUME IInv, OnlyCommittedRowsExist, [Next]_vars
  PROVE  OnlyCommittedRowsExist'
<1>1. /\ \A m \in movements : m.id[1] \in Ops /\ op'[m.id[1]].pc = "ok"
      /\ \A s \in sales : s.id \in Ops /\ op'[s.id].pc = "ok"
  <2>1. \A m \in movements : m.id[1] \in Ops
    BY DEF IInv, TableTypes, Movements, Ids
  <2>2. \A s \in sales : s.id \in Ops
    BY DEF IInv, TableTypes, Sales
  <2>3. QED
    BY <2>1, <2>2, AnsweredStays DEF OnlyCommittedRowsExist
<1>2. CASE UNCHANGED <<movements, sales>>
  BY <1>1, <1>2 DEF OnlyCommittedRowsExist
<1>3. ASSUME NEW o \in Ops, FinishMovement(o) \/ FinishDelete(o) \/ FinishSale(o)
      PROVE  OnlyCommittedRowsExist'
  <2>1. op'[o].pc = "ok"
    BY <1>3, CommitAnswers DEF FinishMovement, FinishDelete, FinishSale
  <2>2. \A m \in movements' : m \in movements \/ m.id[1] = o
    BY <1>3, RowsOf DEF FinishMovement, FinishDelete, FinishSale
  <2>3. \A s \in sales' : s \in sales \/ s.id = o
    <3>1. CASE FinishMovement(o) \/ FinishDelete(o)
      BY <3>1 DEF FinishMovement, FinishDelete
    <3>2. CASE FinishSale(o)
      BY <3>2 DEF FinishSale
    <3>3. QED
      BY <1>3, <3>1, <3>2
  <2>4. QED
    BY <1>1, <2>1, <2>2, <2>3 DEF OnlyCommittedRowsExist
<1>4. QED
  BY <1>2, <1>3, WhoWritesRows

(* An operation answered with an error, and one still open, has no row:    *)
(* what a throw, a timeout or a deadlock undid is never seen by others.    *)
THEOREM RowsAreCommitted == Spec => []OnlyCommittedRowsExist
<1>1. Init => OnlyCommittedRowsExist
  BY DEF Init, OnlyCommittedRowsExist
<1>2. QED
  BY <1>1, CommittedRowsStay, Invariance, PTL DEF Spec

(* A sale and its inventory exits exist together, one exit per line: no    *)
(* commit and no deletion leaves one without the other.                    *)
THEOREM SalesStayWhole == Spec => []SaleIsWhole
<1> DEFINE Exit(s, i) == [id |-> <<s.id, i>>, product |-> s.lines[i].product,
                          delta |-> s.lines[i].delta, sold |-> TRUE]
<1>1. Init => SaleIsWhole
  BY DEF Init, SaleIsWhole
<1>2. ASSUME SaleIsWhole, [Next]_vars
      PROVE  SaleIsWhole'
  <2>1. CASE UNCHANGED <<movements, sales>>
    BY <1>2, <2>1 DEF SaleIsWhole
  <2>2. CASE \E o \in Ops : FinishMovement(o)
    <3>1. PICK o \in Ops : FinishMovement(o)
      BY <2>2
    <3>2. sales' = sales /\ movements' = movements \cup Rows(o, FALSE)
      BY <3>1 DEF FinishMovement
    <3>3. \A m \in movements' : m.sold => m \in movements
      BY <3>2, RowsOf
    <3>4. QED
      BY <1>2, <3>2, <3>3 DEF SaleIsWhole
  <2>3. CASE \E o \in Ops : FinishDelete(o)
    <3>1. PICK m \in movements : ~m.sold /\ movements' = movements \ {m} /\ sales' = sales
      BY <2>3 DEF FinishDelete
    <3>2. \A s \in sales : \A i \in DOMAIN s.lines : Exit(s, i) \in movements /\ Exit(s, i) # m
      <4>1. \A s, i : Exit(s, i).sold
        OBVIOUS
      <4>2. \A s, i : Exit(s, i) # m
        BY <3>1, <4>1, Zenon
      <4>3. QED
        BY <1>2, <4>2 DEF SaleIsWhole
    <3>3. QED
      BY <1>2, <3>1, <3>2 DEF SaleIsWhole
  <2>4. CASE \E o \in Ops : FinishSale(o)
    <3>1. PICK o \in Ops : FinishSale(o)
      BY <2>4
    <3> DEFINE sale == [id |-> o, lines |-> op[o].lines]
    <3>2. sales' = sales \cup {sale} /\ movements' = movements \cup Rows(o, TRUE)
      BY <3>1 DEF FinishSale
    <3>3. \A i \in DOMAIN sale.lines : Exit(sale, i) \in Rows(o, TRUE)
      BY DEF Rows
    <3>4. \A m \in Rows(o, TRUE) : sale.id = m.id[1] /\ m.id[2] \in DOMAIN sale.lines
      BY DEF Rows
    <3> HIDE DEF sale
    <3>5. \A s \in sales' : \A i \in DOMAIN s.lines : Exit(s, i) \in movements'
      BY <1>2, <3>2, <3>3 DEF SaleIsWhole
    <3>6. \A m \in movements' : m.sold =>
            \E s \in sales' : s.id = m.id[1] /\ m.id[2] \in DOMAIN s.lines
      BY <1>2, <3>2, <3>4 DEF SaleIsWhole
    <3>7. QED
      BY <3>5, <3>6 DEF SaleIsWhole
  <2>5. QED
    BY <1>2, <2>1, <2>2, <2>3, <2>4, WhoWritesRows
<1>3. QED
  BY <1>1, <1>2, PTL DEF Spec

(* The two together: sales and deletions are all or nothing.               *)
THEOREM SalesAtomic == Spec => []SalesAreAtomic
BY SalesStayWhole, RowsAreCommitted, PTL DEF SalesAreAtomic

-----------------------------------------------------------------------------
(* What the movements of a product add up to.                              *)

Delta == [m \in Movements |-> m.delta]

Moved(ms, p) == Total(Delta, {m \in ms : m.product = p})

LEMMA DeltaTypes == \A m \in Movements : Delta[m] = m.delta /\ m.delta \in Int
BY DEF Delta, Movements

LEMMA SumOfDeltas ==
  ASSUME NEW S \in SUBSET Movements, IsFiniteSet(S)
  PROVE  MapThenSumSet(LAMBDA m : m.delta, S) = Total(Delta, S)
<1> DEFINE Sums(g) == g = [s \in SUBSET S |->
                             IF s = {} THEN 0
                             ELSE LET x == CHOOSE x \in s : TRUE IN x.delta + g[s \ {x}]]
           g == CHOOSE g : Sums(g)
<1>1. \A m \in S : Delta[m] = m.delta /\ Delta[m] \in Int
  BY DeltaTypes
<1>2. ASSUME NEW h
      PROVE  Adds(h, Delta, S) <=> Sums(h)
  <2>1. \A s \in SUBSET S : s # {} =>
          LET x == CHOOSE x \in s : TRUE
          IN  Delta[x] + h[s \ {x}] = x.delta + h[s \ {x}]
    <3>1. SUFFICES ASSUME NEW s \in SUBSET S, s # {}
                   PROVE  LET x == CHOOSE x \in s : TRUE
                          IN  Delta[x] + h[s \ {x}] = x.delta + h[s \ {x}]
      OBVIOUS
    <3> DEFINE x == CHOOSE x \in s : TRUE
    <3>2. x \in S
      BY <3>1
    <3>3. Delta[x] = x.delta
      BY <1>1, <3>2
    <3>4. QED
      BY <3>3
  <2>2. [s \in SUBSET S |-> IF s = {} THEN 0
                            ELSE LET x == CHOOSE x \in s : TRUE IN Delta[x] + h[s \ {x}]]
        = [s \in SUBSET S |-> IF s = {} THEN 0
                              ELSE LET x == CHOOSE x \in s : TRUE IN x.delta + h[s \ {x}]]
    BY <2>1
  <2>3. QED
    BY <2>2 DEF Adds
<1>3. MapThenSumSet(LAMBDA m : m.delta, S) = g[S]
  BY DEF MapThenSumSet, MapThenFoldSet
<1>4. PICK h : Adds(h, Delta, S) /\ Total(Delta, S) = h[S]
  BY <1>1, TotalIs
<1>5. Sums(g)
  <2>1. Sums(h)
    BY <1>2, <1>4
  <2> HIDE DEF Sums
  <2>2. QED
    BY <2>1
<1>6. Adds(g, Delta, S)
  <2> HIDE DEF g, Sums
  <2>1. QED
    BY <1>2, <1>5
<1>7. g[S] = h[S]
  <2>1. S \in SUBSET S
    OBVIOUS
  <2> HIDE DEF g
  <2>2. QED
    BY <1>1, <1>4, <1>6, <2>1, AddsAgree
<1>8. QED
  BY <1>3, <1>4, <1>7

\* The rows of a call add up to what it changes.
LEMMA RowsMove ==
  ASSUME NEW o \in Ops, op[o].lines \in Seq(Lines), NEW sold \in BOOLEAN, NEW p
  PROVE  /\ IsFiniteSet(Rows(o, sold))
         /\ Moved(Rows(o, sold), p) = NetChange(op[o].lines, p)
<1> DEFINE lines == op[o].lines
           Row(i) == [id |-> <<o, i>>, product |-> lines[i].product,
                      delta |-> lines[i].delta, sold |-> sold]
           Upto(k) == {Row(i) : i \in 1 .. k}
<1>1. PICK a : /\ a[0] = 0
               /\ \A k \in 1 .. Len(lines) : a[k] = AddLine(a[k - 1], lines[k], p)
               /\ NetChange(lines, p) = a[Len(lines)]
  BY NetAccumulates
<1> DEFINE Ok(k) == IsFiniteSet(Upto(k)) /\ Moved(Upto(k), p) = a[k]
           Bad == {k \in 0 .. Len(lines) : ~Ok(k)}
<1>2. ASSUME NEW i \in 1 .. Len(lines)
      PROVE  /\ Row(i) \in Movements /\ Row(i).id = <<o, i>>
             /\ Row(i).product = lines[i].product /\ Delta[Row(i)] = lines[i].delta
             /\ lines[i].delta \in Int
  <2>1. lines[i] \in Lines /\ i \in Nat \ {0}
    OBVIOUS
  <2>2. Row(i) \in Movements
    BY <2>1 DEF Movements, Lines, Ids
  <2>3. QED
    BY <2>1, <2>2, DeltaTypes DEF Lines
<1>3. Len(lines) \in Nat /\ DOMAIN lines = 1 .. Len(lines)
  OBVIOUS
<1>4. Rows(o, sold) = Upto(Len(lines))
  BY <1>3 DEF Rows
<1> HIDE DEF Row, lines
<1>5. Ok(0)
  <2>1. Upto(0) = {} /\ {m \in {} : m.product = p} = {}
    OBVIOUS
  <2>2. IsFiniteSet({}) /\ Total(Delta, {}) = 0
    BY FS_EmptySet, TotalEmpty
  <2> HIDE DEF Upto
  <2>3. QED
    BY <1>1, <2>1, <2>2 DEF Moved
<1>6. ASSUME NEW k \in 1 .. Len(lines), Ok(k - 1)
      PROVE  Ok(k)
  <2> DEFINE S == Upto(k - 1)
             R == {m \in S : m.product = p}
  <2>1. Upto(k) = S \cup {Row(k)}
    <3>1. \A i : i \in 1 .. k <=> i \in 1 .. (k - 1) \/ i = k
      BY <1>3
    <3>2. QED
      BY <3>1
  <2>2. \A m \in S : m \in Movements /\ m.id # <<o, k>>
    <3>1. SUFFICES ASSUME NEW i \in 1 .. (k - 1)
                   PROVE  Row(i) \in Movements /\ Row(i).id # <<o, k>>
      OBVIOUS
    <3>2. i \in 1 .. Len(lines) /\ i # k
      BY <1>3
    <3>3. QED
      BY <1>2, <3>2
  <2> HIDE DEF Upto
  <2>3. IsFiniteSet(S) /\ IsFiniteSet(Upto(k)) /\ IsFiniteSet(R)
    <3>1. IsFiniteSet(S)
      BY <1>6
    <3>2. QED
      BY <2>1, <3>1, FS_AddElement, FS_Subset
  <2>4. Total(Delta, R) = a[k - 1]
    BY <1>6 DEF Moved
  <2>5. Row(k).id = <<o, k>> /\ Row(k).product = lines[k].product
    BY <1>2
  <2>6. CASE lines[k].product = p
    <3>1. {m \in Upto(k) : m.product = p} = R \cup {Row(k)} /\ Row(k) \notin R
      BY <2>1, <2>2, <2>5, <2>6
    <3>2. \A m \in R : Delta[m] \in Int
      BY <2>2, DeltaTypes
    <3>3. Delta[Row(k)] = lines[k].delta /\ Delta[Row(k)] \in Int
      BY <1>2
    <3> HIDE DEF R, S
    <3>4. Total(Delta, R \cup {Row(k)}) = Total(Delta, R) + Delta[Row(k)]
      BY <2>3, <3>1, <3>2, <3>3, TotalAdd
    <3>5. a[k] = a[k - 1] + lines[k].delta
      BY <1>1, <2>6 DEF AddLine
    <3>6. QED
      BY <2>3, <2>4, <3>1, <3>3, <3>4, <3>5 DEF Moved
  <2>7. CASE lines[k].product # p
    <3>1. {m \in Upto(k) : m.product = p} = R
      BY <2>1, <2>5, <2>7
    <3>2. a[k] = a[k - 1]
      BY <1>1, <2>7 DEF AddLine
    <3> HIDE DEF R, S
    <3>3. QED
      BY <2>3, <2>4, <3>1, <3>2 DEF Moved
  <2>8. QED
    BY <2>6, <2>7
<1> HIDE DEF Ok
<1>7. Bad = {}
  <2>1. SUFFICES ASSUME Bad # {} PROVE FALSE
    OBVIOUS
  <2>2. Bad \in SUBSET Nat /\ Bad \subseteq 0 .. Len(lines)
    OBVIOUS
  <2>3. PICK k \in Bad : \A m \in Bad : k <= m
    <3> HIDE DEF Bad
    <3>1. QED
      BY <2>1, <2>2, Least
  <2>4. k \in 0 .. Len(lines) /\ ~Ok(k)
    OBVIOUS
  <2>5. k \in 1 .. Len(lines)
    BY <1>5, <2>4
  <2>6. k - 1 \in 0 .. Len(lines) /\ ~(k <= k - 1)
    BY <1>3, <2>5
  <2>7. Ok(k - 1)
    BY <2>3, <2>6
  <2>8. QED
    BY <1>6, <2>4, <2>5, <2>7
<1>8. Ok(Len(lines))
  BY <1>3, <1>7
<1>9. QED
  BY <1>1, <1>4, <1>8 DEF Ok, lines

-----------------------------------------------------------------------------
(* How the rows and the calls in progress account for the stock.           *)

\* A call has changed what its lines say, but for the products still to come,
\* which are the only ones of its lines that may be unknown.
Follows(r, cat) ==
  /\ r.pc \in {"reading", "checking"} => r.change = NoChange
  /\ r.pc = "updating" =>
       /\ \A p \in Products : Lists(r.todo, p) \/ r.change[p] = NetChange(r.lines, p)
       /\ \A i \in DOMAIN r.lines :
            r.lines[i].product \in cat \/ Lists(r.todo, r.lines[i].product)
       /\ Adjusts(r) => \A i \in DOMAIN r.todo : r.todo[i] = r.lines[1].product

\* What a deletion is about to take back is what its row says, if it is still there.
Undoes(r, ms) ==
  r.kind = "delete" /\ r.pc \in {"checking", "updating"} =>
    \A m \in ms : m.id = r.target =>
      r.lines[1].product = m.product /\ r.lines[1].delta = -m.delta

\* The row a deletion was asked for was committed by a call that has ended.
AimsAt(r, done) == r.kind = "delete" => r.target[1] \in done

Done == {o \in Ops : op[o].pc = "ok"}

RowsBooked ==
  /\ IsFiniteSet(movements)
  /\ \A m, n \in movements : m.id = n.id => m = n
  /\ \A m \in movements : m.product \in catalog
  /\ OnlyCommittedRowsExist

CallsBooked ==
  \A o \in Ops : Follows(op[o], catalog) /\ Undoes(op[o], movements) /\ AimsAt(op[o], Done)

Balanced == \A p \in Products : stock[p] = opening[p] + Moved(movements, p)

SInv == IInv /\ RowsBooked /\ CallsBooked /\ Balanced

LEMMA BalancedIsLedger ==
  ASSUME IInv, IsFiniteSet(movements)
  PROVE  Balanced <=> StockIsLedger
<1>1. ASSUME NEW p \in Products
      PROVE  Moved(movements, p)
               = MapThenSumSet(LAMBDA m : m.delta, {m \in movements : m.product = p})
  <2> DEFINE S == {m \in movements : m.product = p}
  <2>1. S \in SUBSET Movements /\ IsFiniteSet(S)
    BY FS_Subset DEF IInv, TableTypes
  <2>2. MapThenSumSet(LAMBDA m : m.delta, S) = Total(Delta, S)
    BY <2>1, SumOfDeltas
  <2>3. QED
    BY <2>2 DEF Moved
<1>2. QED
  BY <1>1 DEF Balanced, StockIsLedger

\* A call that does nothing yet, or any more.
LEMMA IdleIsBooked ==
  ASSUME NEW pc \in {"new", "ok", "error"}, NEW cat, NEW ms, NEW done
  PROVE  LET r == [NewOp EXCEPT !.pc = pc]
         IN  Follows(r, cat) /\ Undoes(r, ms) /\ AimsAt(r, done)
<1> DEFINE r == [NewOp EXCEPT !.pc = pc]
<1>1. r.pc = pc /\ r.kind = None /\ None # "delete"
  BY NoneAssumption DEF NewOp
<1> HIDE DEF r
<1>2. Follows(r, cat) /\ Undoes(r, ms) /\ AimsAt(r, done)
  BY <1>1 DEF Follows, Undoes, AimsAt
<1>3. QED
  BY <1>2 DEF r

\* Calls are not disturbed by products and rows that others add, or by rows that go.
LEMMA StaysBooked ==
  ASSUME NEW r, NEW cat, NEW cat2, NEW ms, NEW ms2, NEW done, NEW done2,
         Follows(r, cat) /\ Undoes(r, ms) /\ AimsAt(r, done),
         cat \subseteq cat2, done \subseteq done2,
         \A m \in ms2 : m \in ms \/ m.id[1] \notin done
  PROVE  Follows(r, cat2) /\ Undoes(r, ms2) /\ AimsAt(r, done2)
<1>1. Follows(r, cat2)
  BY DEF Follows
<1>2. Undoes(r, ms2) /\ AimsAt(r, done2)
  BY DEF Undoes, AimsAt
<1>3. QED
  BY <1>1, <1>2

LEMMA DoneStays ==
  ASSUME IInv, [Next]_vars
  PROVE  Done \subseteq Done'
BY AnsweredStays DEF Done

(* The step of one call: what it wrote, and its own record afterwards.     *)
LEMMA CallStepKeeps ==
  ASSUME IInv, CallsBooked, [Next]_vars, NEW o \in Ops, NEW r,
         op' = [op EXCEPT ![o] = r], catalog' = catalog, o \notin Done,
         \A m \in movements' : m \in movements \/ m.id[1] = o,
         Follows(r, catalog), Undoes(r, movements'), AimsAt(r, Done')
  PROVE  CallsBooked'
<1>1. Done \subseteq Done'
  BY DoneStays
<1>2. op \in [Ops -> OpStates]
  BY DEF IInv, OpTypes
<1>3. ASSUME NEW q \in Ops
      PROVE  Follows(op'[q], catalog') /\ Undoes(op'[q], movements') /\ AimsAt(op'[q], Done')
  <2>1. CASE q = o
    BY <1>2, <2>1
  <2>2. CASE q # o
    <3>1. op'[q] = op[q]
      BY <1>2, <2>2
    <3>2. Follows(op[q], catalog) /\ Undoes(op[q], movements) /\ AimsAt(op[q], Done)
      BY DEF CallsBooked
    <3>3. \A m \in movements' : m \in movements \/ m.id[1] \notin Done
      OBVIOUS
    <3>4. QED
      BY <1>1, <3>1, <3>2, <3>3, StaysBooked
  <2>3. QED
    BY <2>1, <2>2
<1>4. QED
  BY <1>3 DEF CallsBooked

LEMMA EndIsBooked ==
  ASSUME IInv, CallsBooked, [Next]_vars, NEW o \in Ops, NEW outcome \in {"ok", "error"},
         End(o, outcome), catalog' = catalog, o \notin Done,
         \A m \in movements' : m \in movements \/ m.id[1] = o
  PROVE  CallsBooked'
<1> DEFINE r == [NewOp EXCEPT !.pc = outcome]
<1>1. op' = [op EXCEPT ![o] = r]
  BY DEF End
<1>2. Follows(r, catalog) /\ Undoes(r, movements') /\ AimsAt(r, Done')
  BY IdleIsBooked
<1> HIDE DEF r
<1>3. QED
  BY <1>1, <1>2, CallStepKeeps

LEMMA RollbackIsBooked ==
  ASSUME IInv, CallsBooked, [Next]_vars, NEW o \in Ops, Rollback(o), o \notin Done
  PROVE  CallsBooked'
<1>1. catalog' = catalog /\ movements' = movements /\ End(o, "error")
  BY DEF Rollback, rows, catalog
<1>2. QED
  BY <1>1, EndIsBooked

LEMMA BeginIsBooked ==
  ASSUME IInv, RowsBooked, CallsBooked, [Next]_vars, NEW o \in Ops, Begin(o)
  PROVE  CallsBooked'
<1>1. op \in [Ops -> OpStates] /\ op[o].pc = "new"
  BY DEF Begin, BeginMovement, BeginSale, BeginDelete, IInv, OpTypes
<1>2. op[o].change = NoChange /\ op[o] \in OpStates
  BY <1>1, NewCall
<1>3. o \notin Done
  BY <1>1 DEF Done
<1>4. CASE \E line \in MovementInputs : BeginMovement(o, line)
  <2>1. PICK line \in MovementInputs : BeginMovement(o, line)
    BY <1>4
  <2> DEFINE r == [op[o] EXCEPT !.pc = "checking", !.kind = "movement", !.lines = <<line>>]
  <2>2. op' = [op EXCEPT ![o] = r] /\ movements' = movements /\ catalog' = catalog
    BY <1>1, <2>1 DEF BeginMovement, rows, catalog
  <2>3. r.pc = "checking" /\ r.kind = "movement" /\ r.change = NoChange
    BY <1>2 DEF OpStates
  <2> HIDE DEF r
  <2>4. Follows(r, catalog) /\ Undoes(r, movements') /\ AimsAt(r, Done')
    BY <2>3 DEF Follows, Undoes, AimsAt
  <2>5. QED
    BY <1>3, <2>2, <2>4, CallStepKeeps
<1>5. CASE \E lines \in SaleInputs : BeginSale(o, lines)
  <2>1. PICK lines \in SaleInputs : BeginSale(o, lines)
    BY <1>5
  <2> DEFINE r == [op[o] EXCEPT !.pc = "reading", !.kind = "sale", !.lines = lines]
  <2>2. op' = [op EXCEPT ![o] = r] /\ movements' = movements /\ catalog' = catalog
    BY <1>1, <2>1 DEF BeginSale, rows, catalog
  <2>3. r.pc = "reading" /\ r.kind = "sale" /\ r.change = NoChange
    BY <1>2 DEF OpStates
  <2> HIDE DEF r
  <2>4. Follows(r, catalog) /\ Undoes(r, movements') /\ AimsAt(r, Done')
    BY <2>3 DEF Follows, Undoes, AimsAt
  <2>5. QED
    BY <1>3, <2>2, <2>4, CallStepKeeps
<1>6. CASE \E m \in movements : BeginDelete(o, m)
  <2>1. PICK m \in movements : BeginDelete(o, m)
    BY <1>6
  <2> DEFINE r == [op[o] EXCEPT !.pc = "reading", !.kind = "delete", !.target = m.id]
  <2>2. op' = [op EXCEPT ![o] = r] /\ movements' = movements /\ catalog' = catalog
    BY <1>1, <2>1 DEF BeginDelete, rows, catalog
  <2>3. r.pc = "reading" /\ r.kind = "delete" /\ r.change = NoChange /\ r.target = m.id
    BY <1>2 DEF OpStates
  <2>4. m.id[1] \in Done
    BY DEF RowsBooked, OnlyCommittedRowsExist, Done, IInv, TableTypes, Movements, Ids
  <2>5. m.id[1] \in Done'
    BY <2>4, DoneStays
  <2> HIDE DEF r
  <2>6. Follows(r, catalog) /\ Undoes(r, movements') /\ AimsAt(r, Done')
    BY <2>3, <2>5 DEF Follows, Undoes, AimsAt
  <2>7. QED
    BY <1>3, <2>2, <2>6, CallStepKeeps
<1>7. QED
  BY <1>4, <1>5, <1>6 DEF Begin

LEMMA ReadMovementIsBooked ==
  ASSUME IInv, RowsBooked, CallsBooked, [Next]_vars, NEW o \in Ops, ReadMovement(o)
  PROVE  CallsBooked'
<1>1. op \in [Ops -> OpStates] /\ op[o] \in OpStates /\ op[o].pc = "reading"
      /\ op[o].kind = "delete"
  BY DEF ReadMovement, IInv, OpTypes
<1>2. o \notin Done
  BY <1>1 DEF Done
<1>3. CASE Rollback(o)
  BY <1>2, <1>3, RollbackIsBooked
<1>4. CASE ~Rollback(o)
  <2>1. PICK m \in movements :
          /\ m.id = op[o].target
          /\ op' = [op EXCEPT ![o].pc = "checking",
                              ![o].lines = <<Line(m.product, -m.delta, None)>>]
          /\ UNCHANGED <<rows, lock>>
    BY <1>4 DEF ReadMovement
  <2> DEFINE line == Line(m.product, -m.delta, None)
             r == [op[o] EXCEPT !.pc = "checking", !.lines = <<line>>]
  <2>2. op' = [op EXCEPT ![o] = r] /\ movements' = movements /\ catalog' = catalog
    BY <1>1, <2>1 DEF rows, catalog
  <2>3. /\ r.pc = "checking" /\ r.kind = "delete" /\ r.change = op[o].change
        /\ r.target = m.id /\ r.lines = <<line>>
    BY <1>1, <2>1 DEF OpStates
  <2>4. line.product = m.product /\ line.delta = -m.delta
    BY DEF Line
  <2>5. op[o].change = NoChange /\ op[o].target[1] \in Done
    BY <1>1 DEF CallsBooked, Follows, AimsAt
  <2>6. op[o].target[1] \in Done'
    BY <2>5, DoneStays
  <2>7. \A n \in movements : n.id = m.id => n = m
    BY DEF RowsBooked
  <2> HIDE DEF r, line
  <2>8. r.lines[1] = line
    BY <2>3
  <2>9. Follows(r, catalog) /\ Undoes(r, movements') /\ AimsAt(r, Done')
    BY <2>1, <2>2, <2>3, <2>4, <2>5, <2>6, <2>7, <2>8 DEF Follows, Undoes, AimsAt
  <2>10. QED
    BY <1>2, <2>2, <2>9, CallStepKeeps
<1>5. QED
  BY <1>3, <1>4

LEMMA CheckStockIsBooked ==
  ASSUME IInv, CallsBooked, [Next]_vars, NEW o \in Ops, CheckStock(o)
  PROVE  CallsBooked'
<1>1. /\ op \in [Ops -> OpStates] /\ op[o] \in OpStates /\ op[o].pc = "checking"
      /\ Good(o, op[o], catalog, lock, stock)
  BY DEF CheckStock, IInv, OpTypes
<1>2. o \notin Done
  BY <1>1 DEF Done
<1>3. CASE Rollback(o)
  BY <1>2, <1>3, RollbackIsBooked
<1>4. CASE ~Rollback(o)
  <2> DEFINE line == op[o].lines[1]
             r == [op[o] EXCEPT !.pc = "updating", !.todo = <<line.product>>]
  <2>1. op' = [op EXCEPT ![o] = r] /\ movements' = movements /\ catalog' = catalog
    BY <1>1, <1>4 DEF CheckStock, rows, catalog
  <2>2. line.product \in catalog
    BY <1>4 DEF CheckStock
  <2>3. op[o].lines \in Seq(Lines) /\ Len(op[o].lines) = 1
    BY <1>1 DEF Good
  <2>4. /\ r.pc = "updating" /\ r.kind = op[o].kind /\ r.change = op[o].change
        /\ r.target = op[o].target /\ r.lines = op[o].lines /\ r.todo = <<line.product>>
    BY <1>1 DEF OpStates
  <2>5. /\ op[o].change = NoChange /\ Undoes(op[o], movements) /\ AimsAt(op[o], Done)
    BY <1>1 DEF CallsBooked, Follows
  <2>6. Done \subseteq Done'
    BY DoneStays
  <2>7. Lists(<<line.product>>, line.product)
    BY DEF Lists
  <2>8. \A p \in Products : p = line.product \/ NetChange(op[o].lines, p) = 0
    BY <2>3, NetChangeOfOne
  <2>9. \A i \in DOMAIN op[o].lines : op[o].lines[i] = line
    BY <2>3
  <2> HIDE DEF r, line
  <2>10. Follows(r, catalog)
    <3>1. \A i \in DOMAIN r.todo : r.todo[i] = r.lines[1].product
      BY <2>4 DEF line
    <3>2. QED
      BY <2>2, <2>4, <2>5, <2>7, <2>8, <2>9, <3>1 DEF Follows, NoChange
  <2>11. Undoes(r, movements') /\ AimsAt(r, Done')
    BY <1>1, <2>1, <2>4, <2>5, <2>6 DEF Undoes, AimsAt
  <2>12. QED
    BY <1>2, <2>1, <2>10, <2>11, CallStepKeeps
<1>5. QED
  BY <1>3, <1>4

LEMMA UpdateIsBooked ==
  ASSUME IInv, CallsBooked, [Next]_vars, NEW o \in Ops, NEW delta, AtUpdate(o),
         Update(o, delta), Wanted(o) \in catalog, delta = NetChange(op[o].lines, Wanted(o))
  PROVE  CallsBooked'
<1> DEFINE p == Wanted(o)
           r == [op[o] EXCEPT !.todo = Tail(@), !.change[p] = delta]
<1>1. /\ op \in [Ops -> OpStates] /\ op[o] \in OpStates /\ op[o].pc = "updating"
  BY DEF AtUpdate, IInv, OpTypes
<1>2. o \notin Done
  BY <1>1 DEF Done
<1>3. op' = [op EXCEPT ![o] = r] /\ movements' = movements /\ catalog' = catalog
  BY <1>1 DEF Update, rows, catalog
<1>4. op[o].todo \in Seq(Products) /\ op[o].todo # <<>> /\ p = Head(op[o].todo)
  BY <1>1 DEF AtUpdate, OpStates, Wanted
<1>5. \A q : Lists(op[o].todo, q) => q = p \/ Lists(Tail(op[o].todo), q)
  <2>1. \A i \in DOMAIN op[o].todo :
          i # 1 => i - 1 \in DOMAIN Tail(op[o].todo) /\ Tail(op[o].todo)[i - 1] = op[o].todo[i]
    <3> DEFINE t == op[o].todo
    <3>1. DOMAIN t = 1 .. Len(t) /\ DOMAIN Tail(t) = 1 .. (Len(t) - 1) /\ Len(t) \in Nat
      BY <1>4
    <3>2. \A j \in 1 .. (Len(t) - 1) : Tail(t)[j] = t[j + 1]
      BY <1>4
    <3> HIDE DEF t
    <3>3. \A i \in 1 .. Len(t) : i # 1 => i - 1 \in 1 .. (Len(t) - 1) /\ (i - 1) + 1 = i
      BY <3>1
    <3>4. QED
      BY <3>1, <3>2, <3>3 DEF t
  <2>2. op[o].todo[1] = p
    BY <1>4
  <2>3. QED
    BY <2>1, <2>2 DEF Lists
<1>6. /\ r.pc = "updating" /\ r.kind = op[o].kind /\ r.target = op[o].target
      /\ r.lines = op[o].lines /\ r.todo = Tail(op[o].todo)
      /\ r.change = [op[o].change EXCEPT ![p] = delta]
  BY <1>1 DEF OpStates
<1>7. op[o].change \in [Products -> Int]
  BY <1>1 DEF OpStates
<1>8. Follows(op[o], catalog) /\ Undoes(op[o], movements) /\ AimsAt(op[o], Done)
  BY DEF CallsBooked
<1> HIDE DEF r
<1>9. Follows(r, catalog)
  <2>1. ASSUME NEW q \in Products
        PROVE  Lists(r.todo, q) \/ r.change[q] = NetChange(r.lines, q)
    BY <1>1, <1>5, <1>6, <1>7, <1>8 DEF Follows
  <2>2. ASSUME NEW i \in DOMAIN r.lines
        PROVE  r.lines[i].product \in catalog \/ Lists(r.todo, r.lines[i].product)
    BY <1>1, <1>5, <1>6, <1>8 DEF Follows
  <2>3. Adjusts(r) => \A i \in DOMAIN r.todo : r.todo[i] = r.lines[1].product
    <3>1. \A i \in DOMAIN Tail(op[o].todo) :
            i + 1 \in DOMAIN op[o].todo /\ Tail(op[o].todo)[i] = op[o].todo[i + 1]
      BY <1>4
    <3>2. QED
      BY <1>1, <1>6, <1>8, <3>1 DEF Follows, Adjusts
  <2>4. QED
    BY <1>6, <2>1, <2>2, <2>3 DEF Follows
<1>10. Done \subseteq Done'
  BY DoneStays
<1>11. Undoes(r, movements') /\ AimsAt(r, Done')
  BY <1>1, <1>3, <1>6, <1>8, <1>10 DEF Undoes, AimsAt
<1>12. QED
  BY <1>2, <1>3, <1>9, <1>11, CallStepKeeps

LEMMA AdjustStockIsBooked ==
  ASSUME IInv, CallsBooked, [Next]_vars, NEW o \in Ops, AdjustStock(o)
  PROVE  CallsBooked'
<1>1. /\ op[o] \in OpStates /\ AtUpdate(o) /\ Adjusts(op[o]) /\ op[o].pc = "updating"
      /\ Good(o, op[o], catalog, lock, stock) /\ Follows(op[o], catalog)
  BY DEF AdjustStock, AtUpdate, Adjusts, IInv, OpTypes, CallsBooked
<1>2. op[o].lines \in Seq(Lines) /\ Len(op[o].lines) = 1
  BY <1>1 DEF Good
<1>3. 1 \in DOMAIN op[o].todo /\ Wanted(o) = op[o].todo[1]
  <2>1. op[o].todo \in Seq(Products) /\ op[o].todo # <<>>
    BY <1>1 DEF AtUpdate, OpStates
  <2>2. QED
    BY <2>1 DEF Wanted
<1>4. Wanted(o) \in catalog /\ Wanted(o) = op[o].lines[1].product
  BY <1>1, <1>3 DEF Good, Follows
<1>5. NetChange(op[o].lines, Wanted(o)) = op[o].lines[1].delta
  BY <1>2, <1>4, NetChangeOfOne
<1>6. Update(o, op[o].lines[1].delta)
  BY DEF AdjustStock
<1>7. QED
  BY <1>1, <1>4, <1>5, <1>6, UpdateIsBooked

LEMMA DecrementStockIsBooked ==
  ASSUME IInv, CallsBooked, [Next]_vars, NEW o \in Ops, DecrementStock(o)
  PROVE  CallsBooked'
<1>1. AtUpdate(o) /\ Wanted(o) \in DOMAIN op[o].seen /\ Update(o, Taken(o))
  BY DEF DecrementStock
<1>2. DOMAIN op[o].seen \subseteq catalog
  BY DEF IInv, OpTypes, Good
<1>3. QED
  BY <1>1, <1>2, UpdateIsBooked DEF Taken

LEMMA ReadCatalogIsBooked ==
  ASSUME IInv, CallsBooked, [Next]_vars, NEW o \in Ops, ReadCatalog(o)
  PROVE  CallsBooked'
<1> DEFINE todo == ProductsInOrder(op[o].lines)
           r == [op[o] EXCEPT !.pc = "updating", !.todo = todo, !.seen = price]
<1>1. /\ op \in [Ops -> OpStates] /\ op[o] \in OpStates /\ op[o].pc = "reading"
      /\ op[o].kind = "sale" /\ Good(o, op[o], catalog, lock, stock)
  BY DEF ReadCatalog, IInv, OpTypes
<1>2. o \notin Done
  BY <1>1 DEF Done
<1>3. op' = [op EXCEPT ![o] = r] /\ movements' = movements /\ catalog' = catalog
  BY <1>1 DEF ReadCatalog, rows, catalog
<1>4. op[o].lines \in Seq(Lines)
  BY <1>1 DEF OpStates
<1>5. /\ \A i \in DOMAIN op[o].lines : Lists(todo, op[o].lines[i].product)
      /\ \A p : ~Lists(todo, p) => NetChange(op[o].lines, p) = 0
  BY <1>4, ProductsAreListed, NetChangeOfNone
<1> HIDE DEF todo
<1>6. /\ r.pc = "updating" /\ r.kind = "sale" /\ r.lines = op[o].lines /\ r.todo = todo
      /\ r.change = op[o].change
  BY <1>1 DEF OpStates
<1>7. op[o].change = NoChange
  BY <1>1 DEF CallsBooked, Follows
<1> HIDE DEF r
<1>8. Follows(r, catalog)
  BY <1>5, <1>6, <1>7 DEF Follows, NoChange, Adjusts
<1>9. Undoes(r, movements') /\ AimsAt(r, Done')
  BY <1>6 DEF Undoes, AimsAt
<1>10. QED
  BY <1>2, <1>3, <1>8, <1>9, CallStepKeeps

LEMMA CallsStayBooked ==
  ASSUME IInv, RowsBooked, CallsBooked, [Next]_vars
  PROVE  CallsBooked'
<1>1. CASE op' = op /\ movements' = movements /\ catalog \subseteq catalog'
  <2>1. Done' = Done
    BY <1>1 DEF Done
  <2>2. ASSUME NEW q \in Ops
        PROVE  Follows(op'[q], catalog') /\ Undoes(op'[q], movements') /\ AimsAt(op'[q], Done')
    <3>1. Follows(op[q], catalog) /\ Undoes(op[q], movements) /\ AimsAt(op[q], Done)
      BY DEF CallsBooked
    <3>2. QED
      BY <1>1, <2>1, <3>1, StaysBooked
  <2>3. QED
    BY <2>2 DEF CallsBooked
<1>2. ASSUME NEW o \in Ops, Step(o) \/ Abort(o)
      PROVE  CallsBooked'
  <2>1. op \in [Ops -> OpStates]
    BY DEF IInv, OpTypes
  <2>2. CASE ReadMovement(o) \/ CheckStock(o) \/ AdjustStock(o)
    BY <2>2, ReadMovementIsBooked, CheckStockIsBooked, AdjustStockIsBooked
  <2>3. CASE ReadCatalog(o) \/ DecrementStock(o)
    BY <2>3, ReadCatalogIsBooked, DecrementStockIsBooked
  <2>4. CASE FinishMovement(o) \/ FinishDelete(o) \/ FinishSale(o)
    <3>1. o \notin Done
      BY <2>4 DEF FinishMovement, FinishDelete, FinishSale, Updated, Done
    <3>2. catalog' = catalog /\ End(o, "ok")
      BY <2>4 DEF FinishMovement, FinishDelete, FinishSale, CommitStock, catalog
    <3>3. \A m \in movements' : m \in movements \/ m.id[1] = o
      BY <2>4, RowsOf DEF FinishMovement, FinishDelete, FinishSale
    <3>4. QED
      BY <3>1, <3>2, <3>3, EndIsBooked
  <2>5. CASE Rollback(o) /\ o \notin Done
    BY <2>5, RollbackIsBooked
  <2>6. DeleteRefused(o) \/ PriceChanged(o) => Rollback(o) /\ o \notin Done
    BY DEF DeleteRefused, PriceChanged, Updated, Done
  <2>7. SaleUnavailable(o) => Rollback(o) /\ o \notin Done
    BY DEF SaleUnavailable, AtUpdate, Done
  <2>8. Abort(o) => Rollback(o) /\ o \notin Done
    BY DEF Abort, Open, Done
  <2>9. DeadlockVictim(o) => Rollback(o) /\ o \notin Done
    BY DEF DeadlockVictim, Deadlocked, WaitsFor, AtUpdate, Done
  <2>10. QED
    BY <1>2, <2>2, <2>3, <2>4, <2>5, <2>6, <2>7, <2>8, <2>9 DEF Step
<1>3. CASE \E o \in Ops : Begin(o)
  BY <1>3, BeginIsBooked
<1>4. CASE UNCHANGED vars
  BY <1>1, <1>4 DEF vars, catalog
<1>5. CASE \E p \in Products, n \in Openings, c \in Prices : CreateProduct(p, n, c)
  BY <1>1, <1>5 DEF CreateProduct, catalog
<1>6. CASE \E p \in Products, c \in Prices : UpdatePrice(p, c)
  BY <1>1, <1>6 DEF UpdatePrice, catalog
<1>7. QED
  BY <1>2, <1>3, <1>4, <1>5, <1>6 DEF Next

(* The rows of a call, added by its commit.                                *)
LEMMA AddingRows ==
  ASSUME IInv, RowsBooked, CallsBooked, NEW o \in Ops, o \notin Done,
         op[o].pc = "updating", op[o].todo = <<>>, NEW sold \in BOOLEAN
  PROVE  LET ms == movements \cup Rows(o, sold)
         IN  /\ IsFiniteSet(ms)
             /\ \A m, n \in ms : m.id = n.id => m = n
             /\ \A m \in ms : m.product \in catalog
             /\ \A p \in Products : Moved(ms, p) = Moved(movements, p) + op[o].change[p]
<1> DEFINE new == Rows(o, sold)
<1>1. op[o].lines \in Seq(Lines)
  BY DEF IInv, OpTypes, OpStates
<1>2. Follows(op[o], catalog) /\ \A p : ~Lists(op[o].todo, p)
  BY DEF CallsBooked, Lists
<1>3. IsFiniteSet(new) /\ \A p : Moved(new, p) = NetChange(op[o].lines, p)
  BY <1>1, RowsMove
<1>4. \A m \in movements : m.id[1] # o
  BY DEF RowsBooked, OnlyCommittedRowsExist, Done
<1>5. \A m \in new : m.id[1] = o
  BY RowsOf
<1>6. \A m, n \in new : m.id = n.id => m = n
  BY DEF Rows
<1>7. \A m \in new : m.product \in catalog
  BY <1>2 DEF Rows, Follows
<1>8. new \subseteq Movements /\ movements \subseteq Movements
  BY <1>1, RowTypes DEF IInv, TableTypes
<1> HIDE DEF new
<1>9. ASSUME NEW p \in Products
      PROVE  Moved(movements \cup new, p) = Moved(movements, p) + op[o].change[p]
  <2> DEFINE A == {m \in movements : m.product = p}
             B == {m \in new : m.product = p}
  <2>1. A \cap B = {} /\ {m \in movements \cup new : m.product = p} = A \cup B
    BY <1>4, <1>5
  <2>2. IsFiniteSet(A) /\ IsFiniteSet(B)
    BY <1>3, FS_Subset DEF RowsBooked
  <2>3. \A m \in A \cup B : Delta[m] \in Int
    BY <1>8, DeltaTypes
  <2> HIDE DEF A, B
  <2>4. Total(Delta, A \cup B) = Total(Delta, A) + Total(Delta, B)
    BY <2>1, <2>2, <2>3, TotalJoin
  <2>5. Total(Delta, B) = op[o].change[p]
    BY <1>2, <1>3 DEF B, Moved, Follows
  <2>6. QED
    BY <2>1, <2>4, <2>5 DEF Moved, A
<1>10. IsFiniteSet(movements \cup new)
  BY <1>3, FS_Union DEF RowsBooked
<1>11. \A m, n \in movements \cup new : m.id = n.id => m = n
  BY <1>4, <1>5, <1>6 DEF RowsBooked
<1>12. \A m \in movements \cup new : m.product \in catalog
  BY <1>7 DEF RowsBooked
<1>13. QED
  BY <1>9, <1>10, <1>11, <1>12 DEF new

(* The row that a deletion takes away is the one whose quantity it undid.  *)
LEMMA TakingBack ==
  ASSUME IInv, RowsBooked, CallsBooked, NEW o \in Ops, Updated(o, "delete"),
         NEW d \in movements, d.id = op[o].target
  PROVE  \A p \in Products : Moved(movements \ {d}, p) = Moved(movements, p) + op[o].change[p]
<1>1. /\ op[o].lines \in Seq(Lines) /\ Len(op[o].lines) = 1
      /\ Follows(op[o], catalog) /\ Undoes(op[o], movements)
      /\ op[o].pc = "updating" /\ op[o].kind = "delete" /\ op[o].todo = <<>>
  BY DEF IInv, OpTypes, Good, Adjusts, CallsBooked, Updated
<1>2. op[o].lines[1].product = d.product /\ op[o].lines[1].delta = -d.delta
  BY <1>1 DEF Undoes
<1>3. ASSUME NEW p \in Products
      PROVE  op[o].change[p] = IF d.product = p THEN -d.delta ELSE 0
  <2>1. op[o].change[p] = NetChange(op[o].lines, p)
    BY <1>1 DEF Follows, Lists
  <2>2. QED
    BY <1>1, <1>2, <2>1, NetChangeOfOne
<1>4. movements \subseteq Movements /\ d \in Movements
  BY DEF IInv, TableTypes
<1>5. ASSUME NEW p \in Products
      PROVE  Moved(movements \ {d}, p) = Moved(movements, p) + op[o].change[p]
  <2> DEFINE A == {m \in movements : m.product = p}
  <2>1. IsFiniteSet(A) /\ \A m \in A : Delta[m] \in Int
    BY <1>4, DeltaTypes, FS_Subset DEF RowsBooked
  <2>2. Total(Delta, A) \in Int
    BY <2>1, TotalType
  <2>3. CASE d.product = p
    <3>1. d \in A /\ {m \in movements \ {d} : m.product = p} = A \ {d}
      BY <2>3
    <3>2. Delta[d] = d.delta /\ d.delta \in Int
      BY <1>4, DeltaTypes
    <3>3. IsFiniteSet(A \ {d}) /\ \A m \in A \ {d} : Delta[m] \in Int
      BY <2>1, FS_Subset
    <3> HIDE DEF A
    <3>4. Total(Delta, A) = Total(Delta, A \ {d}) + Delta[d]
      BY <2>1, <3>1, TotalRemove
    <3>5. Total(Delta, A \ {d}) \in Int
      BY <3>3, TotalType
    <3>6. Total(Delta, A \ {d}) = Total(Delta, A) + -d.delta
      BY <2>2, <3>2, <3>4, <3>5
    <3>7. QED
      BY <1>3, <2>3, <3>1, <3>6 DEF Moved, A
  <2>4. CASE d.product # p
    <3>1. {m \in movements \ {d} : m.product = p} = A
      BY <2>4
    <3>2. Moved(movements \ {d}, p) = Total(Delta, A) /\ Moved(movements, p) = Total(Delta, A)
      BY <3>1 DEF Moved
    <3>3. op[o].change[p] = 0
      BY <1>3, <2>4
    <3> HIDE DEF A
    <3>4. QED
      BY <2>2, <3>2, <3>3
  <2>5. QED
    BY <2>3, <2>4
<1>6. QED
  BY <1>5

-----------------------------------------------------------------------------
(* The stock adds up.                                                      *)

(* A commit that writes the changed stock and the rows that account for it. *)
LEMMA CommitBalances ==
  ASSUME IInv, RowsBooked, Balanced, [Next]_vars, NEW o \in Ops, CommitStock(o),
         IsFiniteSet(movements'),
         \A m, n \in movements' : m.id = n.id => m = n,
         \A m \in movements' : m.product \in catalog,
         \A p \in Products : Moved(movements', p) = Moved(movements, p) + op[o].change[p]
  PROVE  RowsBooked' /\ Balanced'
<1>1. catalog' = catalog /\ opening' = opening
  BY DEF CommitStock, catalog
<1>2. RowsBooked'
  BY <1>1, CommittedRowsStay DEF RowsBooked
<1>3. ASSUME NEW p \in Products
      PROVE  stock'[p] = opening'[p] + Moved(movements', p)
  <2>1. stock'[p] = stock[p] + op[o].change[p]
    BY DEF CommitStock
  <2>2. op[o].change[p] \in Int /\ stock[p] \in Int /\ opening[p] \in Int
    BY DEF IInv, OpTypes, OpStates, TableTypes
  <2>3. stock[p] = opening[p] + Moved(movements, p)
    BY DEF Balanced
  <2>4. Moved(movements, p) \in Int
    <3> DEFINE S == {m \in movements : m.product = p}
    <3>1. IsFiniteSet(S)
      BY FS_Subset DEF RowsBooked
    <3>2. \A m \in S : Delta[m] \in Int
      BY DeltaTypes DEF IInv, TableTypes
    <3>3. QED
      BY <3>1, <3>2, TotalType DEF Moved
  <2>5. Moved(movements', p) = Moved(movements, p) + op[o].change[p]
    OBVIOUS
  <2>6. QED
    BY <1>1, <2>1, <2>2, <2>3, <2>4, <2>5
<1>4. QED
  BY <1>2, <1>3 DEF Balanced

LEMMA RowsStayBooked ==
  ASSUME IInv, RowsBooked, CallsBooked, Balanced, [Next]_vars
  PROVE  RowsBooked' /\ Balanced'
<1>1. CASE UNCHANGED <<opening, stock, movements>> /\ catalog' = catalog
  <2>1. RowsBooked'
    BY <1>1, CommittedRowsStay DEF RowsBooked
  <2>2. QED
    BY <1>1, <2>1 DEF Balanced
<1>2. CASE \E p \in Products, n \in Openings, c \in Prices : CreateProduct(p, n, c)
  <2>1. PICK p \in Products, n \in Openings, c \in Prices : CreateProduct(p, n, c)
    BY <1>2
  <2>2. movements' = movements /\ catalog \subseteq catalog'
    BY <2>1 DEF CreateProduct, catalog
  <2>3. RowsBooked'
    BY <2>2, CommittedRowsStay DEF RowsBooked
  <2>4. n \in Int /\ opening \in [Products -> Nat] /\ stock \in [Products -> Int]
    BY OpeningAssumption DEF IInv, TableTypes
  <2>5. Moved(movements, p) = 0
    <3>1. {m \in movements : m.product = p} = {}
      BY <2>1 DEF RowsBooked, CreateProduct
    <3>2. QED
      BY <3>1, TotalEmpty DEF Moved
  <2>6. ASSUME NEW q \in Products
        PROVE  stock'[q] = opening'[q] + Moved(movements', q)
    <3>1. CASE q = p
      BY <2>1, <2>2, <2>4, <2>5, <3>1 DEF CreateProduct
    <3>2. CASE q # p
      BY <2>1, <2>2, <2>4, <3>2 DEF CreateProduct, Balanced
    <3>3. QED
      BY <3>1, <3>2
  <2>7. QED
    BY <2>3, <2>6 DEF Balanced
<1>3. ASSUME NEW o \in Ops, FinishMovement(o)
      PROVE  RowsBooked' /\ Balanced'
  <2>1. /\ movements' = movements \cup Rows(o, FALSE) /\ CommitStock(o)
        /\ op[o].pc = "updating" /\ op[o].todo = <<>> /\ o \notin Done
    BY <1>3 DEF FinishMovement, Updated, Done
  <2>2. QED
    BY <2>1, AddingRows, CommitBalances
<1>4. ASSUME NEW o \in Ops, FinishSale(o)
      PROVE  RowsBooked' /\ Balanced'
  <2>1. /\ movements' = movements \cup Rows(o, TRUE) /\ CommitStock(o)
        /\ op[o].pc = "updating" /\ op[o].todo = <<>> /\ o \notin Done
    BY <1>4 DEF FinishSale, Updated, Done
  <2>2. QED
    BY <2>1, AddingRows, CommitBalances
<1>5. ASSUME NEW o \in Ops, FinishDelete(o)
      PROVE  RowsBooked' /\ Balanced'
  <2>1. PICK d \in movements : d.id = op[o].target /\ movements' = movements \ {d}
    BY <1>5 DEF FinishDelete
  <2>2. Updated(o, "delete") /\ CommitStock(o)
    BY <1>5 DEF FinishDelete
  <2>3. \A p \in Products : Moved(movements', p) = Moved(movements, p) + op[o].change[p]
    BY <2>1, <2>2, TakingBack
  <2>4. /\ IsFiniteSet(movements')
        /\ \A m, n \in movements' : m.id = n.id => m = n
        /\ \A m \in movements' : m.product \in catalog
    BY <2>1, FS_RemoveElement DEF RowsBooked
  <2>5. QED
    BY <2>2, <2>3, <2>4, CommitBalances
<1>6. CASE \E p \in Products, c \in Prices : UpdatePrice(p, c)
  BY <1>1, <1>6 DEF UpdatePrice, catalog
<1>7. CASE UNCHANGED vars
  BY <1>1, <1>7 DEF vars, catalog
<1>8. CASE \E o \in Ops : Begin(o) \/ Abort(o)
  BY <1>1, <1>8 DEF Begin, BeginSale, BeginMovement, BeginDelete, Abort, Rollback, rows, catalog
<1>9. CASE \E o \in Ops : Step(o)
  BY <1>1, <1>3, <1>4, <1>5, <1>9 DEF Step, ReadMovement, CheckStock, AdjustStock,
    DeleteRefused, ReadCatalog, DecrementStock, SaleUnavailable, PriceChanged,
    DeadlockVictim, Update, Rollback, rows, catalog
<1>10. QED
  BY <1>2, <1>6, <1>7, <1>8, <1>9 DEF Next

LEMMA InitiallyBooked == Init => RowsBooked /\ CallsBooked /\ Balanced
<1> SUFFICES ASSUME Init PROVE RowsBooked /\ CallsBooked /\ Balanced
  OBVIOUS
<1>1. RowsBooked
  BY FS_EmptySet DEF Init, RowsBooked, OnlyCommittedRowsExist
<1>2. [NewOp EXCEPT !.pc = "new"] = NewOp
  BY DEF NewOp
<1>3. CallsBooked
  BY <1>2, IdleIsBooked DEF Init, CallsBooked
<1>4. \A p \in Products : {m \in movements : m.product = p} = {}
  BY DEF Init
<1>5. Balanced
  BY <1>4, TotalEmpty DEF Init, Balanced, Moved
<1>6. QED
  BY <1>1, <1>3, <1>5

(* The stock of every product is what it was created with plus the         *)
(* movements that exist, although increments, checked decrements and       *)
(* deletions of any number of transactions overlap, wait for each other's  *)
(* rows and are rolled back: none is lost, applied twice or undone twice.  *)
THEOREM StockAlwaysAddsUp == Spec => []StockIsLedger
<1>1. Init => SInv
  BY Initially, InitiallyBooked DEF SInv
<1>2. SInv /\ [Next]_vars => SInv'
  BY InductiveStep, CallsStayBooked, RowsStayBooked DEF SInv
<1>3. SInv => StockIsLedger
  BY BalancedIsLedger DEF SInv, RowsBooked
<1>4. QED
  BY <1>1, <1>2, <1>3, PTL DEF Spec

-----------------------------------------------------------------------------
(* Waiting.  What a step does to the record of one call and to the locks:  *)
(* it begins, goes on to a later statement, maybe with one more lock, or   *)
(* is over and gives its locks back.                                       *)

Fewer(r, q) == Precedes(StatementsLeft(r), StatementsLeft(q))

Begins(o, r) == op[o].pc = "new" /\ Working(r) /\ lock' = lock

Advances(o, r) ==
  /\ Open(o) /\ Working(r) /\ Fewer(r, op[o])
  /\ \/ lock' = lock
     \/ \E p \in Products : lock[p] = None /\ lock' = [lock EXCEPT ![p] = o]

IsOver(o, r) ==
  /\ Open(o) /\ r.pc \in {"ok", "error"} /\ Fewer(r, op[o])
  /\ lock' = Unlocked(o)

ACallMoves ==
  \E o \in Ops : \E r :
    /\ op' = [op EXCEPT ![o] = r]
    /\ Begins(o, r) \/ Advances(o, r) \/ IsOver(o, r)

LEMMA EndIsLast ==
  ASSUME NEW o \in Ops, Open(o), NEW outcome \in {"ok", "error"}, End(o, outcome)
  PROVE  ACallMoves
<1> DEFINE r == [NewOp EXCEPT !.pc = outcome]
<1>1. op' = [op EXCEPT ![o] = r] /\ lock' = Unlocked(o)
  BY DEF End
<1>2. r.pc = outcome
  BY DEF NewOp
<1>3. StatementsLeft(r)[1] = 0 /\ StatementsLeft(op[o])[1] \in {1, 2, 3}
  BY <1>2 DEF StatementsLeft, Open
<1>4. Fewer(r, op[o])
  BY <1>3 DEF Fewer, Precedes
<1> HIDE DEF r
<1>5. QED
  BY <1>1, <1>2, <1>4 DEF ACallMoves, IsOver

LEMMA RollbackIsLast ==
  ASSUME NEW o \in Ops, Open(o), Rollback(o)
  PROVE  ACallMoves
BY EndIsLast DEF Rollback

\* A statement that changes the call's own record only.
LEMMA NextStatement ==
  ASSUME IInv, NEW o \in Ops, NEW r, op' = [op EXCEPT ![o] = r], lock' = lock, Working(r),
         \/ op[o].pc = "reading" /\ r.pc \in {"checking", "updating"}
         \/ op[o].pc = "checking" /\ r.pc = "updating"
  PROVE  ACallMoves
<1>1. Open(o)
  BY DEF Open
<1>2. StatementsLeft(r)[1] < StatementsLeft(op[o])[1]
  BY DEF StatementsLeft
<1>3. Fewer(r, op[o])
  BY <1>2 DEF Fewer, Precedes
<1>4. QED
  BY <1>1, <1>3 DEF ACallMoves, Advances

LEMMA UpdateAdvances ==
  ASSUME IInv, NEW o \in Ops, NEW delta, AtUpdate(o), Update(o, delta)
  PROVE  ACallMoves
<1> DEFINE p == Wanted(o)
           r == [op[o] EXCEPT !.todo = Tail(@), !.change[p] = delta]
<1>1. op[o] \in OpStates /\ op[o].pc = "updating" /\ op[o].todo # <<>>
  BY DEF IInv, OpTypes, AtUpdate
<1>2. op[o].todo \in Seq(Products) /\ p \in Products
  BY <1>1 DEF OpStates, Wanted
<1>3. op' = [op EXCEPT ![o] = r]
  BY DEF Update, IInv, OpTypes
<1>4. r.pc = "updating" /\ r.todo = Tail(op[o].todo)
  BY <1>1 DEF OpStates
<1> HIDE DEF r
<1>5. Len(Tail(op[o].todo)) < Len(op[o].todo)
  BY <1>1, <1>2
<1>6. Fewer(r, op[o])
  BY <1>1, <1>4, <1>5 DEF Fewer, Precedes, StatementsLeft
<1>7. lock[p] = None /\ lock' = [lock EXCEPT ![p] = o]
  BY DEF Update
<1>8. QED
  BY <1>1, <1>2, <1>3, <1>4, <1>6, <1>7 DEF ACallMoves, Advances, Open, Working

LEMMA BeginMoves ==
  ASSUME IInv, NEW o \in Ops, Begin(o)
  PROVE  ACallMoves
<1>1. op \in [Ops -> OpStates]
  BY DEF IInv, OpTypes
<1>2. CASE \E line \in MovementInputs : BeginMovement(o, line)
  <2>1. PICK line \in MovementInputs : BeginMovement(o, line)
    BY <1>2
  <2> DEFINE r == [op[o] EXCEPT !.pc = "checking", !.kind = "movement", !.lines = <<line>>]
  <2>2. op' = [op EXCEPT ![o] = r] /\ r.pc = "checking" /\ lock' = lock /\ op[o].pc = "new"
    BY <1>1, <2>1 DEF BeginMovement, OpStates
  <2> HIDE DEF r
  <2>3. QED
    BY <2>2 DEF ACallMoves, Begins, Working
<1>3. CASE \E lines \in SaleInputs : BeginSale(o, lines)
  <2>1. PICK lines \in SaleInputs : BeginSale(o, lines)
    BY <1>3
  <2> DEFINE r == [op[o] EXCEPT !.pc = "reading", !.kind = "sale", !.lines = lines]
  <2>2. op' = [op EXCEPT ![o] = r] /\ r.pc = "reading" /\ lock' = lock /\ op[o].pc = "new"
    BY <1>1, <2>1 DEF BeginSale, OpStates
  <2> HIDE DEF r
  <2>3. QED
    BY <2>2 DEF ACallMoves, Begins, Working
<1>4. CASE \E m \in movements : BeginDelete(o, m)
  <2>1. PICK m \in movements : BeginDelete(o, m)
    BY <1>4
  <2> DEFINE r == [op[o] EXCEPT !.pc = "reading", !.kind = "delete", !.target = m.id]
  <2>2. op' = [op EXCEPT ![o] = r] /\ r.pc = "reading" /\ lock' = lock /\ op[o].pc = "new"
    BY <1>1, <2>1 DEF BeginDelete, OpStates
  <2> HIDE DEF r
  <2>3. QED
    BY <2>2 DEF ACallMoves, Begins, Working
<1>5. QED
  BY <1>2, <1>3, <1>4 DEF Begin

LEMMA ReadMovementMoves ==
  ASSUME IInv, NEW o \in Ops, ReadMovement(o)
  PROVE  ACallMoves
<1>1. Open(o) /\ op[o] \in OpStates /\ op[o].pc = "reading"
  BY DEF ReadMovement, Open, IInv, OpTypes
<1>2. CASE Rollback(o)
  BY <1>1, <1>2, RollbackIsLast
<1>3. CASE ~Rollback(o)
  <2>1. PICK m \in movements :
          /\ op' = [op EXCEPT ![o].pc = "checking",
                              ![o].lines = <<Line(m.product, -m.delta, None)>>]
          /\ lock' = lock
    BY <1>3 DEF ReadMovement
  <2> DEFINE r == [op[o] EXCEPT !.pc = "checking",
                                !.lines = <<Line(m.product, -m.delta, None)>>]
  <2>2. op' = [op EXCEPT ![o] = r] /\ r.pc = "checking"
    BY <1>1, <2>1 DEF IInv, OpTypes, OpStates
  <2> HIDE DEF r
  <2>3. QED
    BY <1>1, <2>1, <2>2, NextStatement DEF Working
<1>4. QED
  BY <1>2, <1>3

LEMMA CheckStockMoves ==
  ASSUME IInv, NEW o \in Ops, CheckStock(o)
  PROVE  ACallMoves
<1>1. Open(o) /\ op[o] \in OpStates /\ op[o].pc = "checking"
  BY DEF CheckStock, Open, IInv, OpTypes
<1>2. CASE Rollback(o)
  BY <1>1, <1>2, RollbackIsLast
<1>3. CASE ~Rollback(o)
  <2> DEFINE r == [op[o] EXCEPT !.pc = "updating", !.todo = <<op[o].lines[1].product>>]
  <2>1. op' = [op EXCEPT ![o] = r] /\ r.pc = "updating" /\ lock' = lock
    BY <1>1, <1>3 DEF CheckStock, IInv, OpTypes, OpStates
  <2> HIDE DEF r
  <2>2. QED
    BY <1>1, <2>1, NextStatement DEF Working
<1>4. QED
  BY <1>2, <1>3

LEMMA ReadCatalogMoves ==
  ASSUME IInv, NEW o \in Ops, ReadCatalog(o)
  PROVE  ACallMoves
<1> DEFINE r == [op[o] EXCEPT !.pc = "updating", !.todo = ProductsInOrder(op[o].lines),
                              !.seen = price]
<1>1. op[o] \in OpStates /\ op[o].pc = "reading"
  BY DEF ReadCatalog, IInv, OpTypes
<1>2. op' = [op EXCEPT ![o] = r] /\ r.pc = "updating" /\ lock' = lock
  BY <1>1 DEF ReadCatalog, IInv, OpTypes, OpStates
<1> HIDE DEF r
<1>3. QED
  BY <1>1, <1>2, NextStatement DEF Working

LEMMA StepsMove ==
  ASSUME IInv, NEW o \in Ops, Step(o) \/ Abort(o)
  PROVE  ACallMoves
<1>1. CASE ReadMovement(o) \/ CheckStock(o) \/ ReadCatalog(o)
  BY <1>1, ReadMovementMoves, CheckStockMoves, ReadCatalogMoves
<1>2. CASE AdjustStock(o) \/ DecrementStock(o)
  BY <1>2, UpdateAdvances DEF AdjustStock, DecrementStock
<1>3. CASE FinishMovement(o) \/ FinishDelete(o) \/ FinishSale(o)
  <2>1. Open(o) /\ End(o, "ok")
    BY <1>3 DEF FinishMovement, FinishDelete, FinishSale, Updated, Open, CommitStock
  <2>2. QED
    BY <2>1, EndIsLast
<1>4. CASE DeleteRefused(o) \/ SaleUnavailable(o) \/ PriceChanged(o)
  <2>1. Open(o) /\ Rollback(o)
    BY <1>4 DEF DeleteRefused, SaleUnavailable, PriceChanged, Updated, AtUpdate, Open
  <2>2. QED
    BY <2>1, RollbackIsLast
<1>5. CASE DeadlockVictim(o)
  <2>1. AtUpdate(o)
    BY <1>5 DEF DeadlockVictim, Deadlocked, WaitsFor
  <2>2. Open(o) /\ Rollback(o)
    BY <1>5, <2>1 DEF DeadlockVictim, AtUpdate, Open
  <2>3. QED
    BY <2>2, RollbackIsLast
<1>6. CASE Abort(o)
  BY <1>6, RollbackIsLast DEF Abort
<1>7. QED
  BY <1>1, <1>2, <1>3, <1>4, <1>5, <1>6 DEF Step

LEMMA OneCallMoves ==
  ASSUME IInv, [Next]_vars
  PROVE  UNCHANGED <<op, lock>> \/ ACallMoves
BY BeginMoves, StepsMove DEF Next, vars, CreateProduct, UpdatePrice

(* No statement is run twice, and an answered call does nothing more:      *)
(* together with WaitsThatEnd, every call comes to its end.                *)
THEOREM CallsHaveAnEnd == Spec => CallsRunOut
<1> DEFINE RunsOut(o) == op'[o] # op[o] /\ op[o].pc # "new" =>
             Open(o) /\ Precedes(StatementsLeft(op'[o]), StatementsLeft(op[o]))
<1>1. ASSUME IInv, [Next]_vars, NEW o \in Ops
      PROVE  RunsOut(o)
  <2> SUFFICES ASSUME op'[o] # op[o], op[o].pc # "new"
               PROVE  Open(o) /\ Fewer(op'[o], op[o])
    BY DEF Fewer
  <2>1. PICK q \in Ops : \E r : /\ op' = [op EXCEPT ![q] = r]
                                /\ Begins(q, r) \/ Advances(q, r) \/ IsOver(q, r)
    BY <1>1, OneCallMoves DEF ACallMoves
  <2>2. PICK r : /\ op' = [op EXCEPT ![q] = r]
                 /\ Begins(q, r) \/ Advances(q, r) \/ IsOver(q, r)
    BY <2>1
  <2>3. op \in [Ops -> OpStates]
    BY <1>1 DEF IInv, OpTypes
  <2>4. q = o /\ op'[o] = r
    BY <2>2, <2>3
  <2>5. QED
    BY <2>2, <2>4 DEF Begins, Advances, IsOver
<1>2. IInv /\ [Next]_vars => [\A o \in Ops : RunsOut(o)]_vars
  BY <1>1
<1>3. QED
  BY <1>2, Invariance, PTL DEF Spec, CallsRunOut

(* Who holds a lock is open; and only finitely many calls are open.        *)
HoldersAreOpen == \A p \in Products : lock[p] # None => Open(lock[p])

OpenCalls == {o \in Ops : Open(o)}
WInv == HoldersAreOpen /\ IsFiniteSet(OpenCalls)

LEMMA MoveKeepsWaits ==
  ASSUME IInv, WInv, ACallMoves
  PROVE  WInv'
<1>1. PICK o \in Ops : \E r : /\ op' = [op EXCEPT ![o] = r]
                              /\ Begins(o, r) \/ Advances(o, r) \/ IsOver(o, r)
  BY DEF ACallMoves
<1>2. PICK r : /\ op' = [op EXCEPT ![o] = r]
               /\ Begins(o, r) \/ Advances(o, r) \/ IsOver(o, r)
  BY <1>1
<1>3. op \in [Ops -> OpStates] /\ lock \in [Products -> Ops \cup {None}] /\ None \notin Ops
  BY NoneAssumption DEF IInv, OpTypes, LockTypes
<1>4. op'[o] = r /\ \A q \in Ops \ {o} : op'[q] = op[q]
  BY <1>2, <1>3
<1>5. \A q \in Ops \ {o} : Open(q)' <=> Open(q)
  BY <1>4 DEF Open
<1>6. Open(o)' <=> Working(r)
  BY <1>4 DEF Open, Working
<1>7. HoldersAreOpen'
  <2> SUFFICES ASSUME NEW p \in Products, lock'[p] # None
               PROVE  Working(op'[lock'[p]])
    BY DEF HoldersAreOpen, Open, Working
  <2>1. CASE lock'[p] = lock[p] /\ lock[p] # o
    <3>1. lock[p] \in Ops \ {o} /\ Open(lock[p])
      BY <1>3, <2>1 DEF WInv, HoldersAreOpen
    <3>2. QED
      BY <1>4, <2>1, <3>1 DEF Open, Working
  <2>2. CASE lock'[p] = o
    <3>1. ~IsOver(o, r)
      BY <1>3, <2>2 DEF IsOver, Unlocked
    <3>2. QED
      BY <1>2, <1>4, <2>2, <3>1 DEF Begins, Advances
  <2>3. lock'[p] = lock[p] \/ lock'[p] = o
    BY <1>2, <1>3 DEF Begins, Advances, IsOver, Unlocked
  <2>4. QED
    BY <2>1, <2>2, <2>3
<1>8. IsFiniteSet(OpenCalls')
  <2>1. OpenCalls' \in SUBSET (OpenCalls \cup {o})
    BY <1>5 DEF OpenCalls
  <2>2. IsFiniteSet(OpenCalls \cup {o})
    BY FS_AddElement DEF WInv
  <2>3. QED
    BY <2>1, <2>2, FS_Subset
<1>9. QED
  BY <1>7, <1>8 DEF WInv

LEMMA WaitInvariance == Spec => []WInv
<1>1. Init => WInv
  <2> SUFFICES ASSUME Init PROVE WInv
    OBVIOUS
  <2>1. HoldersAreOpen
    BY DEF Init, HoldersAreOpen
  <2>2. OpenCalls = {}
    BY DEF Init, OpenCalls, Open, NewOp
  <2>3. QED
    BY <2>1, <2>2, FS_EmptySet DEF WInv
<1>2. WInv /\ UNCHANGED <<op, lock>> => WInv'
  BY DEF WInv, HoldersAreOpen, OpenCalls, Open
<1>3. IInv /\ WInv /\ [Next]_vars => WInv'
  BY <1>2, OneCallMoves, MoveKeepsWaits
<1>4. QED
  BY <1>1, <1>3, Invariance, PTL DEF Spec

(* Calls that all wait for each other wait in a cycle: each has one        *)
(* holder, and finitely many calls cannot wait one behind the other for    *)
(* ever.                                                                   *)
LEMMA WaitsFormACycle ==
  ASSUME IInv, WInv, NEW calls \in SUBSET OpenCalls, calls # {},
         \A o \in calls : Blocked(o),
         \A o \in calls, q \in Ops : Open(q) /\ WaitsFor(o, q) => q \in calls
  PROVE  \E o \in calls : Deadlocked(o)
<1>0. PICK holder : holder = [o \in calls |-> lock[Wanted(o)]]
  OBVIOUS
<1>1. IsFiniteSet(calls)
  BY FS_Subset DEF WInv
<1>2. ASSUME NEW o \in calls
      PROVE  holder[o] \in calls /\ WaitsFor(o, holder[o])
  <2>1. o \in Ops /\ op[o] \in OpStates /\ AtUpdate(o) /\ lock[Wanted(o)] # None
    BY DEF OpenCalls, IInv, OpTypes, Blocked
  <2>2. Wanted(o) \in Products
    BY <2>1 DEF AtUpdate, Wanted, OpStates
  <2>3. lock[Wanted(o)] \in Ops /\ Open(lock[Wanted(o)])
    BY <2>1, <2>2 DEF IInv, LockTypes, WInv, HoldersAreOpen
  <2>4. WaitsFor(o, lock[Wanted(o)])
    BY <2>1 DEF WaitsFor
  <2>5. QED
    BY <1>0, <2>3, <2>4
<1>3. MapsInto(holder, calls)
  BY <1>2 DEF MapsInto
<1>4. PICK cycle \in SUBSET calls :
        cycle # {} /\ MapsInto(holder, cycle) /\ MapsOnto(holder, cycle)
  BY <1>1, <1>3, CycleWithin
<1>5. \A q \in cycle : \E h \in cycle : WaitsFor(q, h)
  BY <1>2, <1>4 DEF MapsInto
<1>6. \A h \in cycle : \E q \in cycle : WaitsFor(q, h)
  BY <1>2, <1>4 DEF MapsOnto
<1>7. PICK o \in cycle : TRUE
  BY <1>4
<1>8. cycle \in SUBSET Ops
  BY DEF OpenCalls
<1>9. Deadlocked(o)
  BY <1>5, <1>6, <1>7, <1>8 DEF Deadlocked
<1>10. QED
  BY <1>4, <1>7, <1>9

(* Whatever locks are taken in whatever order, by any number of calls:     *)
(* whoever waits, waits for calls of which one can go on.                  *)
THEOREM WaitsThatEnd == Spec => []WaitsAreResolved
<1>1. ASSUME IInv, WInv
      PROVE  WaitsAreResolved
  <2> SUFFICES ASSUME NEW calls \in SUBSET OpenCalls, calls # {},
                      \A o \in calls, q \in Ops : Open(q) /\ WaitsFor(o, q) => q \in calls,
                      \A o \in calls : ~CanGoOn(o)
               PROVE  FALSE
    BY DEF WaitsAreResolved, OpenCalls
  <2>1. \A o \in calls : Blocked(o) /\ ~Deadlocked(o)
    BY DEF CanGoOn, OpenCalls
  <2>2. QED
    BY <1>1, <2>1, WaitsFormACycle
<1>2. QED
  BY <1>1, Invariance, WaitInvariance, PTL
=============================================================================
