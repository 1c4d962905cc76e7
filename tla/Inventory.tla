----------------------------- MODULE Inventory -----------------------------
(***************************************************************************)
(* Stock under concurrent handlers of the Finance MCP server: products,    *)
(* inventory movements and sales, as the repositories write them through   *)
(* Prisma interactive transactions.  PostgreSQL runs them at READ          *)
(* COMMITTED: a statement reads committed rows, an UPDATE waits for the    *)
(* row's lock and then reads the row again, a lock is held to the end of   *)
(* its transaction, and what a transaction wrote appears when it commits   *)
(* or never.  An operation is one call of a repository method; every       *)
(* action is one of its statements.                                        *)
(***************************************************************************)
EXTENDS Integers, Sequences, FiniteSets, SequencesExt, FiniteSetsExt

CONSTANTS
  Products,
  Ops,        \* identities of repository calls, each used once (bounds them)
  Prices,     \* catalog prices
  Openings,   \* stock a product may be created with
  SaleInputs,     \* sequences of lines record_sale may be called with
  MovementInputs, \* lines record_inventory_movement may be called with
  None

Line(p, delta, price) == [product |-> p, delta |-> delta, price |-> price]
Lines == [product : Products, delta : Int, price : Prices \cup {None}]

ASSUME OpeningAssumption == Openings \subseteq Nat
ASSUME NoneAssumption == None \notin Ops \cup {"sale", "movement", "delete"}
ASSUME InputAssumption ==
  /\ MovementInputs \subseteq Lines
  /\ SaleInputs \subseteq Seq(Lines)

-----------------------------------------------------------------------------
(* The quantities map of a sale: one entry per product, in the order of    *)
(* the lines that first name it.                                           *)

ProductsInOrder(lines) ==
  FoldLeft(LAMBDA acc, l : IF Contains(acc, l.product) THEN acc ELSE Append(acc, l.product),
           <<>>, lines)

NetChange(lines, p) ==
  FoldLeft(LAMBDA acc, l : IF l.product = p THEN acc + l.delta ELSE acc, 0, lines)

-----------------------------------------------------------------------------
VARIABLES
  opening,    \* [Products -> Nat]: the stock each was created with (history)
  stock,      \* [Products -> Int]: Product.stock, committed
  price,      \* Product.salePrice, committed; defined for the products that exist
  movements,  \* InventoryMovement rows, committed
  sales,      \* Sale rows with their lines and the income linked to them
  lock,       \* [Products -> Ops or None]: the row lock of each product
  op          \* [Ops -> operation states]

rows == <<opening, stock, price, movements, sales>>
vars == <<opening, stock, price, movements, sales, lock, op>>

catalog == DOMAIN price
PriceLists == UNION {[S -> Prices] : S \in SUBSET Products}

Kinds == {"sale", "movement", "delete"}
Ids == Ops \X (Nat \ {0})
Movements == [id : Ids, product : Products, delta : Int, sold : BOOLEAN]
Sales == [id : Ops, lines : Seq(Lines)]

OpStates ==
  [pc : {"new", "reading", "checking", "updating", "ok", "error"},
   kind : Kinds \cup {None},
   lines : Seq(Lines),
   target : Ids \cup {None},                               \* deleteMovement's id
   seen : PriceLists,                                      \* products as read
   todo : Seq(Products),                                   \* stock updates to come
   change : [Products -> Int]]                             \* uncommitted updates

NoChange == [p \in Products |-> 0]

NewOp == [pc |-> "new", kind |-> None, lines |-> <<>>, target |-> None, seen |-> <<>>,
          todo |-> <<>>, change |-> NoChange]

Init ==
  /\ opening = [p \in Products |-> 0]
  /\ stock = [p \in Products |-> 0]
  /\ price = <<>>
  /\ movements = {}
  /\ sales = {}
  /\ lock = [p \in Products |-> None]
  /\ op = [o \in Ops |-> NewOp]

-----------------------------------------------------------------------------
(* Single statements.                                                      *)

CreateProduct(p, n, c) ==
  /\ p \notin catalog
  /\ opening' = [opening EXCEPT ![p] = n]
  /\ stock' = [stock EXCEPT ![p] = n]
  /\ price' = [q \in catalog \cup {p} |-> IF q = p THEN c ELSE price[q]]
  /\ UNCHANGED <<movements, sales, lock, op>>

\* updateProduct never touches the stock; its UPDATE waits for the row's lock.
UpdatePrice(p, c) ==
  /\ p \in catalog /\ lock[p] = None
  /\ price' = [price EXCEPT ![p] = c]
  /\ UNCHANGED <<opening, stock, movements, sales, lock, op>>

-----------------------------------------------------------------------------
(* Transactions.                                                           *)

Open(o) == op[o].pc \in {"reading", "checking", "updating"}

Unlocked(o) == [p \in Products |-> IF lock[p] = o THEN None ELSE lock[p]]

End(o, outcome) ==
  /\ lock' = Unlocked(o)
  /\ op' = [op EXCEPT ![o] = [NewOp EXCEPT !.pc = outcome]]

\* Throwing inside $transaction undoes it; the tool answers isError.
Rollback(o) == End(o, "error") /\ UNCHANGED rows

CommitStock(o) ==
  /\ stock' = [p \in Products |-> stock[p] + op[o].change[p]]
  /\ End(o, "ok")
  /\ UNCHANGED <<opening, price>>

\* A timeout of the interactive transaction, a lost connection or a crash.
Abort(o) == Open(o) /\ Rollback(o)

(* UPDATE of the next product's row, once its lock is free.                *)
AtUpdate(o) == op[o].pc = "updating" /\ op[o].todo # <<>>
Wanted(o) == Head(op[o].todo)

\* Broken variant: the loop over the products does not advance.
UpdateAgain(o, delta) ==
  LET p == Wanted(o) IN
  /\ lock[p] = None
  /\ lock' = [lock EXCEPT ![p] = o]
  /\ op' = [op EXCEPT ![o].change[p] = delta]
  /\ UNCHANGED rows

Update(o, delta) ==
  LET p == Wanted(o) IN
  /\ lock[p] = None
  /\ lock' = [lock EXCEPT ![p] = o]
  /\ op' = [op EXCEPT ![o].todo = Tail(@), ![o].change[p] = delta]
  /\ UNCHANGED rows

\* PostgreSQL ends one transaction of a cycle of lock waits.
WaitsFor(o, q) == AtUpdate(o) /\ lock[Wanted(o)] = q

Deadlocked(o) ==
  \E cycle \in SUBSET Ops :
    /\ o \in cycle
    /\ \A q \in cycle : \E holder \in cycle : WaitsFor(q, holder)
    /\ \A holder \in cycle : \E q \in cycle : WaitsFor(q, holder)

DeadlockVictim(o) == Deadlocked(o) /\ Rollback(o)

-----------------------------------------------------------------------------
(* InventoryRepository.recordMovement and deleteMovement.                  *)

BeginMovement(o, line) ==
  /\ op[o].pc = "new"
  /\ op' = [op EXCEPT ![o].pc = "checking", ![o].kind = "movement", ![o].lines = <<line>>]
  /\ UNCHANGED <<rows, lock>>

\* The id comes from a list the caller read before.
BeginDelete(o, m) ==
  /\ op[o].pc = "new"
  /\ op' = [op EXCEPT ![o].pc = "reading", ![o].kind = "delete", ![o].target = m.id]
  /\ UNCHANGED <<rows, lock>>

ReadMovement(o) ==
  /\ op[o].pc = "reading" /\ op[o].kind = "delete"
  /\ \/ \E m \in movements :
          /\ m.id = op[o].target
          /\ op' = [op EXCEPT ![o].pc = "checking",
                              ![o].lines = <<Line(m.product, -m.delta, None)>>]
          /\ UNCHANGED <<rows, lock>>
     \/ (\A m \in movements : m.id # op[o].target) /\ Rollback(o)

\* requireProduct, and the check on the stock it read.
CheckStock(o) ==
  LET line == op[o].lines[1] IN
  /\ op[o].pc = "checking"
  /\ IF line.product \in catalog /\ stock[line.product] + line.delta >= 0
       THEN /\ op' = [op EXCEPT ![o].pc = "updating", ![o].todo = <<line.product>>]
            /\ UNCHANGED <<rows, lock>>
       ELSE Rollback(o)

\* increment: the row's own value at the time of the UPDATE, unchecked.
AdjustStock(o) ==
  /\ AtUpdate(o) /\ op[o].kind \in {"movement", "delete"}
  /\ Update(o, op[o].lines[1].delta)

Updated(o, kind) == op[o].pc = "updating" /\ op[o].kind = kind /\ op[o].todo = <<>>

Rows(o, sold) ==
  { [id |-> <<o, i>>, product |-> op[o].lines[i].product, delta |-> op[o].lines[i].delta,
     sold |-> sold] : i \in DOMAIN op[o].lines }

FinishMovement(o) ==
  /\ Updated(o, "movement")
  /\ movements' = movements \cup Rows(o, FALSE)
  /\ CommitStock(o)
  /\ UNCHANGED sales

\* Broken variant: deleteMany, which does not fail when the row is gone.
DeleteWhateverMatches(o) ==
  /\ Updated(o, "delete")
  /\ \A m \in movements : m.id = op[o].target => ~m.sold
  /\ movements' = {m \in movements : m.id # op[o].target}
  /\ CommitStock(o)
  /\ UNCHANGED sales

\* Broken variant: the exit of a sale may be deleted.
DeleteSoldToo(o) ==
  /\ Updated(o, "delete")
  /\ \E m \in movements : m.id = op[o].target /\ movements' = movements \ {m}
  /\ CommitStock(o)
  /\ UNCHANGED sales

\* The row may be gone by now, and a sale's line restricts the deletion.
FinishDelete(o) ==
  /\ Updated(o, "delete")
  /\ \E m \in movements :
       /\ m.id = op[o].target /\ ~m.sold
       /\ movements' = movements \ {m}
  /\ CommitStock(o)
  /\ UNCHANGED sales

DeleteRefused(o) ==
  /\ Updated(o, "delete")
  /\ \A m \in movements : m.id # op[o].target \/ m.sold
  /\ Rollback(o)

-----------------------------------------------------------------------------
(* SaleRepository.create.                                                  *)

BeginSale(o, lines) ==
  /\ op[o].pc = "new"
  /\ op' = [op EXCEPT ![o].pc = "reading", ![o].kind = "sale", ![o].lines = lines]
  /\ UNCHANGED <<rows, lock>>

ReadCatalog(o) ==
  /\ op[o].pc = "reading" /\ op[o].kind = "sale"
  /\ op' = [op EXCEPT ![o].pc = "updating", ![o].todo = ProductsInOrder(op[o].lines),
              ![o].seen = price]
  /\ UNCHANGED <<rows, lock>>

\* Broken variant: the lines are checked one by one.
InStockPerLine(o) ==
  \A i \in DOMAIN op[o].lines :
    op[o].lines[i].product = Wanted(o) => stock[Wanted(o)] + op[o].lines[i].delta >= 0

Taken(o) == NetChange(op[o].lines, Wanted(o))

InStock(o) == stock[Wanted(o)] + Taken(o) >= 0

\* updateMany where stock >= quantity: re-evaluated on the locked row.
DecrementStock(o) ==
  /\ AtUpdate(o) /\ op[o].kind = "sale"
  /\ Wanted(o) \in DOMAIN op[o].seen
  /\ InStock(o)
  /\ Update(o, Taken(o))

\* Broken variant: the error is answered and the transaction stays open.
UnavailableButOpen(o) ==
  /\ AtUpdate(o) /\ op[o].kind = "sale"
  /\ \/ Wanted(o) \notin DOMAIN op[o].seen
     \/ lock[Wanted(o)] = None /\ ~InStock(o)
  /\ op' = [op EXCEPT ![o] = [NewOp EXCEPT !.pc = "error"]]
  /\ UNCHANGED <<rows, lock>>

\* An unknown product, or a count other than one.
SaleUnavailable(o) ==
  /\ AtUpdate(o) /\ op[o].kind = "sale"
  /\ \/ Wanted(o) \notin DOMAIN op[o].seen
     \/ lock[Wanted(o)] = None /\ ~InStock(o)
  /\ Rollback(o)

\* Every line is quoted at the price this transaction read.
PricesMatch(o) == \A i \in DOMAIN op[o].lines :
                    op[o].seen[op[o].lines[i].product] = op[o].lines[i].price

FinishSale(o) ==
  /\ Updated(o, "sale")
  /\ PricesMatch(o)
  /\ movements' = movements \cup Rows(o, TRUE)
  /\ sales' = sales \cup {[id |-> o, lines |-> op[o].lines]}
  /\ CommitStock(o)

\* Broken variant: the error is returned, not thrown, and the rows are committed.
PriceChangedTooLate(o) ==
  /\ Updated(o, "sale") /\ ~PricesMatch(o)
  /\ movements' = movements \cup Rows(o, TRUE)
  /\ stock' = [p \in Products |-> stock[p] + op[o].change[p]]
  /\ End(o, "error")
  /\ UNCHANGED <<opening, price, sales>>

PriceChanged(o) == Updated(o, "sale") /\ ~PricesMatch(o) /\ Rollback(o)

-----------------------------------------------------------------------------
Begin(o) ==
  \/ \E lines \in SaleInputs : BeginSale(o, lines)
  \/ \E line \in MovementInputs : BeginMovement(o, line)
  \/ \E m \in movements : BeginDelete(o, m)

Step(o) ==
  \/ ReadMovement(o) \/ CheckStock(o) \/ AdjustStock(o)
  \/ FinishMovement(o) \/ FinishDelete(o) \/ DeleteRefused(o)
  \/ ReadCatalog(o) \/ DecrementStock(o) \/ SaleUnavailable(o)
  \/ FinishSale(o) \/ PriceChanged(o)
  \/ DeadlockVictim(o)

Next ==
  \/ \E p \in Products, n \in Openings, c \in Prices : CreateProduct(p, n, c)
  \/ \E p \in Products, c \in Prices : UpdatePrice(p, c)
  \/ \E o \in Ops : Begin(o) \/ Step(o) \/ Abort(o)

Spec == Init /\ [][Next]_vars

-----------------------------------------------------------------------------
(* Properties.                                                             *)

\* Every variable keeps the shape of its table, lock or transaction.
TypeOK ==
  /\ opening \in [Products -> Nat]
  /\ stock \in [Products -> Int]
  /\ price \in PriceLists
  /\ movements \subseteq Movements
  /\ sales \subseteq Sales
  /\ lock \in [Products -> Ops \cup {None}]
  /\ op \in [Ops -> OpStates]

(* The stock is the opening stock plus the movements that exist: no        *)
(* update is lost, applied twice or undone twice, whatever transactions    *)
(* overlap or abort (finance-mcp-tools.md:1337, "atomically record a       *)
(* movement and adjust product stock").                                    *)
StockIsLedger ==
  \A p \in Products :
    stock[p] = opening[p] + MapThenSumSet(LAMBDA m : m.delta,
                                          {m \in movements : m.product = p})

(* A sale never takes stock that is not there, although its lines were     *)
(* quoted, confirmed and read before the row was locked.                   *)
SoldInStock(o) ==
  op[o].kind = "sale" /\ op'[o].pc = "ok" =>
    \A p \in Products : stock'[p] < stock[p] => stock'[p] >= 0

SalesNeverOversell == [][\A o \in Ops : Open(o) => SoldInStock(o)]_vars

(* A sale is one unit: each of its lines has its inventory exit for as     *)
(* long as the sale exists, and there is no exit of a sale without it      *)
(* (finance-mcp-tools.md:1789, "one inventory exit per line").             *)
SaleIsWhole ==
  /\ \A s \in sales : \A i \in DOMAIN s.lines :
       [id |-> <<s.id, i>>, product |-> s.lines[i].product, delta |-> s.lines[i].delta,
        sold |-> TRUE] \in movements
  /\ \A m \in movements : m.sold =>
       \E s \in sales : s.id = m.id[1] /\ m.id[2] \in DOMAIN s.lines

(* An operation that answered an error left no row behind, one that is     *)
(* still open has shown nothing to the others.                             *)
OnlyCommittedRowsExist ==
  /\ \A m \in movements : op[m.id[1]].pc = "ok"
  /\ \A s \in sales : op[s.id].pc = "ok"

(* Sales and deletions are all or nothing, at every statement at which     *)
(* they may fail or be overlapped (sale-repository.ts:38,                  *)
(* inventory-repository.ts:149).                                           *)
SalesAreAtomic == SaleIsWhole /\ OnlyCommittedRowsExist

Blocked(o) == AtUpdate(o) /\ lock[Wanted(o)] # None
CanGoOn(o) == Open(o) /\ (Blocked(o) => Deadlocked(o))

(* Whoever waits, waits for calls that come to an end: among any open      *)
(* calls that wait for no open call but each other, there is one that need *)
(* not wait, or that PostgreSQL may end because they wait in a cycle.  A   *)
(* call that is over has left no lock behind (sale-repository.ts:43).      *)
WaitsAreResolved ==
  \A calls \in SUBSET {o \in Ops : Open(o)} :
    /\ calls # {}
    /\ \A o \in calls, q \in Ops : Open(q) /\ WaitsFor(o, q) => q \in calls
    => \E o \in calls : CanGoOn(o)

(* While calls are open one of them can take its next statement, and so    *)
(* can each that need not wait: no state of a call is without one.         *)
CallsCanEnd ==
  /\ (\E o \in Ops : Open(o)) => \E o \in Ops : ENABLED Step(o)
  /\ \A o \in Ops : CanGoOn(o) => ENABLED Step(o)

StatementsLeft(r) ==
  <<CASE r.pc = "reading" -> 3 [] r.pc = "checking" -> 2 [] r.pc = "updating" -> 1
      [] OTHER -> 0,
    Len(r.todo)>>

Precedes(m, n) == m[1] < n[1] \/ (m[1] = n[1] /\ m[2] < n[2])

(* No statement is run twice: whatever the others do, an open call changes *)
(* only by having fewer statements left, and one that is over stays so.    *)
(* With WaitsAreResolved, each call ends.                                  *)
CallsRunOut ==
  [][\A o \in Ops : op'[o] # op[o] /\ op[o].pc # "new" =>
       Open(o) /\ Precedes(StatementsLeft(op'[o]), StatementsLeft(op[o]))]_vars

(* errors.ts InventoryIntegrityError, "The inventory operation would       *)
(* result in negative stock", and finance-mcp-tools.md:1347: an exit       *)
(* without sufficient stock changes nothing.                               *)
StockNeverNegative == \A p \in Products : stock[p] >= 0
=============================================================================
