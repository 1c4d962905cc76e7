------------------------------- MODULE Ledger -------------------------------
(***************************************************************************)
(* The financial rows of the business under concurrent tool handlers:      *)
(* transactions, debts and receivables, and the income of sales.  Outside  *)
(* a batch a handler runs statement by statement without a transaction, so *)
(* any other handler may commit between the read it decides on and the     *)
(* statement that writes.  An operation is one call of a write tool.       *)
(* Debts and receivables have the same repository, service and tools under *)
(* other names, so they share a table here: dues.  Stock and the lines of  *)
(* a sale are in module Inventory; accounts and categories have no tool    *)
(* that writes them.                                                       *)
(***************************************************************************)
EXTENDS Projection

CONSTANTS
  Ops,              \* identities of tool calls, each used once (bounds them)
  Seed,             \* stands for the seed as the creator of rows
  Categories, IncomeCategories,
  MaxBatch,         \* rows a batch may have
  MaxDay,           \* the last day (bounds the calendar)
  Batches,          \* what the record tools may be called with: rows
  Patches,          \* what update_transaction may be called with
  SaleIncomes,      \* incomes record_sale may write
  NewDues, DuePatches,
  SeededTransactions, SeededDues,
  Purchases         \* amounts evaluate_purchase_viability is asked about

Types == {"INCOME", "EXPENSE"}
Transactions ==
  [type : Types, account : Accounts, category : Categories, amount : Nat, date : Days]

ReceivableKinds == {"CONFIRMED", "UNCONFIRMED"}   \* the confidence of a receivable
Dues == [kind : {"DEBT"} \cup ReceivableKinds, amount : Nat, date : Days, settled : BOOLEAN]

Ids == (Ops \cup {Seed}) \X (Nat \ {0})

Table(T, Rows) ==
  /\ T = [i \in DOMAIN T |-> T[i]]
  /\ DOMAIN T \subseteq Ids
  /\ \A i \in DOMAIN T : T[i] \in Rows

TypeOf(c) == IF c \in IncomeCategories THEN "INCOME" ELSE "EXPENSE"

\* A patch gives some of the fields of a row, never its type.
Patched(row, patch) ==
  [f \in DOMAIN row |-> IF f \in DOMAIN patch THEN patch[f] ELSE row[f]]

\* At least one field, each with a value of its column.
IsPatch(patch, columns) ==
  /\ DOMAIN patch # {} /\ DOMAIN patch \subseteq DOMAIN columns
  /\ \A f \in DOMAIN patch : patch[f] \in columns[f]

ASSUME IdentityAssumption == Seed \notin Ops /\ MaxBatch \in Nat \ {0, 1}
\* The calendar goes on for a month and for every horizon after the last day.
ASSUME BoundAssumption ==
  /\ MaxDay \in Nat \ {0} /\ MaxDay <= DaysBefore[Len(MonthLengths)]
  /\ \A h \in Horizons : MaxDay + h \in Days
ASSUME InputAssumption ==
  /\ Batches \subseteq Seq(Transactions)
  /\ \A row \in SaleIncomes : row \in Transactions /\ row.type = "INCOME"
  /\ \A due \in NewDues : due \in Dues /\ ~due.settled
  /\ \A patch \in Patches :
       IsPatch(patch, [account |-> Accounts, category |-> Categories, amount |-> Nat,
                       date |-> Days])
  /\ \A patch \in DuePatches :
       IsPatch(patch, [kind |-> ReceivableKinds, amount |-> Nat, date |-> Days])
  /\ Purchases \subseteq Nat \ {0}
ASSUME SeedAssumption ==
  /\ Table(SeededTransactions, Transactions) /\ Table(SeededDues, Dues)
  /\ IsFiniteSet(DOMAIN SeededTransactions) /\ IsFiniteSet(DOMAIN SeededDues)
  /\ \A i \in DOMAIN SeededTransactions \cup DOMAIN SeededDues : i[1] = Seed
  /\ \A i \in DOMAIN SeededTransactions :
       SeededTransactions[i].type = TypeOf(SeededTransactions[i].category)

-----------------------------------------------------------------------------
VARIABLES
  today,         \* FinanceClock.todayUtc
  transactions,  \* Transaction rows, committed
  soldAs,        \* the ids of the incomes that a Sale row refers to
  dues,          \* Debt and Receivable rows
  op             \* [Ops -> operation states]

vars == <<today, transactions, soldAs, dues, op>>

Kinds == {"none", "record", "update", "delete", "updateDue", "deleteDue", "settle"}

None == <<>>   \* no target, no patch

OpStates ==
  [pc : {"new", "reading", "checked", "inserting", "balance", "ok", "error"},
   kind : Kinds,
   rows : Seq(Transactions),         \* to insert
   inserted : Nat,                   \* of them, in the open transaction
   target : Ids \cup {None},         \* taken from a list read before
   patch : Patches \cup DuePatches \cup {None}]

NewOp == [pc |-> "new", kind |-> "none", rows |-> <<>>, inserted |-> 0, target |-> None,
          patch |-> None]

Init ==
  /\ today = 1
  /\ transactions = SeededTransactions
  /\ soldAs = {}
  /\ dues = SeededDues
  /\ op = [o \in Ops |-> NewOp]

Goto(o, pc) == op' = [op EXCEPT ![o].pc = pc]

\* Adds the rows i |-> new[i].
Extended(T, new) ==
  [i \in DOMAIN T \cup DOMAIN new |-> IF i \in DOMAIN new THEN new[i] ELSE T[i]]

Without(T, i) == [j \in DOMAIN T \ {i} |-> T[j]]

AdvanceDay ==
  /\ today < MaxDay
  /\ today' = today + 1
  /\ UNCHANGED <<transactions, soldAs, dues, op>>

-----------------------------------------------------------------------------
(* record_income, record_expense and both batch tools.  A homogeneous      *)
(* batch goes to one tool and a mixed one to the other.                    *)

RightType(row) == TypeOf(row.category) = row.type

Acceptable(rows) ==
  Len(rows) \in 1..MaxBatch /\ \A i \in DOMAIN rows : RightType(rows[i])

\* Every row is checked before the first one is written.
Record(o, rows) ==
  /\ op[o].pc = "new"
  /\ op' = [op EXCEPT ![o].kind = "record", ![o].rows = rows,
                      ![o].pc = IF Acceptable(rows) THEN "inserting" ELSE "error"]
  /\ UNCHANGED <<today, transactions, soldAs, dues>>

AllInserted(o) == op[o].inserted = Len(op[o].rows)

\* Broken variant: the rows are created without an enclosing transaction.
InsertVisibly(o) ==
  LET i == op[o].inserted + 1 IN
  /\ op[o].pc = "inserting" /\ ~AllInserted(o)
  /\ op' = [op EXCEPT ![o].inserted = i]
  /\ transactions' = Extended(transactions, [id \in {<<o, i>>} |-> op[o].rows[i]])
  /\ UNCHANGED <<today, soldAs, dues>>

\* A row of the open transaction is invisible to the others.
Insert(o) ==
  /\ op[o].pc = "inserting" /\ ~AllInserted(o)
  /\ op' = [op EXCEPT ![o].inserted = @ + 1]
  /\ UNCHANGED <<today, transactions, soldAs, dues>>

RowsOf(o) == [id \in {<<o, i>> : i \in DOMAIN op[o].rows} |-> op[o].rows[id[2]]]

\* A single record answers with the balance, a batch does not.
Commit(o) ==
  /\ op[o].pc = "inserting" /\ AllInserted(o)
  /\ transactions' = Extended(transactions, RowsOf(o))
  /\ Goto(o, IF Len(op[o].rows) = 1 THEN "balance" ELSE "ok")
  /\ UNCHANGED <<today, soldAs, dues>>

\* A row refused by the database, a timeout, or a lost connection.
Rollback(o) ==
  /\ op[o].pc = "inserting"
  /\ Goto(o, "error")
  /\ UNCHANGED <<today, transactions, soldAs, dues>>

\* getCurrentBalance after the write; when it fails, the write stays.
AnswerBalance(o) ==
  /\ op[o].pc = "balance"
  /\ \E outcome \in {"ok", "error"} : Goto(o, outcome)
  /\ UNCHANGED <<today, transactions, soldAs, dues>>

\* One transaction writes the sale and its income (module Inventory).
RecordSale(o, income) ==
  /\ op[o].pc = "new" /\ RightType(income)
  /\ transactions' = Extended(transactions, [id \in {<<o, 1>>} |-> income])
  /\ soldAs' = soldAs \cup {<<o, 1>>}
  /\ Goto(o, "ok")
  /\ UNCHANGED <<today, dues>>

-----------------------------------------------------------------------------
(* update_transaction and delete_transaction.                              *)

Start(o, kind, target, patch) ==
  /\ op[o].pc = "new"
  /\ op' = [op EXCEPT ![o].pc = "reading", ![o].kind = kind, ![o].target = target,
                      ![o].patch = patch]
  /\ UNCHANGED <<today, transactions, soldAs, dues>>

At(o, pc, kind) == op[o].pc = pc /\ op[o].kind = kind

Target(o) == op[o].target

\* Broken variant: the category is looked up and its type is not compared.
CheckUpdateExists(o) ==
  /\ At(o, "reading", "update")
  /\ Goto(o, IF Target(o) \in DOMAIN transactions THEN "checked" ELSE "error")
  /\ UNCHANGED <<today, transactions, soldAs, dues>>

\* A category that is given has to match the type of the row as it was read.
CheckUpdate(o) ==
  /\ At(o, "reading", "update")
  /\ Goto(o, IF /\ Target(o) \in DOMAIN transactions
                /\ "category" \in DOMAIN op[o].patch =>
                     RightType(Patched(transactions[Target(o)], op[o].patch))
             THEN "checked" ELSE "error")
  /\ UNCHANGED <<today, transactions, soldAs, dues>>

\* UPDATE of the given fields, by id: the row may be gone.
Update(o) ==
  /\ At(o, "checked", "update")
  /\ IF Target(o) \in DOMAIN transactions
       THEN /\ transactions' = [transactions EXCEPT ![Target(o)] = Patched(@, op[o].patch)]
            /\ Goto(o, "balance")
       ELSE Goto(o, "error") /\ UNCHANGED transactions
  /\ UNCHANGED <<today, soldAs, dues>>

\* Broken variant: onDelete Cascade, or no reference from the sale.
DeleteUnreferenced(o) ==
  /\ At(o, "reading", "delete")
  /\ IF Target(o) \in DOMAIN transactions
       THEN transactions' = Without(transactions, Target(o)) /\ Goto(o, "balance")
       ELSE Goto(o, "error") /\ UNCHANGED transactions
  /\ UNCHANGED <<today, soldAs, dues>>

\* The foreign key of a Sale row restricts the deletion of its income.
Delete(o) ==
  /\ At(o, "reading", "delete")
  /\ IF Target(o) \in DOMAIN transactions \ soldAs
       THEN transactions' = Without(transactions, Target(o)) /\ Goto(o, "balance")
       ELSE Goto(o, "error") /\ UNCHANGED transactions
  /\ UNCHANGED <<today, soldAs, dues>>

-----------------------------------------------------------------------------
(* Debts and receivables.                                                  *)

RecordDue(o, due) ==
  /\ op[o].pc = "new"
  /\ dues' = Extended(dues, [id \in {<<o, 1>>} |-> due])
  /\ Goto(o, "ok")
  /\ UNCHANGED <<today, transactions, soldAs>>

\* A debt has no confidence to update.
StartUpdateDue(o, target, patch) ==
  /\ "kind" \in DOMAIN patch => dues[target].kind \in ReceivableKinds
  /\ Start(o, "updateDue", target, patch)

\* Broken variant: the whole row is written back, as it was recorded.
UpdateDueAsRecorded(o) ==
  /\ At(o, "reading", "updateDue")
  /\ IF Target(o) \in DOMAIN dues
       THEN /\ dues' = [dues EXCEPT ![Target(o)] =
                          [Patched(@, op[o].patch) EXCEPT !.settled = FALSE]]
            /\ Goto(o, "ok")
       ELSE Goto(o, "error") /\ UNCHANGED dues
  /\ UNCHANGED <<today, transactions, soldAs>>

UpdateDue(o) ==
  /\ At(o, "reading", "updateDue")
  /\ IF Target(o) \in DOMAIN dues
       THEN dues' = [dues EXCEPT ![Target(o)] = Patched(@, op[o].patch)] /\ Goto(o, "ok")
       ELSE Goto(o, "error") /\ UNCHANGED dues
  /\ UNCHANGED <<today, transactions, soldAs>>

DeleteDue(o) ==
  /\ At(o, "reading", "deleteDue")
  /\ IF Target(o) \in DOMAIN dues
       THEN dues' = Without(dues, Target(o)) /\ Goto(o, "ok")
       ELSE Goto(o, "error") /\ UNCHANGED dues
  /\ UNCHANGED <<today, transactions, soldAs>>

\* mark_debt_paid, mark_receivable_collected: a settled row is the answer.
ReadStatus(o) ==
  /\ At(o, "reading", "settle")
  /\ Goto(o, IF Target(o) \notin DOMAIN dues THEN "error"
             ELSE IF dues[Target(o)].settled THEN "ok" ELSE "checked")
  /\ UNCHANGED <<today, transactions, soldAs, dues>>

Settle(o) ==
  /\ At(o, "checked", "settle")
  /\ IF Target(o) \in DOMAIN dues
       THEN dues' = [dues EXCEPT ![Target(o)].settled = TRUE] /\ Goto(o, "ok")
       ELSE Goto(o, "error") /\ UNCHANGED dues
  /\ UNCHANGED <<today, transactions, soldAs>>

-----------------------------------------------------------------------------
Call(o) ==
  \/ \E rows \in Batches : Record(o, rows)
  \/ \E income \in SaleIncomes : RecordSale(o, income)
  \/ \E due \in NewDues : RecordDue(o, due)
  \/ \E i \in DOMAIN transactions :
       Start(o, "delete", i, None) \/ \E patch \in Patches : Start(o, "update", i, patch)
  \/ \E i \in DOMAIN dues :
       \/ Start(o, "deleteDue", i, None) \/ Start(o, "settle", i, None)
       \/ \E patch \in DuePatches : StartUpdateDue(o, i, patch)

Step(o) ==
  \/ Insert(o) \/ Commit(o) \/ AnswerBalance(o)
  \/ CheckUpdate(o) \/ Update(o) \/ Delete(o)
  \/ UpdateDue(o) \/ DeleteDue(o) \/ ReadStatus(o) \/ Settle(o)

Next == AdvanceDay \/ \E o \in Ops : Call(o) \/ Step(o) \/ Rollback(o)

Spec == Init /\ [][Next]_vars

-----------------------------------------------------------------------------
(* Properties.                                                             *)

\* Every table holds rows of its kind, every operation is at one of its statements.
TypeOK ==
  /\ today \in Days
  /\ Table(transactions, Transactions)
  /\ soldAs \subseteq Ids
  /\ Table(dues, Dues)
  /\ op \in [Ops -> OpStates]

(* The category of a row has the row's type, although update_transaction   *)
(* compares them on a row it read before the statement that writes         *)
(* (transaction-service.ts:59; finance-mcp-tools.md:557).                  *)
CategoriesMatch == \A i \in DOMAIN transactions : RightType(transactions[i])

(* The income of a recorded sale is there and is an income, whatever       *)
(* update_transaction and delete_transaction do to it: they are not told   *)
(* which transactions belong to sales (transaction-service.ts:66, 74).     *)
SalesKeepTheirIncome ==
  \A i \in soldAs : i \in DOMAIN transactions /\ transactions[i].type = "INCOME"

(* The two things that an update of a transaction must leave right.        *)
TransactionsStayRight == CategoriesMatch /\ SalesKeepTheirIncome

(* The rows of a batch become visible in one step, all of them and each as *)
(* it was given, and never when the tool answers an error                  *)
(* (finance-mcp-tools.md:346, "If any row is rejected, no row is           *)
(* persisted").                                                            *)
AppearsWhole(o) ==
  (\E i \in DOMAIN transactions' \ DOMAIN transactions : i[1] = o) /\ op[o].kind = "record" =>
    /\ op'[o].pc # "error"
    /\ \A i \in DOMAIN op[o].rows :
         <<o, i>> \in DOMAIN transactions' /\ transactions'[<<o, i>>] = op[o].rows[i]

BatchesAppearWhole == [][\A o \in Ops : AppearsWhole(o)]_vars

(* A debt that mark_debt_paid answered for stays paid for as long as it    *)
(* exists: no update that overlaps the read and the write of the status    *)
(* takes it back (debt-service.ts:23).                                     *)
AcceptedMarksHold ==
  \A o \in Ops : op[o].kind = "settle" /\ op[o].pc = "ok" =>
    Target(o) \notin DOMAIN dues \/ dues[Target(o)].settled

(* Cash flow has no gap and no overlap: what two adjoining ranges report   *)
(* adds up to what the whole reports, which is what the balance moved.     *)
CashFlowAddsUp ==
  /\ \A d \in {row.date : row \in {transactions[i] : i \in DOMAIN transactions}} :
       CashFlow(transactions, 1, LastDay) =
         CashFlow(transactions, 1, d) + CashFlow(transactions, d + 1, LastDay)
  /\ CashFlow(transactions, 1, LastDay) =
       CurrentBalance(transactions) - MapThenSumSet(LAMBDA a : InitialBalance[a], Accounts)

\* The ledger after one more transaction, recorded by nobody yet.
AfterRecording(type, amount) ==
  Extended(transactions,
    [id \in {<<Seed, 0>>} |->
       [type |-> type, account |-> CHOOSE a \in Accounts : TRUE, amount |-> amount, date |-> today]])

(* What evaluate_purchase_viability promises comes true: after the         *)
(* purchase is recorded as an expense, the safe projection keeps the       *)
(* minimum if and only if the answer was VIABLE, which is also what the    *)
(* maximum it names says; with risk, it keeps the minimum once every       *)
(* unconfirmed receivable is confirmed (finance-mcp-tools.md:1678-1685).   *)
AllConfirmed ==
  [i \in DOMAIN dues |-> IF dues[i].kind = "UNCONFIRMED"
                           THEN [dues[i] EXCEPT !.kind = "CONFIRMED"] ELSE dues[i]]

PurchasesKeepTheMinimum ==
  \A h \in Horizons, a \in Purchases :
    LET status == PurchaseStatus(transactions, dues, today, h, a)
        after == AfterRecording("EXPENSE", a)
        keeps(D) == SafeBalance(after, D, today, h) >= MinimumSafetyBalance
    IN  /\ status = "VIABLE" <=> keeps(dues)
        /\ status = "VIABLE" <=> a <= MaximumSafePurchase(transactions, dues, today, h)
        /\ status = "NOT_VIABLE" <=> ~keeps(AllConfirmed)

(* Paying a debt of the horizon and recording the expense, or collecting a *)
(* confirmed receivable and recording the income, leaves the safe          *)
(* projection as it was: the two tools that a payment takes neither count  *)
(* it twice nor drop it (finance-mcp-tools.md:666).                        *)
SettlingIsNeutral ==
  \A h \in Horizons, i \in DOMAIN dues :
    ~dues[i].settled /\ dues[i].kind # "UNCONFIRMED" /\ Within(dues[i].date, today, h) =>
      SafeBalance(AfterRecording(IF dues[i].kind = "DEBT" THEN "EXPENSE" ELSE "INCOME",
                                 dues[i].amount),
                  [dues EXCEPT ![i].settled = TRUE], today, h)
        = SafeBalance(transactions, dues, today, h)

(* What was projected is what recording a purchase or settling a due gives *)
(* (projection-service.ts:22, purchase-viability-service.ts:25).           *)
ProjectionsComeTrue == PurchasesKeepTheMinimum /\ SettlingIsNeutral

(* The projection counts a fixed expense exactly when one of the days of   *)
(* the horizon is its due day in that day's month, the last day standing   *)
(* for those the month does not have (projection-service.ts:12-16).        *)
IsDueDay(dueDay, d) ==
  LET m == MonthOf[d] IN d - DaysBefore[m] = Smaller(dueDay, MonthLengths[m])

DueDatesAreSeen ==
  \A h \in Horizons, dueDay \in {1, 2, 28, 29, 30, 31} :
    Within(FixedExpenseDueDate(dueDay, today), today, h) <=>
      \E d \in today + 1 .. today + h : IsDueDay(dueDay, d)
=============================================================================
