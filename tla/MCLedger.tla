------------------------------ MODULE MCLedger ------------------------------
(***************************************************************************)
(* Values for TLC: two years of months, one of them a leap year, and small *)
(* inputs.  Operations start on the edge days only.                        *)
(***************************************************************************)
EXTENDS Ledger, TLC

CONSTANTS cash, bank, sales, rent

Year(february) == <<31, february, 31, 30, 31, 30, 31, 31, 30, 31, 30, 31>>
TwoYears == Year(28) \o Year(29)

Row(type, account, category, amount, date) ==
  [type |-> type, account |-> account, category |-> category, amount |-> amount,
   date |-> date]
Due(kind, amount, date) ==
  [kind |-> kind, amount |-> amount, date |-> date, settled |-> FALSE]

Balances == [a \in Accounts |-> IF a = cash THEN 4 ELSE 1]
Rent == {[id |-> 1, amount |-> 2, dueDay |-> 31, active |-> TRUE],
         [id |-> 2, amount |-> 9, dueDay |-> 31, active |-> FALSE]}

Income == Row("INCOME", cash, sales, 3, 30)
Expense == Row("EXPENSE", bank, rent, 2, 31)
Wrong == Row("EXPENSE", bank, sales, 2, 31)

\* One row, both kinds of batch, one with a wrong row, one that is too long.
SomeBatches ==
  { <<Income>>, <<Wrong>>, <<Income, Expense>>, <<Income, Wrong>>,
    <<Income, Income, Expense>> }
SomePatches == { [category |-> rent], [amount |-> 1], [account |-> bank] }
SomeSales == { Income }
SomeDues == { Due("DEBT", 2, 33) }
SomeDuePatches == { [amount |-> 3], [kind |-> "CONFIRMED"] }

\* One debt and one receivable inside the short horizon of day 30.
OldTransactions == [i \in {<<Seed, 1>>} |-> Expense]
OldDues == [i \in {<<Seed, 1>>, <<Seed, 2>>} |->
              IF i[2] = 1 THEN Due("DEBT", 3, 36) ELSE Due("UNCONFIRMED", 2, 37)]

EdgeDays == {30, 31}
Working == (\E o \in Ops : op[o].pc # "new") => today \in EdgeDays
MCSpec == Init /\ [][Next /\ Working']_vars

Symmetry == Permutations(Ops)
=============================================================================
