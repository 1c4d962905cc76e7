----------------------------- MODULE Projection -----------------------------
(***************************************************************************)
(* The calculations of the Finance MCP server over the rows it reads: the  *)
(* current balance, the cash flow of a range, the projection for a horizon *)
(* and the viability of a purchase.  A date is the number of a day in a    *)
(* calendar that is given month by month; money is a number of cents.      *)
(***************************************************************************)
EXTENDS Integers, Sequences, FiniteSets, FiniteSetsExt

CONSTANTS
  MonthLengths,   \* the calendar: days of each month, day 1 starts the first
  Accounts,
  InitialBalance, \* [Accounts -> Int]
  FixedExpenses,  \* a set of [id, amount, dueDay, active]
  MinimumSafetyBalance,
  Horizons        \* the days ahead that parseProjectionHorizon accepts

ASSUME CalendarAssumption == MonthLengths \in Seq(28..31) \ {<<>>}
ASSUME BusinessAssumption ==
  /\ Accounts # {} /\ IsFiniteSet(Accounts)
  /\ InitialBalance \in [Accounts -> Int]
  /\ IsFiniteSet(FixedExpenses) /\ \A e \in FixedExpenses : e.amount \in Nat
  /\ MinimumSafetyBalance \in Int
  /\ Horizons \subseteq Nat

Months == DOMAIN MonthLengths
DaysBefore[m \in Months] == IF m = 1 THEN 0 ELSE DaysBefore[m - 1] + MonthLengths[m - 1]
LastDay == DaysBefore[Len(MonthLengths)] + MonthLengths[Len(MonthLengths)]
Days == 1..LastDay
MonthOf == [d \in Days |-> CHOOSE m \in Months :
                             DaysBefore[m] < d /\ d <= DaysBefore[m] + MonthLengths[m]]

Smaller(a, b) == IF a <= b THEN a ELSE b

\* Broken variant: Date.UTC lets day 31 of a short month run into the next.
OverflowingCandidate(dueDay, m) == DaysBefore[m] + dueDay

Candidate(dueDay, m) == DaysBefore[m] + Smaller(dueDay, MonthLengths[m])

FixedExpenseDueDate(dueDay, asOf) ==
  LET current == Candidate(dueDay, MonthOf[asOf]) IN
  IF current > asOf THEN current ELSE Candidate(dueDay, MonthOf[asOf] + 1)

Within(date, asOf, horizon) == asOf < date /\ date <= asOf + horizon

-----------------------------------------------------------------------------
\* A table maps the ids of its rows to the rows.
Sum(table, ids) == MapThenSumSet(LAMBDA i : table[i].amount, ids)

Movement(T, type, ids) == Sum(T, {i \in ids : T[i].type = type})

Net(T, ids) == Movement(T, "INCOME", ids) - Movement(T, "EXPENSE", ids)

AccountBalance(T, a) == InitialBalance[a] + Net(T, {i \in DOMAIN T : T[i].account = a})

CurrentBalance(T) == MapThenSumSet(LAMBDA a : AccountBalance(T, a), Accounts)

\* Broken variant: the end of the range is exclusive.
InRangeToMidnight(T, first, last) == {i \in DOMAIN T : first <= T[i].date /\ T[i].date < last}

InRange(T, first, last) == {i \in DOMAIN T : first <= T[i].date /\ T[i].date <= last}

CashFlow(T, first, last) == Net(T, InRange(T, first, last))

\* The repositories' lists with status PENDING and a dueBefore.
PendingDebts(D, through) ==
  {i \in DOMAIN D : D[i].kind = "DEBT" /\ ~D[i].settled /\ D[i].date <= through}

\* Broken variant: what was collected stays in the list.
ReceivablesBefore(D, through) == {i \in DOMAIN D : D[i].kind # "DEBT" /\ D[i].date <= through}

PendingReceivables(D, through) ==
  {i \in DOMAIN D : D[i].kind # "DEBT" /\ ~D[i].settled /\ D[i].date <= through}

DebtsDue(D, asOf, h) == Sum(D, {i \in PendingDebts(D, asOf + h) : Within(D[i].date, asOf, h)})

Expected(D, confidence, asOf, h) ==
  Sum(D, {i \in PendingReceivables(D, asOf + h) :
            D[i].kind = confidence /\ Within(D[i].date, asOf, h)})

ActiveExpenses == {e \in FixedExpenses : e.active}

ExpensesDue(asOf, h) ==
  MapThenSumSet(LAMBDA e : e.amount,
    {e \in ActiveExpenses : Within(FixedExpenseDueDate(e.dueDay, asOf), asOf, h)})

SafeBalance(T, D, asOf, h) ==
  CurrentBalance(T) + Expected(D, "CONFIRMED", asOf, h)
    - ExpensesDue(asOf, h) - DebtsDue(D, asOf, h)

PotentialBalance(T, D, asOf, h) ==
  SafeBalance(T, D, asOf, h) + Expected(D, "UNCONFIRMED", asOf, h)

MaximumSafePurchase(T, D, asOf, h) ==
  LET candidate == SafeBalance(T, D, asOf, h) - MinimumSafetyBalance
  IN  IF candidate < 0 THEN 0 ELSE candidate

\* Broken variant: the purchase may leave less than the minimum.
StatusBeforePurchase(T, D, asOf, h, amount) ==
  CASE SafeBalance(T, D, asOf, h) >= MinimumSafetyBalance -> "VIABLE"
    [] PotentialBalance(T, D, asOf, h) - amount >= MinimumSafetyBalance -> "VIABLE_WITH_RISK"
    [] OTHER -> "NOT_VIABLE"

PurchaseStatus(T, D, asOf, h, amount) ==
  IF SafeBalance(T, D, asOf, h) - amount >= MinimumSafetyBalance THEN "VIABLE"
  ELSE IF PotentialBalance(T, D, asOf, h) - amount >= MinimumSafetyBalance
         THEN "VIABLE_WITH_RISK"
         ELSE "NOT_VIABLE"
=============================================================================
