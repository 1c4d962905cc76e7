---------------------------- MODULE LedgerProofs ----------------------------
(***************************************************************************)
(* Theorems about Ledger for any set of operations, any inputs and any     *)
(* seed that its assumptions allow: types, matching categories, the income *)
(* of a sale, marks that hold, batches that appear whole, cash flow that   *)
(* adds up, projections that come true, and due dates in any calendar.     *)
(***************************************************************************)
EXTENDS Ledger, FoldTheorems, TLAPS

Finished == {"balance", "ok", "error"}

(* An id is used once: by the seed, or by the operation in it before it    *)
(* answers.  So the row that an operation read is never another row later. *)
Used(i) == i[1] = Seed \/ op[i[1]].pc \in Finished

IdsAreUsedOnce ==
  /\ \A i \in DOMAIN transactions \cup DOMAIN dues : Used(i)
  /\ \A o \in Ops : op[o].target # None => Used(op[o].target)

(* What the statements of an operation know of its arguments.              *)
Arguments ==
  \A o \in Ops :
    /\ op[o].pc = "new" => op[o].kind = "none"
    /\ op[o].pc = "inserting" => op[o].kind = "record"
    /\ op[o].pc = "balance" => op[o].kind \in {"record", "update", "delete"}
    /\ op[o].kind \notin {"none", "record"} => op[o].target \in Ids
    /\ op[o].kind = "update" => op[o].patch \in Patches
    /\ op[o].kind = "updateDue" => op[o].patch \in DuePatches
    /\ op[o].kind = "record" /\ op[o].pc \in {"inserting", "balance", "ok"} =>
         \A k \in DOMAIN op[o].rows : RightType(op[o].rows[k])

(* The comparison that update_transaction made still holds when it writes, *)
(* because no tool changes the type of a transaction.                      *)
ComparisonsHold ==
  \A o \in Ops :
    /\ At(o, "checked", "update")
    /\ "category" \in DOMAIN op[o].patch
    /\ op[o].target \in DOMAIN transactions
    => TypeOf(op[o].patch.category) = transactions[op[o].target].type

IInv ==
  /\ today \in 1 .. MaxDay
  /\ TypeOK /\ IdsAreUsedOnce /\ Arguments /\ ComparisonsHold
  /\ CategoriesMatch /\ SalesKeepTheirIncome /\ AcceptedMarksHold

-----------------------------------------------------------------------------
(* The calendar.                                                           *)

LEMMA MonthsAre ==
  /\ Len(MonthLengths) \in Nat \ {0} /\ Months = 1 .. Len(MonthLengths)
  /\ \A m \in Months : MonthLengths[m] \in 28 .. 31
<1>1. MonthLengths \in Seq(28 .. 31) /\ MonthLengths # <<>>
  BY CalendarAssumption
<1>2. QED
  BY <1>1 DEF Months

\* The days before month m, from those before the month that precedes it.
Before(f, m) == IF m = 1 THEN 0 ELSE f[m - 1] + MonthLengths[m - 1]

(* The recursion that defines DaysBefore has a solution: no k is the least *)
(* for which none of the first k months has one.                           *)
LEMMA DaysBeforeExists ==
  \E f \in [Months -> Nat] : \A m \in Months : f[m] = Before(f, m)
<1> DEFINE Solves(f, k) == /\ f \in [Months -> Nat]
                           /\ \A m \in Months : m <= k => f[m] = Before(f, m)
           Bad == {k \in Nat : ~\E f : Solves(f, k)}
<1>1. Bad = {}
  <2>1. SUFFICES ASSUME Bad # {} PROVE FALSE
    OBVIOUS
  <2>2. Bad \in SUBSET Nat
    OBVIOUS
  <2>3. PICK k \in Nat : k \in Bad /\ \A j \in Bad : k <= j
    <3> HIDE DEF Bad
    <3>1. QED
      BY <2>1, <2>2, Least
  <2>4. CASE k = 0
    <3> DEFINE f == [m \in Months |-> 0]
    <3>1. Solves(f, 0)
      BY MonthsAre
    <3> HIDE DEF Solves
    <3>2. QED
      BY <2>3, <2>4, <3>1
  <2>5. CASE k # 0
    <3>1. k - 1 \in Nat /\ k - 1 \notin Bad
      <4> HIDE DEF Bad
      <4>1. QED
        BY <2>3, <2>5
    <3>2. PICK f : Solves(f, k - 1)
      BY <3>1
    <3> DEFINE g == [m \in Months |-> Before(f, m)]
    <3>3. g \in [Months -> Nat]
      <4>1. ASSUME NEW m \in Months
            PROVE  Before(f, m) \in Nat
        <5>1. CASE m = 1
          BY <5>1 DEF Before
        <5>2. CASE m # 1
          <6>1. m - 1 \in Months
            BY <5>2, MonthsAre
          <6>2. f[m - 1] \in Nat /\ MonthLengths[m - 1] \in Nat
            BY <3>2, <6>1, MonthsAre
          <6>3. QED
            BY <5>2, <6>2 DEF Before
        <5>3. QED
          BY <5>1, <5>2
      <4>2. QED
        BY <4>1
    <3>4. ASSUME NEW m \in Months, m <= k
          PROVE  g[m] = Before(g, m)
      <4>1. CASE m = 1
        BY <4>1 DEF Before
      <4>2. CASE m # 1
        <5>1. m - 1 \in Months /\ m - 1 <= k - 1
          BY <3>4, <4>2, MonthsAre
        <5>2. f[m - 1] = Before(f, m - 1)
          BY <3>2, <5>1
        <5>3. g[m - 1] = f[m - 1] /\ g[m] = Before(f, m)
          BY <5>1, <5>2
        <5> HIDE DEF g
        <5>4. QED
          BY <4>2, <5>3 DEF Before
      <4>3. QED
        BY <4>1, <4>2
    <3> HIDE DEF g
    <3>5. Solves(g, k)
      BY <3>3, <3>4
    <3> HIDE DEF Solves
    <3>6. QED
      BY <2>3, <3>5
  <2>6. QED
    BY <2>4, <2>5
<1>2. Len(MonthLengths) \in Nat /\ Len(MonthLengths) \notin Bad
  BY <1>1, MonthsAre
<1>3. PICK f : Solves(f, Len(MonthLengths))
  BY <1>2
<1>4. \A m \in Months : m <= Len(MonthLengths)
  BY MonthsAre
<1>5. QED
  BY <1>3, <1>4

LEMMA DaysBeforeIs ==
  /\ DaysBefore \in [Months -> Nat]
  /\ \A m \in Months : DaysBefore[m] = Before(DaysBefore, m)
<1> DEFINE Recursion(f) ==
             f = [m \in Months |-> IF m = 1 THEN 0 ELSE f[m - 1] + MonthLengths[m - 1]]
<1>1. PICK f \in [Months -> Nat] : \A m \in Months : f[m] = Before(f, m)
  BY DaysBeforeExists
<1>2. Recursion(f)
  BY <1>1 DEF Before
<1>3. DaysBefore = CHOOSE g : Recursion(g)
  BY DEF DaysBefore
<1>4. Recursion(DaysBefore)
  <2> HIDE DEF Recursion
  <2>1. QED
    BY <1>2, <1>3
<1>5. DaysBefore = [m \in Months |-> Before(DaysBefore, m)]
  BY <1>4 DEF Before
<1>6. ASSUME NEW m \in Months
      PROVE  DaysBefore[m] = f[m]
  <2> DEFINE Bad == {k \in Months : DaysBefore[k] # f[k]}
  <2>1. SUFFICES ASSUME Bad # {} PROVE FALSE
    OBVIOUS
  <2>2. Bad \in SUBSET Nat
    BY MonthsAre
  <2>3. PICK k \in Nat : k \in Bad /\ \A j \in Bad : k <= j
    <3> HIDE DEF Bad
    <3>1. QED
      BY <2>1, <2>2, Least
  <2>4. k \in Months /\ DaysBefore[k] # f[k]
    BY <2>3
  <2>5. DaysBefore[k] = Before(DaysBefore, k) /\ f[k] = Before(f, k)
    BY <1>1, <1>5, <2>4
  <2>6. k # 1
    BY <2>4, <2>5 DEF Before
  <2>7. k - 1 \in Months /\ ~(k <= k - 1)
    BY <2>4, <2>6, MonthsAre
  <2>8. DaysBefore[k - 1] = f[k - 1]
    BY <2>3, <2>7
  <2>9. QED
    BY <2>4, <2>5, <2>6, <2>8 DEF Before
<1>7. DaysBefore \in [Months -> Nat]
  <2>1. \A m \in Months : Before(DaysBefore, m) \in Nat
    BY <1>1, <1>5, <1>6
  <2>2. QED
    BY <1>5, <2>1
<1>8. QED
  BY <1>5, <1>7

LEMMA MonthsFollow ==
  /\ DaysBefore[1] = 0
  /\ \A m \in Months : DaysBefore[m] \in Nat
  /\ \A m \in Months : m + 1 \in Months => DaysBefore[m + 1] = DaysBefore[m] + MonthLengths[m]
<1>1. 1 \in Months
  BY MonthsAre
<1>2. ASSUME NEW m \in Months, m + 1 \in Months
      PROVE  DaysBefore[m + 1] = DaysBefore[m] + MonthLengths[m]
  <2>1. m + 1 # 1 /\ (m + 1) - 1 = m
    BY MonthsAre
  <2>2. DaysBefore[m + 1] = Before(DaysBefore, m + 1)
    BY <1>2, DaysBeforeIs
  <2>3. QED
    BY <2>1, <2>2 DEF Before
<1>3. QED
  BY <1>1, <1>2, DaysBeforeIs DEF Before

LEMMA DaysAre ==
  LastDay \in Nat \ {0} /\ Days = 1 .. LastDay
<1>1. Len(MonthLengths) \in Months
  BY MonthsAre
<1>2. DaysBefore[Len(MonthLengths)] \in Nat /\ MonthLengths[Len(MonthLengths)] \in 28 .. 31
  BY <1>1, MonthsFollow, MonthsAre
<1>3. QED
  BY <1>2 DEF Days, LastDay

(* A month is over before any later one begins.                            *)
LEMMA MonthsAreDisjoint ==
  ASSUME NEW m \in Months, NEW k \in Months, m < k
  PROVE  DaysBefore[m] + MonthLengths[m] <= DaysBefore[k]
<1> DEFINE Bad == {j \in Months : m < j /\ ~(DaysBefore[m] + MonthLengths[m] <= DaysBefore[j])}
<1>1. SUFFICES ASSUME Bad # {} PROVE FALSE
  OBVIOUS
<1>2. Bad \in SUBSET Nat
  BY MonthsAre
<1>3. PICK j \in Nat : j \in Bad /\ \A i \in Bad : j <= i
  <2> HIDE DEF Bad
  <2>1. QED
    BY <1>1, <1>2, Least
<1>4. j \in Months /\ m < j /\ ~(DaysBefore[m] + MonthLengths[m] <= DaysBefore[j])
  BY <1>3
<1>5. j # m + 1
  BY <1>4, MonthsFollow, MonthsAre
<1>6. j - 1 \in Months /\ m < j - 1 /\ ~(j <= j - 1)
  BY <1>4, <1>5, MonthsAre
<1>7. DaysBefore[m] + MonthLengths[m] <= DaysBefore[j - 1]
  BY <1>3, <1>6
<1>8. DaysBefore[j] = DaysBefore[j - 1] + MonthLengths[j - 1]
  <2>1. (j - 1) + 1 = j
    OBVIOUS
  <2>2. QED
    BY <1>4, <1>6, <2>1, MonthsFollow
<1>9. /\ DaysBefore[j - 1] \in Nat /\ DaysBefore[m] \in Nat
      /\ MonthLengths[m] \in 28 .. 31 /\ MonthLengths[j - 1] \in 28 .. 31
  <2>1. DaysBefore[j - 1] \in Nat /\ DaysBefore[m] \in Nat
    BY <1>6, MonthsFollow
  <2>2. MonthLengths[m] \in 28 .. 31 /\ MonthLengths[j - 1] \in 28 .. 31
    BY <1>6, MonthsAre
  <2>3. QED
    BY <2>1, <2>2
<1>10. QED
  BY <1>4, <1>7, <1>8, <1>9

(* Every day is in one month.                                              *)
InMonth(d, m) == DaysBefore[m] < d /\ d <= DaysBefore[m] + MonthLengths[m]

LEMMA MonthValues ==
  ASSUME NEW m \in Months
  PROVE  /\ DaysBefore[m] \in Nat /\ MonthLengths[m] \in 28 .. 31
         /\ m \in Nat \ {0} /\ m <= Len(MonthLengths)
<1>1. DaysBefore[m] \in Nat
  BY MonthsFollow
<1>2. MonthLengths[m] \in 28 .. 31
  BY MonthsAre
<1>3. m \in Nat \ {0} /\ m <= Len(MonthLengths)
  BY MonthsAre
<1>4. QED
  BY <1>1, <1>2, <1>3

LEMMA CalendarCoversTheRun == 1 .. MaxDay \subseteq Days
<1> DEFINE last == Len(MonthLengths)
<1>1. MaxDay \in Nat /\ MaxDay <= DaysBefore[last]
  BY BoundAssumption
<1>2. last \in Months /\ LastDay = DaysBefore[last] + MonthLengths[last]
  BY MonthsAre DEF LastDay
<1>3. DaysBefore[last] \in Nat /\ MonthLengths[last] \in 28 .. 31
  BY <1>2, MonthValues
<1> HIDE DEF last
<1>4. QED
  BY <1>1, <1>2, <1>3, DaysAre

LEMMA DayHasMonth ==
  ASSUME NEW d \in Days
  PROVE  \E m \in Months : InMonth(d, m)
<1> DEFINE Begun == {m \in Months : DaysBefore[m] < d}
           last == Len(MonthLengths)
<1>1. last \in Nat \ {0} /\ Months = 1 .. last
  BY MonthsAre
<1>2. d \in Nat \ {0} /\ d <= LastDay
  BY DaysAre
<1>3. 1 \in Begun
  BY <1>1, <1>2, MonthsFollow
<1>4. Begun \in SUBSET (1 .. last)
  BY <1>1
<1> HIDE DEF last
<1>5. PICK m \in Begun : \A k \in Begun : k <= m
  <2> HIDE DEF Begun
  <2>1. Begun # {}
    BY <1>3
  <2>2. QED
    BY <1>1, <1>4, <2>1, Greatest
<1>6. m \in Months /\ DaysBefore[m] < d
  OBVIOUS
<1>7. CASE m = last
  <2>1. LastDay = DaysBefore[m] + MonthLengths[m]
    BY <1>7 DEF LastDay, last
  <2>2. QED
    BY <1>2, <1>6, <2>1 DEF InMonth
<1>8. CASE m # last
  <2>1. m + 1 \in Months /\ ~(m + 1 <= m)
    BY <1>1, <1>6, <1>8
  <2>2. ~(DaysBefore[m + 1] < d)
    BY <1>5, <2>1
  <2>3. DaysBefore[m + 1] = DaysBefore[m] + MonthLengths[m]
    BY <1>6, <2>1, MonthsFollow
  <2>4. DaysBefore[m] \in Nat /\ MonthLengths[m] \in 28 .. 31
    BY <1>6, MonthValues
  <2>5. d <= DaysBefore[m] + MonthLengths[m]
    BY <1>2, <2>2, <2>3, <2>4
  <2>6. QED
    BY <1>6, <2>5 DEF InMonth
<1>9. QED
  BY <1>7, <1>8

LEMMA MonthOfDay ==
  ASSUME NEW d \in Days
  PROVE  MonthOf[d] \in Months /\ InMonth(d, MonthOf[d])
<1>1. \E m \in Months : InMonth(d, m)
  BY DayHasMonth
<1>2. MonthOf[d] = CHOOSE m \in Months : InMonth(d, m)
  BY DEF MonthOf, InMonth
<1>3. QED
  BY <1>1, <1>2

LEMMA OneMonth ==
  ASSUME NEW d \in Days, NEW m \in Months, InMonth(d, m)
  PROVE  MonthOf[d] = m
<1> DEFINE k == MonthOf[d]
<1>1. k \in Months /\ InMonth(d, k)
  BY MonthOfDay
<1> HIDE DEF k
<1>2. /\ DaysBefore[m] < d /\ d <= DaysBefore[m] + MonthLengths[m]
      /\ DaysBefore[k] < d /\ d <= DaysBefore[k] + MonthLengths[k]
  BY <1>1 DEF InMonth
<1>3. /\ DaysBefore[m] \in Nat /\ MonthLengths[m] \in 28 .. 31 /\ m \in Nat
      /\ DaysBefore[k] \in Nat /\ MonthLengths[k] \in 28 .. 31 /\ k \in Nat
  BY <1>1, MonthValues
<1>4. d \in Nat
  BY DaysAre
<1>5. ~(m < k)
  <2>1. SUFFICES ASSUME m < k PROVE FALSE
    OBVIOUS
  <2>2. DaysBefore[m] + MonthLengths[m] <= DaysBefore[k]
    BY <1>1, <2>1, MonthsAreDisjoint
  <2>3. QED
    BY <1>2, <1>3, <1>4, <2>2
<1>6. ~(k < m)
  <2>1. SUFFICES ASSUME k < m PROVE FALSE
    OBVIOUS
  <2>2. DaysBefore[k] + MonthLengths[k] <= DaysBefore[m]
    BY <1>1, <2>1, MonthsAreDisjoint
  <2>3. QED
    BY <1>2, <1>3, <1>4, <2>2
<1>7. QED
  BY <1>3, <1>5, <1>6 DEF k

-----------------------------------------------------------------------------
(* The due date of a fixed expense.                                        *)

DueDays == 1 .. 31

(* The due date in month m is a day of month m.                            *)
LEMMA CandidateIsInMonth ==
  ASSUME NEW m \in Months, NEW dueDay \in DueDays
  PROVE  /\ Candidate(dueDay, m) \in Days
         /\ InMonth(Candidate(dueDay, m), m)
<1> DEFINE c == Candidate(dueDay, m)
           last == Len(MonthLengths)
<1>1. DaysBefore[m] \in Nat /\ MonthLengths[m] \in 28 .. 31
  BY MonthValues
<1>2. c \in Nat /\ DaysBefore[m] < c /\ c <= DaysBefore[m] + MonthLengths[m]
  BY <1>1 DEF Candidate, Smaller, DueDays
<1>3. DaysBefore[m] + MonthLengths[m] <= LastDay
  <2>1. last \in Months /\ m \in Nat /\ last \in Nat /\ m <= last
    BY MonthsAre, MonthValues
  <2>2. LastDay = DaysBefore[last] + MonthLengths[last]
    BY DEF LastDay
  <2> HIDE DEF last
  <2>3. CASE m = last
    BY <1>1, <2>2, <2>3
  <2>4. CASE m < last
    <3>1. DaysBefore[m] + MonthLengths[m] <= DaysBefore[last]
      BY <2>1, <2>4, MonthsAreDisjoint
    <3>2. DaysBefore[last] \in Nat /\ MonthLengths[last] \in 28 .. 31
      BY <2>1, MonthValues
    <3>3. QED
      BY <1>1, <2>2, <3>1, <3>2
  <2>5. QED
    BY <2>1, <2>3, <2>4
<1> HIDE DEF c
<1>4. c \in 1 .. LastDay
  BY <1>1, <1>2, <1>3, DaysAre
<1>5. QED
  BY <1>2, <1>4, DaysAre DEF c, InMonth

LEMMA DueDayIsCandidate ==
  ASSUME NEW d \in Days, NEW dueDay \in DueDays
  PROVE  IsDueDay(dueDay, d) <=> d = Candidate(dueDay, MonthOf[d])
<1>1. MonthOf[d] \in Months
  BY MonthOfDay
<1>2. d \in Nat /\ DaysBefore[MonthOf[d]] \in Nat /\ MonthLengths[MonthOf[d]] \in 28 .. 31
  BY <1>1, DaysAre, MonthValues
<1>3. QED
  BY <1>2 DEF IsDueDay, Candidate, Smaller, DueDays

(* The due date that the projection computes is the first due day after    *)
(* today: it is one, and none is between today and it.                     *)
LEMMA NextDueDay ==
  ASSUME NEW t \in 1 .. MaxDay, NEW dueDay \in DueDays
  PROVE  LET due == FixedExpenseDueDate(dueDay, t)
         IN  /\ due \in Days /\ t < due /\ IsDueDay(dueDay, due)
             /\ \A d \in Days : t < d /\ IsDueDay(dueDay, d) => due <= d
<1> DEFINE m == MonthOf[t]
           cur == Candidate(dueDay, m)
           next == Candidate(dueDay, m + 1)
           last == Len(MonthLengths)
<1>1. t \in Days /\ t \in Nat /\ t <= DaysBefore[last]
  <2>1. MaxDay \in Nat /\ MaxDay <= DaysBefore[last]
    BY BoundAssumption
  <2>2. DaysBefore[last] \in Nat
    BY MonthsAre, MonthValues
  <2> HIDE DEF last
  <2>3. QED
    BY <2>1, <2>2, CalendarCoversTheRun
<1>2. m \in Months /\ InMonth(t, m)
  BY <1>1, MonthOfDay
<1> HIDE DEF m
<1>3. /\ DaysBefore[m] \in Nat /\ MonthLengths[m] \in 28 .. 31 /\ m \in Nat \ {0}
      /\ DaysBefore[m] < t /\ t <= DaysBefore[m] + MonthLengths[m]
  BY <1>2, MonthValues DEF InMonth
<1>4. m + 1 \in Months
  <2>1. last \in Months /\ last \in Nat /\ Months = 1 .. last
    BY MonthsAre
  <2>2. DaysBefore[last] \in Nat
    BY <2>1, MonthValues
  <2> HIDE DEF last
  <2>3. m # last
    BY <1>1, <1>3, <2>2
  <2>4. QED
    BY <1>2, <1>3, <2>1, <2>3
<1>5. cur \in Days /\ InMonth(cur, m) /\ next \in Days /\ InMonth(next, m + 1)
  BY <1>2, <1>4, CandidateIsInMonth
<1>6. MonthOf[cur] = m /\ MonthOf[next] = m + 1
  BY <1>2, <1>4, <1>5, OneMonth
<1>7. IsDueDay(dueDay, cur) /\ IsDueDay(dueDay, next)
  BY <1>5, <1>6, DueDayIsCandidate
<1>8. DaysBefore[m + 1] = DaysBefore[m] + MonthLengths[m]
  BY <1>2, <1>4, MonthsFollow
<1>9. /\ cur \in Nat /\ DaysBefore[m] < cur /\ cur <= DaysBefore[m + 1]
      /\ next \in Nat /\ DaysBefore[m + 1] < next
      /\ next <= DaysBefore[m + 1] + MonthLengths[m + 1]
  BY <1>5, <1>8, DaysAre DEF InMonth
<1>10. DaysBefore[m + 1] \in Nat /\ MonthLengths[m + 1] \in 28 .. 31
  BY <1>4, MonthValues
<1>11. FixedExpenseDueDate(dueDay, t) = IF cur > t THEN cur ELSE next
  BY DEF FixedExpenseDueDate, m
<1> HIDE DEF cur, next
<1>12. ASSUME NEW d \in Days, t < d, IsDueDay(dueDay, d)
       PROVE  IF cur > t THEN cur <= d ELSE next <= d
  <2> DEFINE k == MonthOf[d]
  <2>1. k \in Months /\ InMonth(d, k) /\ d = Candidate(dueDay, k)
    BY <1>12, MonthOfDay, DueDayIsCandidate
  <2> HIDE DEF k
  <2>2. /\ d \in Nat /\ k \in Nat /\ DaysBefore[k] \in Nat /\ MonthLengths[k] \in 28 .. 31
        /\ DaysBefore[k] < d /\ d <= DaysBefore[k] + MonthLengths[k]
    BY <2>1, DaysAre, MonthValues DEF InMonth
  <2>3. CASE k < m
    <3>1. DaysBefore[k] + MonthLengths[k] <= DaysBefore[m]
      BY <1>2, <2>1, <2>3, MonthsAreDisjoint
    <3>2. QED
      BY <1>1, <1>3, <1>12, <2>2, <3>1
  <2>4. CASE k = m
    <3>1. d = cur
      BY <2>1, <2>4 DEF cur
    <3>2. QED
      BY <1>1, <1>12, <2>2, <3>1
  <2>5. CASE k = m + 1
    <3>1. d = next
      BY <2>1, <2>5 DEF next
    <3>2. QED
      BY <1>9, <1>10, <2>2, <3>1
  <2>6. CASE m + 1 < k
    <3>1. DaysBefore[m + 1] + MonthLengths[m + 1] <= DaysBefore[k]
      BY <1>4, <2>1, <2>6, MonthsAreDisjoint
    <3>2. QED
      BY <1>9, <1>10, <2>2, <3>1
  <2>7. QED
    BY <1>3, <2>2, <2>3, <2>4, <2>5, <2>6
<1>13. t < next
  BY <1>1, <1>3, <1>8, <1>9, <1>10
<1>14. CASE cur > t
  BY <1>1, <1>5, <1>7, <1>9, <1>11, <1>12, <1>14
<1>15. CASE ~(cur > t)
  BY <1>5, <1>7, <1>11, <1>12, <1>13, <1>15
<1>16. QED
  BY <1>14, <1>15

LEMMA ExpensesAreSeen ==
  ASSUME today \in 1 .. MaxDay
  PROVE  DueDatesAreSeen
<1>1. SUFFICES ASSUME NEW h \in Horizons, NEW dueDay \in {1, 2, 28, 29, 30, 31}
               PROVE  Within(FixedExpenseDueDate(dueDay, today), today, h) <=>
                        \E d \in today + 1 .. today + h : IsDueDay(dueDay, d)
  BY DEF DueDatesAreSeen
<1> DEFINE due == FixedExpenseDueDate(dueDay, today)
<1>2. dueDay \in DueDays
  BY DEF DueDays
<1>3. /\ due \in Days /\ today < due /\ IsDueDay(dueDay, due)
      /\ \A d \in Days : today < d /\ IsDueDay(dueDay, d) => due <= d
  BY <1>2, NextDueDay
<1> HIDE DEF due
<1>4. h \in Nat /\ MaxDay \in Nat /\ MaxDay + h \in Days
  BY BusinessAssumption, BoundAssumption
<1>5. today \in Nat /\ due \in Nat /\ today + h <= LastDay /\ LastDay \in Nat
  BY <1>3, <1>4, DaysAre
<1>6. \A d \in today + 1 .. today + h : d \in Days /\ today < d /\ d <= today + h
  BY <1>4, <1>5, DaysAre
<1>7. ASSUME NEW d \in today + 1 .. today + h, IsDueDay(dueDay, d)
      PROVE  due <= today + h
  <2>1. d \in Days /\ today < d /\ d <= today + h /\ d \in Int
    BY <1>6
  <2>2. due <= d
    BY <1>3, <1>7, <2>1
  <2>3. QED
    BY <1>4, <1>5, <2>1, <2>2
<1>8. due <= today + h => due \in today + 1 .. today + h
  BY <1>3, <1>4, <1>5
<1>9. QED
  BY <1>3, <1>7, <1>8 DEF Within, due

-----------------------------------------------------------------------------
(* Rows.                                                                   *)

(* A patch changes neither the type of a transaction nor that a due is one *)
(* nor that it is settled.                                                 *)
LEMMA PatchedTransaction ==
  ASSUME NEW row \in Transactions, NEW patch \in Patches
  PROVE  /\ Patched(row, patch) \in Transactions
         /\ Patched(row, patch).type = row.type
         /\ Patched(row, patch).category =
              IF "category" \in DOMAIN patch THEN patch.category ELSE row.category
<1> DEFINE columns == [account |-> Accounts, category |-> Categories, amount |-> Nat,
                       date |-> Days]
           new == Patched(row, patch)
<1>1. IsPatch(patch, columns)
  BY InputAssumption
<1>2. DOMAIN patch \subseteq {"account", "category", "amount", "date"}
  BY <1>1 DEF IsPatch
<1>3. DOMAIN row = {"type", "account", "category", "amount", "date"}
  BY DEF Transactions
<1>4. \A f \in DOMAIN row : new[f] = IF f \in DOMAIN patch THEN patch[f] ELSE row[f]
  BY DEF Patched
<1>5. /\ new.type = row.type
      /\ new.category = IF "category" \in DOMAIN patch THEN patch.category ELSE row.category
  BY <1>2, <1>3, <1>4
<1>6. /\ "account" \in DOMAIN patch => patch.account \in Accounts
      /\ "category" \in DOMAIN patch => patch.category \in Categories
      /\ "amount" \in DOMAIN patch => patch.amount \in Nat
      /\ "date" \in DOMAIN patch => patch.date \in Days
  BY <1>1 DEF IsPatch
<1>7. /\ row.type \in Types /\ row.account \in Accounts /\ row.category \in Categories
      /\ row.amount \in Nat /\ row.date \in Days
  BY DEF Transactions
<1>8. /\ new.account \in Accounts /\ new.category \in Categories
      /\ new.amount \in Nat /\ new.date \in Days
  BY <1>3, <1>4, <1>6, <1>7
<1>9. new = [type |-> new.type, account |-> new.account, category |-> new.category,
             amount |-> new.amount, date |-> new.date]
  BY <1>3 DEF Patched
<1>10. new \in Transactions
  BY <1>5, <1>7, <1>8, <1>9 DEF Transactions
<1>11. QED
  BY <1>5, <1>10

LEMMA PatchedDue ==
  ASSUME NEW row \in Dues, NEW patch \in DuePatches
  PROVE  /\ Patched(row, patch) \in Dues
         /\ Patched(row, patch).settled = row.settled
<1> DEFINE columns == [kind |-> ReceivableKinds, amount |-> Nat, date |-> Days]
           new == Patched(row, patch)
<1>1. IsPatch(patch, columns)
  BY InputAssumption
<1>2. DOMAIN patch \subseteq {"kind", "amount", "date"}
  BY <1>1 DEF IsPatch
<1>3. DOMAIN row = {"kind", "amount", "date", "settled"}
  BY DEF Dues
<1>4. \A f \in DOMAIN row : new[f] = IF f \in DOMAIN patch THEN patch[f] ELSE row[f]
  BY DEF Patched
<1>5. new.settled = row.settled
  BY <1>2, <1>3, <1>4
<1>6. /\ "kind" \in DOMAIN patch => patch.kind \in ReceivableKinds
      /\ "amount" \in DOMAIN patch => patch.amount \in Nat
      /\ "date" \in DOMAIN patch => patch.date \in Days
  BY <1>1 DEF IsPatch
<1>7. /\ row.kind \in {"DEBT"} \cup ReceivableKinds
      /\ row.amount \in Nat /\ row.date \in Days /\ row.settled \in BOOLEAN
  BY DEF Dues
<1>8. /\ new.kind \in {"DEBT"} \cup ReceivableKinds
      /\ new.amount \in Nat /\ new.date \in Days
  BY <1>3, <1>4, <1>6, <1>7
<1>9. new = [kind |-> new.kind, amount |-> new.amount, date |-> new.date,
             settled |-> new.settled]
  BY <1>3 DEF Patched
<1>10. new \in Dues
  BY <1>5, <1>7, <1>8, <1>9 DEF Dues
<1>11. QED
  BY <1>5, <1>10

(* What the statements do to a table.                                      *)
LEMMA ExtendedTable ==
  ASSUME NEW T, NEW new, NEW R, Table(T, R), Table(new, R)
  PROVE  /\ Table(Extended(T, new), R)
         /\ DOMAIN Extended(T, new) = DOMAIN T \cup DOMAIN new
         /\ \A i \in DOMAIN new : Extended(T, new)[i] = new[i]
         /\ \A i \in DOMAIN T \ DOMAIN new : Extended(T, new)[i] = T[i]
BY DEF Table, Extended

LEMMA ReducedTable ==
  ASSUME NEW T, NEW i, NEW R, Table(T, R)
  PROVE  /\ Table(Without(T, i), R)
         /\ DOMAIN Without(T, i) = DOMAIN T \ {i}
         /\ \A j \in DOMAIN T \ {i} : Without(T, i)[j] = T[j]
BY DEF Table, Without

LEMMA UpdatedTable ==
  ASSUME NEW T, NEW R, Table(T, R), NEW i \in DOMAIN T, NEW row \in R
  PROVE  /\ Table([T EXCEPT ![i] = row], R)
         /\ DOMAIN [T EXCEPT ![i] = row] = DOMAIN T
         /\ [T EXCEPT ![i] = row][i] = row
         /\ \A j \in DOMAIN T \ {i} : [T EXCEPT ![i] = row][j] = T[j]
BY DEF Table

-----------------------------------------------------------------------------
(* What a step of operation o has to be for the invariant to be kept: it   *)
(* leaves the others alone, adds rows only in its own name and before it   *)
(* has answered, keeps the types and the marks of the rows that stay, and  *)
(* knows what it says of the row it read.                                  *)
Typed(o) ==
  /\ TypeOK' /\ UNCHANGED today
  /\ \A q \in Ops \ {o} : op'[q] = op[q]

RowsStay(o) ==
  /\ \A i \in (DOMAIN transactions' \ DOMAIN transactions) \cup (DOMAIN dues' \ DOMAIN dues) :
       i[1] = o /\ op[o].pc \notin Finished /\ op'[o].pc \in Finished
  /\ \A i \in DOMAIN transactions \cap DOMAIN transactions' :
       transactions'[i].type = transactions[i].type
  /\ \A i \in DOMAIN dues \cap DOMAIN dues' : dues[i].settled => dues'[i].settled
  /\ \A i \in DOMAIN transactions' :
       (i \in DOMAIN transactions /\ transactions'[i] = transactions[i])
         \/ RightType(transactions'[i])
  /\ \A i \in soldAs' : i \in DOMAIN transactions' /\
       (i \in soldAs \/ transactions'[i].type = "INCOME")

ArgumentsOf(o) ==
  /\ op[o].pc \in Finished => op'[o].pc \in Finished
  /\ op'[o].target # None => Used(op'[o].target)
  /\ op'[o].pc = "new" => op'[o].kind = "none"
  /\ op'[o].pc = "inserting" => op'[o].kind = "record"
  /\ op'[o].pc = "balance" => op'[o].kind \in {"record", "update", "delete"}
  /\ op'[o].kind \notin {"none", "record"} => op'[o].target \in Ids
  /\ op'[o].kind = "update" => op'[o].patch \in Patches
  /\ op'[o].kind = "updateDue" => op'[o].patch \in DuePatches
  /\ op'[o].kind = "record" /\ op'[o].pc \in {"inserting", "balance", "ok"} =>
       \A k \in DOMAIN op'[o].rows : RightType(op'[o].rows[k])

KnowsItsRow(o) ==
  /\ /\ op'[o].pc = "checked" /\ op'[o].kind = "update"
     /\ "category" \in DOMAIN op'[o].patch
     /\ op'[o].target \in DOMAIN transactions'
     => TypeOf(op'[o].patch.category) = transactions'[op'[o].target].type
  /\ op'[o].kind = "settle" /\ op'[o].pc = "ok" =>
       op'[o].target \notin DOMAIN dues' \/ dues'[op'[o].target].settled

StepOf(o) == Typed(o) /\ RowsStay(o) /\ ArgumentsOf(o) /\ KnowsItsRow(o)

LEMMA Preserved ==
  ASSUME IInv, NEW o \in Ops, StepOf(o)
  PROVE  IInv'
<1> USE DEF Typed
<1>1. TypeOK /\ TypeOK'
  BY DEF IInv, StepOf
<1>2. \A i \in Ids : Used(i) => Used(i)'
  <2>1. SUFFICES ASSUME NEW i \in Ids, Used(i), i[1] # Seed
                 PROVE  Used(i)'
    BY DEF Used
  <2>2. i[1] \in Ops
    BY <2>1 DEF Ids
  <2>3. QED
    BY <2>1, <2>2 DEF Used, StepOf, ArgumentsOf
<1>3. IdsAreUsedOnce'
  <2>1. \A i \in DOMAIN transactions' \cup DOMAIN dues' : Used(i)'
    <3>1. TAKE i \in DOMAIN transactions' \cup DOMAIN dues'
    <3>2. i \in Ids
      BY <1>1 DEF TypeOK, Table
    <3>3. CASE i \in DOMAIN transactions \cup DOMAIN dues
      BY <1>2, <3>2, <3>3 DEF IInv, IdsAreUsedOnce
    <3>4. CASE i \notin DOMAIN transactions \cup DOMAIN dues
      BY <3>4 DEF StepOf, RowsStay, Used
    <3>5. QED
      BY <3>3, <3>4
  <2>2. (\A q \in Ops : op[q].target # None => Used(op[q].target))'
    <3>1. SUFFICES ASSUME NEW q \in Ops, op'[q].target # None
                   PROVE  \E i \in Ids : op'[q].target = i /\ Used(i)'
      BY DEF Used
    <3>2. op'[q].target \in Ids
      BY <1>1, <3>1 DEF TypeOK, OpStates
    <3>3. Used(op'[q].target)
      BY <3>1 DEF StepOf, ArgumentsOf, IInv, IdsAreUsedOnce
    <3>4. QED
      BY <1>2, <3>2, <3>3
  <2>3. QED
    BY <2>1, <2>2 DEF IdsAreUsedOnce
<1>4. Arguments'
  BY DEF StepOf, ArgumentsOf, IInv, Arguments
<1>5. \A q \in Ops \ {o}, i \in Ids : op[q].target = i =>
         /\ i \in DOMAIN transactions' => i \in DOMAIN transactions
         /\ i \in DOMAIN dues' => i \in DOMAIN dues
  <2>1. TAKE q \in Ops \ {o}, i \in Ids
  <2>2. HAVE op[q].target = i
  <2>3. i # None
    BY DEF Ids, None
  <2>4. Used(i)
    BY <2>2, <2>3 DEF IInv, IdsAreUsedOnce
  <2>5. i[1] = o => op[o].pc \in Finished
    BY <2>4, IdentityAssumption DEF Used
  <2>6. QED
    BY <2>5 DEF StepOf, RowsStay
<1>6. ComparisonsHold'
  <2>1. SUFFICES ASSUME NEW q \in Ops, At(q, "checked", "update")',
                        "category" \in DOMAIN op'[q].patch,
                        op'[q].target \in DOMAIN transactions'
                 PROVE  TypeOf(op'[q].patch.category) = transactions'[op'[q].target].type
    BY DEF ComparisonsHold
  <2>2. CASE q = o
    BY <2>1, <2>2 DEF StepOf, KnowsItsRow, At
  <2>3. CASE q # o
    <3>1. op'[q] = op[q]
      BY <2>3 DEF StepOf
    <3>2. op[q].target \in Ids
      BY <2>1, <3>1 DEF At, IInv, Arguments
    <3>3. op[q].target \in DOMAIN transactions
      BY <1>5, <2>1, <2>3, <3>1, <3>2
    <3>4. TypeOf(op[q].patch.category) = transactions[op[q].target].type
      BY <2>1, <3>1, <3>3 DEF IInv, ComparisonsHold, At
    <3>5. QED
      BY <2>1, <3>1, <3>3, <3>4 DEF StepOf, RowsStay
  <2>4. QED
    BY <2>2, <2>3
<1>7. CategoriesMatch'
  BY DEF StepOf, RowsStay, IInv, CategoriesMatch
<1>8. SalesKeepTheirIncome'
  BY DEF StepOf, RowsStay, IInv, SalesKeepTheirIncome
<1>9. AcceptedMarksHold'
  <2>1. SUFFICES ASSUME NEW q \in Ops, op'[q].kind = "settle", op'[q].pc = "ok",
                        op'[q].target \in DOMAIN dues'
                 PROVE  dues'[op'[q].target].settled
    BY DEF AcceptedMarksHold, Target
  <2>2. CASE q = o
    BY <2>1, <2>2 DEF StepOf, KnowsItsRow
  <2>3. CASE q # o
    <3>1. op'[q] = op[q]
      BY <2>3 DEF StepOf
    <3>2. op[q].target \in Ids
      BY <2>1, <3>1 DEF IInv, Arguments
    <3>3. op[q].target \in DOMAIN dues
      BY <1>5, <2>1, <2>3, <3>1, <3>2
    <3>4. dues[op[q].target].settled
      BY <2>1, <3>1, <3>3 DEF IInv, AcceptedMarksHold, Target
    <3>5. QED
      BY <2>1, <3>1, <3>3, <3>4 DEF StepOf, RowsStay
  <2>4. QED
    BY <2>2, <2>3
<1>10. QED
  BY <1>1, <1>3, <1>4, <1>6, <1>7, <1>8, <1>9 DEF IInv, StepOf

-----------------------------------------------------------------------------
(* How the state of an operation moves.                                    *)

PCs == {"new", "reading", "checked", "inserting", "balance", "ok", "error"}

LEMMA PcMoves ==
  ASSUME TypeOK, NEW o \in Ops, NEW pc \in PCs, Goto(o, pc)
  PROVE  /\ op' \in [Ops -> OpStates]
         /\ \A q \in Ops \ {o} : op'[q] = op[q]
         /\ op'[o].pc = pc
         /\ op'[o].kind = op[o].kind
         /\ op'[o].rows = op[o].rows
         /\ op'[o].target = op[o].target
         /\ op'[o].patch = op[o].patch
BY DEF TypeOK, OpStates, Goto, PCs

(* An operation that has begun goes on, or answers.                        *)
LEMMA GoesOn ==
  ASSUME IInv, NEW o \in Ops, NEW pc \in {"checked", "balance", "ok", "error"}, Goto(o, pc),
         op[o].pc \in Finished => pc \in Finished,
         op[o].kind = "record" => op[o].pc \in {"inserting", "balance"} \/ pc = "error",
         pc = "balance" => op[o].kind \in {"record", "update", "delete"}
  PROVE  /\ op' \in [Ops -> OpStates]
         /\ \A q \in Ops \ {o} : op'[q] = op[q]
         /\ ArgumentsOf(o)
<1>1. TypeOK /\ Arguments /\ IdsAreUsedOnce
  BY DEF IInv
<1>2. pc \in PCs
  BY DEF PCs
<1>3. QED
  BY <1>1, <1>2, PcMoves DEF ArgumentsOf, Arguments, IdsAreUsedOnce

(* A step that writes no row.                                              *)
LEMMA NothingWritten ==
  ASSUME IInv, NEW o \in Ops, op' \in [Ops -> OpStates],
         \A q \in Ops \ {o} : op'[q] = op[q],
         UNCHANGED <<today, transactions, soldAs, dues>>
  PROVE  Typed(o) /\ RowsStay(o)
<1>1. TypeOK'
  BY DEF IInv, TypeOK
<1>2. RowsStay(o)
  BY DEF IInv, RowsStay, SalesKeepTheirIncome
<1>3. QED
  BY <1>1, <1>2 DEF Typed

-----------------------------------------------------------------------------
(* The steps that write no row.                                            *)

LEMMA AdvanceDayPreserves ==
  ASSUME IInv, AdvanceDay
  PROVE  IInv'
<1>1. UNCHANGED <<transactions, soldAs, dues, op>>
  BY DEF AdvanceDay
<1>2. TypeOK' /\ today' \in 1 .. MaxDay
  BY <1>1, BoundAssumption, CalendarCoversTheRun DEF AdvanceDay, IInv, TypeOK
<1>3. (IdsAreUsedOnce /\ Arguments /\ ComparisonsHold)'
  BY <1>1 DEF IInv, IdsAreUsedOnce, Used, Arguments, ComparisonsHold, At
<1>4. (CategoriesMatch /\ SalesKeepTheirIncome /\ AcceptedMarksHold)'
  BY <1>1 DEF IInv, CategoriesMatch, SalesKeepTheirIncome, AcceptedMarksHold, Target
<1>5. QED
  BY <1>2, <1>3, <1>4 DEF IInv

LEMMA RecordPreserves ==
  ASSUME IInv, NEW o \in Ops, NEW rows \in Batches, Record(o, rows)
  PROVE  IInv'
<1>1. TypeOK /\ Arguments /\ IdsAreUsedOnce
  BY DEF IInv
<1>2. rows \in Seq(Transactions)
  BY InputAssumption
<1>3. /\ op' \in [Ops -> OpStates]
      /\ \A q \in Ops \ {o} : op'[q] = op[q]
      /\ op'[o].kind = "record" /\ op'[o].rows = rows
      /\ op'[o].target = op[o].target /\ op'[o].patch = op[o].patch
      /\ op'[o].pc = IF Acceptable(rows) THEN "inserting" ELSE "error"
  BY <1>1, <1>2 DEF Record, TypeOK, OpStates, Kinds
<1>4. Typed(o) /\ RowsStay(o)
  BY <1>3, NothingWritten DEF Record
<1>5. ArgumentsOf(o)
  BY <1>1, <1>3 DEF Record, ArgumentsOf, Arguments, IdsAreUsedOnce, Acceptable, Finished
<1>6. KnowsItsRow(o)
  BY <1>3 DEF KnowsItsRow
<1>7. QED
  BY <1>4, <1>5, <1>6, Preserved DEF StepOf

LEMMA InsertPreserves ==
  ASSUME IInv, NEW o \in Ops, Insert(o)
  PROVE  IInv'
<1>1. TypeOK /\ Arguments /\ IdsAreUsedOnce
  BY DEF IInv
<1>2. /\ op' \in [Ops -> OpStates]
      /\ \A q \in Ops \ {o} : op'[q] = op[q]
      /\ op'[o].pc = op[o].pc /\ op'[o].kind = op[o].kind /\ op'[o].rows = op[o].rows
      /\ op'[o].target = op[o].target /\ op'[o].patch = op[o].patch
  <2>1. op[o] \in OpStates /\ op[o].inserted + 1 \in Nat
    BY <1>1 DEF TypeOK, OpStates
  <2>2. [op[o] EXCEPT !.inserted = @ + 1] \in OpStates
    BY <2>1 DEF OpStates
  <2>3. op' = [op EXCEPT ![o] = [op[o] EXCEPT !.inserted = @ + 1]]
    BY DEF Insert
  <2>4. QED
    BY <1>1, <2>1, <2>2, <2>3 DEF TypeOK, OpStates
<1>3. Typed(o) /\ RowsStay(o)
  BY <1>2, NothingWritten DEF Insert
<1>4. ArgumentsOf(o)
  BY <1>1, <1>2 DEF ArgumentsOf, Arguments, IdsAreUsedOnce
<1>5. KnowsItsRow(o)
  BY <1>2 DEF Insert, KnowsItsRow
<1>6. QED
  BY <1>3, <1>4, <1>5, Preserved DEF StepOf

LEMMA RollbackPreserves ==
  ASSUME IInv, NEW o \in Ops, Rollback(o)
  PROVE  IInv'
<1>1. op[o].pc = "inserting" /\ Goto(o, "error")
  BY DEF Rollback
<1>2. /\ op' \in [Ops -> OpStates]
      /\ \A q \in Ops \ {o} : op'[q] = op[q]
      /\ ArgumentsOf(o)
  BY <1>1, GoesOn DEF Finished
<1>3. Typed(o) /\ RowsStay(o)
  BY <1>2, NothingWritten DEF Rollback
<1>4. op'[o].pc = "error"
  BY <1>1, PcMoves DEF PCs, IInv
<1>5. KnowsItsRow(o)
  BY <1>4 DEF KnowsItsRow
<1>6. QED
  BY <1>2, <1>3, <1>5, Preserved DEF StepOf

LEMMA AnswerBalancePreserves ==
  ASSUME IInv, NEW o \in Ops, AnswerBalance(o)
  PROVE  IInv'
<1>1. PICK outcome \in {"ok", "error"} : Goto(o, outcome)
  BY DEF AnswerBalance
<1>2. /\ op' \in [Ops -> OpStates]
      /\ \A q \in Ops \ {o} : op'[q] = op[q]
      /\ ArgumentsOf(o)
  BY <1>1, GoesOn DEF AnswerBalance, Finished
<1>3. Typed(o) /\ RowsStay(o)
  BY <1>2, NothingWritten DEF AnswerBalance
<1>4. op'[o].pc = outcome /\ op'[o].kind = op[o].kind
  BY <1>1, PcMoves DEF PCs, IInv
<1>5. op[o].kind # "settle"
  BY DEF AnswerBalance, IInv, Arguments
<1>6. KnowsItsRow(o)
  BY <1>4, <1>5 DEF KnowsItsRow
<1>7. QED
  BY <1>2, <1>3, <1>6, Preserved DEF StepOf

LEMMA StartPreserves ==
  ASSUME IInv, NEW o \in Ops, NEW kind \in {"update", "delete", "updateDue", "deleteDue", "settle"},
         NEW target \in DOMAIN transactions \cup DOMAIN dues, NEW patch,
         IF kind = "update" THEN patch \in Patches
         ELSE IF kind = "updateDue" THEN patch \in DuePatches ELSE patch = None,
         Start(o, kind, target, patch)
  PROVE  IInv'
<1>1. TypeOK /\ Arguments /\ IdsAreUsedOnce
  BY DEF IInv
<1>2. target \in Ids
  BY <1>1 DEF TypeOK, Table
<1>3. patch \in Patches \cup DuePatches \cup {None}
  OBVIOUS
<1>4. /\ op' \in [Ops -> OpStates]
      /\ \A q \in Ops \ {o} : op'[q] = op[q]
      /\ op'[o].pc = "reading" /\ op'[o].kind = kind
      /\ op'[o].target = target /\ op'[o].patch = patch
  <2>1. [op[o] EXCEPT !.pc = "reading", !.kind = kind, !.target = target, !.patch = patch]
          \in OpStates
    BY <1>1, <1>2, <1>3 DEF TypeOK, OpStates, Kinds
  <2>2. op' = [op EXCEPT ![o] = [op[o] EXCEPT !.pc = "reading", !.kind = kind,
                                              !.target = target, !.patch = patch]]
    BY DEF Start
  <2>3. QED
    BY <1>1, <2>1, <2>2 DEF TypeOK, OpStates
<1>5. Typed(o) /\ RowsStay(o)
  BY <1>4, NothingWritten DEF Start
<1>6. Used(target) /\ op[o].pc = "new"
  BY <1>1 DEF IdsAreUsedOnce, Start
<1>7. ArgumentsOf(o)
  BY <1>2, <1>4, <1>6 DEF ArgumentsOf, Finished
<1>8. KnowsItsRow(o)
  BY <1>4 DEF KnowsItsRow
<1>9. QED
  BY <1>5, <1>7, <1>8, Preserved DEF StepOf

LEMMA CheckUpdatePreserves ==
  ASSUME IInv, NEW o \in Ops, CheckUpdate(o)
  PROVE  IInv'
<1> DEFINE fits == /\ Target(o) \in DOMAIN transactions
                   /\ "category" \in DOMAIN op[o].patch =>
                        RightType(Patched(transactions[Target(o)], op[o].patch))
           pc == IF fits THEN "checked" ELSE "error"
<1>1. TypeOK /\ Arguments /\ pc \in {"checked", "error"}
  BY DEF IInv
<1>2. /\ op[o].pc = "reading" /\ op[o].kind = "update" /\ Goto(o, pc)
      /\ UNCHANGED <<today, transactions, soldAs, dues>>
  BY DEF CheckUpdate, At
<1>3. fits /\ "category" \in DOMAIN op[o].patch =>
        TypeOf(op[o].patch.category) = transactions[op[o].target].type
  <2>1. SUFFICES ASSUME fits, "category" \in DOMAIN op[o].patch
                 PROVE  TypeOf(op[o].patch.category) = transactions[op[o].target].type
    OBVIOUS
  <2>2. transactions[op[o].target] \in Transactions /\ op[o].patch \in Patches
    BY <1>1, <1>2, <2>1 DEF TypeOK, Table, Arguments, Target
  <2>3. QED
    BY <2>1, <2>2, PatchedTransaction DEF RightType, Target
<1> HIDE DEF fits
<1>4. /\ op' \in [Ops -> OpStates]
      /\ \A q \in Ops \ {o} : op'[q] = op[q]
      /\ ArgumentsOf(o)
  BY <1>1, <1>2, GoesOn DEF Finished
<1>5. Typed(o) /\ RowsStay(o)
  BY <1>2, <1>4, NothingWritten
<1>6. /\ op'[o].pc = pc /\ op'[o].kind = "update"
      /\ op'[o].patch = op[o].patch /\ op'[o].target = op[o].target
  BY <1>1, <1>2, PcMoves DEF PCs
<1>7. KnowsItsRow(o)
  BY <1>2, <1>3, <1>6 DEF KnowsItsRow
<1>8. QED
  BY <1>4, <1>5, <1>7, Preserved DEF StepOf

LEMMA ReadStatusPreserves ==
  ASSUME IInv, NEW o \in Ops, ReadStatus(o)
  PROVE  IInv'
<1> DEFINE pc == IF Target(o) \notin DOMAIN dues THEN "error"
                 ELSE IF dues[Target(o)].settled THEN "ok" ELSE "checked"
<1>1. TypeOK /\ Arguments /\ pc \in {"checked", "ok", "error"}
  BY DEF IInv
<1>2. /\ op[o].pc = "reading" /\ op[o].kind = "settle" /\ Goto(o, pc)
      /\ UNCHANGED <<today, transactions, soldAs, dues>>
  BY DEF ReadStatus, At
<1>3. pc = "ok" => dues[op[o].target].settled
  BY DEF Target
<1> HIDE DEF pc
<1>4. /\ op' \in [Ops -> OpStates]
      /\ \A q \in Ops \ {o} : op'[q] = op[q]
      /\ ArgumentsOf(o)
  BY <1>1, <1>2, GoesOn DEF Finished
<1>5. Typed(o) /\ RowsStay(o)
  BY <1>2, <1>4, NothingWritten
<1>6. op'[o].pc = pc /\ op'[o].kind = "settle" /\ op'[o].target = op[o].target
  BY <1>1, <1>2, PcMoves DEF PCs
<1>7. KnowsItsRow(o)
  BY <1>2, <1>3, <1>6 DEF KnowsItsRow
<1>8. QED
  BY <1>4, <1>5, <1>7, Preserved DEF StepOf

(* A statement that finds no row, or a row it may not touch, answers an    *)
(* error and writes nothing.                                               *)
LEMMA RefusalPreserves ==
  ASSUME IInv, NEW o \in Ops, op[o].pc \in {"reading", "checked"}, Goto(o, "error"),
         UNCHANGED <<today, transactions, soldAs, dues>>
  PROVE  IInv'
<1>1. /\ op' \in [Ops -> OpStates]
      /\ \A q \in Ops \ {o} : op'[q] = op[q]
      /\ ArgumentsOf(o)
  BY GoesOn DEF Finished
<1>2. Typed(o) /\ RowsStay(o)
  BY <1>1, NothingWritten
<1>3. op'[o].pc = "error"
  BY PcMoves DEF PCs, IInv
<1>4. KnowsItsRow(o)
  BY <1>3 DEF KnowsItsRow
<1>5. QED
  BY <1>1, <1>2, <1>4, Preserved DEF StepOf

-----------------------------------------------------------------------------
(* The steps that write transactions.                                      *)

LEMMA CommitPreserves ==
  ASSUME IInv, NEW o \in Ops, Commit(o)
  PROVE  IInv'
<1> DEFINE pc == IF Len(op[o].rows) = 1 THEN "balance" ELSE "ok"
<1>1. TypeOK /\ Arguments /\ IdsAreUsedOnce /\ pc \in {"balance", "ok"}
  BY DEF IInv
<1>2. /\ op[o].pc = "inserting" /\ op[o].kind = "record" /\ Goto(o, pc)
      /\ transactions' = Extended(transactions, RowsOf(o))
      /\ UNCHANGED <<today, soldAs, dues>>
  BY <1>1 DEF Commit, Arguments
<1> HIDE DEF pc
<1>3. /\ op' \in [Ops -> OpStates]
      /\ \A q \in Ops \ {o} : op'[q] = op[q]
      /\ ArgumentsOf(o)
  BY <1>1, <1>2, GoesOn DEF Finished
<1>4. op'[o].pc = pc /\ op'[o].kind = "record"
  BY <1>1, <1>2, PcMoves DEF PCs
<1>5. /\ op[o].rows \in Seq(Transactions)
      /\ \A k \in DOMAIN op[o].rows : RightType(op[o].rows[k])
  BY <1>1, <1>2 DEF TypeOK, OpStates, Arguments
<1>6. /\ Table(RowsOf(o), Transactions)
      /\ \A i \in DOMAIN RowsOf(o) : i[1] = o /\ RightType(RowsOf(o)[i])
  BY <1>5 DEF RowsOf, Table, Ids
<1>7. /\ Table(transactions', Transactions)
      /\ DOMAIN transactions' = DOMAIN transactions \cup DOMAIN RowsOf(o)
      /\ \A i \in DOMAIN RowsOf(o) : transactions'[i] = RowsOf(o)[i]
      /\ \A i \in DOMAIN transactions \ DOMAIN RowsOf(o) : transactions'[i] = transactions[i]
  <2>1. Table(transactions, Transactions)
    BY <1>1 DEF TypeOK
  <2>2. /\ Table(Extended(transactions, RowsOf(o)), Transactions)
        /\ DOMAIN Extended(transactions, RowsOf(o)) = DOMAIN transactions \cup DOMAIN RowsOf(o)
        /\ \A i \in DOMAIN RowsOf(o) : Extended(transactions, RowsOf(o))[i] = RowsOf(o)[i]
        /\ \A i \in DOMAIN transactions \ DOMAIN RowsOf(o) :
             Extended(transactions, RowsOf(o))[i] = transactions[i]
    BY <1>6, <2>1, ExtendedTable
  <2>3. QED
    BY <1>2, <1>6, <2>2
<1>8. \A i \in DOMAIN RowsOf(o) : i \notin DOMAIN transactions
  BY <1>1, <1>2, <1>6, IdentityAssumption DEF IdsAreUsedOnce, Used, Finished
<1>9. Typed(o)
  BY <1>1, <1>2, <1>3, <1>7 DEF TypeOK, Typed
<1>10. RowsStay(o)
  BY <1>1, <1>2, <1>4, <1>6, <1>7, <1>8 DEF RowsStay, Finished, IInv, SalesKeepTheirIncome
<1>11. KnowsItsRow(o)
  BY <1>4 DEF KnowsItsRow
<1>12. QED
  BY <1>3, <1>9, <1>10, <1>11, Preserved DEF StepOf

LEMMA RecordSalePreserves ==
  ASSUME IInv, NEW o \in Ops, NEW income \in SaleIncomes, RecordSale(o, income)
  PROVE  IInv'
<1> DEFINE new == [id \in {<<o, 1>>} |-> income]
<1>1. TypeOK /\ Arguments /\ IdsAreUsedOnce
  BY DEF IInv
<1>2. income \in Transactions /\ income.type = "INCOME" /\ RightType(income)
  BY InputAssumption DEF RecordSale
<1>3. /\ op[o].pc = "new" /\ op[o].kind = "none" /\ Goto(o, "ok")
      /\ transactions' = Extended(transactions, new)
      /\ soldAs' = soldAs \cup {<<o, 1>>}
      /\ UNCHANGED <<today, dues>>
  BY <1>1 DEF RecordSale, Arguments
<1>4. /\ op' \in [Ops -> OpStates]
      /\ \A q \in Ops \ {o} : op'[q] = op[q]
      /\ ArgumentsOf(o)
  BY <1>1, <1>3, GoesOn DEF Finished
<1>5. op'[o].pc = "ok" /\ op'[o].kind = "none"
  BY <1>1, <1>3, PcMoves DEF PCs
<1>6. Table(new, Transactions) /\ DOMAIN new = {<<o, 1>>} /\ new[<<o, 1>>] = income
  BY <1>2 DEF Table, Ids
<1> HIDE DEF new
<1>7. /\ Table(transactions', Transactions)
      /\ DOMAIN transactions' = DOMAIN transactions \cup {<<o, 1>>}
      /\ transactions'[<<o, 1>>] = income
      /\ \A i \in DOMAIN transactions \ {<<o, 1>>} : transactions'[i] = transactions[i]
  <2>1. Table(transactions, Transactions)
    BY <1>1 DEF TypeOK
  <2>2. /\ Table(Extended(transactions, new), Transactions)
        /\ DOMAIN Extended(transactions, new) = DOMAIN transactions \cup DOMAIN new
        /\ \A i \in DOMAIN new : Extended(transactions, new)[i] = new[i]
        /\ \A i \in DOMAIN transactions \ DOMAIN new :
             Extended(transactions, new)[i] = transactions[i]
    BY <1>6, <2>1, ExtendedTable
  <2>3. QED
    BY <1>3, <1>6, <2>2
<1>8. <<o, 1>> \in Ids /\ <<o, 1>>[1] = o /\ <<o, 1>> \notin DOMAIN transactions
  BY <1>1, <1>3, IdentityAssumption DEF Ids, IdsAreUsedOnce, Used, Finished
<1>9. Typed(o)
  BY <1>1, <1>3, <1>4, <1>7, <1>8 DEF TypeOK, Typed
<1>10. RowsStay(o)
  BY <1>2, <1>3, <1>5, <1>7, <1>8 DEF RowsStay, Finished, IInv, SalesKeepTheirIncome
<1>11. KnowsItsRow(o)
  BY <1>5 DEF KnowsItsRow
<1>12. QED
  BY <1>4, <1>9, <1>10, <1>11, Preserved DEF StepOf

LEMMA UpdatePreserves ==
  ASSUME IInv, NEW o \in Ops, Update(o)
  PROVE  IInv'
<1>1. CASE Target(o) \notin DOMAIN transactions
  BY <1>1, RefusalPreserves DEF Update, At
<1>2. CASE Target(o) \in DOMAIN transactions
  <2> DEFINE row == Patched(transactions[Target(o)], op[o].patch)
  <2>1. TypeOK /\ Arguments
    BY DEF IInv
  <2>2. /\ op[o].pc = "checked" /\ op[o].kind = "update" /\ Goto(o, "balance")
        /\ UNCHANGED <<today, soldAs, dues>>
    BY <1>2 DEF Update, At
  <2>3. transactions[Target(o)] \in Transactions /\ op[o].patch \in Patches
    BY <1>2, <2>1, <2>2 DEF TypeOK, Table, Arguments
  <2>4. /\ row \in Transactions
        /\ row.type = transactions[Target(o)].type
        /\ row.category = IF "category" \in DOMAIN op[o].patch THEN op[o].patch.category
                          ELSE transactions[Target(o)].category
    BY <2>3, PatchedTransaction
  <2>5. RightType(row)
    <3>1. RightType(transactions[Target(o)])
      BY <1>2 DEF IInv, CategoriesMatch
    <3>2. "category" \in DOMAIN op[o].patch =>
            TypeOf(op[o].patch.category) = transactions[Target(o)].type
      BY <1>2, <2>2 DEF IInv, ComparisonsHold, At, Target
    <3>3. QED
      BY <2>4, <3>1, <3>2 DEF RightType
  <2>6. transactions' = [transactions EXCEPT ![Target(o)] = row]
    BY <1>2 DEF Update
  <2> HIDE DEF row
  <2>7. /\ Table(transactions', Transactions)
        /\ DOMAIN transactions' = DOMAIN transactions
        /\ transactions'[Target(o)] = row
        /\ \A i \in DOMAIN transactions \ {Target(o)} : transactions'[i] = transactions[i]
    BY <1>2, <2>1, <2>4, <2>6, UpdatedTable DEF TypeOK
  <2>8. /\ op' \in [Ops -> OpStates]
        /\ \A q \in Ops \ {o} : op'[q] = op[q]
        /\ ArgumentsOf(o)
    BY <2>2, GoesOn DEF Finished
  <2>9. op'[o].pc = "balance"
    BY <2>1, <2>2, PcMoves DEF PCs
  <2>10. Typed(o)
    BY <2>1, <2>2, <2>7, <2>8 DEF TypeOK, Typed
  <2>11. RowsStay(o)
    BY <2>2, <2>4, <2>5, <2>7 DEF RowsStay, IInv, SalesKeepTheirIncome
  <2>12. KnowsItsRow(o)
    BY <2>9 DEF KnowsItsRow
  <2>13. QED
    BY <2>8, <2>10, <2>11, <2>12, Preserved DEF StepOf
<1>3. QED
  BY <1>1, <1>2

LEMMA DeletePreserves ==
  ASSUME IInv, NEW o \in Ops, Delete(o)
  PROVE  IInv'
<1>1. CASE Target(o) \notin DOMAIN transactions \ soldAs
  BY <1>1, RefusalPreserves DEF Delete, At
<1>2. CASE Target(o) \in DOMAIN transactions \ soldAs
  <2>1. TypeOK /\ Arguments
    BY DEF IInv
  <2>2. /\ op[o].pc = "reading" /\ op[o].kind = "delete" /\ Goto(o, "balance")
        /\ transactions' = Without(transactions, Target(o))
        /\ UNCHANGED <<today, soldAs, dues>>
    BY <1>2 DEF Delete, At
  <2>3. /\ Table(transactions', Transactions)
        /\ DOMAIN transactions' = DOMAIN transactions \ {Target(o)}
        /\ \A i \in DOMAIN transactions \ {Target(o)} : transactions'[i] = transactions[i]
    BY <2>1, <2>2, ReducedTable DEF TypeOK
  <2>4. /\ op' \in [Ops -> OpStates]
        /\ \A q \in Ops \ {o} : op'[q] = op[q]
        /\ ArgumentsOf(o)
    BY <2>2, GoesOn DEF Finished
  <2>5. op'[o].pc = "balance"
    BY <2>1, <2>2, PcMoves DEF PCs
  <2>6. Typed(o)
    BY <2>1, <2>2, <2>3, <2>4 DEF TypeOK, Typed
  <2>7. RowsStay(o)
    BY <1>2, <2>2, <2>3 DEF RowsStay, IInv, SalesKeepTheirIncome
  <2>8. KnowsItsRow(o)
    BY <2>5 DEF KnowsItsRow
  <2>9. QED
    BY <2>4, <2>6, <2>7, <2>8, Preserved DEF StepOf
<1>3. QED
  BY <1>1, <1>2

-----------------------------------------------------------------------------
(* The steps that write debts and receivables.                             *)

LEMMA RecordDuePreserves ==
  ASSUME IInv, NEW o \in Ops, NEW due \in NewDues, RecordDue(o, due)
  PROVE  IInv'
<1> DEFINE new == [id \in {<<o, 1>>} |-> due]
<1>1. TypeOK /\ Arguments /\ IdsAreUsedOnce
  BY DEF IInv
<1>2. /\ op[o].pc = "new" /\ op[o].kind = "none" /\ Goto(o, "ok")
      /\ dues' = Extended(dues, new)
      /\ UNCHANGED <<today, transactions, soldAs>>
  BY <1>1 DEF RecordDue, Arguments
<1>3. /\ op' \in [Ops -> OpStates]
      /\ \A q \in Ops \ {o} : op'[q] = op[q]
      /\ ArgumentsOf(o)
  BY <1>1, <1>2, GoesOn DEF Finished
<1>4. op'[o].pc = "ok" /\ op'[o].kind = "none"
  BY <1>1, <1>2, PcMoves DEF PCs
<1>5. Table(new, Dues) /\ DOMAIN new = {<<o, 1>>}
  BY InputAssumption DEF Table, Ids
<1> HIDE DEF new
<1>6. /\ Table(dues', Dues)
      /\ DOMAIN dues' = DOMAIN dues \cup {<<o, 1>>}
      /\ \A i \in DOMAIN dues \ {<<o, 1>>} : dues'[i] = dues[i]
  <2>1. Table(dues, Dues)
    BY <1>1 DEF TypeOK
  <2>2. /\ Table(Extended(dues, new), Dues)
        /\ DOMAIN Extended(dues, new) = DOMAIN dues \cup DOMAIN new
        /\ \A i \in DOMAIN dues \ DOMAIN new : Extended(dues, new)[i] = dues[i]
    BY <1>5, <2>1, ExtendedTable
  <2>3. QED
    BY <1>2, <1>5, <2>2
<1>7. <<o, 1>>[1] = o /\ <<o, 1>> \notin DOMAIN dues
  BY <1>1, <1>2, IdentityAssumption DEF IdsAreUsedOnce, Used, Finished
<1>8. Typed(o)
  BY <1>1, <1>2, <1>3, <1>6 DEF TypeOK, Typed
<1>9. RowsStay(o)
  BY <1>2, <1>4, <1>6, <1>7 DEF RowsStay, Finished, IInv, SalesKeepTheirIncome
<1>10. KnowsItsRow(o)
  BY <1>4 DEF KnowsItsRow
<1>11. QED
  BY <1>3, <1>8, <1>9, <1>10, Preserved DEF StepOf

(* A row is replaced by one that is settled if it was.                     *)
LEMMA DueReplaced ==
  ASSUME IInv, NEW o \in Ops, NEW row \in Dues,
         op[o].pc \in {"reading", "checked"}, op[o].kind \in {"updateDue", "settle"},
         Target(o) \in DOMAIN dues,
         dues[Target(o)].settled \/ op[o].kind = "settle" => row.settled,
         dues' = [dues EXCEPT ![Target(o)] = row], Goto(o, "ok"),
         UNCHANGED <<today, transactions, soldAs>>
  PROVE  IInv'
<1>1. TypeOK
  BY DEF IInv
<1>2. /\ Table(dues', Dues)
      /\ DOMAIN dues' = DOMAIN dues
      /\ dues'[Target(o)] = row
      /\ \A i \in DOMAIN dues \ {Target(o)} : dues'[i] = dues[i]
  BY <1>1, UpdatedTable DEF TypeOK
<1>3. /\ op' \in [Ops -> OpStates]
      /\ \A q \in Ops \ {o} : op'[q] = op[q]
      /\ ArgumentsOf(o)
  BY GoesOn DEF Finished
<1>4. op'[o].pc = "ok" /\ op'[o].kind = op[o].kind /\ op'[o].target = op[o].target
  BY <1>1, PcMoves DEF PCs
<1>5. Typed(o)
  BY <1>1, <1>2, <1>3 DEF TypeOK, Typed
<1>6. RowsStay(o)
  BY <1>2 DEF RowsStay, IInv, SalesKeepTheirIncome
<1>7. KnowsItsRow(o)
  BY <1>2, <1>4 DEF KnowsItsRow, Target
<1>8. QED
  BY <1>3, <1>5, <1>6, <1>7, Preserved DEF StepOf

LEMMA UpdateDuePreserves ==
  ASSUME IInv, NEW o \in Ops, UpdateDue(o)
  PROVE  IInv'
<1>1. CASE Target(o) \notin DOMAIN dues
  BY <1>1, RefusalPreserves DEF UpdateDue, At
<1>2. CASE Target(o) \in DOMAIN dues
  <2> DEFINE row == Patched(dues[Target(o)], op[o].patch)
  <2>1. /\ op[o].pc = "reading" /\ op[o].kind = "updateDue" /\ Goto(o, "ok")
        /\ dues' = [dues EXCEPT ![Target(o)] = row]
        /\ UNCHANGED <<today, transactions, soldAs>>
    BY <1>2 DEF UpdateDue, At
  <2>2. dues[Target(o)] \in Dues /\ op[o].patch \in DuePatches
    BY <1>2, <2>1 DEF IInv, TypeOK, Table, Arguments
  <2>3. row \in Dues /\ row.settled = dues[Target(o)].settled
    BY <2>2, PatchedDue
  <2> HIDE DEF row
  <2>4. QED
    BY <1>2, <2>1, <2>3, DueReplaced
<1>3. QED
  BY <1>1, <1>2

LEMMA SettlePreserves ==
  ASSUME IInv, NEW o \in Ops, Settle(o)
  PROVE  IInv'
<1>1. CASE Target(o) \notin DOMAIN dues
  BY <1>1, RefusalPreserves DEF Settle, At
<1>2. CASE Target(o) \in DOMAIN dues
  <2> DEFINE row == [dues[Target(o)] EXCEPT !.settled = TRUE]
  <2>1. /\ op[o].pc = "checked" /\ op[o].kind = "settle" /\ Goto(o, "ok")
        /\ dues' = [dues EXCEPT ![Target(o)] = row]
        /\ UNCHANGED <<today, transactions, soldAs>>
    BY <1>2 DEF Settle, At
  <2>2. dues[Target(o)] \in Dues
    BY <1>2 DEF IInv, TypeOK, Table
  <2>3. row \in Dues /\ row.settled
    BY <2>2 DEF Dues
  <2> HIDE DEF row
  <2>4. QED
    BY <1>2, <2>1, <2>3, DueReplaced
<1>3. QED
  BY <1>1, <1>2

LEMMA DeleteDuePreserves ==
  ASSUME IInv, NEW o \in Ops, DeleteDue(o)
  PROVE  IInv'
<1>1. CASE Target(o) \notin DOMAIN dues
  BY <1>1, RefusalPreserves DEF DeleteDue, At
<1>2. CASE Target(o) \in DOMAIN dues
  <2>1. TypeOK
    BY DEF IInv
  <2>2. /\ op[o].pc = "reading" /\ op[o].kind = "deleteDue" /\ Goto(o, "ok")
        /\ dues' = Without(dues, Target(o))
        /\ UNCHANGED <<today, transactions, soldAs>>
    BY <1>2 DEF DeleteDue, At
  <2>3. /\ Table(dues', Dues)
        /\ DOMAIN dues' = DOMAIN dues \ {Target(o)}
        /\ \A i \in DOMAIN dues \ {Target(o)} : dues'[i] = dues[i]
    BY <2>1, <2>2, ReducedTable DEF TypeOK
  <2>4. /\ op' \in [Ops -> OpStates]
        /\ \A q \in Ops \ {o} : op'[q] = op[q]
        /\ ArgumentsOf(o)
    BY <2>2, GoesOn DEF Finished
  <2>5. op'[o].kind = "deleteDue"
    BY <2>1, <2>2, PcMoves DEF PCs
  <2>6. Typed(o)
    BY <2>1, <2>2, <2>3, <2>4 DEF TypeOK, Typed
  <2>7. RowsStay(o)
    BY <2>2, <2>3 DEF RowsStay, IInv, SalesKeepTheirIncome
  <2>8. KnowsItsRow(o)
    BY <2>5 DEF KnowsItsRow
  <2>9. QED
    BY <2>4, <2>6, <2>7, <2>8, Preserved DEF StepOf
<1>3. QED
  BY <1>1, <1>2

-----------------------------------------------------------------------------
(* The invariant.                                                          *)

LEMMA InitEstablishes == Init => IInv
<1>1. SUFFICES ASSUME Init
               PROVE  IInv
  OBVIOUS
<1>2. TypeOK /\ today \in 1 .. MaxDay
  <2>1. NewOp \in OpStates
    BY DEF NewOp, OpStates, Kinds, None
  <2>2. QED
    BY <1>1, <2>1, SeedAssumption, BoundAssumption, CalendarCoversTheRun DEF Init, TypeOK
<1>3. CategoriesMatch
  BY <1>1, SeedAssumption DEF Init, CategoriesMatch, RightType
<1>4. \A o \in Ops : op[o].pc = "new" /\ op[o].kind = "none" /\ op[o].target = None
  BY <1>1 DEF Init, NewOp
<1>5. IdsAreUsedOnce
  BY <1>1, <1>4, SeedAssumption DEF Init, IdsAreUsedOnce, Used
<1>6. Arguments /\ ComparisonsHold /\ SalesKeepTheirIncome /\ AcceptedMarksHold
  BY <1>1, <1>4
     DEF Init, Arguments, ComparisonsHold, At, SalesKeepTheirIncome, AcceptedMarksHold
<1>7. QED
  BY <1>2, <1>3, <1>5, <1>6 DEF IInv

LEMMA CallPreserves ==
  ASSUME IInv, NEW o \in Ops, Call(o)
  PROVE  IInv'
<1>1. CASE \E rows \in Batches : Record(o, rows)
  BY <1>1, RecordPreserves
<1>2. CASE \E income \in SaleIncomes : RecordSale(o, income)
  BY <1>2, RecordSalePreserves
<1>3. CASE \E due \in NewDues : RecordDue(o, due)
  BY <1>3, RecordDuePreserves
<1>4. CASE \E i \in DOMAIN transactions :
             Start(o, "delete", i, None) \/ \E patch \in Patches : Start(o, "update", i, patch)
  BY <1>4, StartPreserves
<1>5. CASE \E i \in DOMAIN dues :
             \/ Start(o, "deleteDue", i, None) \/ Start(o, "settle", i, None)
             \/ \E patch \in DuePatches : StartUpdateDue(o, i, patch)
  BY <1>5, StartPreserves DEF StartUpdateDue
<1>6. QED
  BY <1>1, <1>2, <1>3, <1>4, <1>5 DEF Call

LEMMA NextPreserves == IInv /\ [Next]_vars => IInv'
<1>1. SUFFICES ASSUME IInv, [Next]_vars
               PROVE  IInv'
  OBVIOUS
<1>2. CASE UNCHANGED vars
  <2>1. UNCHANGED <<today, transactions, soldAs, dues, op>>
    BY <1>2 DEF vars
  <2>2. (TypeOK /\ IdsAreUsedOnce /\ Arguments /\ ComparisonsHold)'
    BY <1>1, <2>1 DEF IInv, TypeOK, IdsAreUsedOnce, Used, Arguments, ComparisonsHold, At
  <2>3. (CategoriesMatch /\ SalesKeepTheirIncome /\ AcceptedMarksHold)'
    BY <1>1, <2>1 DEF IInv, CategoriesMatch, SalesKeepTheirIncome, AcceptedMarksHold, Target
  <2>4. QED
    BY <1>1, <2>1, <2>2, <2>3 DEF IInv
<1>3. CASE AdvanceDay
  BY <1>1, <1>3, AdvanceDayPreserves
<1>4. ASSUME NEW o \in Ops, Call(o) \/ Step(o) \/ Rollback(o)
      PROVE  IInv'
  <2>1. CASE Call(o)
    BY <1>1, <2>1, CallPreserves
  <2>2. CASE Rollback(o)
    BY <1>1, <2>2, RollbackPreserves
  <2>3. CASE Insert(o) \/ Commit(o) \/ AnswerBalance(o)
    BY <1>1, <2>3, InsertPreserves, CommitPreserves, AnswerBalancePreserves
  <2>4. CASE CheckUpdate(o) \/ Update(o) \/ Delete(o)
    BY <1>1, <2>4, CheckUpdatePreserves, UpdatePreserves, DeletePreserves
  <2>5. CASE UpdateDue(o) \/ DeleteDue(o) \/ ReadStatus(o) \/ Settle(o)
    BY <1>1, <2>5, UpdateDuePreserves, DeleteDuePreserves, ReadStatusPreserves, SettlePreserves
  <2>6. QED
    BY <1>4, <2>1, <2>2, <2>3, <2>4, <2>5 DEF Step
<1>5. QED
  BY <1>1, <1>2, <1>3, <1>4 DEF Next

LEMMA Invariance == Spec => []IInv
BY InitEstablishes, NextPreserves, PTL DEF Spec

-----------------------------------------------------------------------------
(* The theorems.                                                           *)

(* Tables and operations keep their types.                                 *)
THEOREM LedgerTypesCorrect == Spec => []TypeOK
<1>1. IInv => TypeOK
  BY DEF IInv
<1>2. QED
  BY <1>1, Invariance, PTL

(* The category of every transaction has its type, although                *)
(* update_transaction writes after it has compared.                        *)
THEOREM CategoriesAlwaysMatch == Spec => []CategoriesMatch
<1>1. IInv => CategoriesMatch
  BY DEF IInv
<1>2. QED
  BY <1>1, Invariance, PTL

(* The income of a sale is neither deleted nor turned into an expense.     *)
THEOREM IncomesOfSalesStay == Spec => []SalesKeepTheirIncome
<1>1. IInv => SalesKeepTheirIncome
  BY DEF IInv
<1>2. QED
  BY <1>1, Invariance, PTL

(* Updates and deletions of any number of calls keep both.                 *)
THEOREM TransactionsAreKeptRight == Spec => []TransactionsStayRight
BY CategoriesAlwaysMatch, IncomesOfSalesStay, PTL DEF TransactionsStayRight

(* What was answered as paid or collected stays so for as long as it exists. *)
THEOREM MarksHold == Spec => []AcceptedMarksHold
<1>1. IInv => AcceptedMarksHold
  BY DEF IInv
<1>2. QED
  BY <1>1, Invariance, PTL

(* Only the commit of a batch shows its rows, and it shows all of them.    *)
LEMMA BatchStep ==
  ASSUME IInv, [Next]_vars, NEW q \in Ops,
         NEW i \in DOMAIN transactions' \ DOMAIN transactions, i[1] = q, op[q].kind = "record"
  PROVE  Commit(q)
<1>1. CASE UNCHANGED transactions
  BY <1>1
<1>2. ASSUME NEW o \in Ops, Update(o) \/ Delete(o)
      PROVE  FALSE
  <2>1. CASE Update(o)
    BY <2>1 DEF Update
  <2>2. CASE Delete(o)
    BY <2>2 DEF Delete, Without
  <2>3. QED
    BY <1>2, <2>1, <2>2
<1>3. ASSUME NEW o \in Ops, NEW income \in SaleIncomes, RecordSale(o, income)
      PROVE  FALSE
  <2>1. DOMAIN transactions' = DOMAIN transactions \cup {<<o, 1>>}
    BY <1>3 DEF RecordSale, Extended
  <2>2. op[o].kind = "none" /\ q = o
    BY <1>3, <2>1 DEF RecordSale, IInv, Arguments
  <2>3. QED
    BY <2>2
<1>4. ASSUME NEW o \in Ops, Commit(o)
      PROVE  q = o
  <2>1. DOMAIN transactions' = DOMAIN transactions \cup DOMAIN RowsOf(o)
    BY <1>4 DEF Commit, Extended
  <2>2. QED
    BY <2>1 DEF RowsOf
<1>5. ASSUME NEW o \in Ops, Call(o), transactions' # transactions
      PROVE  \E income \in SaleIncomes : RecordSale(o, income)
  BY <1>5 DEF Call, Record, RecordDue, Start, StartUpdateDue
<1>6. ASSUME NEW o \in Ops, Step(o), transactions' # transactions
      PROVE  Commit(o) \/ Update(o) \/ Delete(o)
  BY <1>6 DEF Step, Insert, AnswerBalance, CheckUpdate, UpdateDue, DeleteDue, ReadStatus, Settle
<1>7. CASE AdvanceDay \/ (\E o \in Ops : Rollback(o)) \/ UNCHANGED vars
  BY <1>1, <1>7 DEF AdvanceDay, Rollback, vars
<1>8. QED
  BY <1>1, <1>2, <1>3, <1>4, <1>5, <1>6, <1>7 DEF Next

(* Batches are atomic for everybody who reads the transactions.            *)
THEOREM BatchesAreAtomic == Spec => BatchesAppearWhole
<1>1. ASSUME IInv, [Next]_vars
      PROVE  [\A o \in Ops : AppearsWhole(o)]_vars
  <2>1. SUFFICES ASSUME NEW o \in Ops, op[o].kind = "record",
                        NEW i \in DOMAIN transactions' \ DOMAIN transactions, i[1] = o
                 PROVE  /\ op'[o].pc # "error"
                        /\ \A k \in DOMAIN op[o].rows :
                             /\ <<o, k>> \in DOMAIN transactions'
                             /\ transactions'[<<o, k>>] = op[o].rows[k]
    BY DEF AppearsWhole
  <2>2. Commit(o)
    BY <1>1, <2>1, BatchStep
  <2>3. op'[o].pc # "error"
    <3>1. Goto(o, IF Len(op[o].rows) = 1 THEN "balance" ELSE "ok")
      BY <2>2 DEF Commit
    <3>2. QED
      BY <1>1, <3>1, PcMoves DEF IInv, PCs
  <2>4. ASSUME NEW k \in DOMAIN op[o].rows
        PROVE  /\ <<o, k>> \in DOMAIN transactions'
               /\ transactions'[<<o, k>>] = op[o].rows[k]
    <3>1. <<o, k>> \in DOMAIN RowsOf(o) /\ RowsOf(o)[<<o, k>>] = op[o].rows[k]
      BY DEF RowsOf
    <3>2. transactions' = Extended(transactions, RowsOf(o))
      BY <2>2 DEF Commit
    <3>3. QED
      BY <3>1, <3>2 DEF Extended
  <2>5. QED
    BY <2>3, <2>4
<1>2. QED
  BY <1>1, Invariance, PTL DEF Spec, BatchesAppearWhole
-----------------------------------------------------------------------------
(* The tables stay finite: the sums of the reports are over finite sets.   *)

LEMMA AfterFewerRows ==
  ASSUME NEW T, NEW S, IsFiniteSet(DOMAIN T), NEW new, IsFiniteSet(new),
         S \subseteq DOMAIN T \cup new
  PROVE  IsFiniteSet(S)
<1>1. IsFiniteSet(DOMAIN T \cup new)
  BY FS_Union
<1>2. QED
  BY <1>1, FS_Subset

LEMMA BatchIsFinite ==
  ASSUME NEW o \in Ops, op[o].rows \in Seq(Transactions)
  PROVE  IsFiniteSet(DOMAIN RowsOf(o))
<1> DEFINE rows == op[o].rows
           f == [k \in 1 .. Len(rows) |-> <<o, k>>]
<1>1. Len(rows) \in Nat /\ DOMAIN rows = 1 .. Len(rows)
  OBVIOUS
<1>2. IsFiniteSet(1 .. Len(rows))
  BY <1>1, FS_Interval
<1>3. DOMAIN RowsOf(o) = {<<o, k>> : k \in 1 .. Len(rows)}
  BY <1>1 DEF RowsOf
<1>4. f \in Surjection(1 .. Len(rows), DOMAIN RowsOf(o))
  BY <1>3 DEF Surjection
<1>5. QED
  BY <1>2, <1>4, FS_Surjection

TablesAreFinite == IsFiniteSet(DOMAIN transactions) /\ IsFiniteSet(DOMAIN dues)

LEMMA TablesStayFinite ==
  ASSUME IInv, TablesAreFinite, [Next]_vars
  PROVE  TablesAreFinite'
<1>1. TypeOK
  BY DEF IInv
<1>2. CASE UNCHANGED <<transactions, dues>>
  BY <1>2 DEF TablesAreFinite
<1>3. ASSUME NEW o \in Ops, NEW new, IsFiniteSet(new), UNCHANGED dues,
             DOMAIN transactions' \subseteq DOMAIN transactions \cup new
      PROVE  TablesAreFinite'
  BY <1>3, AfterFewerRows DEF TablesAreFinite
<1>4. ASSUME NEW o \in Ops, NEW new, IsFiniteSet(new), UNCHANGED transactions,
             DOMAIN dues' \subseteq DOMAIN dues \cup new
      PROVE  TablesAreFinite'
  BY <1>4, AfterFewerRows DEF TablesAreFinite
<1>5. ASSUME NEW o \in Ops, Commit(o)
      PROVE  TablesAreFinite'
  <2>1. IsFiniteSet(DOMAIN RowsOf(o))
    BY <1>1, BatchIsFinite DEF TypeOK, OpStates
  <2>2. UNCHANGED dues /\ DOMAIN transactions' = DOMAIN transactions \cup DOMAIN RowsOf(o)
    BY <1>5 DEF Commit, Extended
  <2>3. QED
    BY <1>3, <2>1, <2>2
<1>6. ASSUME NEW o \in Ops, NEW income \in SaleIncomes, RecordSale(o, income)
      PROVE  TablesAreFinite'
  <2>1. UNCHANGED dues /\ DOMAIN transactions' = DOMAIN transactions \cup {<<o, 1>>}
    BY <1>6 DEF RecordSale, Extended
  <2>2. QED
    BY <1>3, <2>1, FS_Singleton
<1>7. ASSUME NEW o \in Ops, NEW due \in NewDues, RecordDue(o, due)
      PROVE  TablesAreFinite'
  <2>1. UNCHANGED transactions /\ DOMAIN dues' = DOMAIN dues \cup {<<o, 1>>}
    BY <1>7 DEF RecordDue, Extended
  <2>2. QED
    BY <1>4, <2>1, FS_Singleton
<1>8. ASSUME NEW o \in Ops, Update(o) \/ Delete(o)
      PROVE  TablesAreFinite'
  <2>1. UNCHANGED dues /\ DOMAIN transactions' \subseteq DOMAIN transactions \cup {}
    <3>1. CASE Update(o)
      BY <1>1, <3>1 DEF Update, TypeOK, Table
    <3>2. CASE Delete(o)
      BY <3>2 DEF Delete, Without
    <3>3. QED
      BY <1>8, <3>1, <3>2
  <2>2. QED
    BY <1>3, <2>1, FS_EmptySet
<1>9. ASSUME NEW o \in Ops, UpdateDue(o) \/ DeleteDue(o) \/ Settle(o)
      PROVE  TablesAreFinite'
  <2>1. UNCHANGED transactions /\ DOMAIN dues' \subseteq DOMAIN dues \cup {}
    <3>1. CASE UpdateDue(o)
      BY <1>1, <3>1 DEF UpdateDue, TypeOK, Table
    <3>2. CASE DeleteDue(o)
      BY <3>2 DEF DeleteDue, Without
    <3>3. CASE Settle(o)
      BY <1>1, <3>3 DEF Settle, TypeOK, Table
    <3>4. QED
      BY <1>9, <3>1, <3>2, <3>3
  <2>2. QED
    BY <1>4, <2>1, FS_EmptySet
<1>10. ASSUME NEW o \in Ops, Call(o)
       PROVE  \/ UNCHANGED <<transactions, dues>>
              \/ \E income \in SaleIncomes : RecordSale(o, income)
              \/ \E due \in NewDues : RecordDue(o, due)
  BY <1>10 DEF Call, Record, Start, StartUpdateDue
<1>11. ASSUME NEW o \in Ops, Step(o)
       PROVE  \/ UNCHANGED <<transactions, dues>>
              \/ Commit(o) \/ Update(o) \/ Delete(o) \/ UpdateDue(o) \/ DeleteDue(o) \/ Settle(o)
  BY <1>11 DEF Step, Insert, AnswerBalance, CheckUpdate, ReadStatus
<1>12. CASE AdvanceDay \/ (\E o \in Ops : Rollback(o)) \/ UNCHANGED vars
  BY <1>2, <1>12 DEF AdvanceDay, Rollback, vars
<1>13. QED
  BY <1>2, <1>5, <1>6, <1>7, <1>8, <1>9, <1>10, <1>11, <1>12 DEF Next

LEMMA TablesAlwaysFinite == Spec => [](IInv /\ TablesAreFinite)
<1>1. Init => TablesAreFinite
  BY SeedAssumption DEF Init, TablesAreFinite
<1>2. QED
  BY <1>1, TablesStayFinite, InitEstablishes, NextPreserves, PTL DEF Spec

-----------------------------------------------------------------------------
(* Sums of the amounts of rows.                                            *)

Amounts(T) == [i \in DOMAIN T |-> T[i].amount]

\* The rows ids of table T can be added up.
Summable(T, ids) ==
  /\ ids \subseteq DOMAIN T /\ IsFiniteSet(ids)
  /\ \A i \in ids : T[i].amount \in Nat

LEMMA SummablePart ==
  ASSUME NEW T, NEW ids, Summable(T, ids), NEW part \in SUBSET ids
  PROVE  Summable(T, part)
<1>1. IsFiniteSet(part)
  BY FS_Subset DEF Summable
<1>2. QED
  BY <1>1 DEF Summable

(* Sum adds through a selector, Total through a function: their folds obey *)
(* the same equation.                                                      *)
LEMMA SumIsTotal ==
  ASSUME NEW T, NEW S, Summable(T, S)
  PROVE  Sum(T, S) = Total(Amounts(T), S)
<1> DEFINE Sums(g) == g = [s \in SUBSET S |->
                             IF s = {} THEN 0
                             ELSE LET x == CHOOSE x \in s : TRUE
                                  IN  T[x].amount + g[s \ {x}]]
           g == CHOOSE g : Sums(g)
<1>1. \A i \in S : Amounts(T)[i] = T[i].amount /\ Amounts(T)[i] \in Int
  BY DEF Summable, Amounts
<1>2. ASSUME NEW h
      PROVE  Adds(h, Amounts(T), S) <=> Sums(h)
  <2>1. \A s \in SUBSET S : s # {} =>
          LET x == CHOOSE x \in s : TRUE
          IN  Amounts(T)[x] + h[s \ {x}] = T[x].amount + h[s \ {x}]
    <3>1. SUFFICES ASSUME NEW s \in SUBSET S, s # {}
                   PROVE  LET x == CHOOSE x \in s : TRUE
                          IN  Amounts(T)[x] + h[s \ {x}] = T[x].amount + h[s \ {x}]
      OBVIOUS
    <3> DEFINE x == CHOOSE x \in s : TRUE
    <3>2. x \in S
      BY <3>1
    <3>3. Amounts(T)[x] = T[x].amount
      BY <1>1, <3>2
    <3>4. QED
      BY <3>3
  <2>2. [s \in SUBSET S |->
           IF s = {} THEN 0
           ELSE LET x == CHOOSE x \in s : TRUE IN Amounts(T)[x] + h[s \ {x}]]
        = [s \in SUBSET S |->
             IF s = {} THEN 0
             ELSE LET x == CHOOSE x \in s : TRUE IN T[x].amount + h[s \ {x}]]
    BY <2>1
  <2>3. QED
    BY <2>2 DEF Adds
<1>3. Sum(T, S) = g[S]
  BY DEF Sum, MapThenSumSet, MapThenFoldSet
<1>4. PICK h : Adds(h, Amounts(T), S) /\ Total(Amounts(T), S) = h[S]
  <2>1. IsFiniteSet(S)
    BY DEF Summable
  <2>2. QED
    BY <1>1, <2>1, TotalIs
<1>5. Sums(g)
  <2>1. Sums(h)
    BY <1>2, <1>4
  <2> HIDE DEF Sums
  <2>2. QED
    BY <2>1
<1>6. Adds(g, Amounts(T), S)
  <2> HIDE DEF g, Sums
  <2>1. QED
    BY <1>2, <1>5
<1> HIDE DEF g, Sums
<1>7. g[S] = h[S]
  <2>1. IsFiniteSet(S) /\ S \in SUBSET S
    BY DEF Summable
  <2>2. QED
    BY <1>1, <1>4, <1>6, <2>1, AddsAgree
<1>8. QED
  BY <1>3, <1>4, <1>7

LEMMA SumEmpty ==
  ASSUME NEW T
  PROVE  Sum(T, {}) = 0
<1>1. Summable(T, {})
  BY FS_EmptySet DEF Summable
<1>2. QED
  BY <1>1, SumIsTotal, TotalEmpty

LEMMA SumType ==
  ASSUME NEW T, NEW ids, Summable(T, ids)
  PROVE  Sum(T, ids) \in Nat
<1>1. IsFiniteSet(ids) /\ \A i \in ids : Amounts(T)[i] \in Nat
  BY DEF Summable, Amounts
<1>2. Total(Amounts(T), ids) \in Nat
  BY <1>1, TotalNatural
<1>3. QED
  BY <1>2, SumIsTotal

LEMMA SumJoin ==
  ASSUME NEW T, NEW R, NEW S, Summable(T, R \cup S), R \cap S = {}
  PROVE  Sum(T, R \cup S) = Sum(T, R) + Sum(T, S)
<1>1. Summable(T, R) /\ Summable(T, S)
  BY SummablePart
<1>2. /\ Sum(T, R) = Total(Amounts(T), R) /\ Sum(T, S) = Total(Amounts(T), S)
      /\ Sum(T, R \cup S) = Total(Amounts(T), R \cup S)
  BY <1>1, SumIsTotal
<1>3. /\ IsFiniteSet(R) /\ IsFiniteSet(S)
      /\ \A i \in R \cup S : Amounts(T)[i] \in Int
  BY <1>1 DEF Summable, Amounts
<1>4. Total(Amounts(T), R \cup S) = Total(Amounts(T), R) + Total(Amounts(T), S)
  BY <1>3, TotalJoin
<1>5. QED
  BY <1>2, <1>4

LEMMA SumOne ==
  ASSUME NEW T, NEW ids, Summable(T, ids), NEW i \in ids
  PROVE  Sum(T, ids) = Sum(T, ids \ {i}) + T[i].amount
<1>1. Summable(T, ids \ {i})
  BY SummablePart
<1>2. /\ Sum(T, ids) = Total(Amounts(T), ids)
      /\ Sum(T, ids \ {i}) = Total(Amounts(T), ids \ {i})
  BY <1>1, SumIsTotal
<1>3. /\ IsFiniteSet(ids) /\ \A j \in ids : Amounts(T)[j] \in Int
      /\ Amounts(T)[i] = T[i].amount
  BY DEF Summable, Amounts
<1>4. Total(Amounts(T), ids) = Total(Amounts(T), ids \ {i}) + Amounts(T)[i]
  BY <1>3, TotalRemove
<1>5. QED
  BY <1>2, <1>3, <1>4

\* Only the amounts of the rows matter, not the table they are in.
LEMMA SumSame ==
  ASSUME NEW T, NEW U, NEW ids, Summable(T, ids), ids \subseteq DOMAIN U,
         \A i \in ids : U[i].amount = T[i].amount
  PROVE  Sum(U, ids) = Sum(T, ids)
<1>1. Summable(U, ids)
  BY DEF Summable
<1>2. Sum(U, ids) = Total(Amounts(U), ids) /\ Sum(T, ids) = Total(Amounts(T), ids)
  BY <1>1, SumIsTotal
<1>3. /\ IsFiniteSet(ids)
      /\ \A i \in ids : Amounts(T)[i] \in Int /\ Amounts(U)[i] = Amounts(T)[i]
  BY DEF Summable, Amounts
<1>4. Total(Amounts(U), ids) = Total(Amounts(T), ids)
  BY <1>3, TotalSame
<1>5. QED
  BY <1>2, <1>4

(* The balance of the accounts is what they began with and what all the    *)
(* transactions moved.                                                     *)
Rows(T) ==
  IsFiniteSet(DOMAIN T) /\ \A i \in DOMAIN T : T[i].amount \in Nat /\ T[i].account \in Accounts

OfType(T, type) == {i \in DOMAIN T : T[i].type = type}

Beginning == MapThenSumSet(LAMBDA a : InitialBalance[a], Accounts)

LEMMA RowsAreSummable ==
  ASSUME NEW T, Rows(T), NEW ids \in SUBSET DOMAIN T
  PROVE  Summable(T, ids)
<1>1. Summable(T, DOMAIN T)
  BY DEF Rows, Summable
<1>2. QED
  BY <1>1, SummablePart

LEMMA MovementType ==
  ASSUME NEW T, Rows(T), NEW ids \in SUBSET DOMAIN T, NEW type
  PROVE  Movement(T, type, ids) \in Nat
BY RowsAreSummable, SumType DEF Movement

LEMMA NetJoin ==
  ASSUME NEW T, Rows(T), NEW R \in SUBSET DOMAIN T, NEW S \in SUBSET DOMAIN T, R \cap S = {}
  PROVE  Net(T, R \cup S) = Net(T, R) + Net(T, S)
<1>1. ASSUME NEW type
      PROVE  Movement(T, type, R \cup S) = Movement(T, type, R) + Movement(T, type, S)
  <2> DEFINE P == {i \in R : T[i].type = type}
             Q == {i \in S : T[i].type = type}
  <2>1. {i \in R \cup S : T[i].type = type} = P \cup Q /\ P \cap Q = {}
    OBVIOUS
  <2>2. Summable(T, P \cup Q)
    BY RowsAreSummable
  <2> HIDE DEF P, Q
  <2>3. Sum(T, P \cup Q) = Sum(T, P) + Sum(T, Q)
    BY <2>1, <2>2, SumJoin
  <2>4. QED
    BY <2>1, <2>3 DEF Movement, P, Q
<1>2. \A type : Movement(T, type, R) \in Nat /\ Movement(T, type, S) \in Nat
  BY MovementType
<1>3. QED
  BY <1>1, <1>2 DEF Net

LEMMA NetType ==
  ASSUME NEW T, Rows(T), NEW ids \in SUBSET DOMAIN T
  PROVE  Net(T, ids) \in Int
BY MovementType DEF Net

LEMMA BeginningIs ==
  Beginning = Total(InitialBalance, Accounts) /\ Beginning \in Int
<1>1. Beginning = Total(InitialBalance, Accounts)
  BY DEF Beginning, Total
<1>2. IsFiniteSet(Accounts) /\ \A a \in Accounts : InitialBalance[a] \in Int
  BY BusinessAssumption
<1>3. QED
  BY <1>1, <1>2, TotalType

Balances(T) == [a \in Accounts |-> AccountBalance(T, a)]

LEMMA CurrentBalanceIsTotal ==
  ASSUME NEW T, \A a \in Accounts : AccountBalance(T, a) \in Int
  PROVE  CurrentBalance(T) = Total(Balances(T), Accounts)
<1> DEFINE Sums(g) == g = [s \in SUBSET Accounts |->
                             IF s = {} THEN 0
                             ELSE LET x == CHOOSE x \in s : TRUE
                                  IN  AccountBalance(T, x) + g[s \ {x}]]
           g == CHOOSE g : Sums(g)
<1>1. \A a \in Accounts : Balances(T)[a] = AccountBalance(T, a) /\ Balances(T)[a] \in Int
  BY DEF Balances
<1>2. ASSUME NEW h
      PROVE  Adds(h, Balances(T), Accounts) <=> Sums(h)
  <2>1. \A s \in SUBSET Accounts : s # {} =>
          LET x == CHOOSE x \in s : TRUE
          IN  Balances(T)[x] + h[s \ {x}] = AccountBalance(T, x) + h[s \ {x}]
    <3>1. SUFFICES ASSUME NEW s \in SUBSET Accounts, s # {}
                   PROVE  LET x == CHOOSE x \in s : TRUE
                          IN  Balances(T)[x] + h[s \ {x}] = AccountBalance(T, x) + h[s \ {x}]
      OBVIOUS
    <3> DEFINE x == CHOOSE x \in s : TRUE
    <3>2. x \in Accounts
      BY <3>1
    <3>3. Balances(T)[x] = AccountBalance(T, x)
      BY <1>1, <3>2
    <3>4. QED
      BY <3>3
  <2>2. [s \in SUBSET Accounts |->
           IF s = {} THEN 0
           ELSE LET x == CHOOSE x \in s : TRUE IN Balances(T)[x] + h[s \ {x}]]
        = [s \in SUBSET Accounts |->
             IF s = {} THEN 0
             ELSE LET x == CHOOSE x \in s : TRUE IN AccountBalance(T, x) + h[s \ {x}]]
    BY <2>1
  <2>3. QED
    BY <2>2 DEF Adds
<1>3. CurrentBalance(T) = g[Accounts]
  BY DEF CurrentBalance, MapThenSumSet, MapThenFoldSet
<1>4. PICK h : /\ Adds(h, Balances(T), Accounts)
               /\ Total(Balances(T), Accounts) = h[Accounts]
  BY <1>1, BusinessAssumption, TotalIs
<1>5. Sums(g)
  <2>1. Sums(h)
    BY <1>2, <1>4
  <2> HIDE DEF Sums
  <2>2. QED
    BY <2>1
<1>6. Adds(g, Balances(T), Accounts)
  <2> HIDE DEF g, Sums
  <2>1. QED
    BY <1>2, <1>5
<1> HIDE DEF g, Sums
<1>7. g[Accounts] = h[Accounts]
  <2>1. Accounts \in SUBSET Accounts
    OBVIOUS
  <2>2. QED
    BY <1>1, <1>4, <1>6, <2>1, BusinessAssumption, AddsAgree
<1>8. QED
  BY <1>3, <1>4, <1>7

(* Every transaction is in one account, so its movements can be added up   *)
(* by accounts.                                                            *)
LEMMA MovementsByAccount ==
  ASSUME NEW T, Rows(T), NEW type
  PROVE  LET In == [a \in Accounts |->
                      Movement(T, type, {i \in DOMAIN T : T[i].account = a})]
         IN  /\ \A a \in Accounts : In[a] \in Nat
             /\ Total(In, Accounts) = Movement(T, type, DOMAIN T)
<1> DEFINE S == OfType(T, type)
           k == [i \in S |-> T[i].account]
           w == Amounts(T)
           In == [a \in Accounts |-> Movement(T, type, {i \in DOMAIN T : T[i].account = a})]
           By == [a \in Accounts |-> Total(w, {i \in S : k[i] = a})]
<1>1. \A a \in Accounts : In[a] \in Nat
  BY MovementType
<1>2. S \in SUBSET DOMAIN T /\ Summable(T, S)
  BY RowsAreSummable DEF OfType
<1>3. ASSUME NEW a \in Accounts
      PROVE  In[a] = By[a]
  <2> DEFINE P == {i \in S : k[i] = a}
  <2>1. {i \in {j \in DOMAIN T : T[j].account = a} : T[i].type = type} = P
    BY DEF OfType
  <2>2. Summable(T, P)
    BY <1>2, SummablePart
  <2> HIDE DEF P
  <2>3. Sum(T, P) = Total(w, P)
    BY <2>2, SumIsTotal
  <2>4. In[a] = Sum(T, P)
    BY <2>1 DEF Movement
  <2>5. QED
    BY <2>3, <2>4 DEF P
<1>4. In = By
  BY <1>3
<1>5. \A i \in S : k[i] \in Accounts
  BY <1>2 DEF Rows
<1>6. IsFiniteSet(S) /\ \A i \in S : w[i] \in Int
  BY <1>2 DEF Summable, Amounts
<1>7. Total(By, Accounts) = Total(w, S)
  <2> HIDE DEF S, k, w
  <2>1. QED
    BY <1>5, <1>6, BusinessAssumption, TotalByKey
<1>8. Total(w, S) = Movement(T, type, DOMAIN T)
  BY <1>2, SumIsTotal DEF Movement, OfType
<1>9. QED
  BY <1>1, <1>4, <1>7, <1>8

LEMMA BalanceIsNet ==
  ASSUME NEW T, Rows(T)
  PROVE  CurrentBalance(T) = Beginning + Net(T, DOMAIN T) /\ CurrentBalance(T) \in Int
<1> DEFINE Of(a) == {i \in DOMAIN T : T[i].account = a}
           In == [a \in Accounts |-> Movement(T, "INCOME", Of(a))]
           Out == [a \in Accounts |-> Movement(T, "EXPENSE", Of(a))]
           Both == [a \in Accounts |-> InitialBalance[a] + In[a]]
           bal == Balances(T)
<1>1. /\ \A a \in Accounts : In[a] \in Nat
      /\ Total(In, Accounts) = Movement(T, "INCOME", DOMAIN T)
  BY MovementsByAccount
<1>2. /\ \A a \in Accounts : Out[a] \in Nat
      /\ Total(Out, Accounts) = Movement(T, "EXPENSE", DOMAIN T)
  BY MovementsByAccount
<1>3. \A a \in Accounts : InitialBalance[a] \in Int
  BY BusinessAssumption
<1>4. \A a \in Accounts : bal[a] = InitialBalance[a] + (In[a] - Out[a])
  BY DEF Balances, AccountBalance, Net
<1> HIDE DEF In, Out, bal
<1>5. \A a \in Accounts : /\ bal[a] \in Int /\ Both[a] \in Int
                          /\ Both[a] = InitialBalance[a] + In[a]
                          /\ Both[a] = bal[a] + Out[a]
  BY <1>1, <1>2, <1>3, <1>4
<1> HIDE DEF Both
<1>6. Total(Both, Accounts) = Total(InitialBalance, Accounts) + Total(In, Accounts)
  BY <1>1, <1>3, <1>5, BusinessAssumption, TotalOfSums
<1>7. Total(Both, Accounts) = Total(bal, Accounts) + Total(Out, Accounts)
  BY <1>2, <1>5, BusinessAssumption, TotalOfSums
<1>8. CurrentBalance(T) = Total(bal, Accounts) /\ Total(bal, Accounts) \in Int
  <2>1. \A a \in Accounts : AccountBalance(T, a) \in Int
    BY <1>5 DEF bal, Balances
  <2>2. CurrentBalance(T) = Total(bal, Accounts)
    BY <2>1, CurrentBalanceIsTotal DEF bal
  <2>3. QED
    BY <1>5, <2>2, BusinessAssumption, TotalType
<1>9. /\ Movement(T, "INCOME", DOMAIN T) \in Nat /\ Movement(T, "EXPENSE", DOMAIN T) \in Nat
      /\ Beginning = Total(InitialBalance, Accounts) /\ Beginning \in Int
  BY MovementType, BeginningIs
<1>10. QED
  BY <1>1, <1>2, <1>6, <1>7, <1>8, <1>9 DEF Net

(* The cash flow of the whole calendar is that of all transactions.        *)
LEMMA CashFlowHasNoGap ==
  ASSUME Rows(transactions), Table(transactions, Transactions)
  PROVE  CashFlowAddsUp
<1> DEFINE T == transactions
<1>1. ASSUME NEW i \in DOMAIN T
      PROVE  T[i].date \in Nat /\ 1 <= T[i].date /\ T[i].date <= LastDay
  BY DaysAre DEF Table, Transactions
<1>2. InRange(T, 1, LastDay) = DOMAIN T
  BY <1>1 DEF InRange
<1>3. ASSUME NEW d \in {row.date : row \in {T[i] : i \in DOMAIN T}}
      PROVE  CashFlow(T, 1, LastDay) = CashFlow(T, 1, d) + CashFlow(T, d + 1, LastDay)
  <2> DEFINE R == InRange(T, 1, d)
             S == InRange(T, d + 1, LastDay)
  <2>1. d \in Nat
    BY <1>1
  <2>2. R \in SUBSET DOMAIN T /\ S \in SUBSET DOMAIN T
    BY DEF InRange
  <2>3. R \cap S = {}
    <3>1. \A i \in DOMAIN T : ~(T[i].date <= d /\ d + 1 <= T[i].date)
      BY <1>1, <2>1
    <3>2. QED
      BY <3>1 DEF InRange
  <2>4. R \cup S = DOMAIN T
    <3>1. \A i \in DOMAIN T : T[i].date <= d \/ d + 1 <= T[i].date
      BY <1>1, <2>1
    <3>2. QED
      BY <1>1, <3>1 DEF InRange
  <2> HIDE DEF R, S
  <2>5. Net(T, R \cup S) = Net(T, R) + Net(T, S)
    BY <2>2, <2>3, NetJoin
  <2>6. QED
    BY <1>2, <2>4, <2>5 DEF CashFlow, R, S
<1>4. CashFlow(T, 1, LastDay) =
        CurrentBalance(T) - MapThenSumSet(LAMBDA a : InitialBalance[a], Accounts)
  <2>1. /\ CurrentBalance(T) = Beginning + Net(T, DOMAIN T) /\ Beginning \in Int
        /\ Net(T, DOMAIN T) \in Int
    BY BalanceIsNet, BeginningIs, NetType
  <2>2. CashFlow(T, 1, LastDay) = CurrentBalance(T) - Beginning
    BY <1>2, <2>1 DEF CashFlow
  <2>3. QED
    BY <2>2 DEF Beginning
<1>5. QED
  BY <1>3, <1>4 DEF CashFlowAddsUp

-----------------------------------------------------------------------------
(* What the projection adds and subtracts.                                 *)

Costs(S) == [e \in S |-> e.amount]

LEMMA ExpensesDueType ==
  ASSUME NEW t, NEW h
  PROVE  ExpensesDue(t, h) \in Int
<1> DEFINE S == {e \in ActiveExpenses : Within(FixedExpenseDueDate(e.dueDay, t), t, h)}
<1> DEFINE Sums(g) == g = [s \in SUBSET S |->
                             IF s = {} THEN 0
                             ELSE LET x == CHOOSE x \in s : TRUE IN x.amount + g[s \ {x}]]
           g == CHOOSE g : Sums(g)
<1>1. ExpensesDue(t, h) = g[S]
  BY DEF ExpensesDue, MapThenSumSet, MapThenFoldSet
<1>2. IsFiniteSet(S) /\ \A e \in S : e.amount \in Nat
  <2>1. S \in SUBSET FixedExpenses
    BY DEF ActiveExpenses
  <2>2. QED
    BY <2>1, BusinessAssumption, FS_Subset
<1> HIDE DEF S
<1>3. \A e \in S : Costs(S)[e] = e.amount /\ Costs(S)[e] \in Int
  BY <1>2 DEF Costs
<1>4. ASSUME NEW f
      PROVE  Adds(f, Costs(S), S) <=> Sums(f)
  <2>1. \A s \in SUBSET S : s # {} =>
          LET x == CHOOSE x \in s : TRUE
          IN  Costs(S)[x] + f[s \ {x}] = x.amount + f[s \ {x}]
    <3>1. SUFFICES ASSUME NEW s \in SUBSET S, s # {}
                   PROVE  LET x == CHOOSE x \in s : TRUE
                          IN  Costs(S)[x] + f[s \ {x}] = x.amount + f[s \ {x}]
      OBVIOUS
    <3> DEFINE x == CHOOSE x \in s : TRUE
    <3>2. x \in S
      BY <3>1
    <3>3. Costs(S)[x] = x.amount
      BY <1>3, <3>2
    <3>4. QED
      BY <3>3
  <2>2. [s \in SUBSET S |->
           IF s = {} THEN 0
           ELSE LET x == CHOOSE x \in s : TRUE IN Costs(S)[x] + f[s \ {x}]]
        = [s \in SUBSET S |->
             IF s = {} THEN 0
             ELSE LET x == CHOOSE x \in s : TRUE IN x.amount + f[s \ {x}]]
    BY <2>1
  <2>3. QED
    BY <2>2 DEF Adds
<1>5. PICK f : Adds(f, Costs(S), S)
  BY <1>2, <1>3, AddsExists
<1>6. Sums(g)
  <2>1. Sums(f)
    BY <1>4, <1>5
  <2> HIDE DEF Sums
  <2>2. QED
    BY <2>1
<1>7. Adds(g, Costs(S), S)
  <2> HIDE DEF g, Sums
  <2>1. QED
    BY <1>4, <1>6
<1> HIDE DEF g, Sums
<1>8. g[S] \in Int
  <2>1. S \in SUBSET S
    OBVIOUS
  <2>2. QED
    BY <1>2, <1>3, <1>7, <2>1, AddsType
<1>9. QED
  BY <1>1, <1>8

\* The dues of a kind that the projection counts.
Open(D, kind, t, h) ==
  {i \in DOMAIN D : D[i].kind = kind /\ ~D[i].settled /\ Within(D[i].date, t, h)}

DueRows(D) == IsFiniteSet(DOMAIN D) /\ \A i \in DOMAIN D : D[i] \in Dues

LEMMA DuesAreSummable ==
  ASSUME NEW D, DueRows(D), NEW ids \in SUBSET DOMAIN D
  PROVE  Summable(D, ids)
<1>1. Summable(D, DOMAIN D)
  BY DEF DueRows, Summable, Dues
<1>2. QED
  BY <1>1, SummablePart

LEMMA OpenDues ==
  ASSUME NEW D, DueRows(D), NEW t, NEW h
  PROVE  /\ DebtsDue(D, t, h) = Sum(D, Open(D, "DEBT", t, h))
         /\ Expected(D, "CONFIRMED", t, h) = Sum(D, Open(D, "CONFIRMED", t, h))
         /\ Expected(D, "UNCONFIRMED", t, h) = Sum(D, Open(D, "UNCONFIRMED", t, h))
         /\ \A kind : /\ Open(D, kind, t, h) \in SUBSET DOMAIN D
                      /\ Summable(D, Open(D, kind, t, h))
                      /\ Sum(D, Open(D, kind, t, h)) \in Nat
<1>1. {i \in PendingDebts(D, t + h) : Within(D[i].date, t, h)} = Open(D, "DEBT", t, h)
  BY DEF PendingDebts, Open, Within
<1>2. ASSUME NEW kind \in {"CONFIRMED", "UNCONFIRMED"}
      PROVE  {i \in PendingReceivables(D, t + h) : D[i].kind = kind /\ Within(D[i].date, t, h)}
               = Open(D, kind, t, h)
  BY DEF PendingReceivables, Open, Within
<1>3. ASSUME NEW kind
      PROVE  /\ Open(D, kind, t, h) \in SUBSET DOMAIN D
             /\ Summable(D, Open(D, kind, t, h))
             /\ Sum(D, Open(D, kind, t, h)) \in Nat
  <2>1. Open(D, kind, t, h) \in SUBSET DOMAIN D
    BY DEF Open
  <2>2. QED
    BY <2>1, DuesAreSummable, SumType
<1>4. QED
  BY <1>1, <1>2, <1>3 DEF DebtsDue, Expected

LEMMA SafeBalanceIs ==
  ASSUME NEW T, Rows(T), NEW D, DueRows(D), NEW t, NEW h
  PROVE  /\ SafeBalance(T, D, t, h) = CurrentBalance(T) + Expected(D, "CONFIRMED", t, h)
                                        - ExpensesDue(t, h) - DebtsDue(D, t, h)
         /\ CurrentBalance(T) \in Int /\ ExpensesDue(t, h) \in Int
         /\ DebtsDue(D, t, h) \in Nat
         /\ Expected(D, "CONFIRMED", t, h) \in Nat /\ Expected(D, "UNCONFIRMED", t, h) \in Nat
<1>1. CurrentBalance(T) \in Int /\ ExpensesDue(t, h) \in Int
  BY BalanceIsNet, ExpensesDueType
<1>2. /\ DebtsDue(D, t, h) \in Nat /\ Expected(D, "CONFIRMED", t, h) \in Nat
      /\ Expected(D, "UNCONFIRMED", t, h) \in Nat
  BY OpenDues
<1>3. QED
  BY <1>1, <1>2 DEF SafeBalance

-----------------------------------------------------------------------------
(* The ledger after one more transaction.                                  *)

LEMMA OneMoreTransaction ==
  ASSUME Rows(transactions), <<Seed, 0>> \notin DOMAIN transactions,
         NEW type \in Types, NEW amount \in Nat
  PROVE  /\ Rows(AfterRecording(type, amount))
         /\ CurrentBalance(AfterRecording(type, amount)) =
              IF type = "INCOME" THEN CurrentBalance(transactions) + amount
              ELSE CurrentBalance(transactions) - amount
<1> DEFINE T == transactions
           n == <<Seed, 0>>
           row == [type |-> type, account |-> CHOOSE a \in Accounts : TRUE,
                   amount |-> amount, date |-> today]
           A == AfterRecording(type, amount)
<1>1. /\ DOMAIN A = DOMAIN T \cup {n} /\ A[n] = row
      /\ \A i \in DOMAIN T : A[i] = T[i]
  BY DEF AfterRecording, Extended
<1>2. row.type = type /\ row.amount = amount /\ row.account \in Accounts
  BY BusinessAssumption
<1> HIDE DEF A, row, n
<1>3. Rows(A)
  <2>1. IsFiniteSet(DOMAIN A)
    BY <1>1, FS_AddElement DEF Rows
  <2>2. QED
    BY <1>1, <1>2, <2>1 DEF Rows
<1>4. ASSUME NEW kind
      PROVE  Movement(A, kind, DOMAIN A) =
               IF kind = type THEN Movement(T, kind, DOMAIN T) + amount
               ELSE Movement(T, kind, DOMAIN T)
  <2> DEFINE P == {i \in DOMAIN T : T[i].type = kind}
             Q == {i \in DOMAIN A : A[i].type = kind}
  <2>1. Movement(A, kind, DOMAIN A) = Sum(A, Q) /\ Movement(T, kind, DOMAIN T) = Sum(T, P)
    BY DEF Movement
  <2>2. Q = IF kind = type THEN P \cup {n} ELSE P
    BY <1>1, <1>2
  <2>3. n \notin P /\ P \in SUBSET DOMAIN T /\ P \in SUBSET DOMAIN A
    BY <1>1 DEF n
  <2>4. Summable(T, P) /\ Summable(A, Q) /\ \A i \in P : A[i].amount = T[i].amount
    <3>1. Q \in SUBSET DOMAIN A
      OBVIOUS
    <3> HIDE DEF Q, P
    <3>2. QED
      BY <1>1, <1>3, <2>3, <3>1, RowsAreSummable
  <2> HIDE DEF P, Q
  <2>5. Sum(A, P) = Sum(T, P)
    BY <2>3, <2>4, SumSame
  <2>6. CASE kind = type
    <3>1. n \in Q /\ Q \ {n} = P
      BY <2>2, <2>3, <2>6
    <3>2. Sum(A, Q) = Sum(A, Q \ {n}) + A[n].amount
      BY <2>4, <3>1, SumOne
    <3>3. QED
      BY <1>1, <1>2, <2>1, <2>5, <2>6, <3>1, <3>2
  <2>7. CASE kind # type
    BY <2>1, <2>2, <2>5, <2>7
  <2>8. QED
    BY <2>6, <2>7
<1>5. /\ CurrentBalance(A) = Beginning + Net(A, DOMAIN A)
      /\ CurrentBalance(T) = Beginning + Net(T, DOMAIN T)
      /\ Beginning \in Int
  BY <1>3, BalanceIsNet, BeginningIs
<1>6. \A kind : /\ Movement(T, kind, DOMAIN T) \in Nat
                /\ Movement(A, kind, DOMAIN A) \in Nat
  BY <1>3, MovementType
<1>7. CurrentBalance(A) = IF type = "INCOME" THEN CurrentBalance(T) + amount
                          ELSE CurrentBalance(T) - amount
  <2>1. CASE type = "INCOME"
    <3>1. /\ Movement(A, "INCOME", DOMAIN A) = Movement(T, "INCOME", DOMAIN T) + amount
          /\ Movement(A, "EXPENSE", DOMAIN A) = Movement(T, "EXPENSE", DOMAIN T)
      BY <1>4, <2>1
    <3>2. QED
      BY <1>5, <1>6, <2>1, <3>1 DEF Net
  <2>2. CASE type = "EXPENSE"
    <3>1. /\ Movement(A, "EXPENSE", DOMAIN A) = Movement(T, "EXPENSE", DOMAIN T) + amount
          /\ Movement(A, "INCOME", DOMAIN A) = Movement(T, "INCOME", DOMAIN T)
      BY <1>4, <2>2
    <3>2. QED
      BY <1>5, <1>6, <2>2, <3>1 DEF Net
  <2>3. QED
    BY <2>1, <2>2 DEF Types
<1>8. QED
  BY <1>3, <1>7 DEF A

(* Confirming every receivable moves what was potential into the safe      *)
(* projection.                                                             *)
LEMMA ConfirmingAll ==
  ASSUME DueRows(dues), NEW t, NEW h
  PROVE  /\ DueRows(AllConfirmed)
         /\ DebtsDue(AllConfirmed, t, h) = DebtsDue(dues, t, h)
         /\ Expected(AllConfirmed, "CONFIRMED", t, h) =
              Expected(dues, "CONFIRMED", t, h) + Expected(dues, "UNCONFIRMED", t, h)
<1> DEFINE D == dues
           E == AllConfirmed
           P == Open(D, "CONFIRMED", t, h)
           Q == Open(D, "UNCONFIRMED", t, h)
           R == Open(D, "DEBT", t, h)
<1>1. DOMAIN E = DOMAIN D
  BY DEF AllConfirmed
<1>2. ASSUME NEW i \in DOMAIN D
      PROVE  /\ E[i] \in Dues
             /\ E[i].kind = IF D[i].kind = "UNCONFIRMED" THEN "CONFIRMED" ELSE D[i].kind
             /\ E[i].amount = D[i].amount /\ E[i].date = D[i].date
             /\ E[i].settled = D[i].settled
  <2>1. D[i] \in Dues
    BY DEF DueRows
  <2>2. E[i] = IF D[i].kind = "UNCONFIRMED" THEN [D[i] EXCEPT !.kind = "CONFIRMED"] ELSE D[i]
    BY DEF AllConfirmed
  <2>3. QED
    BY <2>1, <2>2 DEF Dues, ReceivableKinds
<1> HIDE DEF E
<1>3. DueRows(E)
  BY <1>1, <1>2 DEF DueRows
<1>4. Open(E, "CONFIRMED", t, h) = P \cup Q
  BY <1>1, <1>2 DEF Open
<1>5. Open(E, "DEBT", t, h) = R
  BY <1>1, <1>2 DEF Open
<1>6. P \cap Q = {} /\ P \cup Q \in SUBSET DOMAIN D /\ R \in SUBSET DOMAIN D
  BY DEF Open
<1> HIDE DEF P, Q, R
<1>7. Summable(D, P \cup Q) /\ Summable(D, R)
  BY <1>6, DuesAreSummable
<1>8. Sum(E, P \cup Q) = Sum(D, P \cup Q)
  BY <1>1, <1>2, <1>6, <1>7, SumSame
<1>9. Sum(E, R) = Sum(D, R)
  BY <1>1, <1>2, <1>6, <1>7, SumSame
<1>10. Sum(D, P \cup Q) = Sum(D, P) + Sum(D, Q)
  BY <1>6, <1>7, SumJoin
<1>11. /\ DebtsDue(E, t, h) = Sum(E, R) /\ DebtsDue(D, t, h) = Sum(D, R)
       /\ Expected(E, "CONFIRMED", t, h) = Sum(E, P \cup Q)
       /\ Expected(D, "CONFIRMED", t, h) = Sum(D, P)
       /\ Expected(D, "UNCONFIRMED", t, h) = Sum(D, Q)
  BY <1>3, <1>4, <1>5, OpenDues DEF P, Q, R
<1>12. QED
  BY <1>3, <1>8, <1>9, <1>10, <1>11 DEF E

LEMMA PurchaseAnswersHold ==
  ASSUME Rows(transactions), <<Seed, 0>> \notin DOMAIN transactions, DueRows(dues)
  PROVE  PurchasesKeepTheMinimum
<1>1. SUFFICES ASSUME NEW h \in Horizons, NEW a \in Purchases
               PROVE
        LET status == PurchaseStatus(transactions, dues, today, h, a)
            after == AfterRecording("EXPENSE", a)
            keeps(D) == SafeBalance(after, D, today, h) >= MinimumSafetyBalance
        IN  /\ status = "VIABLE" <=> keeps(dues)
            /\ status = "VIABLE" <=> a <= MaximumSafePurchase(transactions, dues, today, h)
            /\ status = "NOT_VIABLE" <=> ~keeps(AllConfirmed)
  BY DEF PurchasesKeepTheMinimum
<1> DEFINE T == transactions
           A == AfterRecording("EXPENSE", a)
           safe == SafeBalance(T, dues, today, h)
           maybe == Expected(dues, "UNCONFIRMED", today, h)
<1>2. a \in Nat \ {0} /\ MinimumSafetyBalance \in Int
  BY InputAssumption, BusinessAssumption
<1>3. Rows(A) /\ CurrentBalance(A) = CurrentBalance(T) - a
  BY <1>2, OneMoreTransaction DEF Types
<1> HIDE DEF A
<1>4. /\ DueRows(AllConfirmed)
      /\ DebtsDue(AllConfirmed, today, h) = DebtsDue(dues, today, h)
      /\ Expected(AllConfirmed, "CONFIRMED", today, h) =
           Expected(dues, "CONFIRMED", today, h) + maybe
  BY ConfirmingAll
<1>5. /\ safe \in Int /\ maybe \in Nat
      /\ safe = CurrentBalance(T) + Expected(dues, "CONFIRMED", today, h)
                  - ExpensesDue(today, h) - DebtsDue(dues, today, h)
      /\ CurrentBalance(T) \in Int /\ ExpensesDue(today, h) \in Int
      /\ DebtsDue(dues, today, h) \in Int /\ Expected(dues, "CONFIRMED", today, h) \in Int
  BY SafeBalanceIs
<1>6. SafeBalance(A, dues, today, h) = safe - a
  <2>1. SafeBalance(A, dues, today, h) =
          CurrentBalance(A) + Expected(dues, "CONFIRMED", today, h)
            - ExpensesDue(today, h) - DebtsDue(dues, today, h)
    BY <1>3, SafeBalanceIs
  <2>2. QED
    BY <1>2, <1>3, <1>5, <2>1
<1>7. SafeBalance(A, AllConfirmed, today, h) = (safe + maybe) - a
  <2>1. SafeBalance(A, AllConfirmed, today, h) =
          CurrentBalance(A) + Expected(AllConfirmed, "CONFIRMED", today, h)
            - ExpensesDue(today, h) - DebtsDue(AllConfirmed, today, h)
    BY <1>3, <1>4, SafeBalanceIs
  <2>2. QED
    BY <1>2, <1>3, <1>4, <1>5, <2>1
<1>8. PotentialBalance(T, dues, today, h) = safe + maybe
  BY DEF PotentialBalance
<1>9. MaximumSafePurchase(T, dues, today, h) =
        IF safe - MinimumSafetyBalance < 0 THEN 0 ELSE safe - MinimumSafetyBalance
  BY DEF MaximumSafePurchase
<1>10. PurchaseStatus(T, dues, today, h, a) =
         IF safe - a >= MinimumSafetyBalance THEN "VIABLE"
         ELSE IF (safe + maybe) - a >= MinimumSafetyBalance THEN "VIABLE_WITH_RISK"
         ELSE "NOT_VIABLE"
  BY DEF PurchaseStatus, PotentialBalance
<1> HIDE DEF safe, maybe
<1>11. /\ safe - a >= MinimumSafetyBalance => (safe + maybe) - a >= MinimumSafetyBalance
       /\ safe - a >= MinimumSafetyBalance <=> a <= MaximumSafePurchase(T, dues, today, h)
  BY <1>2, <1>5, <1>9
<1>12. QED
  BY <1>6, <1>7, <1>10, <1>11 DEF A

(* A due that is settled leaves the projection by its amount.              *)
LEMMA SettledDueLeaves ==
  ASSUME DueRows(dues), NEW i \in DOMAIN dues, ~dues[i].settled, NEW t, NEW h,
         Within(dues[i].date, t, h), NEW kind
  PROVE  LET D == [dues EXCEPT ![i].settled = TRUE]
         IN  /\ DueRows(D)
             /\ Sum(dues, Open(dues, kind, t, h)) =
                  Sum(D, Open(D, kind, t, h))
                    + IF kind = dues[i].kind THEN dues[i].amount ELSE 0
             /\ Sum(D, Open(D, kind, t, h)) \in Nat
<1> DEFINE D == [dues EXCEPT ![i].settled = TRUE]
           P == Open(dues, kind, t, h)
           Q == Open(D, kind, t, h)
<1>1. /\ DOMAIN D = DOMAIN dues
      /\ D[i] = [dues[i] EXCEPT !.settled = TRUE]
      /\ \A j \in DOMAIN dues \ {i} : D[j] = dues[j]
  OBVIOUS
<1>2. dues[i] \in Dues
  BY DEF DueRows
<1>3. /\ D[i] \in Dues /\ D[i].settled /\ D[i].kind = dues[i].kind
      /\ D[i].amount = dues[i].amount
  BY <1>1, <1>2 DEF Dues
<1> HIDE DEF D
<1>4. DueRows(D)
  BY <1>1, <1>3 DEF DueRows
<1>5. Q = P \ {i}
  BY <1>1, <1>3 DEF Open
<1>6. i \in P <=> kind = dues[i].kind
  BY DEF Open
<1>7. P \in SUBSET DOMAIN dues /\ Q \in SUBSET DOMAIN D
  BY DEF Open
<1> HIDE DEF P, Q
<1>8. Summable(dues, P) /\ Summable(dues, Q) /\ Summable(D, Q)
  BY <1>1, <1>4, <1>7, DuesAreSummable
<1>9. Sum(D, Q) = Sum(dues, Q)
  <2>1. \A j \in Q : D[j].amount = dues[j].amount
    BY <1>1, <1>3, <1>7
  <2>2. QED
    BY <1>7, <1>8, <2>1, SumSame
<1>10. Sum(D, Q) \in Nat
  BY <1>8, SumType
<1>11. Sum(dues, P) = Sum(D, Q) + IF kind = dues[i].kind THEN dues[i].amount ELSE 0
  <2>1. CASE i \in P
    <3>1. Sum(dues, P) = Sum(dues, P \ {i}) + dues[i].amount
      BY <1>8, <2>1, SumOne
    <3>2. QED
      BY <1>5, <1>6, <1>9, <2>1, <3>1
  <2>2. CASE i \notin P
    <3>1. P = Q
      BY <1>5, <2>2
    <3>2. QED
      BY <1>6, <1>9, <1>10, <2>2, <3>1
  <2>3. QED
    BY <2>1, <2>2
<1>12. QED
  BY <1>4, <1>10, <1>11 DEF D, P, Q

LEMMA SettlingLeavesTheProjection ==
  ASSUME Rows(transactions), <<Seed, 0>> \notin DOMAIN transactions, DueRows(dues)
  PROVE  SettlingIsNeutral
<1>1. SUFFICES ASSUME NEW h \in Horizons, NEW i \in DOMAIN dues, ~dues[i].settled,
                      dues[i].kind # "UNCONFIRMED", Within(dues[i].date, today, h)
               PROVE
        SafeBalance(AfterRecording(IF dues[i].kind = "DEBT" THEN "EXPENSE" ELSE "INCOME",
                                   dues[i].amount),
                    [dues EXCEPT ![i].settled = TRUE], today, h)
          = SafeBalance(transactions, dues, today, h)
  BY DEF SettlingIsNeutral
<1> DEFINE T == transactions
           D == [dues EXCEPT ![i].settled = TRUE]
           type == IF dues[i].kind = "DEBT" THEN "EXPENSE" ELSE "INCOME"
           amount == dues[i].amount
           A == AfterRecording(type, amount)
<1>2. /\ amount \in Nat /\ dues[i].kind \in {"DEBT", "CONFIRMED"}
      /\ type \in Types /\ (type = "INCOME" <=> dues[i].kind = "CONFIRMED")
  BY <1>1 DEF DueRows, Dues, ReceivableKinds, Types
<1> HIDE DEF type, amount
<1>3. /\ Rows(A)
      /\ CurrentBalance(A) = IF type = "INCOME" THEN CurrentBalance(T) + amount
                             ELSE CurrentBalance(T) - amount
  BY <1>2, OneMoreTransaction
<1> HIDE DEF A
<1>4. \A kind :
        /\ DueRows(D)
        /\ Sum(dues, Open(dues, kind, today, h)) =
             Sum(D, Open(D, kind, today, h)) + IF kind = dues[i].kind THEN amount ELSE 0
        /\ Sum(D, Open(D, kind, today, h)) \in Nat
  BY <1>1, SettledDueLeaves DEF amount
<1> HIDE DEF D
<1>5. DueRows(D)
  BY <1>4
<1>6. /\ DebtsDue(dues, today, h) = Sum(dues, Open(dues, "DEBT", today, h))
      /\ Expected(dues, "CONFIRMED", today, h) = Sum(dues, Open(dues, "CONFIRMED", today, h))
      /\ DebtsDue(D, today, h) = Sum(D, Open(D, "DEBT", today, h))
      /\ Expected(D, "CONFIRMED", today, h) = Sum(D, Open(D, "CONFIRMED", today, h))
  BY <1>5, OpenDues
<1>7. /\ DebtsDue(dues, today, h) =
           DebtsDue(D, today, h) + IF "DEBT" = dues[i].kind THEN amount ELSE 0
      /\ Expected(dues, "CONFIRMED", today, h) =
           Expected(D, "CONFIRMED", today, h)
             + IF "CONFIRMED" = dues[i].kind THEN amount ELSE 0
      /\ DebtsDue(D, today, h) \in Nat /\ Expected(D, "CONFIRMED", today, h) \in Nat
  BY <1>4, <1>6
<1>8. /\ SafeBalance(A, D, today, h) =
           CurrentBalance(A) + Expected(D, "CONFIRMED", today, h)
             - ExpensesDue(today, h) - DebtsDue(D, today, h)
      /\ SafeBalance(T, dues, today, h) =
           CurrentBalance(T) + Expected(dues, "CONFIRMED", today, h)
             - ExpensesDue(today, h) - DebtsDue(dues, today, h)
      /\ CurrentBalance(T) \in Int /\ ExpensesDue(today, h) \in Int
  BY <1>3, <1>5, SafeBalanceIs
<1>9. SafeBalance(A, D, today, h) = SafeBalance(T, dues, today, h)
  <2>1. CASE dues[i].kind = "DEBT"
    <3>1. CurrentBalance(A) = CurrentBalance(T) - amount
      BY <1>2, <1>3, <2>1
    <3>2. /\ DebtsDue(dues, today, h) = DebtsDue(D, today, h) + amount
          /\ Expected(dues, "CONFIRMED", today, h) = Expected(D, "CONFIRMED", today, h)
      BY <1>7, <2>1
    <3>3. QED
      BY <1>2, <1>7, <1>8, <3>1, <3>2
  <2>2. CASE dues[i].kind = "CONFIRMED"
    <3>1. CurrentBalance(A) = CurrentBalance(T) + amount
      BY <1>2, <1>3, <2>2
    <3>2. /\ DebtsDue(dues, today, h) = DebtsDue(D, today, h)
          /\ Expected(dues, "CONFIRMED", today, h) = Expected(D, "CONFIRMED", today, h) + amount
      BY <1>7, <2>2
    <3>3. QED
      BY <1>2, <1>7, <1>8, <3>1, <3>2
  <2>3. QED
    BY <1>2, <2>1, <2>2
<1>10. QED
  BY <1>9 DEF A, D, type, amount

-----------------------------------------------------------------------------
(* The theorems about the calculations.                                    *)

LEMMA WhatTheReportsRead ==
  ASSUME IInv, TablesAreFinite
  PROVE  /\ Rows(transactions) /\ Table(transactions, Transactions) /\ DueRows(dues)
         /\ <<Seed, 0>> \notin DOMAIN transactions /\ today \in 1 .. MaxDay
<1>1. TypeOK /\ today \in 1 .. MaxDay
  BY DEF IInv
<1>2. Table(transactions, Transactions) /\ Table(dues, Dues)
  BY <1>1 DEF TypeOK
<1>3. Rows(transactions) /\ DueRows(dues)
  BY <1>2 DEF TablesAreFinite, Rows, DueRows, Table, Transactions
<1>4. <<Seed, 0>> \notin DOMAIN transactions
  BY <1>2 DEF Table, Ids
<1>5. QED
  BY <1>1, <1>2, <1>3, <1>4

(* Cash flow reports of adjoining ranges add up, and all of them to what   *)
(* the balance moved.                                                      *)
THEOREM CashFlowAlwaysAddsUp == Spec => []CashFlowAddsUp
<1>1. IInv /\ TablesAreFinite => CashFlowAddsUp
  BY WhatTheReportsRead, CashFlowHasNoGap
<1>2. QED
  BY <1>1, TablesAlwaysFinite, PTL

(* What the viability of a purchase and the projection promised is what    *)
(* recording the purchase, or settling a due, gives.                       *)
THEOREM ProjectionsAlwaysComeTrue == Spec => []ProjectionsComeTrue
<1>1. IInv /\ TablesAreFinite => ProjectionsComeTrue
  BY WhatTheReportsRead, PurchaseAnswersHold, SettlingLeavesTheProjection
     DEF ProjectionsComeTrue
<1>2. QED
  BY <1>1, TablesAlwaysFinite, PTL

(* The projection counts a fixed expense exactly when it falls due within  *)
(* the horizon, in any calendar and on any day.                            *)
THEOREM DueDatesAreAlwaysSeen == Spec => []DueDatesAreSeen
<1>1. IInv => DueDatesAreSeen
  BY ExpensesAreSeen DEF IInv
<1>2. QED
  BY <1>1, Invariance, PTL
=============================================================================
