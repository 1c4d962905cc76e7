\* Three overlapping tool calls on the edge days; every day of 22 months.
SPECIFICATION MCSpec
CONSTANTS
  cash = cash
  bank = bank
  sales = sales
  rent = rent
  Seed = Seed
  Accounts = {cash, bank}
  Categories = {sales, rent}
  IncomeCategories = {sales}
  Ops = {o1, o2, o3}
  MonthLengths <- TwoYears
  InitialBalance <- Balances
  FixedExpenses <- Rent
  MinimumSafetyBalance = 1
  Horizons = {7, 30}
  MaxBatch = 2
  MaxDay = 669
  Batches <- SomeBatches
  Patches <- SomePatches
  SaleIncomes <- SomeSales
  NewDues <- SomeDues
  DuePatches <- SomeDuePatches
  SeededTransactions <- OldTransactions
  SeededDues <- OldDues
  Purchases = {1, 3}
SYMMETRY Symmetry
INVARIANTS
  TransactionsStayRight
  AcceptedMarksHold
  CashFlowAddsUp
  ProjectionsComeTrue
  DueDatesAreSeen
PROPERTIES
  BatchesAppearWhole
CHECK_DEADLOCK FALSE
