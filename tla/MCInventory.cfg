\* Three overlapping repository calls over two products.
SPECIFICATION Spec
CONSTANTS
  None = None
  p1 = p1
  p2 = p2
  c1 = c1
  c2 = c2
  Products = {p1, p2}
  Ops = {o1, o2, o3}
  Prices = {c1, c2}
  Openings = {1, 2}
  SaleInputs <- OverlappingSales
  MovementInputs <- EntriesAndExits
SYMMETRY Symmetry
INVARIANTS
  StockIsLedger
  SalesAreAtomic
  WaitsAreResolved
  CallsCanEnd
PROPERTIES
  SalesNeverOversell
  CallsRunOut
