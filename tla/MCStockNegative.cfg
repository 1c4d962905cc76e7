\* Two exits of the last unit, each checked before the other one is written.
SPECIFICATION Spec
CONSTANTS
  None = None
  p1 = p1
  p2 = p2
  c1 = c1
  c2 = c2
  Products = {p1, p2}
  Ops = {o1, o2}
  Prices = {c1, c2}
  Openings = {1}
  SaleInputs <- OverlappingSales
  MovementInputs <- EntriesAndExits
SYMMETRY Symmetry
INVARIANT
  StockNeverNegative
