SPECIFICATION Spec
CONSTANTS
  Item = {p, q}
  ItemSize = 2
  NULL = NULL
  Junk = Junk
  MaxSize = 5
  Requests <- MCRequests
  Counts <- MCCounts
INVARIANTS RelocatesItems
