SPECIFICATION Spec
CONSTANTS
  Item = {p, q}
  ItemSize = 2
  NULL = NULL
  Junk = Junk
  MaxSize = 5
  Requests <- MCRequests
  Counts <- MCCounts
SYMMETRY MCSymmetry
VIEW MCView
INVARIANTS TypeOK
PROPERTIES GrowthDoubles SequenceSpec
