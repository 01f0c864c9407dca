SPECIFICATION MCSpec
VIEW SameShape
CONSTANTS
  d1 = d1
  d2 = d2
  d3 = d3
  Data <- DataThree
  Zero = d1
  MaxLength = 3
  Dirty = FALSE
  NoKey = NoKey
  Keys <- KeysNine
  MaxNodes = 9
INVARIANTS
  RedBlack
PROPERTIES
  RefinesFifo
  RefinesKeySet
