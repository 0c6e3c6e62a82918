CONSTANTS
  Ids = {a, b}
  NoId = none
  Defs = {d1, d2}
  Payloads = {1}
  ShortSizes = {1}
  MaxVertices = 2
  MaxRecords = 3
  Modes = {hd, sd}
  RegionPages = 5
  BlockPages = 3
  PageUnits = 2
SYMMETRY Symmetry
SPECIFICATION Spec
INVARIANTS ErasedFirst MagicLast OpenIsStored
PROPERTY AllOrNothing
