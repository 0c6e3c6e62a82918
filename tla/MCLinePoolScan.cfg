CONSTANTS
  Size = 5
  Lines = 3
  MaxLen = 2
SPECIFICATION ScanSpec
INVARIANTS LinesDisjoint OldLineAtTail SpansOrDup CleanRead
PROPERTY RefusedOnlyWhenFull
