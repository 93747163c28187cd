SPECIFICATION Spec
CONSTANTS
  ReadingsPerCell = 1
  TopRow = 2
  BottomRow = 18
  FirstRow = 17
  MaxDrift = 4
INVARIANTS
  ColumnOnMap
