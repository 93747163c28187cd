SPECIFICATION Spec
CONSTANTS
  ReadingsPerCell = 2
  TopRow = 2
  BottomRow = 5
  FirstRow = 4
  MaxDrift = 1
INVARIANTS
  TypeOK
  WholeReading
  RowOnMap
