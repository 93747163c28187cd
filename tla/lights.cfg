SPECIFICATION FairSpec
CONSTANTS
  Light = {red, green}
  red = red
  green = green
  MaxLevel = 2
INVARIANTS
  TypeOK
PROPERTIES
  PauseTakesEffect
  DimsUpAndDown
  DimProgress
  QuitEnds
