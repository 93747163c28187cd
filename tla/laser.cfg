SPECIFICATION FairSpec
CONSTANTS
  Budget <- LaserKeys
  MaxPictures = 1
INVARIANTS
  ScansLiveMemory
  StopHonoured
PROPERTIES
  StopTakesEffect
  QuitProgress
