SPECIFICATION Spec
CONSTANTS
  Budget <- EitherModeKeys
  MaxPictures = 2
INVARIANTS
  TypeOK
  StoppedAtExit
  DutyAfterTurns
PROPERTIES
  ImplementsSightings
  QuitProgress
