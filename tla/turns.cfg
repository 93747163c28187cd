SPECIFICATION FairSpec
CONSTANTS
  Budget <- TurnKeys
  Patient = FALSE
  DutyStep = 60
  PwmRange = 100
  TurnDuty = 40
  TraceDuty = 50
INVARIANTS
  TypeOK
  DutyFollows
PROPERTIES
  TurnEnds
  TurnProgress
  QuitProgress
