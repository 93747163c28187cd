SPECIFICATION FairSpec
CONSTANTS
  Budget <- TraceOnceKeys
  Patient = FALSE
  DutyStep = 15
  PwmRange = 100
  TurnDuty = 40
  TraceDuty = 50
INVARIANTS
  StoppedAtExit
  SteeringUndone
PROPERTIES
  StopTakesEffect
  QuitEnds
