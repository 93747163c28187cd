SPECIFICATION Spec
CONSTANTS
  Budget <- ManualKeys
  Patient = FALSE
  DutyStep = 15
  PwmRange = 100
  TurnDuty = 40
  TraceDuty = 50
INVARIANTS
  StopHonoured
