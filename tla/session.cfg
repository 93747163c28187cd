SPECIFICATION Spec
CONSTANTS
  Budget <- SessionKeys
  Patient = TRUE
  DutyStep = 15
  PwmRange = 100
  TurnDuty = 40
  TraceDuty = 50
INVARIANTS
  TypeOK
  StopHonoured
  WheelsAgree
  ReportsAllowed
  StopEndsRecording
  ReportsAtRest
PROPERTIES
  ImplementsWheels
