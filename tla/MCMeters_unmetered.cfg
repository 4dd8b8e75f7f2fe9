CONSTANTS
  Files <- MCFiles
  NoFile = NoFile
  Absent = Absent
  Bad = Bad
  Rates <- MCRates
  NoRate = NoRate
  MaxRules = 2
  IdLimit = 4
  Lcores = {l1}
  Length = 1
  TimeMod = 16
  MaxTime = 0
  MaxOps = 2
  MaxPackets = 0
SPECIFICATION Spec
CHECK_DEADLOCK FALSE
INVARIANT IdsInMeterRange
