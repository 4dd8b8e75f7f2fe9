CONSTANTS
  Files <- MCFiles
  NoFile = NoFile
  Absent = Absent
  Bad = Bad
  Rates <- MCRates
  NoRate = NoRate
  MaxRules = 2
  IdLimit = 4
  Lcores = {l1, l2}
  Length = 1
  TimeMod = 16
  MaxTime = 1
  MaxOps = 2
  MaxPackets = 4
SYMMETRY Symmetry
SPECIFICATION Spec
CHECK_DEADLOCK FALSE
INVARIANTS TypeOK InForceIsTheFile IdsAreUsable RateConforms NoForeignMeter FileIsMetered
PROPERTIES DropIsDue
