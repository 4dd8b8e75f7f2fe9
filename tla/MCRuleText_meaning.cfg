CONSTANTS
  Texts <- MCTexts
  Frames <- MCFrames
  Absent = Absent
  Bad = Bad
  Refused = Refused
  NoFrame = NoFrame
  Bits = 3
  PortMod = 4
  ByteMod = 4
SPECIFICATION Spec
CHECK_DEADLOCK FALSE
INVARIANTS TypeOK MatchAsWritten ParsersAgree ScanIsAcl ListedIsTheRule
