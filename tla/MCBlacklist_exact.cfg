CONSTANTS
  Ips = {a, b}
  Positions = {p1}
  NoPos = NoPos
  NoIp = NoIp
  Lcores = {l1}
  Control = Control
  Durations = {1, 3}
  MaxTime = 4
SYMMETRY Symmetry
SPECIFICATION Spec
INVARIANTS BlockedIsDue PassedIsFree DueIsKept
