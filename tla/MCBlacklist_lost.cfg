CONSTANTS
  Ips = {a}
  Positions = {p1}
  NoPos = NoPos
  NoIp = NoIp
  Lcores = {l1}
  Control = Control
  Durations = {2}
  MaxTime = 2
SYMMETRY Symmetry
SPECIFICATION Spec
INVARIANT BlockHolds
