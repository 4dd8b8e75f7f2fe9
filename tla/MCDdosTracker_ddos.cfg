CONSTANTS
  Lcores = {l1, l2}
  Ips = {a, b}
  Kinds = {syn, udp}
  Other = other
  Nobody = nobody
  HashEntries = 1
  Threshold <- MCThreshold
  Window = 2
  BlockTime = 1
  TimeMod = 64
  MaxTime = 4
  MaxPackets = 4
SYMMETRY Symmetry
SPECIFICATION Spec
CHECK_DEADLOCK FALSE
INVARIANTS NoInnocent BlockIsEarned FloodIsBlocked
