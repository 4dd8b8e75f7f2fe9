CONSTANTS
  Lcores = {l1, l2}
  Mbufs = {m1, m2}
  Pool = Pool
  Nic = Nic
  MaxBurst = 2
  MaxRx = 3
SPECIFICATION FairSpec
INVARIANTS TypeOK OwnsPending InOrder Balanced QuietSnapshot
PROPERTY QuitStops
