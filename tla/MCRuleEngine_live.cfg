CONSTANTS
  p = p
  q = q
  Packets = {q}
  ZeroSel <- MCZeroSel
  PrioMax = 3
  IdMod = 4
  Lcores = {l1, l2}
  MaxRules = 1
  AclPrioMax = 2
  IdLimit = 0
  NewRules <- MCLiveRules
  Configs <- MCLiveConfigs
  DelIds = {1}
  Handles = {h1, h2}
  NoCtx = NoCtx
SPECIFICATION FairSpec
PROPERTIES OpCompletes CallReturns
