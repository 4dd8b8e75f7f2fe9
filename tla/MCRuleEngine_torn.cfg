CONSTANTS
  p = p
  q = q
  Packets = {p, q}
  ZeroSel = {}
  PrioMax = 3
  IdMod = 4
  Lcores = {l1}
  MaxRules = 2
  AclPrioMax = 2
  IdLimit = 0
  NewRules = {}
  Configs <- MCFixedConfigs
  DelIds = {1}
  Handles = {h1, h2}
  NoCtx = NoCtx
SPECIFICATION Spec
INVARIANT IdIsOfAMatch
