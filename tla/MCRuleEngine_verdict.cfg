CONSTANTS
  p = p
  q = q
  Packets = {p, q}
  ZeroSel <- MCZeroSel
  PrioMax = 3
  IdMod = 8
  Lcores = {l1}
  MaxRules = 2
  AclPrioMax = 2
  IdLimit = 2
  NewRules <- MCNewRules
  Configs <- MCConfigs
  DelIds = {2}
  Handles = {h1, h2}
  NoCtx = NoCtx
SYMMETRY Symmetry
SPECIFICATION Spec
INVARIANTS TypeOK CtxAlive NoLeak CleanVerdict AckedArmed
PROPERTIES AddIsFresh ImplementsFirewallPolicy
