\* One process that runs passes and overrides in turn, two pools, Route53.
SPECIFICATION Spec
CONSTANTS
  None = None
  a = a   b = b   v = v
  ipA = ipA   ipB = ipB   ipV = ipV   ipX = ipX
  main = main   aux = aux
  Driver       = "route53"
  Watchers     = {"op"}
  DryRuns      = {FALSE, TRUE}
  Callers      = {"op"}
  Crashes      = FALSE
  OutsideEdits = FALSE
  Conditions   <- OkOrLagging
  References   = {"up"}
  Pools        = {main, aux}
  Nodes        = {a, b, v}
  Foreign      = {ipX}
  Members      <- TwoPools
  Host         <- HostOf
  EjectWhen    <- TwoRules
  HasRpc       = {a, b}
  Identified   = {v}
INVARIANTS
  TypeOK
  EmptyOnlyMidHandover
  AuditAccountsForZone
