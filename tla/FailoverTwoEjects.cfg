\* Two operators eject at the same time.
SPECIFICATION Spec
CONSTANTS
  None = None
  a = a   b = b   v = v
  ipA = ipA   ipB = ipB   ipV = ipV   ipX = ipX
  main = main   aux = aux
  Driver       = "cloudflare"
  Watchers     = {}
  DryRuns      = {FALSE}
  Callers      = {"op1", "op2"}
  Crashes      = FALSE
  OutsideEdits = FALSE
  Conditions   <- OkOrLagging
  References   = {"up"}
  Pools        = {main}
  Nodes        = {a, b}
  Foreign      = {}
  Members      <- OnePool
  Host         <- HostOf
  EjectWhen    <- LagRule
  HasRpc       = {a, b}
  Identified   = {}
INVARIANTS
  NotLeftEmpty
