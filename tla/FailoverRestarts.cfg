\* A watch loop that fails and is restarted, an operator, a reference RPC that
\* comes and goes, on Route53.
SPECIFICATION FairSpec
CONSTANTS
  None = None
  a = a   b = b   v = v
  ipA = ipA   ipB = ipB   ipV = ipV   ipX = ipX
  main = main   aux = aux
  Driver       = "route53"
  Watchers     = {"watch"}
  DryRuns      = {FALSE}
  Callers      = {"op"}
  Crashes      = TRUE
  OutsideEdits = FALSE
  Conditions   <- OkOrLagging
  References   = {"up", "down"}
  Pools        = {main}
  Nodes        = {a, b}
  Foreign      = {}
  Members      <- OnePool
  Host         <- HostOf
  EjectWhen    <- LagRule
  HasRpc       = {a, b}
  Identified   = {}
PROPERTIES
  Converges
