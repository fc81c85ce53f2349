\* A single healthy watch loop against the rule of watch.py:8.
SPECIFICATION Spec
CONSTANTS
  None = None
  a = a   b = b   v = v
  ipA = ipA   ipB = ipB   ipV = ipV   ipX = ipX
  main = main   aux = aux
  Driver       = "cloudflare"
  Watchers     = {"watch"}
  DryRuns      = {FALSE}
  Callers      = {}
  Crashes      = FALSE
  OutsideEdits = FALSE
  Conditions   <- OkOrBehind
  References   = {"up"}
  Pools        = {main}
  Nodes        = {a, b}
  Foreign      = {}
  Members      <- OnePool
  Host         <- HostOf
  EjectWhen    <- LagRule
  HasRpc       = {a, b}
  Identified   = {}
INVARIANTS
  NeverEmpty
