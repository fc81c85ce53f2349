\* One watch loop meets a pool that somebody else filled.
SPECIFICATION Spec
CONSTANTS
  None = None
  a = a   b = b   v = v
  ipA = ipA   ipB = ipB   ipV = ipV   ipX = ipX
  main = main   aux = aux
  Driver       = "cloudflare"
  Watchers     = {"watch"}
  DryRuns      = {FALSE}
  Callers      = {}
  Crashes      = FALSE
  OutsideEdits = FALSE
  Conditions   <- OkOrLagging
  References   = {"up"}
  Pools        = {main}
  Nodes        = {a, b}
  Foreign      = {ipX}
  Members      <- OnePool
  Host         <- HostOf
  EjectWhen    <- LagRule
  HasRpc       = {a, b}
  Identified   = {}
PROPERTIES
  NoClaimOfForeignRecords
