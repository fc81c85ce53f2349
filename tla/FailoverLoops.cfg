\* Two watch loops race on the same Cloudflare pool while others edit it.
SPECIFICATION FairSpec
CONSTANTS
  None = None
  a = a   b = b   v = v
  ipA = ipA   ipB = ipB   ipV = ipV   ipX = ipX
  main = main   aux = aux
  Driver       = "cloudflare"
  Watchers     = {"w1", "w2"}
  DryRuns      = {FALSE}
  Callers      = {}
  Crashes      = FALSE
  OutsideEdits = TRUE
  Conditions   <- OkOrSilent
  References   = {"up"}
  Pools        = {main}
  Nodes        = {a, b}
  Foreign      = {ipX}
  Members      <- OnePool
  Host         <- HostOf
  EjectWhen    <- LagRule
  HasRpc       = {a, b}
  Identified   = {}

  
PROPERTIES
  ImplementsOwnedRecords
  Converges
