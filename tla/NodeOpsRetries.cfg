\* Two operators upgrade a node, an RPC node or a validator, until it is done; one failure.
SPECIFICATION RetrySpec
CONSTANTS
  None = None   Bad = Bad
  rpc = rpc   val = val   old = old   new = new
  Nodes       = {rpc}
  GeyserNodes = {rpc}
  GeyserRepo  = TRUE
  Versions    = {old, new}
  OldVersion  = old
  Allowed     = {new}
  StartsWith  <- NoPrefix
  Operators   = {"op1", "op2"}
  Kinds       = {"restart", "upgrade"}
  MaxFaults   = 1
INVARIANTS
  TypeOK
  SuccessMeansTarget
  
PROPERTIES
  OnlyVerifiedInstalled
  ImplementsOwnedNodes
  
  RetriesRecover
