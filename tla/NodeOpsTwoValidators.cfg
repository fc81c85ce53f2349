\* Two operators restart two validators.
SPECIFICATION Spec
CONSTANTS
  None = None   Bad = Bad
  rpc = rpc   val = val   old = old   new = new
  Nodes       = {val, rpc}
  GeyserNodes = {}
  GeyserRepo  = FALSE
  Versions    = {old, new}
  OldVersion  = old
  Allowed     = {new}
  StartsWith  <- NoPrefix
  Operators   = {"op1", "op2"}
  Kinds       = {"restart"}
  MaxFaults   = 0
INVARIANTS
  OneValidatorAtATime
