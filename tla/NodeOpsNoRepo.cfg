\* A cluster without geyser_repo, a node with a geyser_lib, nothing fails.
SPECIFICATION Spec
CONSTANTS
  None = None   Bad = Bad
  rpc = rpc   val = val   old = old   new = new
  Nodes       = {rpc}
  GeyserNodes = {rpc}
  GeyserRepo  = FALSE
  Versions    = {old, new}
  OldVersion  = old
  Allowed     = {new}
  StartsWith  <- NoPrefix
  Operators   = {"op"}
  Kinds       = {"restart", "upgrade"}
  MaxFaults   = 0
INVARIANTS
  NoMixedLaunch
