\* A host without disks; its builder is used and set up by another operator; one failure.
SPECIFICATION Spec
CONSTANTS
  None = None   Bad = Bad   DefaultHead = DefaultHead
  v1 = v1   v2 = v2   r1 = r1   r2 = r2   nvme = nvme   ram = ram
  Versions     = {v1}
  Refs         = {r1}
  GeyserRepo   = TRUE
  Upgraders    = {"other"}
  Disks        <- NoDisks
  Tmpfs        = {ram}
  Host         <- BigEnough
  Voting       = FALSE
  GeyserLib    = TRUE
  Provisioners = {"op"}
  MaxFaults    = 1
INVARIANTS
  
  FreshBuildIsAsPinned
