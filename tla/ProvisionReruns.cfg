\* An operator who provisions a voting node with a block device and a tmpfs again and again; up to two failures.
SPECIFICATION RetrySpec
CONSTANTS
  None = None   Bad = Bad   DefaultHead = DefaultHead
  v1 = v1   v2 = v2   r1 = r1   r2 = r2   nvme = nvme   ram = ram
  Versions     = {v1}
  Refs         = {r1}
  GeyserRepo   = TRUE
  Upgraders    = {}
  Disks        <- DisksUsed
  Tmpfs        = {ram}
  Host         <- BigEnough
  Voting       = TRUE
  GeyserLib    = TRUE
  Provisioners = {"op"}
  MaxFaults    = 2
INVARIANTS
  TypeOK
  
  NotStartedUnprepared
PROPERTIES
  DataLostOnlyBlind
  RerunsComplete
