SPECIFICATION FairSpec
CONSTANTS
  Replicas = {r1}
  Calls = {c1, c2}
  Request <- Restores
  Disks = {d1, d2, d3, d4}
  NoDisk = NoDisk
  Snaps = {"snap"}
  NoSnap = "none"
  DefaultZone = "z"
  DefaultResourceGroup = "g"
  MaxFaults = 2
  MayFail = TRUE
INVARIANTS
  TypeOK
  LocksMatchHandlers
  OneDiskPerName
  BoundAsAsked
  RefusedIsDifferent
PROPERTY ClaimGetsBound
CHECK_DEADLOCK FALSE
