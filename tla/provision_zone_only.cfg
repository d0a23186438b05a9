SPECIFICATION Spec
CONSTANTS
  Replicas = {r1}
  Calls = {c1, c2}
  Request <- OneZoneOnly
  Disks = {d1, d2}
  NoDisk = NoDisk
  Snaps = {"snap"}
  NoSnap = "none"
  DefaultZone = "z"
  DefaultResourceGroup = "g"
  MaxFaults = 2
  MayFail = TRUE
INVARIANT RefusedIsDifferent
CHECK_DEADLOCK FALSE
