SPECIFICATION FairSpec
CONSTANTS
  v1 = v1
  v2 = v2
  Replicas = {r1}
  Calls = {c1, c2}
  Volumes = {v1, v2}
  Zone <- OneZone
  Group <- OneGroup
  Contents <- Clashing
  Snaps = {s1, s2}
  NoSnap = NoSnap
  MaxFaults = 2
  MayFail = TRUE
INVARIANTS
  TypeOK
  OneSnapshotPerContent
  ReadyIsAvailable
  NothingLeftBehind
PROPERTY ContentSettles
CHECK_DEADLOCK FALSE
