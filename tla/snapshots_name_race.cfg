SPECIFICATION Spec
CONSTANTS
  v1 = v1
  v2 = v2
  Replicas = {r1}
  Calls = {c1, c2}
  Volumes = {v1, v2}
  Zone <- OneZone
  Group <- OneGroup
  Contents <- Clashing
  Snaps = {s1, s2, s3}
  NoSnap = NoSnap
  MaxFaults = 0
  MayFail = FALSE
INVARIANT NamesAreUnique
CHECK_DEADLOCK FALSE
