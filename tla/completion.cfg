SPECIFICATION FairSpec
CONSTANTS
  Replicas = {r1}
  Volumes = {v1}
  Nodes = {a, b}
  Calls = {c1, c2}
  NoVm = NoVm
  MaxGib = 2
  MaxFaults = 1
  ShownIn <- BothShown
  Rollback = TRUE
INVARIANTS
  DetachedMeansDetached
  DeletedMeansGone
PROPERTIES
  DetachCompletes
  AttachCompletes
  DeleteCompletes
CHECK_DEADLOCK FALSE
