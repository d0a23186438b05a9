SPECIFICATION Spec
CONSTANTS
  Replicas = {r1, r2}
  Volumes = {v1}
  Nodes = {a, b}
  Calls = {c1, c2}
  NoVm = NoVm
  MaxGib = 2
  MaxFaults = 2
  ShownIn <- BothShown
  Rollback = FALSE
SYMMETRY Symmetry
INVARIANTS
  DeletedMeansGone
  CapacityIsReal
CHECK_DEADLOCK FALSE
