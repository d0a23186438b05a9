SPECIFICATION Spec
CONSTANTS
  Replicas = {r1}
  Volumes = {v1}
  Nodes = {a, b}
  Calls = {c1, c2}
  NoVm = NoVm
  MaxGib = 2
  MaxFaults = 2
  ShownIn <- BothShown
  Rollback = FALSE
SYMMETRY Symmetry
INVARIANTS
  TypeOK
  LockDiscipline
  AttachedMeansAttached
  DetachedMeansDetached
  DeletedMeansGone
  CapacityIsReal
PROPERTIES
  DetachOnlyRequestedNode
  ImplementsVolumeService
CHECK_DEADLOCK FALSE
