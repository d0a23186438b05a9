SPECIFICATION FairSpec
CONSTANTS
  Plugin = n1
  Replicas = {n1}
  Calls = {c1, c2}
  Volumes = {v1}
  Others = {d1}
  Pods = {p1}
  Letters = {l1, l2}
  None = None
  MaxSize = 2
  MaxFaults = 1
  LateSize = TRUE
  Start <- AnyOf
INVARIANTS
  TypeOK
  DeviceIsStillOurs
  PublishedShowsVolume
  NothingLeftMounted
  ExpandedIsSeen
  StagedFillsDisk
PROPERTIES DataSurvives
  PodGetsVolume
  VolumeLeavesNode
CHECK_DEADLOCK FALSE
