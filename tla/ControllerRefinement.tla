------------------------ MODULE ControllerRefinement ------------------------
(* The controller of one replica implements VolumeService: the disk record *)
(* of the cloud, transient statuses included, is where a volume is.        *)
EXTENDS ControllerServer

Service == INSTANCE VolumeService WITH
  Nowhere <- NoVm,
  on      <- [v \in Volumes |-> disk[v].vm],
  size    <- [v \in Volumes |-> disk[v].size],
  gone    <- {v \in Volumes : ~Exists(v)},
  alive   <- {n \in Nodes : vmstate[n] # "ABSENT"}

\* ImplementsVolumeService: with every handler, retry, abandoned call, crash
\* and late completion in play, what the controller does to a volume and what
\* the sidecars are told is a behaviour of VolumeService: a disk is bound to a
\* node only for an attachment that still exists, leaves it only for a detach
\* of that node or with the node, is destroyed only when on no node and after
\* the deletion was asked for, and no answer runs ahead of the disk.
ImplementsVolumeService == Service!Spec
=============================================================================
