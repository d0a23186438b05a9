---------------------------- MODULE MCNodeServer ----------------------------
(* Model-checking definitions for NodeServer.                              *)
EXTENDS NodeServer, TLC

Vol(block, ro, format, fssize, disksize) ==
  [block |-> block, fstype |-> "ext4", ro |-> ro, format |-> format,
   fssize |-> fssize, size |-> disksize]

\* Everything a node may be handed: fresh disks, disks with something else on
\* them, a file system restored to a larger disk, read-only and block volumes.
Handed == {Vol(FALSE, FALSE, "blank", 0, 1), Vol(FALSE, FALSE, "atari", 0, 2),
           Vol(FALSE, FALSE, "parts", 0, 2), Vol(FALSE, FALSE, "ext4", 1, 2),
           Vol(FALSE, TRUE, "blank", 0, 2), Vol(FALSE, TRUE, "ext4", 1, 2),
           Vol(TRUE, FALSE, "blank", 0, 1)}

AnyOf == [Volumes -> Handed]
=============================================================================
