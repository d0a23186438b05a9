----------------------------- MODULE MCCapacity -----------------------------
(* A GiB of 3 bytes, 8 GiB to a half word, disks of 2 to 4 GiB: requests   *)
(* below, inside and above the sizes of a disk, with every remainder.      *)
EXTENDS Capacity

\* One negative value for all, and every other value up to the edge.
WholeWord == -1 .. Half - 1
=============================================================================
