---------------------------- MODULE MCSnapshots ----------------------------
(* Model-checking definitions for Snapshots.                               *)
EXTENDS Snapshots

CONSTANTS v1, v2

Content(n, v) == [name |-> n, src |-> v]

\* One zone and one group, two contents that claim one name for different volumes.
Clashing == {Content("n", v1), Content("n", v2)}

OneZone  == [v \in {v1, v2} |-> "z"]
OneGroup == [v \in {v1, v2} |-> "g"]
=============================================================================
