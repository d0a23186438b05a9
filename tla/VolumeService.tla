--------------------------- MODULE VolumeService ---------------------------
(***************************************************************************)
(* What the controller promises the orchestrator about volumes, with no    *)
(* handler, lock, retry or transient status in sight: a volume is on at    *)
(* most one node, it gets to a node only while somebody has an attachment  *)
(* for that node and leaves it only when that attachment is being undone,  *)
(* and whatever the orchestrator is told has happened has happened.        *)
(***************************************************************************)
EXTENDS Integers

CONSTANTS
  Volumes,
  Nodes,
  Nowhere,   \* not on any node
  MaxGib     \* bound: largest volume size

VARIABLES
  on,        \* on[v]: the node from which volume v can be reached
  size,      \* size[v]: its size
  gone,      \* the volumes that are destroyed
  alive,     \* the nodes that exist
  va,        \* va[v][n]: what is asked for and known of v on n
  pv,        \* pv[v]: what is asked for and known of v itself
  cap        \* cap[v]: the capacity the orchestrator was told of

vars == <<on, size, gone, alive, va, pv, cap>>

Init ==
  /\ on = [v \in Volumes |-> Nowhere]
  /\ size = [v \in Volumes |-> 1]
  /\ gone = {}
  /\ alive = Nodes
  /\ va = [v \in Volumes |-> [n \in Nodes |-> "none"]]
  /\ pv = [v \in Volumes |-> "bound"]
  /\ cap = [v \in Volumes |-> 1]

Exists(v) == v \notin gone

-----------------------------------------------------------------------------
(* The orchestrator asks.                                                  *)

AskAttach(v, n) ==
  /\ pv[v] = "bound" /\ \A m \in Nodes : va[v][m] = "none"
  /\ va' = [va EXCEPT ![v][n] = "attaching"]
  /\ UNCHANGED <<on, size, gone, alive, pv, cap>>

AskDetach(v, n) ==
  /\ va[v][n] \in {"attaching", "attached"}
  /\ va' = [va EXCEPT ![v][n] = "detaching"]
  /\ UNCHANGED <<on, size, gone, alive, pv, cap>>

AskDelete(v) ==
  /\ pv[v] = "bound" /\ \A n \in Nodes : va[v][n] = "none"
  /\ pv' = [pv EXCEPT ![v] = "deleting"]
  /\ UNCHANGED <<on, size, gone, alive, va, cap>>

(* The volume changes.                                                     *)

\* An attach that was withdrawn may still come about, before it is undone.
Attach(v, n) ==
  /\ Exists(v) /\ on[v] = Nowhere
  /\ va[v][n] \in {"attaching", "detaching"}
  /\ on' = [on EXCEPT ![v] = n]
  /\ UNCHANGED <<size, gone, alive, va, pv, cap>>

Detach(v, n) ==
  /\ on[v] = n /\ va[v][n] = "detaching"
  /\ on' = [on EXCEPT ![v] = Nowhere]
  /\ UNCHANGED <<size, gone, alive, va, pv, cap>>

Grow(v) ==
  /\ Exists(v)
  /\ \E s \in 1..MaxGib : s > size[v] /\ size' = [size EXCEPT ![v] = s]
  /\ UNCHANGED <<on, gone, alive, va, pv, cap>>

Destroy(v) ==
  /\ Exists(v) /\ on[v] = Nowhere /\ pv[v] = "deleting"
  /\ gone' = gone \union {v}
  /\ UNCHANGED <<on, size, alive, va, pv, cap>>

\* A node is deleted; what was on it is on no node.
NodeGone(n) ==
  /\ n \in alive
  /\ alive' = alive \ {n}
  /\ on' = [v \in Volumes |-> IF on[v] = n THEN Nowhere ELSE on[v]]
  /\ UNCHANGED <<size, gone, va, pv, cap>>

(* The orchestrator is told.                                               *)

Attached(v, n) ==
  /\ va[v][n] = "attaching" /\ (on[v] = n \/ n \notin alive)
  /\ va' = [va EXCEPT ![v][n] = "attached"]
  /\ UNCHANGED <<on, size, gone, alive, pv, cap>>

Detached(v, n) ==
  /\ va[v][n] = "detaching" /\ on[v] # n
  /\ va' = [va EXCEPT ![v][n] = "none"]
  /\ UNCHANGED <<on, size, gone, alive, pv, cap>>

Deleted(v) ==
  /\ pv[v] = "deleting" /\ ~Exists(v)
  /\ pv' = [pv EXCEPT ![v] = "deleted"]
  /\ UNCHANGED <<on, size, gone, alive, va, cap>>

Expanded(v) ==
  /\ \E s \in 1..MaxGib : s > cap[v] /\ s <= size[v] /\ cap' = [cap EXCEPT ![v] = s]
  /\ UNCHANGED <<on, size, gone, alive, va, pv>>

Next ==
  \/ \E v \in Volumes, n \in Nodes :
       \/ AskAttach(v, n) \/ Attach(v, n) \/ Attached(v, n)
       \/ AskDetach(v, n) \/ Detach(v, n) \/ Detached(v, n)
  \/ \E v \in Volumes : AskDelete(v) \/ Grow(v) \/ Destroy(v) \/ Deleted(v) \/ Expanded(v)
  \/ \E n \in Nodes : NodeGone(n)

Spec == Init /\ [][Next]_vars
=============================================================================
