------------------------ MODULE MCControllerServer ------------------------
(* Model-checking definitions for ControllerServer.                        *)
EXTENDS ControllerRefinement, TLC

BothShown == {"ATTACHING", "DETACHING"}

\* Goroutine slots are interchangeable, and so are instances and replicas.
Symmetry == Permutations(Calls) \union Permutations(Nodes) \union Permutations(Replicas)
=============================================================================
