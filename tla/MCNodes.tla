------------------------------ MODULE MCNodes ------------------------------
(* Instances of Nodes for TLC (no symmetry: the run checks liveness too). *)
EXTENDS Nodes
=============================================================================
