--------------------------- MODULE MCForwarding ---------------------------
(* Instances of Forwarding for TLC (no symmetry: the run checks liveness too). *)
EXTENDS Forwarding
=============================================================================
