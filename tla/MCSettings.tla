---------------------------- MODULE MCSettings ----------------------------
(* Instances of Settings for TLC (no symmetry: the run checks liveness too). *)
EXTENDS Settings
===========================================================================
