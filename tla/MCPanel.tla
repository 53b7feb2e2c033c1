------------------------------ MODULE MCPanel ------------------------------
(* Instances of Panel for TLC. *)
EXTENDS Panel, TLC

\* Requests, ids and settings are used only through equality.
Symmetry == Permutations(Reqs) \cup Permutations(Ids) \cup Permutations(Cfgs)
=============================================================================
