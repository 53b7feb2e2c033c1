-------------------------- MODULE MCReplaceFile --------------------------
(* Instances of ReplaceFile for TLC. *)
EXTENDS ReplaceFile, TLC

\* Writers and inodes are used only through equality.
Symmetry == Permutations(Writers) \cup Permutations(Inodes)
=============================================================================
