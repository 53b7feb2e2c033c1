-------------------------- MODULE MCReverseTunnel --------------------------
(* Instances of ReverseTunnel for TLC. *)
EXTENDS ReverseTunnel, TLC

\* Everything but Nil is used only through equality.
Symmetry == Permutations(Reqs) \cup Permutations(Ids) \cup Permutations(Hosts)
            \cup Permutations(Users) \cup Permutations(Cfgs) \cup Permutations(Keys)
=============================================================================
