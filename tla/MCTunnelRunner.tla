-------------------------- MODULE MCTunnelRunner --------------------------
(* Instances of TunnelRunner for TLC. *)
EXTENDS TunnelRunner, TLC

\* A connection and a handler are used only through equality.
Symmetry == Permutations(Conns) \cup Permutations(Handlers)
=============================================================================
