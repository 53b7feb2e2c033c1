----------------------------- MODULE Register -----------------------------
(***************************************************************************)
(* What replacing a file atomically promises to those who read it: at any  *)
(* moment the file holds one complete version, and versions only get newer.*)
(***************************************************************************)
EXTENDS Naturals

VARIABLE current  \* the version a reader finds; 0 when there is no file

RegisterInit == current = 0

Replace == current' \in Nat /\ current' > current

RegisterSpec == RegisterInit /\ [][Replace]_current
=============================================================================
