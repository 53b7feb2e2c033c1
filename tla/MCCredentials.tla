--------------------------- MODULE MCCredentials ---------------------------
(* Instances of Credentials for TLC (no symmetry: the run checks liveness too). *)
EXTENDS Credentials

\* Ports and keepalives that are missing, and numbers below and above their limits.
SentTunings ==
    {[f \in Fields |-> CASE f \in {"remotePort", "iranPort", "alive", "misses"} -> 0
                         [] f \in {"workers", "socket"} -> -1
                         [] f = "buffer" -> 64
                         [] OTHER -> 100000]}
=============================================================================
