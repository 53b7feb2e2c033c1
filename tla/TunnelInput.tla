---------------------------- MODULE TunnelInput ----------------------------
(***************************************************************************)
(* The numbers of a tunnel: what the panel makes of the ones it is sent    *)
(* (tunnelInput.normalize), and what the tunnel process makes of the ones  *)
(* that are stored (NewRunner, keepalive).  They are Go ints of 64 bits:   *)
(* the multiplications by 1024 are of numbers the panel has bounded.       *)
(***************************************************************************)
EXTENDS Integers

Fields == {"remotePort", "iranPort", "workers", "alive", "misses", "buffer", "socket", "mss"}
Tuning == [Fields -> Int]

OrElse(x, default)  == IF x = 0 THEN default ELSE x
ClampedAbove(x, low, high) == IF x > high THEN high ELSE x
Clamped(x, low, high) == IF x < low THEN low ELSE IF x > high THEN high ELSE x

NormalisedToBytes(in) ==
    [f \in Fields |->
        CASE f \in {"remotePort", "iranPort"} -> OrElse(in[f], 22)
          [] f = "alive"   -> OrElse(in[f], 30)
          [] f = "misses"  -> OrElse(in[f], 3)
          [] f = "workers" -> Clamped(in[f], 1, 16)
          [] f = "mss"     -> Clamped(in[f], 0, 9000)
          [] OTHER -> Clamped(in[f], 0, 8192) * 1024]

\* Ports and keepalives get a default when they are missing; a negative one stays.
Normalised(in) ==
    [f \in Fields |->
        CASE f = "remotePort" -> OrElse(in[f], 22)
          [] f = "iranPort"   -> OrElse(in[f], 22)
          [] f = "workers"    -> Clamped(in[f], 1, 16)
          [] f = "alive"      -> OrElse(in[f], 30)
          [] f = "misses"     -> OrElse(in[f], 3)
          [] f = "buffer"     -> Clamped(in[f], 0, 8192)
          [] f = "socket"     -> Clamped(in[f], 0, 65536)
          [] f = "mss"        -> Clamped(in[f], 0, 9000)]

\* What the process works with: bytes for kilobytes, and defaults of its own.
Runner(t) ==
    [workers  |-> IF t["workers"] < 1 THEN 1 ELSE t["workers"],
     bufBytes |-> IF t["buffer"] * 1024 <= 0 THEN 32 * 1024 ELSE t["buffer"] * 1024,
     sock     |-> t["socket"] * 1024,
     interval |-> IF t["alive"] <= 0 THEN 30 ELSE t["alive"],
     maxMiss  |-> IF t["misses"] <= 0 THEN 3 ELSE t["misses"]]

\* What the loops of the process rely on: workers and a buffer to work with, sizes that are
\* bounded, and a ticker's interval and a count of misses that are positive.
WithinLimits(r) ==
    /\ 1 <= r.workers /\ r.workers <= 16
    /\ 0 < r.bufBytes /\ r.bufBytes <= 8192 * 1024
    /\ 0 <= r.sock /\ r.sock <= 65536 * 1024
    /\ 0 < r.interval /\ 0 < r.maxMiss
=============================================================================
