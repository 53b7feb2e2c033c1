------------------------- MODULE CredentialsProofs -------------------------
(***************************************************************************)
(* Theorems about the numbers of a tunnel (TunnelInput), and about the     *)
(* keys and host keys of Credentials for any number of hosts, keys,        *)
(* requests and changes of the hosts.                                      *)
(***************************************************************************)
EXTENDS Credentials, TLAPS

-----------------------------------------------------------------------------
(* The numbers. *)

\* Normalising keeps the fields and their type.
LEMMA NormalisedIsTuning ==
    ASSUME NEW in \in Tuning
    PROVE  Normalised(in) \in Tuning
  BY SMT DEF Tuning, Normalised, Fields, OrElse, Clamped

\* What each field is after normalising.
LEMMA NormalisedFields ==
    ASSUME NEW in \in Tuning
    PROVE  LET n == Normalised(in) IN
           /\ n["remotePort"] = OrElse(in["remotePort"], 22)
           /\ n["iranPort"] = OrElse(in["iranPort"], 22)
           /\ n["alive"] = OrElse(in["alive"], 30)
           /\ n["misses"] = OrElse(in["misses"], 3)
           /\ n["workers"] = Clamped(in["workers"], 1, 16)
           /\ n["buffer"] = Clamped(in["buffer"], 0, 8192)
           /\ n["socket"] = Clamped(in["socket"], 0, 65536)
           /\ n["mss"] = Clamped(in["mss"], 0, 9000)
  BY SMT DEF Tuning, Normalised, Fields

\* tunnelInput.normalize changes nothing the second time: what the panel shows can be sent back.
THEOREM NormalisedIsFixed ==
    ASSUME NEW in \in Tuning
    PROVE  Normalised(Normalised(in)) = Normalised(in)
<1> DEFINE n == Normalised(in)
           m == Normalised(n)
<1>1. n \in Tuning /\ m \in Tuning
  BY NormalisedIsTuning
<1>2. \A f \in Fields : in[f] \in Int
  BY DEF Tuning
<1>3. \A x \in Int : /\ OrElse(OrElse(x, 22), 22) = OrElse(x, 22)
                     /\ OrElse(OrElse(x, 30), 30) = OrElse(x, 30)
                     /\ OrElse(OrElse(x, 3), 3) = OrElse(x, 3)
                     /\ Clamped(Clamped(x, 1, 16), 1, 16) = Clamped(x, 1, 16)
                     /\ Clamped(Clamped(x, 0, 8192), 0, 8192) = Clamped(x, 0, 8192)
                     /\ Clamped(Clamped(x, 0, 65536), 0, 65536) = Clamped(x, 0, 65536)
                     /\ Clamped(Clamped(x, 0, 9000), 0, 9000) = Clamped(x, 0, 9000)
  BY SMT DEF OrElse, Clamped
<1>4. \A f \in Fields : m[f] = n[f]
  <2> HIDE DEF n, m
  <2> SUFFICES ASSUME NEW f \in Fields
               PROVE  m[f] = n[f]
    OBVIOUS
  <2>1. f \in {"remotePort", "iranPort", "workers", "alive", "misses", "buffer", "socket", "mss"}
    BY DEF Fields
  <2>2. /\ n["remotePort"] = OrElse(in["remotePort"], 22)
        /\ n["iranPort"] = OrElse(in["iranPort"], 22)
        /\ n["alive"] = OrElse(in["alive"], 30)
        /\ n["misses"] = OrElse(in["misses"], 3)
        /\ n["workers"] = Clamped(in["workers"], 1, 16)
        /\ n["buffer"] = Clamped(in["buffer"], 0, 8192)
        /\ n["socket"] = Clamped(in["socket"], 0, 65536)
        /\ n["mss"] = Clamped(in["mss"], 0, 9000)
    BY NormalisedFields DEF n
  <2>3. /\ m["remotePort"] = OrElse(n["remotePort"], 22)
        /\ m["iranPort"] = OrElse(n["iranPort"], 22)
        /\ m["alive"] = OrElse(n["alive"], 30)
        /\ m["misses"] = OrElse(n["misses"], 3)
        /\ m["workers"] = Clamped(n["workers"], 1, 16)
        /\ m["buffer"] = Clamped(n["buffer"], 0, 8192)
        /\ m["socket"] = Clamped(n["socket"], 0, 65536)
        /\ m["mss"] = Clamped(n["mss"], 0, 9000)
    BY <1>1, NormalisedFields DEF m
  <2>4. in[f] \in Int
    BY <1>2
  <2> QED
    BY <2>1, <2>2, <2>3, <2>4, <1>3
<1>5. n = [f \in Fields |-> n[f]] /\ m = [f \in Fields |-> m[f]]
  BY <1>1 DEF Tuning
<1> QED
  BY <1>4, <1>5

\* A number that is clamped lies within its limits.
LEMMA ClampedWithin ==
    ASSUME NEW x \in Int, NEW low \in Int, NEW high \in Int, low <= high
    PROVE  /\ Clamped(x, low, high) \in Int
           /\ low <= Clamped(x, low, high) /\ Clamped(x, low, high) <= high
  BY SMT DEF Clamped

\* What the process makes of numbers within the panel's limits is within its own.
LEMMA RunnerWithin ==
    ASSUME NEW w \in Int, NEW b \in Int, NEW k \in Int, NEW a \in Int, NEW q \in Int,
           1 <= w, w <= 16, 0 <= b, b <= 8192, 0 <= k, k <= 65536
    PROVE  WithinLimits([workers  |-> IF w < 1 THEN 1 ELSE w,
                         bufBytes |-> IF b * 1024 <= 0 THEN 32 * 1024 ELSE b * 1024,
                         sock     |-> k * 1024,
                         interval |-> IF a <= 0 THEN 30 ELSE a,
                         maxMiss  |-> IF q <= 0 THEN 3 ELSE q])
<1>1. 0 <= b * 1024 /\ b * 1024 <= 8192 * 1024
  BY SMT
<1>2. 0 <= k * 1024 /\ k * 1024 <= 65536 * 1024
  BY SMT
<1> QED
  BY <1>1, <1>2, SMT DEF WithinLimits

\* Whatever numbers are sent, the process that is given the normalised ones works within its
\* limits: 1 to 16 workers, a buffer that is not empty, sizes the panel bounds, and keepalives
\* at positive intervals with a positive number of misses.
THEOREM NormalisedIsRunnable ==
    ASSUME NEW in \in Tuning
    PROVE  WithinLimits(Runner(Normalised(in)))
<1> DEFINE n == Normalised(in)
<1>1. /\ n["workers"] = Clamped(in["workers"], 1, 16)
      /\ n["buffer"] = Clamped(in["buffer"], 0, 8192)
      /\ n["socket"] = Clamped(in["socket"], 0, 65536)
      /\ n["alive"] \in Int /\ n["misses"] \in Int
  BY NormalisedFields, NormalisedIsTuning DEF Tuning, Fields
<1>2. in["workers"] \in Int /\ in["buffer"] \in Int /\ in["socket"] \in Int
  BY DEF Tuning, Fields
<1> HIDE DEF n
<1>3. \A x \in Int :
         LET w == Clamped(x, 1, 16)  b == Clamped(x, 0, 8192)  k == Clamped(x, 0, 65536) IN
         /\ w \in Int /\ 1 <= w /\ w <= 16
         /\ b \in Int /\ 0 <= b /\ b <= 8192
         /\ k \in Int /\ 0 <= k /\ k <= 65536
  BY ClampedWithin
<1>4. /\ n["workers"] \in Int /\ 1 <= n["workers"] /\ n["workers"] <= 16
      /\ n["buffer"] \in Int /\ 0 <= n["buffer"] /\ n["buffer"] <= 8192
      /\ n["socket"] \in Int /\ 0 <= n["socket"] /\ n["socket"] <= 65536
  BY <1>1, <1>2, <1>3
<1>5. WithinLimits(Runner(n))
  BY <1>1, <1>4, RunnerWithin DEF Runner
<1> QED
  BY <1>5 DEF n

-----------------------------------------------------------------------------
(* The keys.  An update without a password names the stored host. *)

Normals == {Normalised(t) : t \in Tunings}
Input   == [host : Hosts, password : BOOLEAN, key : Keys \cup {NoKey}, tuning : Normals]
Handler == [pc : {"idle", "password", "key", "install", "save", "apply"},
            in : Input \cup {NoInput}, old : Tunnel \cup {NoTunnel},
            key : Keys \cup {NoKey}, hostKey : HostKey \cup {NoHostKey}]

Types ==
    /\ host \in [Hosts -> Host] /\ made \subseteq Keys
    /\ tun \in Tunnel \cup {NoTunnel} /\ run \in Tunnel \cup {NoTunnel}
    /\ linked \in BOOLEAN
    /\ req \in [Requests -> Handler]
    /\ \A r \in Requests : req[r].pc # "idle" => req[r].in \in Input
    /\ calls \in 0..MaxCalls /\ turns \in 0..MaxTurns
    /\ \A h \in Hosts : host[h].installed <= turns

\* Host h once showed hk, and unless it was installed again since it accepts k.
Fits(h, k, hk) ==
    /\ k \in Keys /\ hk \in HostKey
    /\ hk[1] = h /\ hk[2] <= host[h].installed
    /\ hk = KeyOf(h) => k \in host[h].accepts

FitsTunnel(t) == t # NoTunnel => Fits(t.host, t.key, t.hostKey)

\* What a handler knows, wherever it is.
Knows(q) ==
    /\ FitsTunnel(q.old)
    /\ q.pc = "password" /\ ~q.in.password /\ q.old # NoTunnel => q.in.host = q.old.host
    /\ q.pc = "install" => /\ q.in.password /\ q.key \in Keys /\ q.hostKey \in HostKey
                           /\ q.hostKey[1] = q.in.host
                           /\ q.hostKey[2] <= host[q.in.host].installed
    /\ q.pc \in {"save", "apply"} => Fits(q.in.host, q.key, q.hostKey)
    /\ q.pc = "save" /\ q.old # NoTunnel /\ ~q.in.password /\ q.in.key = NoKey =>
           q.key = q.old.key

Inv == Types /\ FitsTunnel(tun) /\ \A r \in Requests : Knows(req[r])

\* What the panel shows is normal, and what it makes of what is sent too.
LEMMA NormalInput ==
    ASSUME Types, NEW t \in Tunings \cup Shown
    PROVE  Normalised(t) \in Normals
<1>1. CASE t \in Tunings
  BY <1>1 DEF Normals
<1>2. CASE t \in Shown
  <2>1. t \in Normals
    BY <1>2 DEF Shown, Types, Tunnel, Normals
  <2>2. PICK u \in Tunings : t = Normalised(u)
    BY <2>1 DEF Normals
  <2>3. Normalised(t) = t
    BY <2>2, NormalisedIsFixed, CredentialsAssumption
  <2> QED
    BY <2>1, <2>3
<1> QED
  BY <1>1, <1>2

\* No key pair is made twice.
LEMMA NewKeyIsNew ==
    ASSUME Types, made # Keys
    PROVE  NewKey \in Keys /\ NewKey \notin made
  BY DEF Types, NewKey

\* The initial states satisfy the invariant.
LEMMA InitInv == Init => Inv
<1> SUFFICES ASSUME Init PROVE Inv
  OBVIOUS
<1>1. Idle \in Handler
  BY DEF Idle, Handler
<1>2. Types
  <2>1. host \in [Hosts -> Host] /\ \A h \in Hosts : host[h].installed <= turns
    BY CredentialsAssumption DEF Init, Host
  <2>2. req \in [Requests -> Handler] /\ \A r \in Requests : req[r].pc = "idle"
    BY <1>1 DEF Init, Idle
  <2>3. calls \in 0..MaxCalls /\ turns \in 0..MaxTurns
    BY CredentialsAssumption DEF Init
  <2>4. /\ made \subseteq Keys /\ linked \in BOOLEAN
        /\ tun \in Tunnel \cup {NoTunnel} /\ run \in Tunnel \cup {NoTunnel}
    BY DEF Init
  <2> QED
    BY <2>1, <2>2, <2>3, <2>4, Zenon DEF Types
<1>3. FitsTunnel(tun) /\ \A r \in Requests : Knows(req[r])
  BY DEF Init, FitsTunnel, Knows, Idle
<1> QED
  BY <1>2, <1>3 DEF Inv

\* A host only changes so that what fitted it still does.
Ages(h) ==
    /\ host'[h].installed >= host[h].installed
    /\ host'[h].installed = host[h].installed => host[h].accepts \subseteq host'[h].accepts

\* A host that ages, keeping what it accepts or being installed anew, takes no key from what fits.
LEMMA FitsAges ==
    ASSUME Types, Types', NEW h \in Hosts, Ages(h), NEW k, NEW hk, Fits(h, k, hk)
    PROVE  Fits(h, k, hk)'
<1>1. /\ host[h].installed \in Int /\ host'[h].installed \in Int
      /\ hk \in HostKey /\ hk[2] \in Int
  BY DEF Types, Host, Fits, HostKey
<1>2. hk[2] <= host'[h].installed
  BY <1>1 DEF Fits, Ages
<1>3. ASSUME hk = KeyOf(h)' PROVE k \in host'[h].accepts
  <2>1. hk[2] = host'[h].installed
    BY <1>3 DEF KeyOf
  <2>2. host'[h].installed = host[h].installed
    BY <1>1, <2>1 DEF Fits, Ages
  <2>3. hk = KeyOf(h)
    BY <1>3, <2>2 DEF KeyOf
  <2> QED
    BY <2>2, <2>3 DEF Fits, Ages
<1> QED
  BY <1>2, <1>3 DEF Fits

\* The same for the keys that a tunnel carries.
LEMMA FitsTunnelAges ==
    ASSUME Types, Types', \A h \in Hosts : Ages(h),
           NEW t \in Tunnel \cup {NoTunnel}, FitsTunnel(t)
    PROVE  FitsTunnel(t)'
<1> SUFFICES ASSUME t # NoTunnel PROVE Fits(t.host, t.key, t.hostKey)'
  BY DEF FitsTunnel
<1>1. t.host \in Hosts /\ Fits(t.host, t.key, t.hostKey)
  BY DEF FitsTunnel, Tunnel
<1> QED
  BY <1>1, FitsAges

\* A tunnel that stays stored still fits hosts that age.
LEMMA StoredAges ==
    ASSUME Types, Types', \A h \in Hosts : Ages(h), FitsTunnel(tun), UNCHANGED tun
    PROVE  FitsTunnel(tun)'
<1>1. PICK t : t = tun
  OBVIOUS
<1>2. FitsTunnel(t)'
  BY <1>1, FitsTunnelAges DEF Types
<1> QED
  BY <1>1, <1>2 DEF FitsTunnel, Fits, KeyOf

\* A handler that stays where it is still knows what it knew.
LEMMA KnowsAges ==
    ASSUME Types, Types', \A h \in Hosts : Ages(h), NEW r \in Requests, Knows(req[r]),
           req'[r] = req[r]
    PROVE  Knows(req[r])'
<1> DEFINE q == req[r]
<1>1. q \in Handler /\ (q.pc # "idle" => q.in.host \in Hosts) /\ q.old \in Tunnel \cup {NoTunnel}
  BY DEF Types, Handler, Input
<1>2. FitsTunnel(q.old)'
  BY <1>1, FitsTunnelAges DEF Knows
<1>3. q.pc \in {"save", "apply"} => Fits(q.in.host, q.key, q.hostKey)'
  BY <1>1, FitsAges DEF Knows
<1>4. q.pc = "install" => q.hostKey[2] <= host'[q.in.host].installed
  <2> SUFFICES ASSUME q.pc = "install" PROVE q.hostKey[2] <= host'[q.in.host].installed
    OBVIOUS
  <2>1. /\ q.in.host \in Hosts /\ q.hostKey[2] \in Int
        /\ q.hostKey[2] <= host[q.in.host].installed
    BY <1>1 DEF Knows, HostKey
  <2>2. host[q.in.host].installed \in Int /\ host'[q.in.host].installed \in Int
    BY <2>1 DEF Types, Host
  <2> QED
    BY <2>1, <2>2 DEF Ages
<1> QED
  BY <1>2, <1>3, <1>4 DEF Knows

\* Most steps concern one handler: it is enough to look at its new state.
LEMMA OneHandler ==
    ASSUME Inv, Types', \A h \in Hosts : Ages(h), FitsTunnel(tun)', NEW r \in Requests,
           \A s \in Requests \ {r} : req'[s] = req[s], Knows(req[r])'
    PROVE  Inv'
<1>1. \A s \in Requests : Knows(req[s])'
  BY KnowsAges DEF Inv
<1> QED
  BY <1>1 DEF Inv

\* A host that nothing changes ages.
LEMMA SameHosts ==
    ASSUME Types, UNCHANGED host
    PROVE  \A h \in Hosts : Ages(h)
  BY DEF Types, Host, Ages

\* A step of a handler that leaves everything but itself alone.
LEMMA QuietStep ==
    ASSUME Inv, NEW r \in Requests, NEW q, req' = [req EXCEPT ![r] = q], q \in Handler,
           q.pc # "idle" => q.in \in Input, Knows(q),
           UNCHANGED <<host, made, tun, run, linked, turns>>, calls' \in 0..MaxCalls
    PROVE  Inv'
<1>1. req'[r] = q /\ \A s \in Requests \ {r} : req'[s] = req[s]
  BY DEF Inv, Types
<1>2. Types'
  BY <1>1 DEF Inv, Types
<1>3. \A h \in Hosts : Ages(h)
  BY SameHosts DEF Inv
<1>4. FitsTunnel(tun)' /\ Knows(q)'
  BY DEF Inv, FitsTunnel, Knows, Fits, KeyOf
<1> QED
  BY <1>1, <1>2, <1>3, <1>4, OneHandler

\* A request that arrives.
LEMMA BeginKeeps ==
    ASSUME MayMove = FALSE, Inv, NEW r \in Requests, NEW h \in Hosts, NEW given \in Given,
           NEW tuning \in Tunings \cup Shown, Begin(r, h, given, tuning)
    PROVE  Inv'
<1>1. PICK in : in = [host |-> h, password |-> given.password, key |-> given.key,
                      tuning |-> Normalised(tuning)]
  OBVIOUS
<1>2. PICK q : q = [pc |-> given.auth, old |-> tun, key |-> NoKey, hostKey |-> NoHostKey,
                    in |-> in]
  OBVIOUS
<1>3. /\ given.auth \in {"password", "key"} /\ given.password \in BOOLEAN
      /\ given.key \in Keys \cup {NoKey}
  BY DEF Given, Inv, Types
<1>4. in \in Input
  <2>1. Normalised(tuning) \in Normals
    BY NormalInput DEF Inv
  <2> QED
    BY <1>1, <1>3, <2>1 DEF Input
<1>5. req' = [req EXCEPT ![r] = q]
  BY <1>1, <1>2 DEF Begin
<1>6. q \in Handler
  BY <1>2, <1>3, <1>4 DEF Handler, Inv, Types
<1>7. Knows(q)
  <2>1. FitsTunnel(q.old)
    BY <1>2 DEF Inv
  <2>2. q.pc = "password" /\ ~q.in.password /\ q.old # NoTunnel => q.in.host = q.old.host
    BY <1>1, <1>2, <1>3 DEF Begin, Moves
  <2>3. q.pc \notin {"install", "save", "apply"}
    BY <1>2, <1>3
  <2> QED
    BY <2>1, <2>2, <2>3, Zenon DEF Knows
<1>8. calls' \in 0..MaxCalls
  BY CredentialsAssumption DEF Inv, Types, Begin
<1> QED
  BY <1>2, <1>4, <1>5, <1>6, <1>7, <1>8, QuietStep DEF Begin

\* A handler that idles knows nothing.
LEMMA IdleKnows == Idle \in Handler /\ Knows(Idle) /\ Idle.pc = "idle"
  BY DEF Idle, Handler, Knows, FitsTunnel

\* A handler that answers.
LEMMA AnswerKeeps ==
    ASSUME Inv, NEW r \in Requests, Answers(r), Only(r)
    PROVE  Inv'
  BY QuietStep, IdleKnows DEF Answers, Only, Inv, Types

\* What the handler r holds when it does not idle.
LEMMA Busy ==
    ASSUME Inv, NEW r \in Requests, req[r].pc # "idle"
    PROVE  /\ req[r] \in Handler /\ In(r) \in Input /\ Knows(req[r])
           /\ In(r).host \in Hosts /\ To(r) \in Host /\ KeyOf(In(r).host) \in HostKey
           /\ To(r).installed \in Int
<1>1. req[r] \in Handler /\ In(r) \in Input /\ Knows(req[r])
  BY DEF Inv, Types, In
<1>2. In(r).host \in Hosts
  BY <1>1 DEF Input
<1>3. To(r) \in Host
  BY <1>2 DEF Inv, Types, To
<1>4. To(r).installed \in 0..MaxTurns
  BY <1>3 DEF Host
<1>5. KeyOf(In(r).host) \in HostKey
  BY <1>2, <1>4 DEF KeyOf, HostKey, To
<1>6. To(r).installed \in Int
  BY <1>4
<1> QED
  BY <1>1, <1>2, <1>3, <1>5, <1>6

\* An update that keeps the key pair of the stored tunnel.
LEMMA KeepKeeps ==
    ASSUME Inv, NEW r \in Requests, Keep(r)
    PROVE  Inv'
<1>1. CASE Old(r) = NoTunnel
  BY <1>1, AnswerKeeps DEF Keep
<1>2. CASE Old(r) # NoTunnel
  <2>1. PICK q : q = [req[r] EXCEPT !.pc = "save", !.key = Old(r).key, !.hostKey = Old(r).hostKey]
    OBVIOUS
  <2>2. /\ req[r] \in Handler /\ In(r) \in Input /\ Knows(req[r]) /\ Old(r) \in Tunnel
    BY <1>2, Busy DEF Keep, Handler, Old
  <2>3. q \in Handler /\ q.in = In(r) /\ q.old = Old(r) /\ q.pc = "save" /\ q.key = Old(r).key
        /\ q.hostKey = Old(r).hostKey
    BY <2>1, <2>2 DEF Handler, Tunnel, In, Old
  <2>4. FitsTunnel(Old(r)) /\ In(r).host = Old(r).host
    BY <1>2, <2>2 DEF Keep, Knows, In, Old
  <2>5. Knows(q)
    BY <1>2, <2>3, <2>4 DEF Knows, FitsTunnel
  <2>6. req' = [req EXCEPT ![r] = q]
    BY <1>2, <2>1 DEF Keep
  <2> QED
    BY <2>2, <2>3, <2>5, <2>6, QuietStep DEF Keep, Only, Inv, Types
<1> QED
  BY <1>1, <1>2

\* GenerateKeyPair: a new key pair fits no host yet.
LEMMA GenerateKeeps ==
    ASSUME Inv, NEW r \in Requests, Generate(r)
    PROVE  Inv'
<1>1. PICK q : q = [req[r] EXCEPT !.pc = "install", !.key = NewKey, !.hostKey = KeyOf(In(r).host)]
  OBVIOUS
<1>2. /\ req[r] \in Handler /\ In(r) \in Input /\ Knows(req[r])
      /\ In(r).host \in Hosts /\ KeyOf(In(r).host) \in HostKey /\ To(r).installed \in Int
  BY Busy DEF Generate
<1>3. NewKey \in Keys
  BY NewKeyIsNew DEF Generate, Inv
<1>4. /\ q \in Handler /\ q.in = In(r) /\ q.old = Old(r) /\ q.pc = "install" /\ q.key = NewKey
      /\ q.hostKey = KeyOf(In(r).host)
  BY <1>1, <1>2, <1>3 DEF Handler, In, Old
<1>5. Knows(q)
  BY <1>2, <1>3, <1>4 DEF Knows, Generate, KeyOf, To, Old
<1>6. req'[r] = q /\ \A s \in Requests \ {r} : req'[s] = req[s]
  BY <1>1 DEF Generate, Inv, Types
<1>7. Types'
  BY <1>2, <1>3, <1>4, <1>6 DEF Generate, Inv, Types
<1>8. FitsTunnel(tun)' /\ Knows(q)' /\ \A h \in Hosts : Ages(h)
  BY <1>5, SameHosts DEF Inv, Generate, FitsTunnel, Knows, Fits, KeyOf
<1> QED
  BY <1>6, <1>7, <1>8, OneHandler

\* InstallKey makes the key fit the host that showed the host key.
LEMMA InstallKeeps ==
    ASSUME Inv, NEW r \in Requests, Install(r)
    PROVE  Inv'
<1>0. PICK h : h = In(r).host
  OBVIOUS
<1>1. PICK q : q = [req[r] EXCEPT !.pc = "save"]
  OBVIOUS
<1>2. /\ req[r] \in Handler /\ In(r) \in Input /\ Knows(req[r]) /\ h \in Hosts
      /\ To(r) \in Host /\ req[r].key \in Keys /\ In(r).password
      /\ req[r].hostKey \in HostKey /\ To(r).installed \in Int
  BY <1>0, Busy DEF Install, Knows, In
<1>3. /\ q \in Handler /\ q.in = In(r) /\ q.old = Old(r) /\ q.pc = "save"
      /\ q.key = req[r].key /\ q.hostKey = req[r].hostKey
  BY <1>1, <1>2 DEF Handler, In, Old
<1>4. req'[r] = q /\ \A s \in Requests \ {r} : req'[s] = req[s]
  BY <1>1 DEF Install, Goes, Inv, Types
<1>5. /\ host' = [host EXCEPT ![h] = [up |-> To(r).up, installed |-> To(r).installed,
                                      accepts |-> To(r).accepts \cup {req[r].key}]]
      /\ To(r).accepts \subseteq Keys
  <2>1. host' = [host EXCEPT ![h] = [host[h] EXCEPT !.accepts = @ \cup {req[r].key}]]
    BY <1>0 DEF Install
  <2>2. host[h] = To(r)
    BY <1>0 DEF To
  <2>3. PICK s \in Host : s = To(r)
    BY <1>2
  <2>4. [s EXCEPT !.accepts = @ \cup {req[r].key}] =
            [up |-> s.up, installed |-> s.installed, accepts |-> s.accepts \cup {req[r].key}]
    BY DEF Host
  <2>5. s.accepts \subseteq Keys
    BY DEF Host
  <2> QED
    BY <2>1, <2>2, <2>3, <2>4, <2>5
<1>6. /\ host' \in [Hosts -> Host]
      /\ \A g \in Hosts : host'[g].installed = host[g].installed
      /\ \A g \in Hosts : host[g].accepts \subseteq host'[g].accepts
      /\ req[r].key \in host'[h].accepts
  BY <1>0, <1>2, <1>5 DEF Inv, Types, To, Host
<1>7. req' \in [Requests -> Handler] /\ \A s \in Requests : req'[s].pc # "idle" => req'[s].in \in Input
  BY <1>2, <1>3, <1>4 DEF Install, Goes, Inv, Types
<1>8. Types'
  BY <1>6, <1>7 DEF Install, Inv, Types
<1>9. \A g \in Hosts : Ages(g)
  BY <1>6 DEF Ages, Inv, Types, Host
<1>10. FitsTunnel(tun)'
  BY <1>8, <1>9, StoredAges DEF Install, Inv
<1>11. Knows(q)'
  <2>1. q.old \in Tunnel \cup {NoTunnel} /\ FitsTunnel(q.old)
    BY <1>2, <1>3 DEF Handler, Knows, Old
  <2>2. FitsTunnel(q.old)'
    BY <1>8, <1>9, <2>1, FitsTunnelAges DEF Inv
  <2>3. q.hostKey = <<h, host[h].installed>>
    BY <1>0, <1>3 DEF Install, Connected, KeyOf
  <2>4. host'[h].installed = host[h].installed /\ host[h].installed \in Int
    BY <1>0, <1>2, <1>6 DEF To
  <2>5. Fits(h, q.key, q.hostKey)'
    BY <1>2, <1>3, <1>6, <2>3, <2>4 DEF Fits, KeyOf
  <2>6. q.in.host = h /\ q.in.password
    BY <1>0, <1>2, <1>3
  <2> QED
    BY <1>3, <2>2, <2>5, <2>6 DEF Knows
<1> QED
  BY <1>4, <1>8, <1>9, <1>10, <1>11, OneHandler

\* TestConnection: the host accepts the key as it shows the host key.
LEMMA TryKeeps ==
    ASSUME Inv, NEW r \in Requests, Try(r)
    PROVE  Inv'
<1>1. PICK q : q = [req[r] EXCEPT !.pc = "save", !.key = KeyFor(r), !.hostKey = KeyOf(In(r).host)]
  OBVIOUS
<1>2. /\ req[r] \in Handler /\ In(r) \in Input /\ Knows(req[r])
      /\ In(r).host \in Hosts /\ To(r) \in Host /\ KeyOf(In(r).host) \in HostKey
      /\ To(r).installed \in Int
  BY Busy DEF Try
<1>3. KeyFor(r) \in Keys /\ KeyFor(r) \in To(r).accepts
  BY <1>2 DEF Try, Host
<1>4. /\ q \in Handler /\ q.in = In(r) /\ q.old = Old(r) /\ q.pc = "save"
      /\ q.key = KeyFor(r) /\ q.hostKey = KeyOf(In(r).host)
  BY <1>1, <1>2, <1>3 DEF Handler, In, Old
<1>5. Fits(In(r).host, KeyFor(r), KeyOf(In(r).host))
  BY <1>2, <1>3 DEF Fits, KeyOf, To
<1>6. Old(r) # NoTunnel /\ In(r).key = NoKey => KeyFor(r) = Old(r).key
  BY DEF KeyFor
<1>7. Knows(q)
  BY <1>2, <1>4, <1>5, <1>6 DEF Knows, Old
<1>8. req' = [req EXCEPT ![r] = q]
  BY <1>1 DEF Try
<1>9. UNCHANGED <<host, made, tun, run, linked, turns>> /\ calls' \in 0..MaxCalls
  BY DEF Try, Only, Inv, Types
<1> QED
  BY <1>2, <1>4, <1>7, <1>8, <1>9, QuietStep

\* Create or Update stores the tunnel with what the handler carries.
LEMMA SaveKeeps ==
    ASSUME Inv, NEW r \in Requests, Save(r)
    PROVE  Inv'
<1>1. PICK q : q = [req[r] EXCEPT !.pc = "apply"]
  OBVIOUS
<1>2. req[r] \in Handler /\ In(r) \in Input /\ Knows(req[r])
  BY Busy DEF Save
<1>3. Fits(In(r).host, req[r].key, req[r].hostKey)
  BY <1>2 DEF Save, Knows, In
<1>4. tun' \in Tunnel
  <2>1. In(r).host \in Hosts /\ In(r).tuning \in Normals
    BY <1>2 DEF Input
  <2> QED
    BY <1>3, <2>1 DEF Save, Tunnel, Normals, Fits
<1>5. /\ q \in Handler /\ q.in = In(r) /\ q.old = Old(r) /\ q.pc = "apply"
      /\ q.key = req[r].key /\ q.hostKey = req[r].hostKey
  BY <1>1, <1>2 DEF Handler, In, Old
<1>6. Knows(q)
  BY <1>2, <1>3, <1>5 DEF Knows, Old
<1>7. req'[r] = q /\ \A s \in Requests \ {r} : req'[s] = req[s]
  BY <1>1 DEF Save, Goes, Inv, Types
<1>8. Types'
  BY <1>2, <1>4, <1>5, <1>7 DEF Save, Goes, Inv, Types
<1>9. Knows(q)' /\ \A h \in Hosts : Ages(h)
  BY <1>6, SameHosts DEF Inv, Save, FitsTunnel, Knows, Fits, KeyOf
<1>10. FitsTunnel(tun)'
  BY <1>3 DEF Save, FitsTunnel, Fits, KeyOf
<1> QED
  BY <1>7, <1>8, <1>9, <1>10, OneHandler

\* Applying the tunnel makes the process run with what is stored.
LEMMA ApplyKeeps ==
    ASSUME Inv, NEW r \in Requests, Apply(r)
    PROVE  Inv'
<1>1. req'[r] = Idle /\ \A s \in Requests \ {r} : req'[s] = req[s]
  BY DEF Apply, Answers, Inv, Types
<1>2. Types'
  BY <1>1, IdleKnows DEF Apply, Answers, Inv, Types
<1>3. /\ FitsTunnel(tun)' /\ Knows(Idle)' /\ \A h \in Hosts : Ages(h)
  BY SameHosts DEF Inv, Apply, FitsTunnel, Fits, KeyOf, Knows, Idle
<1> QED
  BY <1>1, <1>2, <1>3, OneHandler

\* The hosts: only a new installation forgets keys.
LEMMA TurnKeeps ==
    ASSUME Inv, NEW h \in Hosts, NEW next \in Host, Turn(h, next),
           next.installed = host[h].installed => host[h].accepts \subseteq next.accepts,
           next.installed \in host[h].installed..(turns + 1),
           made' \subseteq Keys, linked' \in BOOLEAN
    PROVE  Inv'
<1>1. /\ host' \in [Hosts -> Host] /\ host'[h] = next
      /\ \A g \in Hosts \ {h} : host'[g] = host[g]
  BY DEF Turn, Inv, Types
<1>2. /\ turns \in Int /\ turns' = turns + 1 /\ turns' \in 0..MaxTurns
      /\ \A g \in Hosts : host[g].installed \in Int
  BY CredentialsAssumption DEF Turn, Inv, Types, Host
<1>3. \A g \in Hosts : Ages(g)
  BY <1>1, <1>2 DEF Ages
<1>4. \A g \in Hosts : host'[g].installed <= turns'
  BY <1>1, <1>2 DEF Inv, Types
<1>5. Types'
  BY <1>1, <1>2, <1>4 DEF Turn, Inv, Types
<1>6. FitsTunnel(tun)'
  BY <1>3, <1>5, StoredAges DEF Turn, Inv
<1>7. \A r \in Requests : Knows(req[r])'
  BY <1>3, <1>5, KnowsAges DEF Turn, Inv
<1> QED
  BY <1>5, <1>6, <1>7 DEF Inv

\* What happens to a host: it stops or starts answering, is installed anew, or gets a key by hand.
LEMMA HostsKeep ==
    ASSUME Inv, NEW h \in Hosts, Flip(h) \/ Reinstall(h) \/ Authorise(h)
    PROVE  Inv'
<1>1. /\ host[h] \in Host /\ host[h].installed \in Int /\ turns \in Int
      /\ host[h].installed <= turns /\ linked \in BOOLEAN /\ made \subseteq Keys
  BY DEF Inv, Types, Host
<1>2. CASE Flip(h)
  <2>1. PICK next : next = [host[h] EXCEPT !.up = ~@]
    OBVIOUS
  <2>2. /\ next \in Host /\ next.installed = host[h].installed /\ next.accepts = host[h].accepts
    BY <1>1, <2>1 DEF Host
  <2>3. Turn(h, next) /\ made' \subseteq Keys /\ linked' \in BOOLEAN
    BY <1>1, <1>2, <2>1 DEF Flip
  <2> QED
    BY <1>1, <2>2, <2>3, TurnKeeps
<1>3. CASE Reinstall(h)
  <2>1. PICK next : next = [up |-> TRUE, installed |-> host[h].installed + 1, accepts |-> {}]
    OBVIOUS
  <2>2. Turn(h, next) /\ made' \subseteq Keys /\ linked' \in BOOLEAN
    BY <1>1, <1>3, <2>1 DEF Reinstall
  <2>3. /\ next \in Host /\ next.installed # host[h].installed
        /\ next.installed \in host[h].installed..(turns + 1)
    BY <1>1, <2>1, <2>2, CredentialsAssumption DEF Turn, Host
  <2> QED
    BY <2>2, <2>3, TurnKeeps
<1>4. CASE Authorise(h)
  <2>1. PICK next : next = [host[h] EXCEPT !.accepts = @ \cup {NewKey}]
    OBVIOUS
  <2>2. NewKey \in Keys
    BY <1>4, NewKeyIsNew DEF Authorise, Inv
  <2>3. /\ next \in Host /\ next.installed = host[h].installed
        /\ host[h].accepts \subseteq next.accepts
    BY <1>1, <2>1, <2>2 DEF Host
  <2>4. Turn(h, next) /\ made' \subseteq Keys /\ linked' \in BOOLEAN
    BY <1>1, <1>4, <2>1, <2>2 DEF Authorise
  <2> QED
    BY <1>1, <2>3, <2>4, TurnKeeps
<1> QED
  BY <1>2, <1>3, <1>4

\* The process dials.
LEMMA DialKeeps ==
    ASSUME Inv, Dial
    PROVE  Inv'
<1>1. Types'
  BY DEF Inv, Types, Dial
<1> QED
  BY <1>1 DEF Inv, Dial, FitsTunnel, Knows, Fits, KeyOf

\* A step that changes nothing.
LEMMA StutterKeeps ==
    ASSUME Inv, UNCHANGED vars
    PROVE  Inv'
<1>1. Types'
  BY DEF Inv, Types, vars
<1> QED
  BY <1>1 DEF Inv, vars, FitsTunnel, Knows, Fits, KeyOf

\* Every step keeps the invariant.
LEMMA NextKeeps ==
    ASSUME MayMove = FALSE, Inv, [Next]_vars
    PROVE  Inv'
<1>1. ASSUME NEW r \in Requests, Keep(r) PROVE Inv'
  BY <1>1, KeepKeeps
<1>2. ASSUME NEW r \in Requests, Generate(r) PROVE Inv'
  BY <1>2, GenerateKeeps
<1>3. ASSUME NEW r \in Requests, Install(r) PROVE Inv'
  BY <1>3, InstallKeeps
<1>4. ASSUME NEW r \in Requests, Try(r) PROVE Inv'
  BY <1>4, TryKeeps
<1>5. ASSUME NEW r \in Requests, ResolveFails(r) PROVE Inv'
  BY <1>5, AnswerKeeps DEF ResolveFails
<1>6. ASSUME NEW r \in Requests, Save(r) PROVE Inv'
  BY <1>6, SaveKeeps
<1>7. ASSUME NEW r \in Requests, Apply(r) PROVE Inv'
  BY <1>7, ApplyKeeps
<1>8. ASSUME NEW r \in Requests, NEW h \in Hosts, NEW given \in Given,
             NEW tuning \in Tunings \cup Shown, Begin(r, h, given, tuning)
      PROVE  Inv'
  BY <1>8, BeginKeeps
<1>9. CASE Dial
  BY <1>9, DialKeeps
<1>10. ASSUME NEW h \in Hosts, Flip(h) \/ Reinstall(h) \/ Authorise(h) PROVE Inv'
  BY <1>10, HostsKeep
<1>11. CASE UNCHANGED vars
  BY <1>11, StutterKeeps
<1> QED
  BY <1>1, <1>2, <1>3, <1>4, <1>5, <1>6, <1>7, <1>8, <1>9, <1>10, <1>11
     DEF Next, Handle, Resolve

\* The invariant holds throughout, when no update moves a tunnel to another host.
LEMMA Invariance ==
    ASSUME MayMove = FALSE
    PROVE  Spec => []Inv
<1>1. Init => Inv
  BY InitInv
<1>2. Inv /\ [Next]_vars => Inv'
  BY NextKeeps
<1> QED
  BY <1>1, <1>2, PTL DEF Spec

\* The variables have their types, and the tunnel process works within its limits, for any
\* numbers that are sent and any number of hosts, keys and requests.
THEOREM CredentialsTypes ==
    ASSUME MayMove = FALSE
    PROVE  Spec => []CredentialsTypeOK
<1>1. Inv => CredentialsTypeOK
  <2> SUFFICES ASSUME Inv PROVE CredentialsTypeOK
    OBVIOUS
  <2>1. run # NoTunnel => WithinLimits(Runner(run.tuning))
    <3> SUFFICES ASSUME run # NoTunnel PROVE WithinLimits(Runner(run.tuning))
      OBVIOUS
    <3>1. PICK t \in Tunings : run.tuning = Normalised(t)
      BY DEF Inv, Types, Tunnel
    <3> QED
      BY <3>1, NormalisedIsRunnable, CredentialsAssumption
  <2>2. \A r \in Requests :
           /\ req[r].pc \in {"idle", "password", "key", "install", "save", "apply"}
           /\ req[r].key \in Keys \cup {NoKey} /\ req[r].hostKey \in HostKey \cup {NoHostKey}
           /\ req[r].old \in Tunnel \cup {NoTunnel}
    BY DEF Inv, Types, Handler
  <2> QED
    BY <2>1, <2>2 DEF Inv, Types, CredentialsTypeOK
<1> QED
  BY <1>1, Invariance, PTL

\* The stored key opens the stored host, whatever requests ran at once and failed where, as long
\* as an update without a password names the host that is stored.
THEOREM StoredKeysOpen ==
    ASSUME MayMove = FALSE
    PROVE  Spec => []StoredKeyOpensHost
<1>1. Inv => StoredKeyOpensHost
  BY DEF Inv, FitsTunnel, Fits, StoredKeyOpensHost
<1> QED
  BY <1>1, Invariance, PTL

\* Sending back what the panel showed stores the same key and the same numbers.
THEOREM ResendingIsIdle ==
    ASSUME MayMove = FALSE
    PROVE  Spec => []ResendingChangesNothing
<1>1. Inv => ResendingChangesNothing
  <2> SUFFICES ASSUME Inv, NEW r \in Requests, req[r].pc = "save", Old(r) # NoTunnel,
                      ~In(r).password, In(r).key = NoKey
               PROVE  req[r].key = Old(r).key /\ Normalised(Old(r).tuning) = Old(r).tuning
    BY DEF ResendingChangesNothing
  <2>1. Old(r) \in Tunnel /\ Knows(req[r])
    BY DEF Inv, Types, Handler, Old
  <2>2. PICK t \in Tunings : Old(r).tuning = Normalised(t)
    BY <2>1 DEF Tunnel
  <2>3. Normalised(Old(r).tuning) = Old(r).tuning
    BY <2>2, NormalisedIsFixed, CredentialsAssumption
  <2> QED
    BY <2>1, <2>3 DEF Knows, In, Old
<1> QED
  BY <1>1, Invariance, PTL
=============================================================================
