---------------------------- MODULE Credentials ----------------------------
(***************************************************************************)
(* How the panel gets a tunnel's key and host key (web.go resolveAuth over *)
(* internal/sshx) and how the tunnel process uses them (runner.go dial).   *)
(* A key is made and installed with a password, or given and tried out;    *)
(* the host key seen on the way is stored, and the process connects only   *)
(* to a host that shows it.  One tunnel in local mode; Panel has the       *)
(* requests on it, and its unit, in their other details.                   *)
(***************************************************************************)
EXTENDS TunnelInput, FiniteSets

CONSTANTS
    Hosts,      \* hosts abroad (with a port and a user)
    Keys,       \* key pairs
    NoKey,      \* no key, or none given
    Tunings,    \* numbers that are sent
    Requests,   \* slots for the handlers
    MayMove,    \* whether an update without a password may name another host
    MaxCalls,   \* bound: requests in a behaviour
    MaxTurns    \* bound: changes of the hosts in a behaviour

ASSUME CredentialsAssumption ==
    /\ NoKey \notin Keys /\ Tunings \subseteq Tuning
    /\ MayMove \in BOOLEAN /\ MaxCalls \in Nat /\ MaxTurns \in Nat

VARIABLES
    host,     \* the hosts: up or not, how often reinstalled, the keys they accept
    made,     \* key pairs that exist
    tun,      \* the stored tunnel, or none
    run,      \* the tunnel process: the tunnel it has loaded, or none
    linked,   \* a worker is connected
    req,      \* the handlers
    calls, turns

vars == <<host, made, tun, run, linked, req, calls, turns>>

\* A host key: a host makes a new one whenever it is installed.
HostKey == Hosts \X (0..MaxTurns)
NoHostKey == <<>>
Host == [up : BOOLEAN, installed : 0..MaxTurns, accepts : SUBSET Keys]
KeyOf(h) == <<h, host[h].installed>>

NoTunnel == [host |-> NoKey]

\* What is sent: auth by password, given (TRUE) or left empty, or by key, one that exists or left
\* empty; and numbers, new ones or those the panel showed.
Given  == [auth : {"password"}, password : BOOLEAN, key : {NoKey}]
          \cup [auth : {"key"}, password : {FALSE}, key : made \cup {NoKey}]
Shown  == IF tun = NoTunnel THEN {} ELSE {tun.tuning}

Tunnel == [host : Hosts, key : Keys, hostKey : HostKey, tuning : {Normalised(t) : t \in Tunings}]

\* A handler: its input, the tunnel it read, the key and the host key it has so far.
NoInput == [host |-> NoKey]
Idle == [pc |-> "idle", in |-> NoInput, old |-> NoTunnel, key |-> NoKey, hostKey |-> NoHostKey]

Init ==
    /\ host = [h \in Hosts |-> [up |-> TRUE, installed |-> 0, accepts |-> {}]]
    /\ made = {}
    /\ tun = NoTunnel /\ run = NoTunnel /\ linked = FALSE
    /\ req = [r \in Requests |-> Idle]
    /\ calls = 0 /\ turns = 0

-----------------------------------------------------------------------------
(* The handlers. *)

Goes(r, pc) == req' = [req EXCEPT ![r].pc = pc]
Answers(r)  == req' = [req EXCEPT ![r] = Idle]
Only(r)     == UNCHANGED <<host, made, tun, run, linked, calls, turns>>

NewKey == CHOOSE k \in Keys : k \notin made   \* which one makes no difference
NothingStored == tun = NoTunnel /\ \A r \in Requests : req[r].pc = "idle"
Moves(h) == tun # NoTunnel /\ h # tun.host

\* handleCreate, with the first tunnel, and handleUpdate: they read the tunnel and normalise the
\* input.
Begin(r, h, given, tuning) ==
    /\ req[r].pc = "idle" /\ calls < MaxCalls /\ calls' = calls + 1
    /\ NothingStored \/ tun # NoTunnel
    /\ MayMove \/ given.auth = "key" \/ given.password \/ ~Moves(h)
    /\ req' = [req EXCEPT ![r] =
           [pc |-> given.auth, old |-> tun, key |-> NoKey, hostKey |-> NoHostKey,
            in |-> [host |-> h, password |-> given.password, key |-> given.key,
                    tuning |-> Normalised(tuning)]]]
    /\ UNCHANGED <<host, made, tun, run, linked, turns>>

In(r)  == req[r].in
Old(r) == req[r].old
To(r)  == host[In(r).host]

\* No password: the key and the host key of the stored tunnel are kept, untried; without a
\* stored one it is an error.
Keep(r) ==
    /\ req[r].pc = "password" /\ ~In(r).password
    /\ IF Old(r) = NoTunnel THEN Answers(r)
       ELSE req' = [req EXCEPT ![r].pc = "save", ![r].key = Old(r).key,
                               ![r].hostKey = Old(r).hostKey]
    /\ Only(r)

\* A password: a new key pair, and a connection, which shows the host key.
Generate(r) ==
    /\ req[r].pc = "password" /\ In(r).password /\ To(r).up
    /\ made # Keys /\ made' = made \cup {NewKey}
    /\ req' = [req EXCEPT ![r].pc = "install", ![r].key = NewKey,
                          ![r].hostKey = KeyOf(In(r).host)]
    /\ UNCHANGED <<host, tun, run, linked, calls, turns>>

\* The connection is still the one to the host that showed the key.
Connected(r) == To(r).up /\ KeyOf(In(r).host) = req[r].hostKey

InstallNothing(r) ==
    /\ req[r].pc = "install" /\ Connected(r)
    /\ Goes(r, "save")
    /\ Only(r)

\* InstallKey appends the public key to authorized_keys.
Install(r) ==
    /\ req[r].pc = "install" /\ Connected(r)
    /\ host' = [host EXCEPT ![In(r).host].accepts = @ \cup {req[r].key}]
    /\ Goes(r, "save")
    /\ UNCHANGED <<made, tun, run, linked, calls, turns>>

KeyFor(r) == IF In(r).key # NoKey \/ Old(r) = NoTunnel THEN In(r).key ELSE Old(r).key

TryUnchecked(r) ==
    /\ req[r].pc = "key" /\ To(r).up /\ KeyFor(r) # NoKey
    /\ req' = [req EXCEPT ![r].pc = "save", ![r].key = KeyFor(r),
                          ![r].hostKey = KeyOf(In(r).host)]
    /\ Only(r)

\* A key, or none and that of the stored tunnel: TestConnection logs in with it, whatever host
\* key the host shows, and that one is taken.
Try(r) ==
    /\ req[r].pc = "key" /\ To(r).up /\ KeyFor(r) \in To(r).accepts
    /\ req' = [req EXCEPT ![r].pc = "save", ![r].key = KeyFor(r),
                          ![r].hostKey = KeyOf(In(r).host)]
    /\ Only(r)

\* No key at all, no answer, a key that is refused, or a connection that breaks: nothing is
\* stored (what was installed stays).
ResolveFails(r) ==
    /\ \/ req[r].pc = "key" /\ (~To(r).up \/ KeyFor(r) \notin To(r).accepts)
       \/ req[r].pc = "password" /\ In(r).password /\ ~To(r).up
       \/ req[r].pc = "install" /\ ~Connected(r)
    /\ Answers(r)
    /\ Only(r)

\* UpdateTunnel with the record made of the input.
Save(r) ==
    /\ req[r].pc = "save"
    /\ tun' = [host |-> In(r).host, key |-> req[r].key, hostKey |-> req[r].hostKey,
               tuning |-> In(r).tuning]
    /\ Goes(r, "apply")
    /\ UNCHANGED <<host, made, run, linked, calls, turns>>

ApplyOwn(r) ==
    /\ req[r].pc = "apply"
    /\ run' = [host |-> In(r).host, key |-> req[r].key, hostKey |-> req[r].hostKey,
               tuning |-> In(r).tuning]
    /\ linked' = FALSE /\ Answers(r)
    /\ UNCHANGED <<host, made, tun, calls, turns>>

\* applyTunnel restarts the tunnel process, which loads the tunnel that is stored then.
Apply(r) ==
    /\ req[r].pc = "apply"
    /\ run' = tun /\ linked' = FALSE
    /\ Answers(r)
    /\ UNCHANGED <<host, made, tun, calls, turns>>

-----------------------------------------------------------------------------
(* The tunnel process. *)

\* dial: the host shows the pinned host key and accepts the key.
Opens(t) == host[t.host].up /\ KeyOf(t.host) = t.hostKey /\ t.key \in host[t.host].accepts

Dial ==
    /\ run # NoTunnel /\ ~linked /\ Opens(run)
    /\ linked' = TRUE
    /\ UNCHANGED <<host, made, tun, run, req, calls, turns>>

-----------------------------------------------------------------------------
(* The hosts. *)

Turn(h, next) ==
    /\ turns < MaxTurns /\ turns' = turns + 1
    /\ host' = [host EXCEPT ![h] = next]
    /\ UNCHANGED <<tun, run, req, calls>>

\* A host fails or comes back; a connection to it is lost.
Flip(h) ==
    /\ Turn(h, [host[h] EXCEPT !.up = ~@])
    /\ linked' = (linked /\ run.host # h) /\ UNCHANGED made

\* It is installed again: with a new host key, and without the keys.
Reinstall(h) ==
    /\ Turn(h, [up |-> TRUE, installed |-> host[h].installed + 1, accepts |-> {}])
    /\ linked' = (linked /\ run.host # h) /\ UNCHANGED made

\* Its operator installs a key pair of their own.
Authorise(h) ==
    /\ made # Keys /\ made' = made \cup {NewKey}
    /\ Turn(h, [host[h] EXCEPT !.accepts = @ \cup {NewKey}])
    /\ UNCHANGED linked

-----------------------------------------------------------------------------
Resolve(r) == Keep(r) \/ Generate(r) \/ Install(r) \/ Try(r) \/ ResolveFails(r)
Handle(r)  == Resolve(r) \/ Save(r) \/ Apply(r)

Next ==
    \/ \E r \in Requests : Handle(r)
    \/ \E r \in Requests, h \in Hosts, given \in Given, tuning \in Tunings \cup Shown :
           Begin(r, h, given, tuning)
    \/ Dial
    \/ \E h \in Hosts : Flip(h) \/ Reinstall(h) \/ Authorise(h)

Spec == Init /\ [][Next]_vars

\* Every handler goes on, and a worker dials until it is connected.
FairSpec == Spec /\ WF_vars(Dial) /\ \A r \in Requests : WF_vars(Handle(r))

-----------------------------------------------------------------------------
(* Properties. *)

\* The variables have their types, and the tunnel process works within its limits whatever
\* numbers were sent.
CredentialsTypeOK ==
    /\ host \in [Hosts -> Host] /\ made \subseteq Keys
    /\ tun \in Tunnel \cup {NoTunnel} /\ run \in Tunnel \cup {NoTunnel}
    /\ run # NoTunnel => WithinLimits(Runner(run.tuning))
    /\ linked \in BOOLEAN
    /\ \A r \in Requests :
           /\ req[r].pc \in {"idle", "password", "key", "install", "save", "apply"}
           /\ req[r].key \in Keys \cup {NoKey} /\ req[r].hostKey \in HostKey \cup {NoHostKey}
           /\ req[r].old \in Tunnel \cup {NoTunnel}
    /\ calls \in 0..MaxCalls /\ turns \in 0..MaxTurns

\* The stored key opens the stored host: the pinned host key is one of that host, and as long as
\* the host has not been installed again since, it accepts the key.  Whatever requests ran at
\* once, and wherever one of them failed.
StoredKeyOpensHost ==
    tun # NoTunnel =>
        /\ tun.hostKey[1] = tun.host
        /\ tun.hostKey = KeyOf(tun.host) => tun.key \in host[tun.host].accepts

\* An update that sends back what the panel showed, which never includes the key, stores the
\* same key and the same numbers again.
ResendingChangesNothing ==
    \A r \in Requests :
        /\ req[r].pc = "save" /\ Old(r) # NoTunnel
        /\ ~In(r).password /\ In(r).key = NoKey
        => req[r].key = Old(r).key /\ (Normalised(Old(r).tuning) = Old(r).tuning)

\* A stored tunnel whose host stays up and is not installed again comes up in the end.
TunnelComesUp ==
    <>[](tun # NoTunnel /\ host[tun.host].up /\ tun.hostKey = KeyOf(tun.host)) => <>[]linked
=============================================================================
