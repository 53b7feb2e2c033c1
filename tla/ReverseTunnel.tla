--------------------------- MODULE ReverseTunnel ---------------------------
(***************************************************************************)
(* Tunnels in reverse mode: the requests of the panel down to every        *)
(* command of ReverseManager (internal/tunnel/reverse.go).  Setting one up *)
(* changes authorized_keys, sshd and iptables on this host and files and   *)
(* units on a host abroad, without a lock, and any command can be the last *)
(* one that succeeds.  A connector abroad can log in here if its key is in *)
(* authorized_keys.  Each tunnel has forwards of its own, which no update  *)
(* changes; how requests use the store is the subject of Panel.            *)
(***************************************************************************)
EXTENDS Naturals

CONSTANTS
    Ids,            \* tunnel ids
    Reqs,           \* requests in flight
    Hosts,          \* hosts abroad (RemoteHost)
    Users,          \* accounts on this host (IranUser)
    Cfgs,           \* the settings buildUnit writes into the connector's unit
    Keys,           \* keys GenerateKey returns; each once
    Nil,            \* no tunnel, no unit, no key, no process
    BlankPasswords, \* whether updates may leave the password blank
    Avoided,        \* overlaps the panel's users avoid: "tunnel", two requests on one tunnel,
                    \* and "delete", a delete beside any other request
    MaxFaults       \* bound: failures, crashes and reboots in a behaviour

Tunnel == [host : Hosts, user : Users, cfg : Cfgs, enabled : BOOLEAN, key : Keys \cup {Nil}]
Line   == [id : Ids, key : Keys]
Unit   == [user : Users, cfg : Cfgs]

ASSUME NilAssumption == Nil \notin Tunnel \cup Unit \cup Ids \cup Keys
ASSUME ReverseAssumption ==
    BlankPasswords \in BOOLEAN /\ Avoided \subseteq {"tunnel", "delete"} /\ MaxFaults \in Nat

VARIABLES
    rec,     \* the tunnels of the store
    req,     \* a request: its next command, its kind, its tunnel's id and copy, and the lines
             \* of authorized_keys it has read and will write back
    auth,    \* authorized_keys of each account, as the lines the program added
    gateway, \* whether sshd's GatewayPorts is effective
    chains,  \* tunnels whose ports are counted by iptables
    abroad,  \* key file, unit file, unit loaded by systemd, boot link and process abroad
    usedIds, usedKeys,
    settled, \* auxiliary: tunnels whose last request applied them and was answered with success
    acked,   \* auxiliary: tunnels whose delete could open authorized_keys and was answered
    torn,    \* auxiliary: authorized_keys was truncated and never written
    faults

hereVars == <<auth, gateway, chains>>
usedVars == <<usedIds, usedKeys>>
auxVars  == <<settled, acked, torn>>
vars     == <<rec, req, hereVars, abroad, usedVars, auxVars, faults>>

\* What buildUnit makes of a tunnel.
UnitOf(t) == [user |-> t.user, cfg |-> t.cfg]

Idle    == [pc |-> "idle", op |-> "none", id |-> Nil, t |-> Nil, lines |-> {}]
Nothing == [key |-> Nil, unit |-> Nil, loaded |-> Nil, boot |-> FALSE, run |-> Nil]

Fault == faults < MaxFaults /\ faults' = faults + 1

Init ==
    /\ rec = [i \in Ids |-> Nil] /\ req = [r \in Reqs |-> Idle]
    /\ auth = [u \in Users |-> {}] /\ gateway = FALSE /\ chains = {}
    /\ abroad = [h \in Hosts |-> [i \in Ids |-> Nothing]]
    /\ usedIds = {} /\ usedKeys = {}
    /\ settled = {} /\ acked = {} /\ torn = FALSE /\ faults = 0

-----------------------------------------------------------------------------
(* The handlers of web.go, up to ReverseManager. *)

Busy(s) == req[s].pc # "idle"

\* The code orders no two requests; Avoided leaves out some of the overlaps.
Arrive(r, op, i, t, p) ==
    /\ ~Busy(r)
    /\ \A s \in Reqs : Busy(s) =>
          /\ "tunnel" \in Avoided => req[s].id # i
          /\ "delete" \in Avoided => "delete" \notin {op, req[s].op}
    /\ req' = [req EXCEPT ![r] = [pc |-> p, op |-> op, id |-> i, t |-> t, lines |-> {}]]
    /\ settled' = settled \ {i}
    /\ UNCHANGED <<hereVars, abroad, acked, torn, faults>>

\* The handler goes on to the command p.
Goto(r, p) == req' = [req EXCEPT ![r].pc = p]

\* The handler answers.
Answer(r) == req' = [req EXCEPT ![r] = Idle]

\* A key that GenerateKey returns.
Generated(k) == k \in Keys \ usedKeys /\ usedKeys' = usedKeys \cup {k}

\* resolveAuth in reverse mode: a stored key is kept and a missing one generated, but a blank
\* password returns before that, with the key of the new record still empty.
ReverseKey(k, existing, blank) ==
    IF ~blank /\ existing # Nil THEN k = existing /\ UNCHANGED usedKeys
    ELSE IF blank THEN k = Nil /\ UNCHANGED usedKeys
    ELSE Generated(k)

\* handleCreate, from the moment the new tunnel is saved.
Create(r, i) == \E t \in Tunnel :
    /\ i \notin usedIds /\ ReverseKey(t.key, Nil, FALSE)
    /\ usedIds' = usedIds \cup {i}
    /\ rec' = [rec EXCEPT ![i] = t]
    /\ Arrive(r, "create", i, t, "authorize")

\* handleUpdate: the new record is built from the input; only keys come from the stored one.
Update(r, i) == \E t \in Tunnel, blank \in {BlankPasswords, FALSE} :
    /\ rec[i] # Nil /\ ReverseKey(t.key, rec[i].key, blank)
    /\ Arrive(r, "update", i, t, "save")
    /\ UNCHANGED <<rec, usedIds>>

\* handleAction "start" and "stop".
StartStop(r, i) == \E on \in BOOLEAN :
    /\ rec[i] # Nil
    /\ Arrive(r, "action", i, [rec[i] EXCEPT !.enabled = on], "save")
    /\ UNCHANGED <<rec, usedVars>>

RestartUnchecked(r, i) ==
    /\ Arrive(r, "restart", i, rec[i], "restart")
    /\ UNCHANGED <<rec, usedVars>>

\* handleAction "restart": no save, but a command abroad.
Restart(r, i) ==
    /\ rec[i] # Nil
    /\ Arrive(r, "restart", i, rec[i], "restart")
    /\ UNCHANGED <<rec, usedVars>>

Delete(r, i) ==
    /\ rec[i] # Nil
    /\ Arrive(r, "delete", i, rec[i], "rmAbroad")
    /\ UNCHANGED <<rec, usedVars>>

\* Any of these for an id without a tunnel is answered 404.
NotFound(r, i) == ~Busy(r) /\ rec[i] = Nil /\ UNCHANGED vars

\* UpdateTunnel: a tunnel deleted meanwhile ends an update, and start and stop go on.
Save(r) ==
    /\ req[r].pc = "save"
    /\ LET stored == rec[req[r].id] # Nil IN
        /\ rec' = IF stored THEN [rec EXCEPT ![req[r].id] = req[r].t] ELSE rec
        /\ IF stored \/ req[r].op = "action" THEN Goto(r, "authorize") ELSE Answer(r)
    /\ UNCHANGED <<hereVars, abroad, usedVars, auxVars, faults>>

-----------------------------------------------------------------------------
(* ReverseManager.Apply. *)

\* One command of a request that changes only what its own action says.
Command(r, p) == req[r].pc = p /\ UNCHANGED <<rec, usedVars, acked, torn>>

InstalledByName(i, t) == \E l \in auth[t.user] : l.id = i
Installed(i, t) == \E l \in auth[t.user] : l.key = t.key

\* ensureIranAuthorizedKey: the stored key must parse; the file is read.
Authorize(r) ==
    /\ Command(r, "authorize")
    /\ IF req[r].t.key = Nil THEN Answer(r)
       ELSE Goto(r, IF Installed(req[r].id, req[r].t) THEN "gateway" ELSE "append")
    /\ UNCHANGED <<hereVars, abroad, settled, faults>>

\* O_APPEND: the line goes behind whatever the file holds by now.
Append(r) ==
    /\ Command(r, "append") /\ Goto(r, "gateway")
    /\ auth' = [auth EXCEPT ![req[r].t.user] = @ \cup {[id |-> req[r].id, key |-> req[r].t.key]}]
    /\ UNCHANGED <<gateway, chains, abroad, settled, faults>>

\* ensureGatewayPorts, by the drop-in file or the main one.
GatewayPorts(r) ==
    /\ Command(r, "gateway") /\ Goto(r, "chains")
    /\ gateway' = TRUE
    /\ UNCHANGED <<auth, chains, abroad, settled, faults>>

\* iptEnsure for each forward; it changes nothing that is there, and ignores errors.
EnsureChains(r) ==
    /\ Command(r, "chains") /\ Goto(r, "key")
    /\ \/ chains' = chains \cup {req[r].id} /\ UNCHANGED faults
       \/ Fault /\ UNCHANGED chains
    /\ UNCHANGED <<auth, gateway, abroad, settled>>

\* The host and the entry that a request's commands abroad are about.
Remote(r, p, q, fields) ==
    /\ Command(r, p)
    /\ IF q = "idle" THEN Answer(r) ELSE Goto(r, q)
    /\ abroad' = [abroad EXCEPT ![req[r].t.host][req[r].id] = fields]
    /\ UNCHANGED <<hereVars, faults>>

Here(r) == abroad[req[r].t.host][req[r].id]

WriteKey(r) ==
    Remote(r, "key", "unit", [Here(r) EXCEPT !.key = req[r].t.key]) /\ UNCHANGED settled

WriteUnit(r) ==
    Remote(r, "unit", "reload", [Here(r) EXCEPT !.unit = UnitOf(req[r].t)]) /\ UNCHANGED settled

\* systemd abroad reads the unit files again.
Reloaded(h) == [i \in Ids |-> [abroad[h][i] EXCEPT !.loaded = abroad[h][i].unit]]

Reload(r) ==
    /\ Command(r, "reload") /\ Goto(r, IF req[r].t.enabled THEN "start" ELSE "stop")
    /\ abroad' = [abroad EXCEPT ![req[r].t.host] = Reloaded(req[r].t.host)]
    /\ UNCHANGED <<hereVars, settled, faults>>

\* systemctl enable --now && systemctl restart: an error for a unit that another request has
\* removed.
Start(r) ==
    /\ Remote(r, "start", "idle", IF Here(r).unit = Nil THEN Here(r)
                                  ELSE [Here(r) EXCEPT !.boot = TRUE, !.run = Here(r).loaded])
    /\ settled' = settled \cup {i \in {req[r].id} : Here(r).unit # Nil}

\* The command line breaks off: the unit is enabled, and restarted or not.
StartBreaksOff(r) ==
    /\ Command(r, "start") /\ Here(r).unit # Nil /\ Fault /\ Answer(r)
    /\ \E run \in {Here(r).run, Here(r).loaded} :
          abroad' = [abroad EXCEPT ![req[r].t.host][req[r].id] =
                        [Here(r) EXCEPT !.boot = TRUE, !.run = run]]
    /\ UNCHANGED <<hereVars, settled>>

\* systemctl disable --now, whose error is ignored: success either way.
Stop(r) ==
    /\ settled' = settled \cup {req[r].id}
    /\ \/ Remote(r, "stop", "idle", [Here(r) EXCEPT !.boot = FALSE, !.run = Nil])
       \/ /\ Command(r, "stop") /\ Fault /\ Answer(r)
          /\ UNCHANGED <<hereVars, abroad>>

\* kharejCtl "restart", which needs a loaded unit.
RestartAbroad(r) ==
    /\ Remote(r, "restart", "idle", [Here(r) EXCEPT !.run = Here(r).loaded])
    /\ UNCHANGED settled

\* Any other command may fail, or its host be out of reach: the request ends with an error.
\* (One that works and whose answer is lost is one that works before the next one fails.)
CommandFails(r) ==
    /\ \E p \in {"append", "gateway", "key", "unit", "reload", "start", "restart"} :
          Command(r, p)
    /\ Fault /\ Answer(r)
    /\ UNCHANGED <<hereVars, abroad, settled>>

-----------------------------------------------------------------------------
(* ReverseManager.Remove, and the end of handleDelete. *)

\* One command line disables the unit, removes the files and reloads; if the host is out of
\* reach everything stays, and nobody is told.
RemoveAbroad(r) ==
    /\ Command(r, "rmAbroad") /\ Goto(r, "rmChains")
    /\ \/ LET h == req[r].t.host IN
            /\ abroad' = [abroad EXCEPT ![h] = [Reloaded(h) EXCEPT ![req[r].id] = Nothing]]
            /\ UNCHANGED faults
       \/ Fault /\ UNCHANGED abroad
    /\ UNCHANGED <<hereVars, settled>>

\* iptRemove for each forward, which ignores errors.
RemoveChains(r) ==
    /\ Command(r, "rmChains") /\ Goto(r, "rmRead")
    /\ \/ chains' = chains \ {req[r].id} /\ UNCHANGED faults
       \/ Fault /\ UNCHANGED chains
    /\ UNCHANGED <<auth, gateway, abroad, settled>>

KeptOtherKeys(lines, i, t) == {l \in lines : l.id # i \/ l.key # t.key}

\* The lines without the tunnel's name in the comment.
Kept(lines, i, t) == {l \in lines : l.id # i}

\* removeIranAuthorizedKey reads the file ...
ReadLines(r) ==
    /\ Command(r, "rmRead")
    /\ req' = [req EXCEPT ![r].pc = "rmTruncate",
                          ![r].lines = Kept(auth[req[r].t.user], req[r].id, req[r].t)]
    /\ UNCHANGED <<hereVars, abroad, settled, faults>>

\* ... truncates it, or cannot open it for writing and leaves it as it is ...
Truncate(r) ==
    /\ Command(r, "rmTruncate")
    /\ \/ /\ Goto(r, "rmWrite")
          /\ auth' = [auth EXCEPT ![req[r].t.user] = {}] /\ UNCHANGED faults
       \/ Goto(r, "forgetOnly") /\ Fault /\ UNCHANGED auth
    /\ UNCHANGED <<gateway, chains, abroad, settled>>

\* ... and writes from offset 0, over whatever was appended in between.  Errors are ignored.
WriteLines(r) ==
    /\ req[r].pc = "rmWrite" /\ Goto(r, "forget")
    /\ \/ auth' = [auth EXCEPT ![req[r].t.user] = req[r].lines] /\ UNCHANGED <<torn, faults>>
       \/ Fault /\ torn' = TRUE /\ UNCHANGED auth
    /\ UNCHANGED <<rec, gateway, chains, abroad, usedVars, settled, acked>>

\* DeleteTunnel; a second delete finds no tunnel and answers an error.
Forget(r) ==
    /\ req[r].pc \in {"forget", "forgetOnly"} /\ Answer(r)
    /\ rec' = [rec EXCEPT ![req[r].id] = Nil]
    /\ acked' = acked \cup {i \in {req[r].id} : req[r].pc = "forget"}
    /\ UNCHANGED <<hereVars, abroad, usedVars, settled, torn, faults>>

-----------------------------------------------------------------------------
(* The environment. *)

\* The panel is killed and started again.
Crash ==
    /\ Fault
    /\ req' = [r \in Reqs |-> Idle]
    /\ torn' = (torn \/ \E r \in Reqs : req[r].pc = "rmWrite")
    /\ UNCHANGED <<rec, hereVars, abroad, usedVars, settled, acked>>

\* A host abroad restarts: the enabled connectors start.
RebootAbroad(h) ==
    /\ Fault
    /\ abroad' = [abroad EXCEPT ![h] = [i \in Ids |->
          [Reloaded(h)[i] EXCEPT !.run = IF abroad[h][i].boot THEN abroad[h][i].unit ELSE Nil]]]
    /\ UNCHANGED <<rec, req, hereVars, usedVars, auxVars>>

Request(r, i) ==
    \/ Create(r, i) \/ Update(r, i) \/ StartStop(r, i) \/ Restart(r, i) \/ Delete(r, i)
    \/ NotFound(r, i)

Apply(r) ==
    \/ Authorize(r) \/ Append(r) \/ GatewayPorts(r) \/ EnsureChains(r) \/ WriteKey(r)
    \/ WriteUnit(r) \/ Reload(r) \/ Start(r) \/ StartBreaksOff(r) \/ Stop(r)

Remove(r) ==
    RemoveAbroad(r) \/ RemoveChains(r) \/ ReadLines(r) \/ Truncate(r) \/ WriteLines(r)

Next ==
    \/ \E r \in Reqs, i \in Ids : Request(r, i)
    \/ \E r \in Reqs : \/ Save(r) \/ Apply(r) \/ RestartAbroad(r) \/ CommandFails(r)
                       \/ Remove(r) \/ Forget(r)
    \/ Crash
    \/ \E h \in Hosts : RebootAbroad(h)

Spec == Init /\ [][Next]_vars

-----------------------------------------------------------------------------
(* Properties. *)

RemovePcs == {"rmAbroad", "rmChains", "rmRead", "rmTruncate", "rmWrite", "forget",
              "forgetOnly"}
ReqPcs == RemovePcs \cup {"idle", "save", "authorize", "append", "gateway", "chains", "key",
                         "unit", "reload", "start", "stop", "restart"}
Ops == {"none", "create", "update", "action", "restart", "delete"}

\* The variables have their types, and a request in flight has a tunnel.
TypeOK ==
    /\ rec \in [Ids -> Tunnel \cup {Nil}]
    /\ req \in [Reqs -> [pc : ReqPcs, op : Ops, id : Ids \cup {Nil}, t : Tunnel \cup {Nil},
                         lines : SUBSET Line]]
    /\ \A r \in Reqs : Busy(r) => req[r].id \in Ids /\ req[r].t \in Tunnel
    /\ auth \in [Users -> SUBSET Line] /\ gateway \in BOOLEAN /\ chains \subseteq Ids
    /\ abroad \in [Hosts -> [Ids ->
          [key : Keys \cup {Nil}, unit : Unit \cup {Nil}, loaded : Unit \cup {Nil},
           boot : BOOLEAN, run : Unit \cup {Nil}]]]
    /\ usedIds \subseteq Ids /\ usedKeys \subseteq Keys
    /\ settled \subseteq Ids /\ acked \subseteq Ids /\ torn \in BOOLEAN
    /\ faults \in 0..MaxFaults

Rewriting == \E r \in Reqs : req[r].pc = "rmWrite"

\* The connector of tunnel i on host h can log in here.
CanLogIn(h, i) == \E u \in Users, c \in Cfgs :
    /\ abroad[h][i].run = [user |-> u, cfg |-> c]
    /\ [id |-> i, key |-> abroad[h][i].key] \in auth[u]

\* An Apply that is answered with success leaves the whole of the setup behind, whatever state
\* earlier failures, crashes and older versions of the tunnel left, and it stays until the next
\* request on the tunnel, through reboots abroad and concurrent applies of other tunnels.
AppliedIsComplete ==
    ~torn /\ ~Rewriting =>
        \A i \in settled :
            LET t == rec[i]  a == abroad[t.host][i] IN
            /\ [id |-> i, key |-> t.key] \in auth[t.user] /\ gateway
            /\ faults = 0 => i \in chains
            /\ a.key = t.key /\ a.loaded = UnitOf(t)
            /\ t.enabled => a.boot /\ a.run = UnitOf(t)
            /\ ~t.enabled /\ faults = 0 => a.run = Nil

\* Once a delete that could open authorized_keys was answered no connector of the tunnel can log
\* in any more, not even one on a host that was out of reach, or on the host of an earlier
\* version of the tunnel.
DeletedCannotLogIn ==
    \A i \in acked, h \in Hosts : ~CanLogIn(h, i)

\* reverse.go:32: "Apply performs the full reverse setup: Iran-side authorized_keys ...".  The
\* key of a tunnel whose last request was an Apply is in authorized_keys, if nothing failed.
AppliedKeyIsThere ==
    faults = 0 /\ ~Rewriting =>
        \A i \in settled : [id |-> i, key |-> rec[i].key] \in auth[rec[i].user]
=============================================================================
