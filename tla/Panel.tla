------------------------------- MODULE Panel -------------------------------
(***************************************************************************)
(* The panel's tunnel requests (internal/web/web.go) over the store, the   *)
(* unit manager (internal/tunnel/manager.go) and systemd.  net/http runs   *)
(* every request in a goroutine of its own and nothing but the store's     *)
(* mutex orders two of them: a handler keeps the copy of the tunnel it     *)
(* read first, and each systemctl call is a step of its own.  systemd, the *)
(* tunnel processes and the host abroad are modelled as their effects on   *)
(* unit files, boot links and running processes.                           *)
(***************************************************************************)
EXTENDS Store, Naturals, FiniteSets

CONSTANTS
    Reqs,       \* requests in flight
    MaySwitch,  \* whether an update may change the mode of a tunnel
    MaxFaults   \* bound: failures and crashes in a behaviour

\* The settings a process runs are none of the other states of a process.
ASSUME PanelAssumption ==
    MaySwitch \in BOOLEAN /\ MaxFaults \in Nat /\ Cfgs \cap {"off", "starting"} = {}

VARIABLES
    pc,       \* next step of a request
    op,       \* what it does
    rid,      \* its tunnel id
    cp,       \* its copy of the tunnel
    file,     \* unit file written in /etc/systemd/system
    loaded,   \* the unit systemd has loaded from it
    boot,     \* unit enabled at boot
    run,      \* the unit's process: "off", "starting", or the settings it runs
    rev,      \* unit of the connector on the host abroad: "none", "off", "on"
    overlap,  \* auxiliary: two requests have been in flight at once
    acked,    \* auxiliary: ids whose delete was answered with success
    faults

reqVars  == <<pc, op, rid, cp>>
unitVars == <<file, loaded, boot, run, rev>>
auxVars  == <<overlap, acked>>
vars     == <<storeVars, reqVars, unitVars, auxVars, faults>>

ReqPcs == {"idle", "auth", "rollback", "save", "write", "reload", "enable", "start",
           "disable", "stop", "rmStop", "rmDisable", "rmFile", "rmReload", "rmRev",
           "forget", "restart", "revApply", "revRestart"}
Ops == {"none", "create", "update", "delete", "start", "stop", "restart"}

Fault == faults < MaxFaults /\ faults' = faults + 1
Placeholder == [cfg |-> Blank, mode |-> "local", enabled |-> FALSE]

Goto(r, q) == pc' = [pc EXCEPT ![r] = q] /\ UNCHANGED <<op, rid, cp>>

Arrive(r, o, i, t, q) ==
    /\ pc[r] = "idle"
    /\ pc' = [pc EXCEPT ![r] = q] /\ op' = [op EXCEPT ![r] = o]
    /\ rid' = [rid EXCEPT ![r] = i] /\ cp' = [cp EXCEPT ![r] = t]
    /\ overlap' = (overlap \/ \E s \in Reqs : pc[s] # "idle")
    /\ UNCHANGED acked

\* The handler writes its answer; its copy is dropped.
Answer(r) ==
    /\ pc' = [pc EXCEPT ![r] = "idle"] /\ op' = [op EXCEPT ![r] = "none"]
    /\ rid' = [rid EXCEPT ![r] = NoTunnel] /\ cp' = [cp EXCEPT ![r] = NoTunnel]

\* Whether a flush succeeds; one that fails is a fault.
Saves(ok) == IF ok THEN UNCHANGED faults ELSE Fault

ApplyStep(t) == IF t.mode = "reverse" THEN "revApply" ELSE "write"

PanelInit ==
    /\ StoreInit
    /\ pc = [r \in Reqs |-> "idle"] /\ op = [r \in Reqs |-> "none"]
    /\ rid = [r \in Reqs |-> NoTunnel] /\ cp = [r \in Reqs |-> NoTunnel]
    /\ file = [i \in Ids |-> FALSE] /\ loaded = [i \in Ids |-> FALSE]
    /\ boot = [i \in Ids |-> FALSE] /\ run = [i \in Ids |-> "off"]
    /\ rev = [i \in Ids |-> "none"]
    /\ overlap = FALSE /\ acked = {} /\ faults = 0

-----------------------------------------------------------------------------
(* The handlers, up to applyTunnel and removeTunnel. *)

\* handleCreate: a placeholder takes an id; the copy gets the validated input.
Create(r, i, ok) == \E t \in Tunnel :
    /\ t.cfg # Blank
    /\ AddTunnel(i, Placeholder, ok) /\ Saves(ok)
    /\ IF ok THEN Arrive(r, "create", i, t, "auth")
             ELSE pc[r] = "idle" /\ UNCHANGED <<reqVars, auxVars>>
    /\ UNCHANGED unitVars

\* handleUpdate: the new record is built from the input alone.
Update(r, i) == \E t \in Tunnel :
    /\ mem[i] # NoTunnel /\ t.cfg # Blank
    /\ MaySwitch \/ mem[i].cfg = Blank \/ t.mode = mem[i].mode
    /\ Arrive(r, "update", i, t, "auth")
    /\ UNCHANGED <<storeVars, unitVars, faults>>

\* resolveAuth: reaches the host abroad, which may take long or fail.
ResolveAuth(r) ==
    /\ pc[r] = "auth"
    /\ \/ Goto(r, "save")
       \/ IF op[r] = "create" THEN Goto(r, "rollback") ELSE Answer(r)
    /\ UNCHANGED <<storeVars, unitVars, auxVars, faults>>

RollbackForgotten(r, ok) ==
    /\ pc[r] = "rollback" /\ ok
    /\ Answer(r)
    /\ UNCHANGED <<storeVars, unitVars, auxVars, faults>>

\* "roll back the placeholder", whose error is ignored.
Rollback(r, ok) ==
    /\ pc[r] = "rollback"
    /\ IF Stored(rid[r]) THEN DeleteTunnel(rid[r], ok) /\ Saves(ok)
                         ELSE ok /\ UNCHANGED <<storeVars, faults>>
    /\ Answer(r)
    /\ UNCHANGED <<unitVars, auxVars>>

SaveUnchecked(r, ok) ==
    /\ pc[r] = "save" /\ ok
    /\ Flush([mem EXCEPT ![rid[r]] = cp[r]], ok)
    /\ Goto(r, ApplyStep(cp[r]))
    /\ UNCHANGED <<used, gone, unitVars, auxVars, faults>>

\* UpdateTunnel with the request's copy.  Its error ends create and update, and start and
\* stop ignore it.
Save(r, ok) ==
    /\ pc[r] = "save"
    /\ IF Stored(rid[r]) THEN UpdateTunnel(rid[r], cp[r], ok) /\ Saves(ok)
                         ELSE ~ok /\ UNCHANGED <<storeVars, faults>>
    /\ IF ok \/ op[r] \in {"start", "stop"} THEN Goto(r, ApplyStep(cp[r])) ELSE Answer(r)
    /\ UNCHANGED <<unitVars, auxVars>>

\* handleDelete: removeTunnel with the copy it read.
Delete(r, i) ==
    /\ mem[i] # NoTunnel
    /\ Arrive(r, "delete", i, mem[i], IF mem[i].mode = "reverse" THEN "rmRev" ELSE "rmStop")
    /\ UNCHANGED <<storeVars, unitVars, faults>>

\* handleAction "start" and "stop": the record as read, with Enabled changed.
StartStop(r, i) == \E on \in BOOLEAN :
    /\ mem[i] # NoTunnel
    /\ Arrive(r, IF on THEN "start" ELSE "stop", i, [mem[i] EXCEPT !.enabled = on], "save")
    /\ UNCHANGED <<storeVars, unitVars, faults>>

\* handleAction "restart", whatever Enabled says.
Restart(r, i) ==
    /\ mem[i] # NoTunnel
    /\ Arrive(r, "restart", i, mem[i],
              IF mem[i].mode = "reverse" THEN "revRestart" ELSE "restart")
    /\ UNCHANGED <<storeVars, unitVars, faults>>

\* Any of these for an id without a tunnel is answered 404.
NotFound(r, i) == pc[r] = "idle" /\ mem[i] = NoTunnel /\ UNCHANGED vars

-----------------------------------------------------------------------------
(* Manager.Apply, Manager.Remove and Manager.Restart: one step per call. *)

\* A call that fails ends the request with an error.
CallFails(r) ==
    /\ pc[r] \in {"write", "reload", "enable", "start", "stop", "restart", "revApply",
                  "revRestart"}
    /\ Fault /\ Answer(r)
    /\ UNCHANGED <<storeVars, unitVars, auxVars>>

\* The error of disable, and of every call of Remove, is ignored.
CallIgnored(r) == \E p \in {<<"disable", "stop">>, <<"rmStop", "rmDisable">>,
                            <<"rmDisable", "rmFile">>, <<"rmFile", "rmReload">>,
                            <<"rmReload", "forget">>} :
    /\ pc[r] = p[1] /\ Fault /\ Goto(r, p[2])
    /\ UNCHANGED <<storeVars, unitVars, auxVars>>

\* The request makes the call at p and goes on to q.
Step(r, p, q) ==
    /\ pc[r] = p
    /\ IF q = "idle" THEN Answer(r) ELSE Goto(r, q)
    /\ UNCHANGED <<storeVars, auxVars, faults>>

WriteUnit(r) ==
    /\ Step(r, "write", "reload")
    /\ file' = [file EXCEPT ![rid[r]] = TRUE]
    /\ UNCHANGED <<loaded, boot, run, rev>>

\* daemon-reload makes systemd read every unit file again.
Reload(r) ==
    /\ \/ Step(r, "reload", IF cp[r].enabled THEN "enable" ELSE "disable")
       \/ Step(r, "rmReload", "forget")
    /\ loaded' = file
    /\ UNCHANGED <<file, boot, run, rev>>

\* systemctl enable needs the file.
Enable(r) ==
    /\ Step(r, "enable", IF file[rid[r]] THEN "start" ELSE "idle")
    /\ boot' = [boot EXCEPT ![rid[r]] = @ \/ file[rid[r]]]
    /\ UNCHANGED <<file, loaded, run, rev>>

StartIfStopped(r) ==
    /\ Step(r, "start", "idle") \/ Step(r, "restart", "idle")
    /\ run' = [run EXCEPT ![rid[r]] = IF @ = "off" THEN "starting" ELSE @]
    /\ UNCHANGED <<file, loaded, boot, rev>>

\* systemctl restart, of Apply and of the restart action: a unit neither loaded nor on disk
\* is an error.
RestartUnit(r) ==
    /\ Step(r, "start", "idle") \/ Step(r, "restart", "idle")
    /\ run' = [run EXCEPT ![rid[r]] = IF file[rid[r]] \/ loaded[rid[r]] THEN "starting" ELSE @]
    /\ UNCHANGED <<file, loaded, boot, rev>>

Disable(r) ==
    /\ Step(r, "disable", "stop") \/ Step(r, "rmDisable", "rmFile")
    /\ boot' = [boot EXCEPT ![rid[r]] = FALSE]
    /\ UNCHANGED <<file, loaded, run, rev>>

Stop(r) ==
    /\ Step(r, "stop", "idle") \/ Step(r, "rmStop", "rmDisable")
    /\ run' = [run EXCEPT ![rid[r]] = "off"]
    /\ UNCHANGED <<file, loaded, boot, rev>>

RemoveFile(r) ==
    /\ Step(r, "rmFile", "rmReload")
    /\ file' = [file EXCEPT ![rid[r]] = FALSE]
    /\ UNCHANGED <<loaded, boot, run, rev>>

\* handleDelete: the store comes last.
Forget(r, ok) ==
    /\ pc[r] = "forget"
    /\ IF Stored(rid[r]) THEN DeleteTunnel(rid[r], ok) /\ Saves(ok)
                         ELSE ~ok /\ UNCHANGED <<storeVars, faults>>
    /\ acked' = IF ok THEN acked \cup {rid[r]} ELSE acked
    /\ Answer(r)
    /\ UNCHANGED <<unitVars, overlap>>

-----------------------------------------------------------------------------
(* ReverseManager, as far as the panel's own state is concerned. *)

RevApply(r) ==
    /\ Step(r, "revApply", "idle")
    /\ rev' = [rev EXCEPT ![rid[r]] = IF cp[r].enabled THEN "on" ELSE "off"]
    /\ UNCHANGED <<file, loaded, boot, run>>

RevRestart(r) ==
    /\ Step(r, "revRestart", "idle")
    /\ rev' = [rev EXCEPT ![rid[r]] = IF @ = "none" THEN @ ELSE "on"]
    /\ UNCHANGED <<file, loaded, boot, run>>

\* Remove; a host that cannot be reached keeps its connector, and nobody is told.
RevRemove(r) ==
    /\ pc[r] = "rmRev" /\ Goto(r, "forget")
    /\ \/ rev' = [rev EXCEPT ![rid[r]] = "none"] /\ UNCHANGED faults
       \/ Fault /\ UNCHANGED rev
    /\ UNCHANGED <<storeVars, auxVars, file, loaded, boot, run>>

-----------------------------------------------------------------------------
(* Processes. *)

RunnerLoadsPlaceholder(i) ==
    /\ run[i] = "starting" /\ disk[i] # NoTunnel
    /\ run' = [run EXCEPT ![i] = disk[i].cfg]
    /\ UNCHANGED <<storeVars, reqVars, file, loaded, boot, rev, auxVars, faults>>

\* run-tunnel reads the store from disk; without a tunnel or forwards it exits, and systemd
\* starts it again.
RunnerLoads(i) ==
    /\ run[i] = "starting" /\ disk[i] # NoTunnel /\ disk[i].cfg # Blank
    /\ run' = [run EXCEPT ![i] = disk[i].cfg]
    /\ UNCHANGED <<storeVars, reqVars, file, loaded, boot, rev, auxVars, faults>>

\* The tunnel process ends; Restart=always.
RunnerEnds(i) ==
    /\ run[i] \in Cfgs
    /\ run' = [run EXCEPT ![i] = "starting"]
    /\ UNCHANGED <<storeVars, reqVars, file, loaded, boot, rev, auxVars, faults>>

NoRequests ==
    /\ pc' = [r \in Reqs |-> "idle"] /\ op' = [r \in Reqs |-> "none"]
    /\ rid' = [r \in Reqs |-> NoTunnel] /\ cp' = [r \in Reqs |-> NoTunnel]

\* The panel is killed and started again: requests are lost half way.
Crash ==
    /\ Fault /\ Reopen /\ NoRequests
    /\ UNCHANGED <<unitVars, auxVars>>

\* The machine restarts: the enabled units start.
Reboot ==
    /\ Fault /\ Reopen /\ NoRequests
    /\ loaded' = file
    /\ run' = [i \in Ids |-> IF boot[i] /\ file[i] THEN "starting" ELSE "off"]
    /\ UNCHANGED <<file, boot, rev, auxVars>>

-----------------------------------------------------------------------------
Request(r) == \E i \in Ids :
    Update(r, i) \/ Delete(r, i) \/ StartStop(r, i) \/ Restart(r, i) \/ NotFound(r, i)

Handle(r) ==
    \/ ResolveAuth(r) \/ CallFails(r) \/ CallIgnored(r)
    \/ WriteUnit(r) \/ Reload(r) \/ Enable(r)
    \/ RestartUnit(r) \/ Disable(r) \/ Stop(r) \/ RemoveFile(r)
    \/ RevApply(r) \/ RevRestart(r) \/ RevRemove(r)

HandleStore(r, ok) == Rollback(r, ok) \/ Save(r, ok) \/ Forget(r, ok)

PanelNext ==
    \/ \E r \in Reqs : Request(r) \/ Handle(r)
    \/ \E r \in Reqs, ok \in BOOLEAN : HandleStore(r, ok) \/ \E i \in Ids : Create(r, i, ok)
    \/ \E i \in Ids : RunnerLoads(i) \/ RunnerEnds(i)
    \/ Crash \/ Reboot

PanelSpec == PanelInit /\ [][PanelNext]_vars

-----------------------------------------------------------------------------
(* Properties. *)

Quiet == \A r \in Reqs : pc[r] = "idle"
IsLocal(t) == t # NoTunnel /\ t.mode = "local"

\* The variables have their types.
PanelTypeOK ==
    /\ StoreTypeOK
    /\ pc \in [Reqs -> ReqPcs] /\ op \in [Reqs -> Ops]
    /\ rid \in [Reqs -> Ids \cup {NoTunnel}] /\ cp \in [Reqs -> Tunnel \cup {NoTunnel}]
    /\ file \in [Ids -> BOOLEAN] /\ loaded \in [Ids -> BOOLEAN] /\ boot \in [Ids -> BOOLEAN]
    /\ run \in [Ids -> Cfgs \cup {"off", "starting"}]
    /\ rev \in [Ids -> {"none", "off", "on"}]
    /\ overlap \in BOOLEAN /\ acked \subseteq gone /\ faults \in 0..MaxFaults

\* When the requests are over, a tunnel's running process runs the settings that are stored:
\* it reads them from disk after the last save, in whatever order concurrent requests saved
\* and restarted it.  (Nothing failed, and the tunnel is still stored.)
RunsStoredSettings ==
    Quiet /\ faults = 0 =>
        \A i \in Ids : IsLocal(disk[i]) /\ run[i] \in Cfgs => run[i] = disk[i].cfg

\* As long as requests do not overlap and nothing fails, the units agree with the store when
\* a request is over: an enabled tunnel runs and starts at boot, a disabled one does not start
\* at boot, a deleted one left no unit, connector or process, and no placeholder is left.
SequentialAgreement ==
    Quiet /\ ~overlap /\ faults = 0 =>
        /\ mem = disk
        /\ \A i \in Ids :
            /\ mem[i] = NoTunnel => ~file[i] /\ ~boot[i] /\ run[i] = "off" /\ rev[i] = "none"
            /\ mem[i] # NoTunnel => mem[i].cfg # Blank
            /\ IsLocal(mem[i]) => boot[i] = mem[i].enabled
            /\ IsLocal(mem[i]) /\ mem[i].enabled => file[i] /\ run[i] # "off"
            /\ mem[i] # NoTunnel /\ ~IsLocal(mem[i]) /\ mem[i].enabled => rev[i] = "on"

\* manager.go:94: "Remove stops, disables, and deletes the unit".  Once a delete was answered
\* and no request is running, the tunnel has no running process and no boot link.
DeletedHasNoUnit ==
    Quiet /\ faults = 0 => \A i \in acked : run[i] = "off" /\ ~boot[i]
=============================================================================
