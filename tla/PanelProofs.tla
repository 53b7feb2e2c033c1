---------------------------- MODULE PanelProofs ----------------------------
(* The store keeps its promises whatever its callers do, and the panel is  *)
(* one of them, for any number of tunnels, settings and concurrent requests. *)
EXTENDS Panel, TLAPS

-----------------------------------------------------------------------------
(* The store, whatever its callers do, for any set of ids. *)

\* A deleted id has been handed out, so AddTunnel does not use it again, and it has no entry,
\* so UpdateTunnel does not find it.
StoreInv == StoreTypeOK /\ EntriesAreUsed /\ DeletedStaysDeleted

\* An empty store has it.
LEMMA StoreInitInv == StoreInit => StoreInv
BY DEF StoreInit, None, StoreInv, StoreTypeOK, EntriesAreUsed, DeletedStaysDeleted

\* Every call keeps it, whether or not its flush succeeds.
LEMMA StoreStepInv == StoreInv /\ [StoreNext]_storeVars => StoreInv'
<1> SUFFICES ASSUME StoreInv, [StoreNext]_storeVars PROVE StoreInv'
  OBVIOUS
<1> USE NoTunnelAssumption DEF StoreInv, StoreTypeOK, EntriesAreUsed, DeletedStaysDeleted, Flush
<1>1. ASSUME NEW i \in Ids, NEW ok \in BOOLEAN, NEW t \in Tunnel, AddTunnel(i, t, ok)
      PROVE StoreInv'
  BY <1>1 DEF AddTunnel
<1>2. ASSUME NEW i \in Ids, NEW ok \in BOOLEAN, NEW t \in Tunnel, UpdateTunnel(i, t, ok)
      PROVE StoreInv'
  BY <1>2 DEF UpdateTunnel, Stored
<1>3. ASSUME NEW i \in Ids, NEW ok \in BOOLEAN, DeleteTunnel(i, ok) PROVE StoreInv'
  BY <1>3 DEF DeleteTunnel, Stored
<1>4. CASE Reopen
  BY <1>4 DEF Reopen
<1>5. CASE UNCHANGED storeVars
  BY <1>5 DEF storeVars
<1> QED BY <1>1, <1>2, <1>3, <1>4, <1>5 DEF StoreNext

\* A deletion that was written is final (store.go:226-251).
THEOREM StoreDeletesForGood == StoreSpec => []DeletedStaysDeleted
<1>1. StoreInv => DeletedStaysDeleted
  BY DEF StoreInv
<1> QED BY <1>1, StoreInitInv, StoreStepInv, PTL DEF StoreSpec

-----------------------------------------------------------------------------
(* The invariant of the panel. *)

\* A request at work has a tunnel id and a copy of a tunnel.
ReqTypes ==
    /\ pc \in [Reqs -> ReqPcs] /\ op \in [Reqs -> Ops]
    /\ rid \in [Reqs -> Ids \cup {NoTunnel}] /\ cp \in [Reqs -> Tunnel \cup {NoTunnel}]
    /\ \A r \in Reqs : pc[r] # "idle" => rid[r] \in Ids /\ cp[r] \in Tunnel

UnitTypes ==
    /\ file \in [Ids -> BOOLEAN] /\ loaded \in [Ids -> BOOLEAN] /\ boot \in [Ids -> BOOLEAN]
    /\ run \in [Ids -> Cfgs \cup {"off", "starting"}]
    /\ rev \in [Ids -> {"none", "off", "on"}]

CountTypes == acked \subseteq gone /\ faults \in 0..MaxFaults

PanelInv == StoreInv /\ ReqTypes /\ UnitTypes /\ overlap \in BOOLEAN /\ CountTypes

-----------------------------------------------------------------------------
(* The first state. *)

\* The panel starts with no request, no unit and an empty store.
LEMMA PanelInitInv == PanelInit => PanelInv
<1> SUFFICES ASSUME PanelInit PROVE PanelInv
  OBVIOUS
<1>1. StoreInv
  BY StoreInitInv DEF PanelInit
<1>2. ReqTypes
  BY DEF PanelInit, ReqTypes, ReqPcs, Ops
<1>3. UnitTypes
  BY DEF PanelInit, UnitTypes
<1>4. overlap \in BOOLEAN
  BY Zenon DEF PanelInit
<1>5. CountTypes
  BY SMT, PanelAssumption DEF PanelInit, StoreInit, CountTypes
<1> QED BY <1>1, <1>2, <1>3, <1>4, <1>5 DEF PanelInv

-----------------------------------------------------------------------------
(* The store. *)

\* The calls that change the store.
StoreCall(r) ==
    \E ok \in BOOLEAN : HandleStore(r, ok) \/ \E i \in Ids : Create(r, i, ok)

\* Every other step of the panel leaves the store alone or opens it again.
LEMMA OtherSteps == ASSUME [PanelNext]_vars, ~\E r \in Reqs : StoreCall(r)
                    PROVE UNCHANGED storeVars \/ Reopen
<1>1. ASSUME NEW r \in Reqs, Request(r) PROVE UNCHANGED storeVars
  BY <1>1 DEF Request, Update, Delete, StartStop, Restart, NotFound, vars
<1>2. ASSUME NEW r \in Reqs, Handle(r) PROVE UNCHANGED storeVars
  BY <1>2 DEF Handle, ResolveAuth, CallFails, CallIgnored, WriteUnit, Reload, Enable,
      RestartUnit, Disable, Stop, RemoveFile, RevApply, RevRestart, RevRemove, Step
<1>3. ASSUME NEW i \in Ids, RunnerLoads(i) \/ RunnerEnds(i) PROVE UNCHANGED storeVars
  BY <1>3 DEF RunnerLoads, RunnerEnds
<1>4. CASE Crash \/ Reboot
  BY <1>4 DEF Crash, Reboot
<1>5. CASE UNCHANGED vars
  BY <1>5 DEF vars
<1> QED BY <1>1, <1>2, <1>3, <1>4, <1>5 DEF PanelNext, StoreCall

\* The placeholder of a create is a tunnel record.
LEMMA PlaceholderType == Placeholder \in Tunnel
BY ModesAssumption DEF Placeholder, Tunnel

\* Each of those calls is one call of the store.
LEMMA StoreCalls == ASSUME PanelInv, NEW r \in Reqs, StoreCall(r) PROVE [StoreNext]_storeVars
<1>1. ASSUME NEW ok \in BOOLEAN, HandleStore(r, ok) PROVE [StoreNext]_storeVars
  <2>1. pc[r] # "idle"
    BY <1>1 DEF HandleStore, Rollback, Save, Forget
  <2>2. rid[r] \in Ids /\ cp[r] \in Tunnel
    BY <2>1 DEF PanelInv, ReqTypes
  <2> QED BY <1>1, <2>2 DEF HandleStore, Rollback, Save, Forget, StoreNext, storeVars
<1>2. ASSUME NEW ok \in BOOLEAN, NEW i \in Ids, Create(r, i, ok) PROVE [StoreNext]_storeVars
  BY <1>2, PlaceholderType DEF Create, StoreNext
<1> QED BY <1>1, <1>2 DEF StoreCall

\* A step of the panel is a call of the store or leaves it alone.
LEMMA StepRefines == PanelInv /\ [PanelNext]_vars => [StoreNext]_storeVars
BY OtherSteps, StoreCalls DEF StoreNext

-----------------------------------------------------------------------------
(* The requests. *)

\* A request at work stays one with the same id and copy.
LEMMA GotoTypes == ASSUME ReqTypes, NEW r \in Reqs, NEW q \in ReqPcs, pc[r] # "idle", Goto(r, q)
                   PROVE ReqTypes'
BY DEF ReqTypes, Goto

\* An answered request is idle.
LEMMA AnswerTypes == ASSUME ReqTypes, NEW r \in Reqs, Answer(r) PROVE ReqTypes'
BY DEF ReqTypes, Answer, ReqPcs, Ops

\* A request that arrives has an id and a copy.
LEMMA ArriveTypes == ASSUME ReqTypes, NEW r \in Reqs, NEW o \in Ops, NEW i \in Ids,
                            NEW t \in Tunnel, NEW q \in ReqPcs, Arrive(r, o, i, t, q)
                     PROVE ReqTypes'
BY DEF ReqTypes, Arrive

\* Every step keeps the types of the requests.
LEMMA ReqStep == ASSUME PanelInv, [PanelNext]_vars PROVE ReqTypes'
<1>0. ReqTypes /\ StoreTypeOK
  BY DEF PanelInv, StoreInv
<1>1. ASSUME NEW r \in Reqs, Request(r) PROVE ReqTypes'
  <2> PICK i \in Ids : Update(r, i) \/ Delete(r, i) \/ StartStop(r, i) \/ Restart(r, i)
                       \/ NotFound(r, i)
    BY <1>1 DEF Request
  <2>0. mem[i] # NoTunnel => mem[i] \in Tunnel
    BY <1>0 DEF StoreTypeOK
  <2>1. CASE Update(r, i)
    BY <2>1, <1>0, ArriveTypes DEF Update, Ops, ReqPcs
  <2>2. CASE Delete(r, i)
    BY <2>0, <2>2, <1>0, ArriveTypes DEF Delete, Ops, ReqPcs
  <2>3. CASE StartStop(r, i)
    <3> PICK on \in BOOLEAN : Arrive(r, IF on THEN "start" ELSE "stop", i,
                                     [mem[i] EXCEPT !.enabled = on], "save")
      BY <2>3 DEF StartStop
    <3>1. [mem[i] EXCEPT !.enabled = on] \in Tunnel
      BY <2>0, <2>3 DEF StartStop, Tunnel
    <3> QED BY <3>1, <1>0, ArriveTypes DEF Ops, ReqPcs
  <2>4. CASE Restart(r, i)
    BY <2>0, <2>4, <1>0, ArriveTypes DEF Restart, Ops, ReqPcs
  <2>5. CASE NotFound(r, i)
    BY <2>5, <1>0 DEF NotFound, vars, reqVars, ReqTypes
  <2> QED BY <2>1, <2>2, <2>3, <2>4, <2>5
<1>2. ASSUME NEW r \in Reqs, StoreCall(r) PROVE ReqTypes'
  <2>1. ASSUME NEW ok \in BOOLEAN, NEW i \in Ids, Create(r, i, ok) PROVE ReqTypes'
    <3>1. CASE ok
      BY <3>1, <2>1, <1>0, ArriveTypes DEF Create, Ops, ReqPcs
    <3>2. CASE ~ok
      BY <3>2, <2>1, <1>0 DEF Create, reqVars, ReqTypes
    <3> QED BY <3>1, <3>2
  <2>2. ASSUME NEW ok \in BOOLEAN, HandleStore(r, ok) PROVE ReqTypes'
    BY <2>2, <1>0, AnswerTypes, GotoTypes
       DEF HandleStore, Rollback, Save, Forget, ApplyStep, ReqPcs
  <2> QED BY <1>2, <2>1, <2>2 DEF StoreCall
<1>3. ASSUME NEW r \in Reqs, Handle(r) PROVE ReqTypes'
  <2>1. ASSUME NEW p \in ReqPcs \ {"idle"}, NEW q \in ReqPcs, Step(r, p, q) PROVE ReqTypes'
    BY <2>1, <1>0, AnswerTypes, GotoTypes DEF Step
  <2>2. CASE ResolveAuth(r) \/ CallFails(r) \/ CallIgnored(r) \/ RevRemove(r)
    BY <2>2, <1>0, AnswerTypes, GotoTypes
       DEF ResolveAuth, CallFails, CallIgnored, RevRemove, ReqPcs
  <2>3. CASE WriteUnit(r) \/ Reload(r) \/ Enable(r) \/ RestartUnit(r)
    BY <2>1, <2>3 DEF WriteUnit, Reload, Enable, RestartUnit, ReqPcs
  <2>4. CASE Disable(r) \/ Stop(r) \/ RemoveFile(r) \/ RevApply(r) \/ RevRestart(r)
    BY <2>1, <2>4 DEF Disable, Stop, RemoveFile, RevApply, RevRestart, ReqPcs
  <2> QED BY <1>3, <2>2, <2>3, <2>4 DEF Handle
<1>4. CASE Crash \/ Reboot
  BY <1>4, <1>0 DEF Crash, Reboot, NoRequests, ReqTypes, ReqPcs, Ops
<1>5. CASE (\E i \in Ids : RunnerLoads(i) \/ RunnerEnds(i)) \/ UNCHANGED vars
  BY <1>5, <1>0 DEF RunnerLoads, RunnerEnds, vars, reqVars, ReqTypes
<1> QED BY <1>1, <1>2, <1>3, <1>4, <1>5 DEF PanelNext, StoreCall

-----------------------------------------------------------------------------
(* Units, counters, and the theorems. *)

\* Every step keeps the types of the units; a process runs settings that were stored.
LEMMA UnitStep == ASSUME PanelInv, [PanelNext]_vars PROVE UnitTypes'
<1>0. UnitTypes /\ ReqTypes /\ StoreTypeOK
  BY DEF PanelInv, StoreInv
<1>1. ASSUME NEW r \in Reqs, Handle(r) PROVE UnitTypes'
  <2>1. CASE ResolveAuth(r) \/ CallFails(r) \/ CallIgnored(r) \/ RevRemove(r)
    BY <2>1, <1>0 DEF ResolveAuth, CallFails, CallIgnored, RevRemove, unitVars, UnitTypes
  <2>2. CASE WriteUnit(r) \/ Reload(r) \/ Enable(r) \/ RestartUnit(r)
    BY <2>2, <1>0 DEF WriteUnit, Reload, Enable, RestartUnit, UnitTypes
  <2>3. CASE Disable(r) \/ Stop(r) \/ RemoveFile(r) \/ RevApply(r) \/ RevRestart(r)
    BY <2>3, <1>0 DEF Disable, Stop, RemoveFile, RevApply, RevRestart, UnitTypes
  <2> QED BY <1>1, <2>1, <2>2, <2>3 DEF Handle
<1>2. ASSUME NEW i \in Ids, RunnerLoads(i) PROVE UnitTypes'
  <2>1. disk[i].cfg \in Cfgs
    BY <1>2, <1>0 DEF RunnerLoads, StoreTypeOK, Tunnel
  <2> QED BY <2>1, <1>2, <1>0 DEF RunnerLoads, UnitTypes
<1>3. ASSUME NEW i \in Ids, RunnerEnds(i) PROVE UnitTypes'
  BY <1>3, <1>0 DEF RunnerEnds, UnitTypes
<1>4. CASE Reboot
  BY <1>4, <1>0 DEF Reboot, UnitTypes
<1>5. CASE UNCHANGED unitVars
  BY <1>5, <1>0 DEF unitVars, UnitTypes
<1>6. ASSUME NEW r \in Reqs, Request(r) \/ StoreCall(r) PROVE UNCHANGED unitVars
  BY <1>6 DEF Request, Update, Delete, StartStop, Restart, NotFound, vars, StoreCall, Create,
       HandleStore, Rollback, Save, Forget
<1> QED BY <1>1, <1>2, <1>3, <1>4, <1>5, <1>6 DEF PanelNext, StoreCall, Crash, vars

\* A fault is counted only below its bound.
LEMMA FaultStep == ASSUME faults \in 0..MaxFaults, Fault \/ UNCHANGED faults
                   PROVE faults' \in 0..MaxFaults
BY PanelAssumption DEF Fault

\* A step counts one fault or none.
LEMMA FaultOrNot == ASSUME [PanelNext]_vars PROVE Fault \/ UNCHANGED faults
<1>1. ASSUME NEW r \in Reqs, Request(r) \/ StoreCall(r) PROVE Fault \/ UNCHANGED faults
  BY <1>1 DEF Request, Update, Delete, StartStop, Restart, NotFound, vars, StoreCall, Create,
       HandleStore, Rollback, Save, Forget, Saves
<1>2. ASSUME NEW r \in Reqs, Handle(r) PROVE Fault \/ UNCHANGED faults
  BY <1>2 DEF Handle, ResolveAuth, CallFails, CallIgnored, WriteUnit, Reload, Enable,
       RestartUnit, Disable, Stop, RemoveFile, RevApply, RevRestart, RevRemove, Step
<1> QED BY <1>1, <1>2 DEF PanelNext, StoreCall, RunnerLoads, RunnerEnds, Crash, Reboot, vars

\* Deletes are acknowledged only once they are written, and faults are counted to their bound.
LEMMA CountStep == ASSUME PanelInv, [PanelNext]_vars PROVE CountTypes'
<1>0. CountTypes
  BY DEF PanelInv
<1>1. Fault \/ UNCHANGED faults
  BY FaultOrNot
<1>2. acked' \subseteq gone'
  <2>1. ASSUME NEW r \in Reqs, NEW ok \in BOOLEAN, Forget(r, ok) PROVE acked' \subseteq gone'
    BY <2>1, <1>0 DEF Forget, DeleteTunnel, storeVars, CountTypes
  <2>2. ASSUME NEW r \in Reqs, NEW ok \in BOOLEAN,
               Rollback(r, ok) \/ Save(r, ok) \/ \E i \in Ids : Create(r, i, ok)
        PROVE acked' = acked /\ gone \subseteq gone'
    BY <2>2 DEF Rollback, Save, Create, Arrive, AddTunnel, UpdateTunnel, DeleteTunnel, storeVars,
         auxVars
  <2>3. ASSUME NEW r \in Reqs, Request(r) \/ Handle(r) PROVE acked' = acked /\ gone' = gone
    BY <2>3 DEF Request, Update, Delete, StartStop, Restart, NotFound, vars, auxVars, storeVars,
         Arrive, Handle, ResolveAuth, CallFails, CallIgnored, WriteUnit, Reload, Enable,
         RestartUnit, Disable, Stop, RemoveFile, RevApply, RevRestart, RevRemove, Step
  <2>4. CASE (\E i \in Ids : RunnerLoads(i) \/ RunnerEnds(i)) \/ Crash \/ Reboot \/ UNCHANGED vars
    BY <2>4, <1>0 DEF RunnerLoads, RunnerEnds, Crash, Reboot, Reopen, vars, auxVars, storeVars,
         CountTypes
  <2> QED BY <1>0, <2>1, <2>2, <2>3, <2>4 DEF PanelNext, HandleStore, CountTypes
<1> QED BY <1>0, <1>1, <1>2, FaultStep DEF CountTypes

\* Two requests in flight are recorded, and that is not undone.
LEMMA OverlapKept ==
    ASSUME [PanelNext]_vars
    PROVE  UNCHANGED overlap \/ overlap' = (overlap \/ \E s \in Reqs : pc[s] # "idle")
<1> DEFINE Kept == UNCHANGED overlap \/ overlap' = (overlap \/ \E s \in Reqs : pc[s] # "idle")
<1>1. ASSUME NEW r \in Reqs, Request(r) PROVE Kept
  BY Zenon, <1>1 DEF Request, Update, Delete, StartStop, Restart, NotFound, vars, auxVars, Arrive
<1>2. ASSUME NEW r \in Reqs, StoreCall(r) PROVE Kept
  BY <1>2 DEF StoreCall, Create, HandleStore, Rollback, Save, Forget, auxVars, Arrive
<1>3. ASSUME NEW r \in Reqs, Handle(r) PROVE UNCHANGED overlap
  BY <1>3 DEF Handle, ResolveAuth, CallFails, CallIgnored, WriteUnit, Reload, Enable,
       RestartUnit, Disable, Stop, RemoveFile, RevApply, RevRestart, RevRemove, Step, auxVars
<1>4. ASSUME (\E i \in Ids : RunnerLoads(i) \/ RunnerEnds(i)) \/ Crash \/ Reboot \/ UNCHANGED vars
      PROVE UNCHANGED overlap
  BY <1>4 DEF RunnerLoads, RunnerEnds, Crash, Reboot, vars, auxVars
<1> QED BY Zenon, <1>1, <1>2, <1>3, <1>4 DEF PanelNext, StoreCall

\* The record of overlapping requests is a truth value.
LEMMA OverlapStep == ASSUME PanelInv, [PanelNext]_vars PROVE overlap' \in BOOLEAN
<1>1. overlap \in BOOLEAN
  BY DEF PanelInv
<1>2. (overlap \/ \E s \in Reqs : pc[s] # "idle") \in BOOLEAN
  BY Zenon
<1> QED BY <1>1, <1>2, OverlapKept

\* Every step keeps the invariant.
LEMMA PanelStepInv == PanelInv /\ [PanelNext]_vars => PanelInv'
BY StepRefines, StoreStepInv, ReqStep, UnitStep, CountStep, OverlapStep DEF PanelInv

\* Types of the panel.
THEOREM PanelTypes == PanelSpec => []PanelTypeOK
<1>1. PanelInv => PanelTypeOK
  BY DEF PanelInv, PanelTypeOK, StoreInv, ReqTypes, UnitTypes, CountTypes
<1> QED BY <1>1, PanelInitInv, PanelStepInv, PTL DEF PanelSpec

\* The panel implements the store's specification: whatever its handlers do, in any order and
\* through crashes, the store sees one of its own calls at a time (store.go:103-251).
THEOREM PanelImplementsStore == PanelSpec => StoreSpec
<1>1. PanelInit => StoreInit
  BY DEF PanelInit
<1> QED BY <1>1, PanelInitInv, PanelStepInv, StepRefines, PTL DEF PanelSpec, StoreSpec

\* No request, failure or crash brings a deleted tunnel back.
THEOREM PanelDeletesForGood == PanelSpec => []DeletedStaysDeleted
BY PanelImplementsStore, StoreDeletesForGood, PTL

-----------------------------------------------------------------------------
(* What the processes run. *)

\* As long as nothing fails, requests work on ids that were handed out, the others have no
\* process, and the store in memory is the one on disk.
UsedInv == faults = 0 =>
    /\ \A r \in Reqs : pc[r] # "idle" => rid[r] \in used
    /\ \A i \in Ids \ used : run[i] = "off"
    /\ mem = disk

\* A request will still restart or stop the process of i, or delete the tunnel.
Applying(i) == \E r \in Reqs :
    rid[r] = i /\ pc[r] \in {"write", "reload", "enable", "start", "disable", "stop",
                            "rmReload", "forget"}

\* The unit file that a request has written is there, or a delete has removed it.
WrittenInv == faults = 0 => \A r \in Reqs :
    pc[r] \in {"reload", "enable", "start"} =>
        \/ file[rid[r]] \/ disk[rid[r]] = NoTunnel
        \/ \E s \in Reqs : rid[s] = rid[r] /\ pc[s] \in {"rmReload", "forget"}

\* A process that runs other settings than the stored ones is about to be restarted.
RunInv == faults = 0 => \A i \in Ids :
    IsLocal(disk[i]) /\ run[i] \in Cfgs => run[i] = disk[i].cfg \/ Applying(i)

-----------------------------------------------------------------------------
(* One request at a time. *)

NoUnit(i) == ~file[i] /\ ~boot[i] /\ run[i] = "off"

\* The units of a tunnel that no request works on agree with the store.
Clean(i) ==
    /\ mem[i] = NoTunnel => NoUnit(i) /\ rev[i] = "none"
    /\ mem[i] # NoTunnel => mem[i].cfg # Blank
    /\ IsLocal(mem[i]) =>
          /\ rev[i] = "none" /\ boot[i] = mem[i].enabled
          /\ mem[i].enabled => file[i] /\ run[i] # "off"
    /\ mem[i] # NoTunnel /\ ~IsLocal(mem[i]) =>
          NoUnit(i) /\ (mem[i].enabled => rev[i] = "on")

\* A placeholder has no unit.
Fresh(i) == mem[i] # NoTunnel /\ NoUnit(i) /\ rev[i] = "none"

\* The tunnel i has a local unit with t's settings; or a connector.
LocalAs(i, t)   == mem[i] = t /\ IsLocal(t) /\ t.cfg # Blank /\ rev[i] = "none"
ReverseAs(i, t) == mem[i] = t /\ t # NoTunnel /\ ~IsLocal(t) /\ t.cfg # Blank /\ NoUnit(i)

\* What is done when a request for i with the copy t is at p.
Done(p, o, i, t) ==
    /\ p \in {"auth", "save"} => t.cfg # Blank /\ mem[i] # NoTunnel
                                 /\ (Fresh(i) \/ (Clean(i) /\ mem[i].mode = t.mode))
    /\ p = "auth" => IF o = "create" THEN Fresh(i) ELSE Clean(i)
    /\ p = "rollback" => Fresh(i)
    /\ p = "restart" => Clean(i) /\ IsLocal(mem[i])
    /\ p = "revRestart" => Clean(i) /\ mem[i] # NoTunnel /\ ~IsLocal(mem[i])
    /\ p \in {"write", "reload", "enable", "start", "disable", "stop"} => LocalAs(i, t)
    /\ p \in {"reload", "enable", "start"} => file[i]
    /\ p \in {"enable", "start"} => t.enabled
    /\ p = "start" => boot[i]
    /\ p \in {"disable", "stop"} => ~t.enabled
    /\ p = "stop" => ~boot[i]
    /\ p = "revApply" => ReverseAs(i, t)
    /\ p \in {"rmStop", "rmDisable", "rmFile", "rmReload"} => IsLocal(mem[i]) /\ rev[i] = "none"
    /\ p \in {"rmDisable", "rmFile", "rmReload", "forget"} => run[i] = "off"
    /\ p \in {"rmFile", "rmReload", "forget"} => ~boot[i]
    /\ p \in {"rmReload", "forget"} => ~file[i]
    /\ p = "rmRev" => mem[i] # NoTunnel /\ NoUnit(i)
    /\ p = "forget" => mem[i] # NoTunnel /\ rev[i] = "none"

Busy(i) == \E r \in Reqs : pc[r] # "idle" /\ rid[r] = i
SeqInv == faults = 0 /\ ~overlap =>
    /\ \A r, s \in Reqs : pc[r] # "idle" /\ pc[s] # "idle" => r = s
    /\ \A i \in Ids : ~Busy(i) => Clean(i)
    /\ \A r \in Reqs : pc[r] # "idle" => Done(pc[r], op[r], rid[r], cp[r])

-----------------------------------------------------------------------------
(* What the steps of a request do to the requests and, without a fault, to the store. *)

\* Only r moves.
Moves(r) == \A s \in Reqs :
    s # r => pc'[s] = pc[s] /\ op'[s] = op[s] /\ rid'[s] = rid[s] /\ cp'[s] = cp[s]

\* r goes on with its id and its copy.
GoesOn(r, q) == Moves(r) /\ pc'[r] = q /\ op'[r] = op[r] /\ rid'[r] = rid[r] /\ cp'[r] = cp[r]
Answered(r) == Moves(r) /\ pc'[r] = "idle"

\* Going on, answering and arriving move one request.
LEMMA GotoFrame == ASSUME ReqTypes, NEW r \in Reqs, NEW q, Goto(r, q) PROVE GoesOn(r, q)
BY DEF ReqTypes, Goto, GoesOn, Moves

\* A request that answers.
LEMMA AnswerFrame == ASSUME ReqTypes, NEW r \in Reqs, Answer(r) PROVE Answered(r)
BY DEF ReqTypes, Answer, Answered, Moves

\* A request that arrives takes the step its handler begins with, and answers nothing.
LEMMA ArriveFrame ==
    ASSUME ReqTypes, NEW r \in Reqs, NEW o, NEW i, NEW t, NEW q, Arrive(r, o, i, t, q)
    PROVE  /\ Moves(r) /\ pc[r] = "idle" /\ pc'[r] = q /\ op'[r] = o /\ rid'[r] = i /\ cp'[r] = t
           /\ UNCHANGED acked
BY DEF ReqTypes, Arrive, Moves

\* Two requests are recorded as soon as the second arrives.
LEMMA ArriveOverlap ==
    ASSUME NEW r, NEW o, NEW i, NEW t, NEW q, Arrive(r, o, i, t, q), ~overlap'
    PROVE  ~overlap /\ \A s \in Reqs : pc[s] = "idle"
BY Zenon DEF Arrive

\* A call on a unit.
LEMMA StepFrame ==
    ASSUME ReqTypes, NEW r \in Reqs, NEW p, NEW q, Step(r, p, q)
    PROVE  /\ pc[r] = p /\ IF q = "idle" THEN Answered(r) ELSE GoesOn(r, q)
           /\ UNCHANGED <<storeVars, auxVars, faults>>
BY GotoFrame, AnswerFrame DEF Step

\* A fault is not undone.
LEMMA FaultCounts == ASSUME faults \in 0..MaxFaults, Fault PROVE faults' # faults /\ faults' # 0
BY PanelAssumption DEF Fault

\* When nothing has failed after a step, nothing had failed before it.
LEMMA FaultsStay == ASSUME PanelInv, [PanelNext]_vars, faults' = 0 PROVE faults = 0
<1>1. faults \in 0..MaxFaults
  BY DEF PanelInv, CountTypes
<1> QED BY <1>1, FaultOrNot, FaultCounts

\* A request that arrives.
LEMMA RequestFrame ==
    ASSUME PanelInv, NEW r \in Reqs, Request(r)
    PROVE  /\ UNCHANGED <<storeVars, unitVars, faults, acked>>
           /\ \/ UNCHANGED vars
              \/ /\ Moves(r) /\ pc[r] = "idle" /\ rid'[r] \in Ids /\ mem[rid'[r]] # NoTunnel
                 /\ pc'[r] \in {"auth", "rmRev", "rmStop", "save", "restart", "revRestart"}
<1>0. ReqTypes
  BY DEF PanelInv
<1>1. ASSUME NEW i \in Ids, Update(r, i) \/ Delete(r, i) \/ StartStop(r, i) \/ Restart(r, i)
      PROVE  /\ UNCHANGED <<storeVars, unitVars, faults>> /\ mem[i] # NoTunnel
             /\ \E o, t, q : /\ Arrive(r, o, i, t, q)
                             /\ q \in {"auth", "rmRev", "rmStop", "save", "restart", "revRestart"}
  BY <1>1 DEF Update, Delete, StartStop, Restart
<1>2. ASSUME NEW i \in Ids, NotFound(r, i) PROVE UNCHANGED vars
  BY <1>2 DEF NotFound
<1>3. UNCHANGED vars => UNCHANGED <<storeVars, unitVars, faults, acked>>
  BY DEF vars, auxVars
<1> QED BY <1>0, <1>1, <1>2, <1>3, ArriveFrame DEF Request

\* A create that is flushed takes a new id.
LEMMA CreateFrame ==
    ASSUME PanelInv, NEW r \in Reqs, NEW i \in Ids, NEW ok \in BOOLEAN, Create(r, i, ok),
           UNCHANGED faults
    PROVE  /\ i \notin used /\ used' = used \cup {i}
           /\ mem' = [mem EXCEPT ![i] = Placeholder] /\ disk' = mem' /\ UNCHANGED unitVars
           /\ \E t \in Tunnel : t.cfg # Blank /\ Arrive(r, "create", i, t, "auth")
<1>1. ok
  BY FaultCounts DEF Create, Saves, PanelInv, CountTypes
<1> QED BY <1>1 DEF Create, AddTunnel, Flush

\* Without a fault a save replaces the record, or finds none.
LEMMA SaveFrame ==
    ASSUME PanelInv, NEW r \in Reqs, NEW ok \in BOOLEAN, Save(r, ok), UNCHANGED faults
    PROVE  /\ pc[r] = "save" /\ UNCHANGED <<used, unitVars, auxVars>>
           /\ \/ /\ mem[rid[r]] # NoTunnel /\ GoesOn(r, ApplyStep(cp[r]))
                 /\ mem' = [mem EXCEPT ![rid[r]] = cp[r]] /\ disk' = mem'
              \/ /\ mem[rid[r]] = NoTunnel /\ UNCHANGED <<mem, disk>>
                 /\ Answered(r) \/ GoesOn(r, ApplyStep(cp[r]))
<1>0. ReqTypes /\ faults \in 0..MaxFaults
  BY DEF PanelInv, CountTypes
<1>1. CASE Stored(rid[r])
  <2>1. ok
    BY <1>0, <1>1, FaultCounts DEF Save, Saves
  <2> QED BY <1>0, <1>1, <2>1, GotoFrame DEF Save, Stored, UpdateTunnel, Flush
<1>2. CASE ~Stored(rid[r])
  BY <1>0, <1>2, GotoFrame, AnswerFrame DEF Save, Stored, storeVars
<1> QED BY <1>1, <1>2

\* Without a fault a rollback and a delete forget the tunnel, or find none.
LEMMA ForgetFrame ==
    ASSUME PanelInv, NEW r \in Reqs, NEW ok \in BOOLEAN, Rollback(r, ok) \/ Forget(r, ok),
           UNCHANGED faults
    PROVE  /\ pc[r] \in {"rollback", "forget"} /\ Answered(r)
           /\ UNCHANGED <<used, unitVars, overlap>>
           /\ \/ mem' = [mem EXCEPT ![rid[r]] = NoTunnel] /\ disk' = mem'
              \/ mem[rid[r]] = NoTunnel /\ UNCHANGED <<mem, disk>>
<1>0. ReqTypes /\ faults \in 0..MaxFaults
  BY DEF PanelInv, CountTypes
<1>1. CASE Stored(rid[r])
  <2>1. ok
    BY <1>0, <1>1, FaultCounts DEF Rollback, Forget, Saves
  <2> QED BY <1>0, <1>1, <2>1, AnswerFrame DEF Rollback, Forget, DeleteTunnel, Flush, auxVars
<1>2. CASE ~Stored(rid[r])
  BY <1>0, <1>2, AnswerFrame DEF Rollback, Forget, Stored, storeVars, auxVars
<1> QED BY <1>1, <1>2

\* Without a fault a call does what it is for: it writes or removes the unit file,
WritesFile(r) ==
    /\ \/ pc[r] = "write" /\ GoesOn(r, "reload") /\ file' = [file EXCEPT ![rid[r]] = TRUE]
       \/ pc[r] = "rmFile" /\ GoesOn(r, "rmReload") /\ file' = [file EXCEPT ![rid[r]] = FALSE]
    /\ UNCHANGED <<boot, run, rev>>

\* sets or clears the link for the boot,
Links(r) ==
    /\ \/ /\ pc[r] = "enable" /\ IF file[rid[r]] THEN GoesOn(r, "start") ELSE Answered(r)
          /\ boot' = [boot EXCEPT ![rid[r]] = @ \/ file[rid[r]]]
       \/ /\ \/ pc[r] = "disable" /\ GoesOn(r, "stop")
             \/ pc[r] = "rmDisable" /\ GoesOn(r, "rmFile")
          /\ boot' = [boot EXCEPT ![rid[r]] = FALSE]
    /\ UNCHANGED <<file, run, rev>>

\* starts or stops the process,
Runs(r) ==
    /\ \/ /\ pc[r] \in {"start", "restart"} /\ Answered(r)
          /\ run' = [run EXCEPT ![rid[r]] =
                         IF file[rid[r]] \/ loaded[rid[r]] THEN "starting" ELSE @]
       \/ /\ \/ pc[r] = "stop" /\ Answered(r)
             \/ pc[r] = "rmStop" /\ GoesOn(r, "rmDisable")
          /\ run' = [run EXCEPT ![rid[r]] = "off"]
    /\ UNCHANGED <<file, boot, rev>>

\* changes the connector on the host abroad,
Connects(r) ==
    /\ \/ /\ pc[r] = "revApply" /\ Answered(r)
          /\ rev' = [rev EXCEPT ![rid[r]] = IF cp[r].enabled THEN "on" ELSE "off"]
       \/ /\ pc[r] = "revRestart" /\ Answered(r)
          /\ rev' = [rev EXCEPT ![rid[r]] = IF @ = "none" THEN @ ELSE "on"]
       \/ /\ pc[r] = "rmRev" /\ GoesOn(r, "forget")
          /\ rev' = [rev EXCEPT ![rid[r]] = "none"]
    /\ UNCHANGED <<file, boot, run>>

\* or changes nothing here.
Prepares(r) ==
    /\ \/ pc[r] = "auth" /\ GoesOn(r, "save")
       \/ pc[r] = "auth" /\ op[r] = "create" /\ GoesOn(r, "rollback")
       \/ pc[r] = "auth" /\ op[r] # "create" /\ Answered(r)
       \/ pc[r] = "reload" /\ GoesOn(r, IF cp[r].enabled THEN "enable" ELSE "disable")
       \/ pc[r] = "rmReload" /\ GoesOn(r, "forget")
    /\ UNCHANGED <<file, boot, run, rev>>

\* A step of a handler outside the store changes the units in one of five ways.
LEMMA HandleFrame ==
    ASSUME PanelInv, NEW r \in Reqs, Handle(r), UNCHANGED faults
    PROVE  /\ UNCHANGED <<storeVars, auxVars>>
           /\ WritesFile(r) \/ Links(r) \/ Runs(r) \/ Connects(r) \/ Prepares(r)
<1>0. ReqTypes /\ faults \in 0..MaxFaults
  BY DEF PanelInv, CountTypes
<1>1. ~Fault
  BY <1>0, FaultCounts
<1>2. CASE ResolveAuth(r)
  BY <1>0, <1>2, GotoFrame, AnswerFrame DEF ResolveAuth, Prepares, unitVars
<1>3. CASE CallFails(r) \/ CallIgnored(r)
  BY <1>1, <1>3 DEF CallFails, CallIgnored
<1>4. CASE WriteUnit(r) \/ RemoveFile(r)
  BY <1>0, <1>4, StepFrame DEF WriteUnit, RemoveFile, WritesFile
<1>5. CASE Reload(r)
  <2>1. "idle" \notin {"enable", "disable", "forget"}
    OBVIOUS
  <2> QED BY <1>0, <1>5, <2>1, StepFrame DEF Reload, Prepares
<1>6. CASE Enable(r) \/ Disable(r)
  BY <1>0, <1>6, StepFrame DEF Enable, Disable, Links
<1>7. CASE RestartUnit(r) \/ Stop(r)
  BY <1>0, <1>7, StepFrame DEF RestartUnit, Stop, Runs
<1>8. CASE RevApply(r) \/ RevRestart(r)
  BY <1>0, <1>8, StepFrame DEF RevApply, RevRestart, Connects
<1>9. CASE RevRemove(r)
  BY <1>0, <1>1, <1>9, GotoFrame DEF RevRemove, Connects
<1> QED BY <1>2, <1>3, <1>4, <1>5, <1>6, <1>7, <1>8, <1>9 DEF Handle

-----------------------------------------------------------------------------
(* A process runs the stored settings when the requests are over. *)

\* Ids at work were handed out, and the store in memory is on disk.
LEMMA UsedStep == ASSUME PanelInv, UsedInv, [PanelNext]_vars PROVE UsedInv'
<1>0. /\ ReqTypes /\ UnitTypes /\ StoreTypeOK
      /\ \A i \in Ids : mem[i] # NoTunnel => i \in used
  BY DEF PanelInv, StoreInv, EntriesAreUsed
<1>1. used \subseteq used'
  BY StepRefines DEF StoreNext, AddTunnel, UpdateTunnel, DeleteTunnel, Reopen, storeVars
<1>2. SUFFICES ASSUME faults' = 0, faults = 0, UNCHANGED faults PROVE UsedInv'
  BY FaultsStay DEF UsedInv
<1>3. ~Fault
  BY <1>2, FaultCounts DEF PanelInv, CountTypes
<1>4. ASSUME NEW r \in Reqs, Request(r) PROVE UsedInv'
  BY <1>0, <1>4, RequestFrame DEF UsedInv, Moves, vars, storeVars, unitVars, reqVars
<1>5. ASSUME NEW r \in Reqs, Handle(r) PROVE UsedInv'
  <2>1. /\ UNCHANGED <<mem, disk, used>>
        /\ \A s \in Reqs : pc'[s] # "idle" => pc[s] # "idle" /\ rid'[s] = rid[s]
    BY <1>2, <1>5, HandleFrame
       DEF WritesFile, Links, Runs, Connects, Prepares, GoesOn, Answered, Moves, storeVars
  <2>2. \A i \in Ids \ used : run'[i] = "off"
    BY <1>0, <1>2, <1>5, HandleFrame
       DEF WritesFile, Links, Runs, Connects, Prepares, UsedInv, UnitTypes, ReqTypes
  <2> QED BY <1>2, <2>1, <2>2 DEF UsedInv
<1>6. ASSUME NEW r \in Reqs, NEW i \in Ids, NEW ok \in BOOLEAN, Create(r, i, ok) PROVE UsedInv'
  <2>1. /\ used' = used \cup {i} /\ disk' = mem' /\ UNCHANGED run
        /\ Moves(r) /\ rid'[r] = i
    BY <1>0, <1>2, <1>6, CreateFrame, ArriveFrame DEF unitVars
  <2> QED BY <1>1, <1>2, <2>1 DEF UsedInv, Moves
<1>7. ASSUME NEW r \in Reqs, NEW ok \in BOOLEAN, Save(r, ok) PROVE UsedInv'
  BY <1>1, <1>2, <1>7, SaveFrame DEF UsedInv, GoesOn, Answered, Moves, unitVars
<1>8. ASSUME NEW r \in Reqs, NEW ok \in BOOLEAN, Rollback(r, ok) \/ Forget(r, ok) PROVE UsedInv'
  BY <1>1, <1>2, <1>8, ForgetFrame DEF UsedInv, Answered, Moves, unitVars
<1>9. ASSUME NEW i \in Ids, RunnerLoads(i) \/ RunnerEnds(i) PROVE UsedInv'
  BY <1>0, <1>2, <1>9, PanelAssumption
     DEF UsedInv, RunnerLoads, RunnerEnds, UnitTypes, reqVars, storeVars
<1>10. CASE Crash \/ Reboot
  BY <1>3, <1>10 DEF Crash, Reboot
<1>11. CASE UNCHANGED vars
  BY <1>11 DEF UsedInv, vars, reqVars, storeVars, unitVars
<1> QED BY <1>4, <1>5, <1>6, <1>7, <1>8, <1>9, <1>10, <1>11 DEF PanelNext, HandleStore

\* A delete of i that has removed the unit file, or is about to forget the tunnel.
Removing(i) == \E s \in Reqs : rid[s] = i /\ pc[s] \in {"rmReload", "forget"}

\* A written unit file stays until a delete removes it.
LEMMA WrittenStep == ASSUME PanelInv, UsedInv, WrittenInv, [PanelNext]_vars PROVE WrittenInv'
<1>0. ReqTypes /\ UnitTypes /\ StoreTypeOK
  BY DEF PanelInv, StoreInv
<1>1. SUFFICES ASSUME faults' = 0, faults = 0, UNCHANGED faults,
                      \A s \in Reqs : pc[s] \in {"reload", "enable", "start"} =>
                          file[rid[s]] \/ disk[rid[s]] = NoTunnel \/ Removing(rid[s])
               PROVE  WrittenInv'
  BY FaultsStay DEF WrittenInv, Removing
<1>2. /\ mem = disk /\ \A s \in Reqs : pc[s] # "idle" => rid[s] \in used
      /\ ~Fault
  BY <1>1, FaultCounts DEF UsedInv, PanelInv, CountTypes
<1> USE DEF Removing
<1>3. ASSUME NEW r \in Reqs, Moves(r), UNCHANGED file,
             \A s \in Reqs : s # r /\ pc[s] # "idle" /\ disk[rid[s]] = NoTunnel =>
                 disk'[rid[s]] = NoTunnel,
             pc[r] \notin {"rmReload", "forget"} \/ disk'[rid[r]] = NoTunnel,
             pc'[r] \notin {"reload", "enable", "start"}
      PROVE  WrittenInv'
  BY <1>1, <1>3 DEF WrittenInv, Moves
<1>4. ASSUME NEW r \in Reqs, Request(r) PROVE WrittenInv'
  <2>1. UNCHANGED <<file, disk, pc, rid>> => WrittenInv'
    BY <1>1 DEF WrittenInv
  <2> QED BY <1>3, <1>4, <2>1, RequestFrame DEF vars, storeVars, unitVars, reqVars
<1>5. ASSUME NEW r \in Reqs, Handle(r) PROVE WrittenInv'
  <2>1. UNCHANGED disk /\ (WritesFile(r) \/ Links(r) \/ Runs(r) \/ Connects(r) \/ Prepares(r))
    BY <1>1, <1>5, HandleFrame DEF storeVars
  <2>2. CASE WritesFile(r)
    BY <1>0, <1>1, <2>1, <2>2 DEF WritesFile, WrittenInv, GoesOn, Moves, ReqTypes, UnitTypes
  <2>3. CASE Links(r)
    BY <1>1, <2>1, <2>3 DEF Links, WrittenInv, GoesOn, Answered, Moves
  <2>4. CASE Runs(r) \/ Connects(r)
    BY <1>3, <2>1, <2>4 DEF Runs, Connects, GoesOn, Answered
  <2>5. CASE Prepares(r)
    BY <1>1, <2>1, <2>5 DEF Prepares, WrittenInv, GoesOn, Answered, Moves
  <2> QED BY <2>1, <2>2, <2>3, <2>4, <2>5
<1>6. ASSUME NEW r \in Reqs, NEW i \in Ids, NEW ok \in BOOLEAN, Create(r, i, ok) PROVE WrittenInv'
  <2>1. /\ i \notin used /\ disk' = [mem EXCEPT ![i] = Placeholder] /\ UNCHANGED file
        /\ Moves(r) /\ pc[r] = "idle" /\ pc'[r] = "auth"
    BY <1>0, <1>1, <1>6, CreateFrame, ArriveFrame DEF unitVars
  <2> QED BY <1>0, <1>2, <1>3, <2>1 DEF StoreTypeOK, ReqTypes
<1>7. ASSUME NEW r \in Reqs, NEW ok \in BOOLEAN, Save(r, ok) PROVE WrittenInv'
  <2>1. /\ pc[r] = "save" /\ Moves(r) /\ UNCHANGED file
        /\ pc'[r] \in {"idle", "write", "revApply"}
        /\ \/ mem[rid[r]] # NoTunnel /\ disk' = [mem EXCEPT ![rid[r]] = cp[r]]
           \/ UNCHANGED disk
    BY <1>1, <1>7, SaveFrame DEF unitVars, GoesOn, Answered, ApplyStep
  <2> QED BY <1>0, <1>2, <1>3, <2>1 DEF StoreTypeOK, ReqTypes
<1>8. ASSUME NEW r \in Reqs, NEW ok \in BOOLEAN, Rollback(r, ok) \/ Forget(r, ok)
      PROVE  WrittenInv'
  <2>1. /\ pc[r] \in {"rollback", "forget"} /\ Moves(r) /\ pc'[r] = "idle" /\ UNCHANGED file
        /\ \/ disk' = [mem EXCEPT ![rid[r]] = NoTunnel]
           \/ mem[rid[r]] = NoTunnel /\ UNCHANGED disk
    BY <1>1, <1>8, ForgetFrame DEF unitVars, Answered
  <2> QED BY <1>0, <1>2, <1>3, <2>1 DEF StoreTypeOK, ReqTypes
<1>9. CASE (\E i \in Ids : RunnerLoads(i) \/ RunnerEnds(i)) \/ UNCHANGED vars
  BY <1>1, <1>9 DEF WrittenInv, RunnerLoads, RunnerEnds, vars, reqVars, storeVars, unitVars
<1>10. CASE Crash \/ Reboot
  BY <1>2, <1>10 DEF Crash, Reboot
<1> QED BY <1>4, <1>5, <1>6, <1>7, <1>8, <1>9, <1>10 DEF PanelNext, HandleStore

\* A process that runs other settings than the stored ones is restarted, stopped or deleted.
LEMMA RunStep ==
    ASSUME PanelInv, UsedInv, WrittenInv, RunInv, [PanelNext]_vars PROVE RunInv'
<1>0. ReqTypes /\ UnitTypes /\ StoreTypeOK
  BY DEF PanelInv, StoreInv
<1>1. SUFFICES ASSUME faults' = 0, faults = 0, UNCHANGED faults,
                      \A i \in Ids : IsLocal(disk[i]) /\ run[i] \in Cfgs =>
                          run[i] = disk[i].cfg \/ Applying(i)
               PROVE  RunInv'
  BY FaultsStay DEF RunInv
<1>2. /\ mem = disk /\ ~Fault /\ \A i \in Ids \ used : run[i] \notin Cfgs
      /\ "off" \notin Cfgs /\ "starting" \notin Cfgs
  BY <1>1, FaultCounts, PanelAssumption DEF UsedInv, PanelInv, CountTypes
\* A request that applied leaves no process behind that runs other settings.
<1>3. ASSUME NEW r \in Reqs, Moves(r),
             \A i \in Ids : IsLocal(disk'[i]) /\ run'[i] \in Cfgs =>
                 \/ run'[i] = disk'[i].cfg \/ Applying(i)'
                 \/ disk'[i] = disk[i] /\ run'[i] = run[i] /\ (rid[r] = i =>
                        \/ pc[r] \notin {"write", "reload", "enable", "start", "disable", "stop",
                                         "rmReload", "forget"}
                        \/ Removing(i)')
      PROVE  RunInv'
  <2>1. \A i \in Ids : Removing(i)' => Applying(i)'
    BY DEF Removing, Applying
  <2>2. SUFFICES ASSUME NEW i \in Ids, IsLocal(disk'[i]), run'[i] \in Cfgs
                 PROVE  run'[i] = disk'[i].cfg \/ Applying(i)'
    BY DEF RunInv
  <2>3. CASE disk'[i] = disk[i] /\ run'[i] = run[i] /\ ~Removing(i)'
             /\ ~(run'[i] = disk'[i].cfg \/ Applying(i)')
    <3>1. Applying(i)
      BY <1>1, <2>2, <2>3
    <3> QED BY <1>3, <2>2, <2>3, <3>1 DEF Applying, Moves
  <2> QED BY <1>3, <2>1, <2>2, <2>3
<1> DEFINE kept == {"write", "reload", "enable", "start", "disable", "stop", "rmReload", "forget"}
<1>4. ASSUME NEW r \in Reqs, Request(r) PROVE RunInv'
  <2>1. UNCHANGED <<run, disk, pc, rid>> => RunInv'
    BY <1>1 DEF RunInv, Applying
  <2>2. UNCHANGED <<run, disk>>
    BY <1>4, RequestFrame DEF storeVars, unitVars
  <2>3. UNCHANGED <<pc, rid>> \/ (Moves(r) /\ pc[r] = "idle")
    BY <1>4, RequestFrame DEF vars, reqVars
  <2> QED BY <1>3, <2>1, <2>2, <2>3
<1>5. ASSUME NEW r \in Reqs, Handle(r) PROVE RunInv'
  <2>1. /\ UNCHANGED disk
        /\ WritesFile(r) \/ Links(r) \/ Runs(r) \/ Connects(r) \/ Prepares(r)
    BY <1>1, <1>5, HandleFrame DEF storeVars
  <2>2. CASE /\ UNCHANGED run /\ Moves(r) /\ rid'[r] = rid[r]
             /\ pc[r] \in kept => pc'[r] \in kept
    BY <1>1, <2>1, <2>2 DEF RunInv, Applying, Moves
  \* enable and start end without a restart only if a delete has removed the file.
  <2>3. CASE /\ pc[r] \in {"enable", "start"} /\ ~file[rid[r]] /\ UNCHANGED run /\ Answered(r)
    <3>1. disk[rid[r]] = NoTunnel \/ Removing(rid[r])
      BY <1>1, <2>3 DEF WrittenInv, Removing
    <3>2. ASSUME NEW i \in Ids, rid[r] = i PROVE disk'[i] = NoTunnel \/ Removing(i)'
      BY <2>1, <2>3, <3>1, <3>2 DEF Removing, Answered, Moves
    <3> QED BY <1>3, <2>1, <2>3, <3>2 DEF Answered, IsLocal
  <2>4. CASE WritesFile(r) \/ Connects(r) \/ Prepares(r)
    BY <1>3, <2>1, <2>2, <2>4 DEF WritesFile, Connects, Prepares, GoesOn, Answered
  <2>5. CASE Links(r)
    BY <2>2, <2>3, <2>5 DEF Links, GoesOn
  <2>6. CASE Runs(r)
    <3>1. CASE pc[r] \in {"start", "restart"}
      <4>1. CASE file[rid[r]] \/ loaded[rid[r]]
        <5>1. run' = [run EXCEPT ![rid[r]] = "starting"] /\ Moves(r)
          BY <2>6, <3>1, <4>1 DEF Runs, Answered
        <5> QED BY <1>0, <1>2, <1>3, <2>1, <5>1 DEF UnitTypes
      <4>2. CASE ~(file[rid[r]] \/ loaded[rid[r]])
        <5>1. UNCHANGED run /\ Answered(r)
          BY <1>0, <2>6, <3>1, <4>2 DEF Runs, UnitTypes
        <5> QED BY <1>3, <2>1, <2>3, <3>1, <4>2, <5>1 DEF Answered
      <4> QED BY <4>1, <4>2
    <3>2. CASE pc[r] \notin {"start", "restart"}
      <4>1. run' = [run EXCEPT ![rid[r]] = "off"] /\ Moves(r)
        BY <2>6, <3>2 DEF Runs, GoesOn, Answered
      <4> QED BY <1>0, <1>2, <1>3, <2>1, <4>1 DEF UnitTypes
    <3> QED BY <3>1, <3>2
  <2> QED BY <2>1, <2>4, <2>5, <2>6
<1>6. ASSUME NEW r \in Reqs, NEW i \in Ids, NEW ok \in BOOLEAN, Create(r, i, ok) PROVE RunInv'
  <2>1. /\ i \notin used /\ disk' = [mem EXCEPT ![i] = Placeholder] /\ UNCHANGED run
        /\ Moves(r) /\ pc[r] = "idle"
    BY <1>0, <1>1, <1>6, CreateFrame, ArriveFrame DEF unitVars
  <2> QED BY <1>0, <1>2, <1>3, <2>1 DEF StoreTypeOK
<1>7. ASSUME NEW r \in Reqs, NEW ok \in BOOLEAN, Save(r, ok) PROVE RunInv'
  <2>1. CASE UNCHANGED disk
    BY <1>1, <1>3, <1>7, <2>1, SaveFrame DEF unitVars, GoesOn, Answered
  <2>2. CASE disk' # disk
    <3>1. /\ pc[r] = "save" /\ disk' = [mem EXCEPT ![rid[r]] = cp[r]] /\ UNCHANGED run
          /\ Moves(r) /\ rid'[r] = rid[r] /\ pc'[r] = ApplyStep(cp[r])
      BY <1>1, <1>7, <2>2, SaveFrame DEF unitVars, GoesOn
    <3>2. IsLocal(cp[r]) => Applying(rid[r])'
      BY <3>1 DEF IsLocal, ApplyStep, Applying
    <3> QED BY <1>0, <1>2, <1>3, <3>1, <3>2 DEF StoreTypeOK, ReqTypes
  <2> QED BY <2>1, <2>2
<1>8. ASSUME NEW r \in Reqs, NEW ok \in BOOLEAN, Rollback(r, ok) \/ Forget(r, ok) PROVE RunInv'
  <2>1. /\ pc[r] \in {"rollback", "forget"} /\ Moves(r) /\ UNCHANGED run
        /\ \/ disk' = [mem EXCEPT ![rid[r]] = NoTunnel]
           \/ mem[rid[r]] = NoTunnel /\ UNCHANGED disk
    BY <1>1, <1>8, ForgetFrame DEF unitVars, Answered
  <2>2. rid[r] \in Ids /\ disk'[rid[r]] = NoTunnel
        /\ \A i \in Ids : i # rid[r] => disk'[i] = disk[i]
    BY <1>0, <1>2, <2>1 DEF StoreTypeOK, ReqTypes
  <2> QED BY <1>3, <2>1, <2>2 DEF IsLocal
<1>9. ASSUME NEW i \in Ids, RunnerLoads(i) \/ RunnerEnds(i) PROVE RunInv'
  <2>1. UNCHANGED <<disk, pc, rid>> /\ \A j \in Ids : j # i => run'[j] = run[j]
    BY <1>0, <1>9 DEF RunnerLoads, RunnerEnds, storeVars, reqVars, UnitTypes
  <2>2. run'[i] = disk[i].cfg \/ run'[i] = "starting"
    BY <1>0, <1>9 DEF RunnerLoads, RunnerEnds, UnitTypes
  <2> QED BY <1>1, <1>2, <2>1, <2>2 DEF RunInv, Applying
<1>10. CASE Crash \/ Reboot
  BY <1>2, <1>10 DEF Crash, Reboot
<1>11. CASE UNCHANGED vars
  BY <1>1, <1>11 DEF RunInv, Applying, vars, reqVars, storeVars, unitVars
<1> QED BY <1>4, <1>5, <1>6, <1>7, <1>8, <1>9, <1>10, <1>11 DEF PanelNext, HandleStore

\* When the requests are over and nothing has failed, a tunnel's process runs the settings that
\* are stored, in whatever order they saved and restarted it (web.go:534-651, manager.go:55-111).
THEOREM PanelRunsStored == PanelSpec => []RunsStoredSettings
<1> DEFINE Inv == PanelInv /\ UsedInv /\ WrittenInv /\ RunInv
<1>1. PanelInit => Inv
  <2> SUFFICES ASSUME PanelInit PROVE Inv
    OBVIOUS
  <2>1. UsedInv /\ WrittenInv
    BY DEF PanelInit, StoreInit, UsedInv, WrittenInv
  <2>2. RunInv
    BY DEF PanelInit, StoreInit, None, RunInv, IsLocal
  <2> QED BY <2>1, <2>2, PanelInitInv
<1>2. Inv /\ [PanelNext]_vars => Inv'
  BY PanelStepInv, UsedStep, WrittenStep, RunStep
<1>3. Inv => RunsStoredSettings
  BY DEF RunInv, Applying, Quiet, RunsStoredSettings
<1> QED BY <1>1, <1>2, <1>3, PTL DEF PanelSpec

-----------------------------------------------------------------------------
(* One request at a time leaves the units as the store says. *)

\* Nothing about i changes.
Same(i) == /\ mem'[i] = mem[i] /\ file'[i] = file[i] /\ boot'[i] = boot[i]
           /\ run'[i] = run[i] /\ rev'[i] = rev[i]

\* A request for i takes a step, alone.
LEMMA SeqKept ==
    ASSUME SeqInv, faults = 0, ~overlap, NEW r \in Reqs, NEW i \in Ids, Moves(r),
           \A s \in Reqs : s # r => pc[s] = "idle",
           pc[r] # "idle" => rid[r] = i,
           pc'[r] # "idle" => rid'[r] = i,
           \A j \in Ids : j # i => Same(j),
           pc'[r] = "idle" => Clean(i)',
           pc'[r] # "idle" => Done(pc[r], op[r], i, cp[r])'
    PROVE  SeqInv'
<1>1. \A j \in Ids : j # i => Clean(j)
  BY DEF SeqInv, Busy
<1>2. \A j \in Ids : j # i => Clean(j)'
  BY <1>1 DEF Same, Clean, NoUnit, IsLocal
<1>3. \A s \in Reqs : pc'[s] # "idle" => s = r
  BY DEF Moves
<1>4. ~Busy(i)' => Clean(i)'
  BY DEF Busy
<1>5. \A s \in Reqs : pc'[s] # "idle" => Done(pc[s], op[s], rid[s], cp[s])'
  <2>1. pc'[r] # "idle" => Done(pc[r], op[r], rid[r], cp[r])'
    BY DEF Done, Clean, Fresh, LocalAs, ReverseAs, NoUnit, IsLocal
  <2> QED BY <1>3, <2>1
<1> QED BY <1>2, <1>3, <1>4, <1>5 DEF SeqInv

\* A call of a request that is alone does the next thing.
LEMMA SeqHandle ==
    ASSUME PanelInv, SeqInv, faults = 0, ~overlap, NEW r \in Reqs, Handle(r), UNCHANGED faults
    PROVE  SeqInv'
<1>0. ReqTypes /\ UnitTypes /\ StoreTypeOK
  BY DEF PanelInv, StoreInv
<1>1. /\ UNCHANGED mem
      /\ WritesFile(r) \/ Links(r) \/ Runs(r) \/ Connects(r) \/ Prepares(r)
  BY HandleFrame DEF storeVars
<1>2. pc[r] # "idle" /\ Moves(r) /\ (pc'[r] = "idle" \/ GoesOn(r, pc'[r]))
  BY <1>1 DEF WritesFile, Links, Runs, Connects, Prepares, GoesOn, Answered
<1>3. PICK i \in Ids, t \in Tunnel : rid[r] = i /\ cp[r] = t
  BY <1>0, <1>2 DEF ReqTypes
<1>4. Done(pc[r], op[r], i, t) /\ \A s \in Reqs : s # r => pc[s] = "idle"
  BY <1>2, <1>3 DEF SeqInv
<1>5. \A j \in Ids : j # i => Same(j)
  BY <1>0, <1>1, <1>3 DEF WritesFile, Links, Runs, Connects, Prepares, Same, UnitTypes
<1>6. mem[i] = NoTunnel \/ (mem[i] \in Tunnel /\ mem[i] # NoTunnel)
  BY <1>0 DEF StoreTypeOK
<1> DEFINE next == /\ pc'[r] = "idle" => Clean(i)'
                   /\ pc'[r] # "idle" => Done(pc[r], op[r], i, t)'
<1>7. SUFFICES next
  BY <1>2, <1>3, <1>4, <1>5, SeqKept DEF GoesOn
<1>8. CASE WritesFile(r)
  BY <1>0, <1>1, <1>3, <1>4, <1>8
     DEF WritesFile, GoesOn, Done, LocalAs, IsLocal, UnitTypes
<1>9. CASE Links(r)
  BY <1>0, <1>1, <1>3, <1>4, <1>9
     DEF Links, GoesOn, Answered, Done, LocalAs, IsLocal, UnitTypes
<1>10. CASE Runs(r)
  <2>1. CASE pc[r] = "start"
    BY <1>0, <1>1, <1>3, <1>4, <1>6, <1>10, <2>1
       DEF Runs, Answered, Done, Clean, LocalAs, NoUnit, IsLocal, UnitTypes
  <2>2. CASE pc[r] = "restart"
    BY <1>0, <1>1, <1>3, <1>4, <1>6, <1>10, <2>2
       DEF Runs, Answered, Done, Clean, NoUnit, IsLocal, UnitTypes
  <2>3. CASE pc[r] = "stop"
    <3>1. mem[i] = t /\ boot[i] = t.enabled /\ rev[i] = "none" /\ IsLocal(t) /\ t.cfg # Blank
      BY <1>0, <1>4, <2>3 DEF Done, LocalAs, Tunnel, UnitTypes
    <3>2. ~t.enabled
      BY <1>4, <2>3 DEF Done
    <3>3. Answered(r) /\ UNCHANGED <<file, boot, rev>>
      BY <1>10, <2>3 DEF Runs
    <3> QED BY <1>1, <3>1, <3>2, <3>3 DEF Answered, Clean, IsLocal
  <2>4. CASE pc[r] = "rmStop"
    BY <1>0, <1>1, <1>3, <1>4, <1>6, <1>10, <2>4
       DEF Runs, GoesOn, Done, IsLocal, UnitTypes
  <2> QED BY <1>10, <2>1, <2>2, <2>3, <2>4 DEF Runs
<1>11. CASE Connects(r)
  <2>1. CASE pc[r] = "revApply"
    BY <1>0, <1>1, <1>3, <1>4, <1>6, <1>11, <2>1
       DEF Connects, Answered, Done, Clean, ReverseAs, NoUnit, IsLocal, UnitTypes
  <2>2. CASE pc[r] = "revRestart"
    BY <1>0, <1>1, <1>3, <1>4, <1>6, <1>11, <2>2
       DEF Connects, Answered, Done, Clean, NoUnit, IsLocal, UnitTypes
  <2>3. CASE pc[r] = "rmRev"
    BY <1>0, <1>1, <1>3, <1>4, <1>6, <1>11, <2>3
       DEF Connects, GoesOn, Done, NoUnit, UnitTypes
  <2> QED BY <1>11, <2>1, <2>2, <2>3 DEF Connects
<1>12. CASE Prepares(r)
  BY <1>0, <1>1, <1>3, <1>4, <1>6, <1>12
     DEF Prepares, GoesOn, Answered, Done, Clean, Fresh, LocalAs, NoUnit, IsLocal, Tunnel
<1> QED BY <1>1, <1>8, <1>9, <1>10, <1>11, <1>12

\* The saves, rollbacks and deletes of a request that is alone.
LEMMA SeqStore ==
    ASSUME PanelInv, UsedInv, SeqInv, faults = 0, ~overlap, NEW r \in Reqs, NEW ok \in BOOLEAN,
           HandleStore(r, ok), UNCHANGED faults
    PROVE  SeqInv'
<1>0. ReqTypes /\ UnitTypes /\ StoreTypeOK /\ mem = disk
  BY DEF PanelInv, StoreInv, UsedInv
<1>1. pc[r] \in {"save", "rollback", "forget"} /\ UNCHANGED unitVars /\ Moves(r)
  BY SaveFrame, ForgetFrame DEF HandleStore, GoesOn, Answered
<1>2. PICK i \in Ids, t \in Tunnel : rid[r] = i /\ cp[r] = t
  BY <1>0, <1>1 DEF ReqTypes
<1>3. Done(pc[r], op[r], i, t) /\ \A s \in Reqs : s # r => pc[s] = "idle"
  BY <1>1, <1>2 DEF SeqInv
<1>4. mem[i] # NoTunnel /\ t # NoTunnel /\ mem[i] \in Tunnel
  BY <1>0, <1>1, <1>3, NoTunnelAssumption DEF Done, Fresh, StoreTypeOK
<1>5. CASE Save(r, ok)
  <2>1. mem' = [mem EXCEPT ![i] = t] /\ GoesOn(r, ApplyStep(t)) /\ pc[r] = "save"
    BY <1>2, <1>4, <1>5, SaveFrame
  <2>2. \A j \in Ids : j # i => Same(j)
    BY <1>0, <1>1, <2>1 DEF Same, unitVars, StoreTypeOK
  <2>3. mem'[i] = t
    BY <1>0, <2>1 DEF StoreTypeOK
  <2>4. t.mode = "local" => LocalAs(i, t)'
    BY <1>1, <1>3, <1>4, <2>1, <2>3
       DEF Done, Fresh, Clean, LocalAs, IsLocal, unitVars
  <2>5. t.mode # "local" => ReverseAs(i, t)'
    BY <1>1, <1>3, <1>4, <2>1, <2>3
       DEF Done, Fresh, Clean, ReverseAs, NoUnit, IsLocal, unitVars
  <2>6. ApplyStep(t) = IF t.mode = "local" THEN "write" ELSE "revApply"
    BY ModesAssumption DEF ApplyStep, Tunnel
  <2>7. Done(ApplyStep(t), op[r], i, t)'
    BY <2>4, <2>5, <2>6 DEF Done
  <2> QED BY <1>2, <1>3, <2>1, <2>2, <2>6, <2>7, SeqKept DEF GoesOn
<1>6. CASE Rollback(r, ok) \/ Forget(r, ok)
  <2>1. mem' = [mem EXCEPT ![i] = NoTunnel] /\ Answered(r) /\ pc[r] \in {"rollback", "forget"}
    BY <1>2, <1>4, <1>6, ForgetFrame
  <2>2. \A j \in Ids : j # i => Same(j)
    BY <1>0, <1>1, <2>1 DEF Same, unitVars, StoreTypeOK
  <2>3. NoUnit(i) /\ rev[i] = "none"
    BY <1>3, <2>1 DEF Done, Fresh, NoUnit
  <2>4. Clean(i)'
    BY <1>0, <1>1, <2>1, <2>3 DEF Clean, NoUnit, IsLocal, unitVars, StoreTypeOK
  <2> QED BY <1>2, <1>3, <2>1, <2>2, <2>4, SeqKept DEF Answered
<1> QED BY <1>5, <1>6 DEF HandleStore

\* A request that arrives alone finds the units as the store says.
LEMMA SeqArrive ==
    ASSUME ~MaySwitch, PanelInv, SeqInv, faults = 0, ~overlap, ~overlap',
           NEW r \in Reqs, Request(r)
    PROVE  SeqInv'
<1>0. ReqTypes /\ UnitTypes /\ StoreTypeOK
  BY DEF PanelInv, StoreInv
<1>1. UNCHANGED vars => SeqInv'
  BY DEF SeqInv, Busy, Done, Clean, Fresh, LocalAs, ReverseAs, NoUnit, IsLocal, vars, reqVars,
     storeVars, unitVars, auxVars
<1>2. UNCHANGED <<mem, unitVars>>
  BY RequestFrame DEF storeVars
<1>3. ASSUME NEW i \in Ids, NEW o, NEW t, NEW q, Arrive(r, o, i, t, q),
             q # "idle", mem[i] # NoTunnel, Clean(i) => Done(q, o, i, t)
      PROVE  SeqInv'
  <2>1. \A s \in Reqs : pc[s] = "idle"
    BY <1>3, ArriveOverlap
  <2>2. /\ Moves(r) /\ pc'[r] = q /\ op'[r] = o /\ rid'[r] = i /\ cp'[r] = t
    BY <1>0, <1>3, ArriveFrame
  <2>3. Done(q, o, i, t)
    BY <1>3, <2>1 DEF SeqInv, Busy
  <2>4. Done(pc[r], op[r], i, cp[r])'
    BY <1>2, <2>2, <2>3 DEF Done, Clean, Fresh, LocalAs, ReverseAs, NoUnit, IsLocal, unitVars
  <2>5. \A j \in Ids : Same(j)
    BY <1>2 DEF Same, unitVars
  <2> QED BY <1>3, <2>1, <2>2, <2>4, <2>5, SeqKept
<1>4. ASSUME NEW i \in Ids, mem[i] # NoTunnel
      PROVE  mem[i] \in Tunnel /\ (mem[i].mode = "local" \/ mem[i].mode = "reverse")
  BY <1>0, <1>4, ModesAssumption DEF StoreTypeOK, Tunnel
<1>5. ASSUME NEW i \in Ids, Update(r, i) PROVE SeqInv'
  <2>1. PICK t \in Tunnel : /\ t.cfg # Blank /\ Arrive(r, "update", i, t, "auth")
                            /\ mem[i].cfg = Blank \/ t.mode = mem[i].mode
    BY <1>5 DEF Update
  <2>2. mem[i] # NoTunnel
    BY <1>5 DEF Update
  <2>3. Clean(i) => Done("auth", "update", i, t)
    BY <2>1, <2>2 DEF Clean, Done
  <2> QED BY <1>3, <2>1, <2>2, <2>3
<1>6. ASSUME NEW i \in Ids, Delete(r, i) PROVE SeqInv'
  <2> DEFINE q == IF mem[i].mode = "reverse" THEN "rmRev" ELSE "rmStop"
  <2>1. mem[i] # NoTunnel /\ Arrive(r, "delete", i, mem[i], q)
    BY <1>6 DEF Delete
  <2>2. Clean(i) => Done(q, "delete", i, mem[i])
    BY <1>4, <2>1 DEF Clean, Done, IsLocal
  <2> QED BY <1>3, <2>1, <2>2
<1>7. ASSUME NEW i \in Ids, StartStop(r, i) PROVE SeqInv'
  <2>1. mem[i] # NoTunnel
    BY <1>7 DEF StartStop
  <2>2. PICK on \in BOOLEAN : Arrive(r, IF on THEN "start" ELSE "stop", i,
                                     [mem[i] EXCEPT !.enabled = on], "save")
    BY <1>7 DEF StartStop
  <2> DEFINE t == [mem[i] EXCEPT !.enabled = on]
  <2>3. t.cfg = mem[i].cfg /\ t.mode = mem[i].mode
    BY <1>4, <2>1 DEF Tunnel
  <2> HIDE DEF t
  <2>4. Clean(i) => Done("save", IF on THEN "start" ELSE "stop", i, t)
    BY <2>1, <2>3 DEF Clean, Done
  <2> QED BY <1>3, <2>1, <2>2, <2>4 DEF t
<1>8. ASSUME NEW i \in Ids, Restart(r, i) PROVE SeqInv'
  <2> DEFINE q == IF mem[i].mode = "reverse" THEN "revRestart" ELSE "restart"
  <2>1. mem[i] # NoTunnel /\ Arrive(r, "restart", i, mem[i], q)
    BY <1>8 DEF Restart
  <2>2. Clean(i) => Done(q, "restart", i, mem[i])
    BY <1>4, <2>1 DEF Clean, Done, IsLocal
  <2> QED BY <1>3, <2>1, <2>2
<1> QED BY <1>1, <1>5, <1>6, <1>7, <1>8 DEF Request, NotFound

\* A create that is alone takes an id without a unit.
LEMMA SeqCreate ==
    ASSUME PanelInv, SeqInv, faults = 0, ~overlap, ~overlap', UNCHANGED faults,
           NEW r \in Reqs, NEW i \in Ids, NEW ok \in BOOLEAN, Create(r, i, ok)
    PROVE  SeqInv'
<1>0. ReqTypes /\ UnitTypes /\ StoreTypeOK /\ EntriesAreUsed
  BY DEF PanelInv, StoreInv
<1>1. /\ i \notin used /\ mem' = [mem EXCEPT ![i] = Placeholder] /\ UNCHANGED unitVars
  BY CreateFrame
<1>2. PICK t \in Tunnel : t.cfg # Blank /\ Arrive(r, "create", i, t, "auth")
  BY CreateFrame
<1>3. \A s \in Reqs : pc[s] = "idle"
  BY <1>2, ArriveOverlap
<1>4. Moves(r) /\ pc'[r] = "auth" /\ op'[r] = "create" /\ rid'[r] = i /\ cp'[r] = t
  BY <1>0, <1>2, ArriveFrame
<1>5. mem[i] = NoTunnel /\ Clean(i)
  BY <1>0, <1>1, <1>3 DEF EntriesAreUsed, SeqInv, Busy
<1>6. mem'[i] = Placeholder /\ Placeholder # NoTunnel
  BY <1>0, <1>1, PlaceholderType, NoTunnelAssumption DEF StoreTypeOK
<1>7. Fresh(i)'
  BY <1>1, <1>5, <1>6 DEF Fresh, Clean, NoUnit, unitVars
<1>8. Done(pc[r], op[r], i, cp[r])'
  BY <1>2, <1>4, <1>6, <1>7 DEF Done
<1>9. \A j \in Ids : j # i => Same(j)
  BY <1>0, <1>1 DEF Same, unitVars, StoreTypeOK
<1> QED BY <1>3, <1>4, <1>8, <1>9, SeqKept

\* One request at a time, without a switch of the mode.
LEMMA SeqStep ==
    ASSUME ~MaySwitch, PanelInv, UsedInv, SeqInv, [PanelNext]_vars PROVE SeqInv'
<1>0. ReqTypes /\ UnitTypes /\ StoreTypeOK
  BY DEF PanelInv, StoreInv
<1>1. ~overlap' => ~overlap
  BY OverlapKept
<1>2. SUFFICES ASSUME faults' = 0, faults = 0, UNCHANGED faults, ~overlap, ~overlap' PROVE SeqInv'
  BY <1>1, FaultsStay DEF SeqInv
<1>3. ~Fault
  BY <1>2, FaultCounts DEF PanelInv, CountTypes
<1>4. ASSUME NEW i \in Ids, RunnerLoads(i) \/ RunnerEnds(i) PROVE SeqInv'
  <2>1. /\ UNCHANGED <<mem, pc, op, rid, cp, file, boot, rev>>
        /\ \A j \in Ids : run'[j] = "off" <=> run[j] = "off"
    <3>1. run[i] # "off" /\ run'[i] # "off" /\ \A j \in Ids : j # i => run'[j] = run[j]
      <4>1. RunnerLoads(i) => disk[i].cfg \in Cfgs
        BY <1>0, BlankAssumption DEF RunnerLoads, StoreTypeOK, Tunnel
      <4> QED BY <1>0, <1>4, <4>1, PanelAssumption DEF RunnerLoads, RunnerEnds, UnitTypes
    <3> QED BY <1>4, <3>1 DEF RunnerLoads, RunnerEnds, storeVars, reqVars
  <2>2. \A j \in Ids : (Clean(j) => Clean(j)') /\ (Fresh(j) => Fresh(j)')
    BY <2>1 DEF Clean, Fresh, NoUnit, IsLocal
  <2>3. \A r \in Reqs : pc[r] # "idle" => Done(pc[r], op[r], rid[r], cp[r])'
    <3>1. SUFFICES ASSUME NEW r \in Reqs, pc[r] # "idle"
                   PROVE  Done(pc[r], op[r], rid[r], cp[r])'
      OBVIOUS
    <3>2. PICK j \in Ids : rid[r] = j
      BY <1>0, <3>1 DEF ReqTypes
    <3>3. Done(pc[r], op[r], j, cp[r])
      BY <1>2, <3>1, <3>2 DEF SeqInv
    <3> QED BY <2>1, <2>2, <3>2, <3>3 DEF Done, LocalAs, ReverseAs, NoUnit, IsLocal
  <2> QED BY <1>2, <2>1, <2>2, <2>3 DEF SeqInv, Busy
<1>5. CASE Crash \/ Reboot
  BY <1>3, <1>5 DEF Crash, Reboot
<1>6. CASE UNCHANGED vars
  BY <1>6 DEF SeqInv, Busy, Done, Clean, Fresh, LocalAs, ReverseAs, NoUnit, IsLocal, vars, reqVars,
     storeVars, unitVars, auxVars
<1> QED BY <1>2, <1>4, <1>5, <1>6, SeqHandle, SeqStore, SeqArrive, SeqCreate DEF PanelNext

\* As long as requests do not overlap, nothing fails and no update changes the mode of a tunnel,
\* the units agree with the store whenever a request is over (web.go:534-651, manager.go:55-111).
THEOREM PanelAgreesWithUnits ==
    ASSUME ~MaySwitch PROVE PanelSpec => []SequentialAgreement
<1> DEFINE Inv == PanelInv /\ UsedInv /\ SeqInv
<1>1. PanelInit => Inv
  <2> SUFFICES ASSUME PanelInit PROVE Inv
    OBVIOUS
  <2>1. UsedInv
    BY DEF PanelInit, StoreInit, UsedInv
  <2>2. SeqInv
    BY DEF PanelInit, StoreInit, None, SeqInv, Clean, NoUnit, IsLocal
  <2> QED BY <2>1, <2>2, PanelInitInv
<1>2. Inv /\ [PanelNext]_vars => Inv'
  BY PanelStepInv, UsedStep, SeqStep
<1>3. Inv => SequentialAgreement
  BY DEF UsedInv, SeqInv, Quiet, Busy, Clean, NoUnit, IsLocal, SequentialAgreement
<1> QED BY <1>1, <1>2, <1>3, PTL DEF PanelSpec

\* The overlap of two requests is what an orphaned unit takes (Panel.tla, DeletedHasNoUnit): while
\* requests do not overlap, nothing fails and no update changes a mode, a tunnel whose delete was
\* answered with success has no unit, running or enabled (web.go:604-616).
THEOREM NoOrphanInOrder ==
    ASSUME ~MaySwitch PROVE PanelSpec => [](~overlap => DeletedHasNoUnit)
<1>1. PanelTypeOK /\ DeletedStaysDeleted /\ SequentialAgreement => (~overlap => DeletedHasNoUnit)
  <2> SUFFICES ASSUME PanelTypeOK, DeletedStaysDeleted, SequentialAgreement, ~overlap,
                      Quiet, faults = 0, NEW i \in acked
               PROVE  run[i] = "off" /\ ~boot[i]
    BY DEF DeletedHasNoUnit
  <2>1. i \in gone /\ i \in Ids
    BY DEF PanelTypeOK, StoreTypeOK
  <2>2. mem[i] = NoTunnel
    BY <2>1 DEF DeletedStaysDeleted
  <2> QED BY <2>1, <2>2, Zenon DEF SequentialAgreement
<1> QED BY <1>1, PanelTypes, PanelDeletesForGood, PanelAgreesWithUnits, PTL
=============================================================================
