--------------------------- MODULE SettingsProofs ---------------------------
(* Safety of the settings, the users and the local node, for any number of *)
(* commands, requests and failures.  Each theorem names the overlaps that  *)
(* must not happen for it to hold.                                         *)
EXTENDS Settings, FiniteSetTheorems, TLAPS

\* randHex finds a token that nobody has.
FreeToken == \E t \in Tokens : t \notin InUse

Process == [pc : ProcPcs, cfg : Config, st : Store, job : Asked,
            then : {"off", "open", "mint", "user"}, must : BOOLEAN]
Request == [pc : ReqPcs, job : Asked, snap : Config]

\* The types, and: a process that has loaded the configuration has a token.
TypeInv ==
    /\ file \in [kind : {"none", "torn", "whole"}, cfg : Config]
    /\ disk \in Store
    /\ proc \in [Processes -> Process] /\ req \in [Requests -> Request]
    /\ stale \in BOOLEAN
    /\ last \in [cfg : Config, user : Users \cup {NoUser}] /\ tried \subseteq Users
    /\ calls \in 0..MaxCalls /\ faults \in 0..MaxFaults
    /\ \A p \in Processes : proc[p].pc \notin {"off", "load"} => proc[p].cfg.token \in Tokens

\* Requests are served by a panel that is up, and a panel that starts goes on from Load to the
\* opening of the store.
PanelInv ==
    /\ \A r \in Requests : req[r].pc # "idle" => Up
    /\ \A r \in Requests : req[r].pc \notin {"idle", "tunnel"} => req[r].job.kind # "tunnel"
    /\ proc[Panel].pc # "off" => proc[Panel].job.kind = "serve"
    /\ proc[Panel].pc \in {"trunc", "write"} => proc[Panel].then = "open"

\* A command that was only asked to load does nothing after it, but for saving what Load added.
CommandInv == \A c \in Commands :
    \/ proc[c].pc \in {"off", "load", "up", "local"}
    \/ proc[c].pc \in {"trunc", "write"} /\ proc[c].then = "off"
    \/ proc[c].job.kind # "read"

\* At most one request changes settings or users.
OneChange == \A r, s \in Requests :
    r # s /\ req[r].pc # "idle" /\ req[r].job.kind # "tunnel" =>
        req[s].pc = "idle" \/ req[s].job.kind = "tunnel"

\* A command runs alone, with the panel stopped or up and idle, and after one that may change
\* something the panel is out of date, until it is started again.
OneCommand ==
    /\ \A c, d \in Commands : proc[c].pc # "off" /\ proc[d].pc # "off" => c = d
    /\ \A c \in Commands : proc[c].pc # "off" =>
          /\ ~Serving /\ proc[Panel].pc \in {"off", "up"}
          /\ proc[c].job.kind # "read" => stale \/ proc[Panel].pc = "off"
    /\ proc[Panel].pc \notin {"off", "up"} => ~stale

\* A node that a request is about to add is still missing, and nobody has two.
NodeInv ==
    /\ OneLocalNode
    /\ \A r \in Requests : req[r].pc = "add" => NoLocal

\* The panel that is not out of date has the acknowledged user in memory, or one that failed.
UserInv ==
    /\ PasswordIsDurable
    /\ Serving => ~stale
    /\ ~stale /\ proc[Panel].pc \in {"local", "up"} => St.user = last.user \/ St.user \in tried

\* As long as nothing has failed, config.json is torn only while its one writer writes it.
FileInv ==
    faults = 0 =>
        /\ file.kind = "torn" <=> Writing
        /\ file.kind = "whole" => file.cfg = last.cfg

Loaded == proc[Panel].pc \in {"open", "local", "up"}
Saving(r) == req[r].pc \in {"base2", "master", "local", "add", "marshal", "trunc", "write"}

\* The request that saves the configuration saves what the panel has.
SnapInv == \A r \in Requests : req[r].pc \in {"trunc", "write"} => req[r].snap = Cfg

\* As long as nothing has failed, a panel that has loaded the files and is not out of date has
\* what was saved last, unless a request is about to save what it has changed; no command
\* saves beside it.
LoadedInv == faults = 0 =>
    /\ tried = {}
    /\ Loaded => file.kind # "none" /\ last.cfg.token \in Tokens
    /\ Loaded /\ ~stale =>
          /\ \A c \in Commands : proc[c].pc \notin {"trunc", "write"}
          /\ (\A r \in Requests : ~Saving(r)) => Cfg = last.cfg
          /\ proc[Panel].pc # "open" => St = disk

-----------------------------------------------------------------------------
(* Types. *)

\* The values at rest have their types.
LEMMA RestTypes ==
    /\ Empty \in Config /\ NewStore \in Store
    /\ Truncated \in [kind : {"none", "torn", "whole"}, cfg : Config]
    /\ \A k \in {"serve", "read", "token", "admin", "settings", "setup", "tunnel"} :
           Job(k) \in Asked
    /\ Off \in Process /\ Idle \in Request
<1>1. Empty \in Config
  BY SettingsAssumption DEF Empty, Config
<1>2. NewStore \in Store
  BY DEF NewStore, Store
<1>3. \A k \in {"serve", "read", "token", "admin", "settings", "setup", "tunnel"} :
          Job(k) \in Asked
  BY SettingsAssumption DEF Job, Asked
<1>4. Off \in Process
  BY <1>1, <1>2, <1>3 DEF Off, Process, ProcPcs
<1>5. Idle \in Request
  BY <1>1, <1>3 DEF Idle, Request, ReqPcs
<1> QED BY <1>1, <1>2, <1>3, <1>4, <1>5 DEF Truncated

\* A process may go on to next.
Fits(next) == /\ next \in Process
              /\ next.pc \notin {"off", "load"} => next.cfg.token \in Tokens

\* Processes and requests are none of each other.
LEMMA PanelIsProcess == Panel \in Processes /\ Commands \subseteq Processes
BY DEF Processes

\* A process that goes on to a value that fits keeps the types of the processes.
LEMMA GoesTypes ==
    ASSUME TypeInv, NEW p \in Processes, NEW next, Fits(next), Goes(p, next)
    PROVE  /\ proc' \in [Processes -> Process]
           /\ \A q \in Processes :
                  proc'[q].pc \notin {"off", "load"} => proc'[q].cfg.token \in Tokens
BY DEF TypeInv, Fits, Goes

\* A process that ends does too.
LEMMA EndsTypes ==
    ASSUME TypeInv, NEW p \in Processes, Ends(p)
    PROVE  /\ proc' \in [Processes -> Process]
           /\ \A q \in Processes :
                  proc'[q].pc \notin {"off", "load"} => proc'[q].cfg.token \in Tokens
           /\ req' \in [Requests -> Request]
<1>1. Fits(Off)
  BY RestTypes DEF Fits, Off
<1>2. Goes(p, Off)
  BY DEF Ends
<1>3. req' \in [Requests -> Request]
  BY RestTypes DEF Ends, TypeInv
<1> QED BY <1>1, <1>2, <1>3, GoesTypes

\* The token that applyDefaults leaves is one.
LEMMA TokenTypes == ASSUME FreeToken, NEW cfg \in Config PROVE TokenOf(cfg) \in Tokens
BY DEF FreeToken, TokenOf, Config

\* A fault is counted up to its bound.
LEMMA FaultTypes == ASSUME TypeInv, Fault PROVE faults' \in 0..MaxFaults /\ faults' # 0 
BY SettingsAssumption DEF TypeInv, Fault

\* config.Load and Config.Save keep the types.
LEMMA RunTypes == ASSUME TypeInv, FreeToken, NEW p \in Processes, Run(p) PROVE TypeInv'
<1>0. proc[p] \in Process /\ file.cfg \in Config
  BY DEF TypeInv
<1>1. AfterLoad(p) \in {"off", "open", "mint"}
  BY DEF AfterLoad
<1>2. CASE LoadMissing(p)
  <2> DEFINE cfg == [Empty EXCEPT !.token = TokenOf(Empty)]
             next == [proc[p] EXCEPT !.pc = "trunc", !.cfg = cfg, !.then = AfterLoad(p),
                                     !.must = TRUE]
  <2>1. cfg \in Config /\ cfg.token \in Tokens
    BY RestTypes, TokenTypes DEF Config
  <2>2. Fits(next)
    BY <1>0, <1>1, <2>1 DEF Fits, Process, ProcPcs
  <2>3. Goes(p, next)
    BY <1>2 DEF LoadMissing
  <2> QED BY <1>2, <2>2, <2>3, GoesTypes DEF LoadMissing, TypeInv
<1>3. CASE LoadWhole(p)
  <2> DEFINE cfg == [file.cfg EXCEPT !.token = TokenOf(file.cfg)]
             at == IF file.cfg.token = NoToken THEN "trunc" ELSE AfterLoad(p)
             next == [proc[p] EXCEPT !.pc = at, !.cfg = cfg, !.then = AfterLoad(p),
                                     !.must = FALSE]
  <2>1. cfg \in Config /\ cfg.token \in Tokens
    BY <1>0, TokenTypes DEF Config
  <2>2. Fits(next)
    BY <1>0, <1>1, <2>1 DEF Fits, Process, ProcPcs
  <2>3. Goes(p, next)
    BY <1>3 DEF LoadWhole
  <2> QED BY <1>3, <2>2, <2>3, GoesTypes DEF LoadWhole, TypeInv
<1>4. CASE LoadTorn(p)
  BY <1>4, EndsTypes DEF LoadTorn, TypeInv
<1>5. CASE Truncate(p)
  <2>1. Fits([proc[p] EXCEPT !.pc = "write"])
    BY <1>0, <1>5 DEF Fits, Process, ProcPcs, Truncate, TypeInv
  <2> QED BY <1>5, <2>1, GoesTypes, RestTypes DEF Truncate, TypeInv
<1>6. Fits([proc[p] EXCEPT !.pc = proc[p].then]) \/ ~Save(p)
  BY <1>0 DEF Fits, Process, ProcPcs, Save, Truncate, Write, SaveFails, TypeInv
<1>7. CASE Write(p)
  <2>1. file' \in [kind : {"none", "torn", "whole"}, cfg : Config]
    BY <1>0, <1>7, RestTypes DEF Write, Written, Process
  <2>2. last' \in [cfg : Config, user : Users \cup {NoUser}]
    BY <1>0, <1>7 DEF Write, TypeInv, Process
  <2> QED BY <1>6, <1>7, <2>1, <2>2, GoesTypes DEF Write, Save, TypeInv
<1>8. CASE SaveFails(p)
  BY <1>6, <1>8, GoesTypes, EndsTypes, FaultTypes DEF SaveFails, Save, TypeInv
<1> QED BY <1>2, <1>3, <1>4, <1>5, <1>7, <1>8 DEF Run, Load, Save

\* The commands' steps keep the types.
LEMMA AdminTypes == ASSUME TypeInv, FreeToken, NEW c \in Commands, Admin(c) PROVE TypeInv'
<1>0. c \in Processes /\ proc[c] \in Process /\ disk \in Store
  BY PanelIsProcess DEF TypeInv
<1>1. CASE Regenerate(c)
  <2>1. TokenOf(Empty) \in Tokens
    BY RestTypes, TokenTypes
  <2>2. Fits([proc[c] EXCEPT !.pc = "trunc", !.cfg.token = TokenOf(Empty), !.then = "off",
                             !.must = TRUE])
    BY <1>0, <2>1 DEF Fits, Process, ProcPcs, Config
  <2> QED BY <1>0, <1>1, <2>2, GoesTypes DEF Regenerate, TypeInv
<1>2. CASE OpenForAdmin(c)
  <2>1. Turned(proc[c].cfg, proc[c].job) \in Config
    BY <1>0 DEF Turned, Process, Config, Asked
  <2>2. Turned(proc[c].cfg, proc[c].job).token \in Tokens
    BY <1>0, <1>2 DEF OpenForAdmin, Turned, TypeInv, Process, Config
  <2> HIDE DEF Turned
  <2>3. Fits([proc[c] EXCEPT !.pc = "trunc", !.st = disk,
                             !.cfg = Turned(@, proc[c].job), !.then = "user", !.must = TRUE])
    <3> DEFINE cfg == Turned(proc[c].cfg, proc[c].job)
               next == [proc[c] EXCEPT !.pc = "trunc", !.st = disk, !.cfg = cfg,
                                       !.then = "user", !.must = TRUE]
    <3>1. /\ next.pc = "trunc" /\ next.st = disk /\ next.cfg = cfg /\ next.then = "user"
          /\ next.must = TRUE /\ next \in Process
      BY <1>0, <2>1 DEF Process, ProcPcs
    <3> HIDE DEF next
    <3>2. Fits(next)
      BY <2>2, <3>1 DEF Fits
    <3> QED BY <3>2 DEF next
  <2> QED BY <1>0, <1>2, <2>3, GoesTypes DEF OpenForAdmin, Only, TypeInv
<1>3. CASE AdminUser(c)
  <2>1. disk' \in Store /\ last' \in [cfg : Config, user : Users \cup {NoUser}]
        /\ tried' \subseteq Users /\ faults' \in 0..MaxFaults
    <3>1. PICK u \in Users :
             \/ UNCHANGED <<disk, last, tried, faults>>
             \/ /\ disk' = [proc[c].st EXCEPT !.user = u]
                /\ last' = [last EXCEPT !.user = u] /\ tried' = {} /\ UNCHANGED faults
             \/ Fault /\ tried' = tried \cup {u} /\ UNCHANGED <<disk, last>>
      BY <1>3 DEF AdminUser
    <3>2. [proc[c].st EXCEPT !.user = u] \in Store
      BY <1>0 DEF Process, Store
    <3>3. [last EXCEPT !.user = u] \in [cfg : Config, user : Users \cup {NoUser}]
      BY DEF TypeInv
    <3> QED BY <3>1, <3>2, <3>3, FaultTypes DEF TypeInv
  <2> QED BY <1>0, <1>3, <2>1, EndsTypes DEF AdminUser, TypeInv
<1> QED BY <1>1, <1>2, <1>3 DEF Admin

\* A node appended to the panel's list is one.
LEMMA WithLocalTypes ==
    ASSUME NEW st \in Store, NEW cfg \in Config PROVE WithLocal(st, cfg) \in Store
<1>1. [base |-> cfg.base, token |-> cfg.token] \in Local
  BY DEF Config, Local
<1>2. Append(st.locals, [base |-> cfg.base, token |-> cfg.token]) \in Seq(Local)
  BY <1>1 DEF Store
<1> QED BY <1>2 DEF WithLocal, Store

\* A flush keeps the types if what the panel goes on to fits.
LEMMA FlushedTypes ==
    ASSUME TypeInv, NEW st \in Store, NEW next, Fits(next), Flushed(st, next)
    PROVE  /\ proc' \in [Processes -> Process]
           /\ \A q \in Processes :
                  proc'[q].pc \notin {"off", "load"} => proc'[q].cfg.token \in Tokens
           /\ disk' \in Store /\ faults' \in 0..MaxFaults
BY GoesTypes, PanelIsProcess, FaultTypes DEF Flushed, TypeInv

\* The panel's start keeps the types.
LEMMA StartTypes == ASSUME TypeInv, OpenStore \/ EnsureAtStart PROVE TypeInv'
<1>0. proc[Panel] \in Process /\ disk \in Store
  BY PanelIsProcess DEF TypeInv
<1>1. CASE OpenStore
  <2>1. Fits([proc[Panel] EXCEPT !.pc = "local", !.st = disk])
    BY <1>0, <1>1, PanelIsProcess DEF Fits, Process, ProcPcs, OpenStore, TypeInv
  <2> QED BY <1>1, <2>1, GoesTypes, PanelIsProcess DEF OpenStore, Only, TypeInv
<1>2. CASE EnsureAtStart
  <2> DEFINE st == WithLocal(proc[Panel].st, proc[Panel].cfg)
  <2>1. st \in Store
    BY <1>0, WithLocalTypes DEF Process
  <2> HIDE DEF st
  <2>2. /\ Fits([proc[Panel] EXCEPT !.pc = "up", !.st = st])
        /\ Fits([proc[Panel] EXCEPT !.pc = "up"])
    BY <1>0, <1>2, <2>1, PanelIsProcess DEF Fits, Process, ProcPcs, EnsureAtStart, TypeInv
  <2>3. CASE proc[Panel].cfg.master /\ NoLocal
    <3>1. Flushed(st, [proc[Panel] EXCEPT !.pc = "up", !.st = st])
      BY <1>2, <2>3 DEF EnsureAtStart, st
    <3> QED BY <1>2, <2>1, <2>2, <3>1, FlushedTypes DEF EnsureAtStart, TypeInv
  <2>4. CASE ~(proc[Panel].cfg.master /\ NoLocal)
    BY <1>2, <2>2, <2>4, GoesTypes, PanelIsProcess DEF EnsureAtStart, TypeInv
  <2> QED BY <2>3, <2>4
<1> QED BY <1>1, <1>2

\* What commands and requests are asked has its type.
LEMMA JobTypes == CommandJobs \subseteq Asked /\ RequestJobs \subseteq Asked
BY RestTypes DEF CommandJobs, RequestJobs, Job, Asked

\* A call is counted up to its bound.
LEMMA CallTypes == ASSUME TypeInv, Call PROVE calls' \in 0..MaxCalls
BY SettingsAssumption DEF TypeInv, Call

\* Beginnings and ends keep the types.
LEMMA LifeTypes ==
    ASSUME TypeInv,
           \/ StartPanel \/ Stop
           \/ \E c \in Commands, j \in CommandJobs : Command(c, j)
           \/ \E r \in Requests, j \in RequestJobs : Begin(r, j)
           \/ \E p \in Processes : Kill(p)
    PROVE  TypeInv'
<1>1. ASSUME NEW c \in Commands, NEW j \in CommandJobs, Command(c, j) PROVE TypeInv'
  <2>1. Fits([Off EXCEPT !.pc = "load", !.job = j])
    BY RestTypes, JobTypes DEF Fits, Process, ProcPcs
  <2>2. (stale \/ (proc[Panel].pc # "off" /\ j.kind # "read")) \in BOOLEAN
    BY Zenon
  <2> QED BY <1>1, <2>1, <2>2, GoesTypes, CallTypes, PanelIsProcess DEF Command, TypeInv
<1>2. CASE StartPanel
  <2>1. Fits([Off EXCEPT !.pc = "load", !.job = Job("serve")])
    BY RestTypes DEF Fits, Process, ProcPcs
  <2> QED BY <1>2, <2>1, GoesTypes, PanelIsProcess DEF StartPanel, TypeInv
<1>3. CASE Stop
  BY <1>3, EndsTypes, PanelIsProcess DEF Stop, TypeInv
<1>4. ASSUME NEW p \in Processes, Kill(p) PROVE TypeInv'
  BY <1>4, EndsTypes, FaultTypes DEF Kill, TypeInv
<1>5. ASSUME NEW r \in Requests, NEW j \in RequestJobs, Begin(r, j) PROVE TypeInv'
  <2> DEFINE at == CASE j.kind = "setup" -> "has" [] j.kind = "settings" -> "user"
                     [] OTHER -> "tunnel"
  <2>1. at \in ReqPcs
    BY DEF ReqPcs
  <2>2. [Idle EXCEPT !.job = j, !.pc = at] \in Request
    BY <2>1, RestTypes, JobTypes DEF Request
  <2>3. req' = [req EXCEPT ![r] = [Idle EXCEPT !.job = j, !.pc = at]]
    BY <1>5 DEF Begin
  <2>4. UNCHANGED <<file, disk, proc, stale, last, tried, faults>> /\ calls' \in 0..MaxCalls
    BY <1>5, CallTypes DEF Begin
  <2> HIDE DEF at
  <2>5. req' \in [Requests -> Request]
    BY <2>2, <2>3 DEF TypeInv
  <2> QED BY <2>4, <2>5 DEF TypeInv
<1> QED BY <1>1, <1>2, <1>3, <1>4, <1>5

\* A request goes on or is answered.
LEMMA TurnTypes ==
    ASSUME TypeInv, NEW r \in Requests,
           Answer(r) \/ \E q \in ReqPcs : Turn(r, q)
    PROVE  req' \in [Requests -> Request]
<1>1. ASSUME NEW q \in ReqPcs, Turn(r, q) PROVE req' \in [Requests -> Request]
  BY <1>1 DEF Turn, TypeInv, Request
<1>2. CASE Answer(r)
  BY <1>2, RestTypes DEF Answer, TypeInv
<1> QED BY <1>1, <1>2

\* The panel's memory keeps its types while a request changes it.
LEMMA SetTypes == ASSUME TypeInv, Up
    PROVE  /\ \A cfg \in Config : cfg.token = Cfg.token /\ SetCfg(cfg) =>
                 /\ proc' \in [Processes -> Process]
                 /\ \A q \in Processes :
                       proc'[q].pc \notin {"off", "load"} => proc'[q].cfg.token \in Tokens
           /\ \A st \in Store : SetStore(st) =>
                 /\ proc' \in [Processes -> Process]
                 /\ \A q \in Processes :
                       proc'[q].pc \notin {"off", "load"} => proc'[q].cfg.token \in Tokens
                 /\ disk' \in Store /\ faults' \in 0..MaxFaults
<1>0. proc[Panel] \in Process /\ Cfg.token \in Tokens
  BY PanelIsProcess DEF TypeInv, Up, Cfg
<1>1. ASSUME NEW cfg \in Config, cfg.token = Cfg.token, SetCfg(cfg)
      PROVE  /\ proc' \in [Processes -> Process]
             /\ \A q \in Processes :
                   proc'[q].pc \notin {"off", "load"} => proc'[q].cfg.token \in Tokens
  <2>1. Fits([proc[Panel] EXCEPT !.cfg = cfg])
    BY <1>0, <1>1 DEF Fits, Process
  <2>2. Goes(Panel, [proc[Panel] EXCEPT !.cfg = cfg])
    BY <1>1 DEF SetCfg, Goes
  <2> QED BY <2>1, <2>2, GoesTypes, PanelIsProcess
<1>2. ASSUME NEW st \in Store, SetStore(st)
      PROVE  /\ proc' \in [Processes -> Process]
             /\ \A q \in Processes :
                   proc'[q].pc \notin {"off", "load"} => proc'[q].cfg.token \in Tokens
             /\ disk' \in Store /\ faults' \in 0..MaxFaults
  <2>1. Fits([proc[Panel] EXCEPT !.st = st])
    BY <1>0 DEF Fits, Process, Cfg
  <2> QED BY <1>2, <2>1, FlushedTypes DEF SetStore
<1> QED BY <1>1, <1>2

\* The steps of a request keep the types.
LEMMA HandleTypes == ASSUME TypeInv, PanelInv, NEW r \in Requests, Handle(r) PROVE TypeInv'
<1>0. /\ req[r] \in Request /\ proc[Panel] \in Process /\ Cfg \in Config /\ St \in Store
      /\ req[r].pc # "idle" => Up
  BY PanelIsProcess DEF TypeInv, PanelInv, Process, Cfg, St
<1>1. CASE FlushTunnel(r)
  BY <1>0, <1>1, TurnTypes, SetTypes DEF FlushTunnel, TypeInv
<1>2. CASE HasUsers(r) \/ NoPassword(r) \/ FindLocal(r)
  BY <1>2, TurnTypes DEF HasUsers, NoPassword, FindLocal, TypeInv, ReqPcs
<1>3. CASE SetUser(r)
  <2>1. [St EXCEPT !.user = req[r].job.user] \in Store
    BY <1>0 DEF Request, Asked, Store
  <2>2. /\ last' \in [cfg : Config, user : Users \cup {NoUser}] /\ tried' \subseteq Users
        /\ req' \in [Requests -> Request]
    BY <1>0, <1>3, TurnTypes DEF SetUser, TypeInv, Request, Asked, ReqPcs
  <2> QED BY <1>0, <1>3, <2>1, <2>2, SetTypes DEF SetUser, TypeInv
<1>4. ASSUME NEW p \in ReqPcs \ {"idle"}, NEW next \in ReqPcs, NEW cfg \in Config,
             cfg.token = Cfg.token, Assign(r, p, next, cfg)
      PROVE  TypeInv'
  BY <1>0, <1>4, TurnTypes, SetTypes DEF Assign, TypeInv
<1>5. CASE SetBase(r) \/ SetBase2(r) \/ SetMaster(r)
  <2>0. ASSUME NEW b \in Paths \cup {Mixed}
        PROVE  [Cfg EXCEPT !.base = b] \in Config /\ [Cfg EXCEPT !.base = b].token = Cfg.token
    BY <1>0 DEF Config
  <2>1. [Cfg EXCEPT !.base = Mixed] \in Config /\ [Cfg EXCEPT !.base = Mixed].token = Cfg.token
    BY <2>0
  <2>2. /\ [Cfg EXCEPT !.base = req[r].job.base] \in Config
        /\ [Cfg EXCEPT !.base = req[r].job.base].token = Cfg.token
    <3>1. req[r].job.base \in Paths \cup {Mixed}
      BY <1>0 DEF Request, Asked
    <3> QED BY <2>0, <3>1
  <2> DEFINE m == IF req[r].job.master = "keep" THEN Cfg.master ELSE req[r].job.master = "on"
  <2>3. m \in BOOLEAN
    BY <1>0 DEF Config
  <2>4. [Cfg EXCEPT !.master = m] \in Config /\ [Cfg EXCEPT !.master = m].token = Cfg.token
    BY <1>0, <2>3 DEF Config
  <2>5. SetMaster(r) => \E q \in {"local", "marshal"} : 
           Assign(r, "master", q, [Cfg EXCEPT !.master = m])
    BY DEF SetMaster
  <2> HIDE DEF m
  <2>6. CASE SetBase(r)
    BY <1>4, <2>1, <2>6 DEF SetBase, ReqPcs
  <2>7. CASE SetBase2(r)
    BY <1>4, <2>2, <2>7 DEF SetBase2, ReqPcs
  <2>8. CASE SetMaster(r)
    BY <1>4, <2>4, <2>5, <2>8 DEF ReqPcs
  <2> QED BY <1>5, <2>6, <2>7, <2>8
<1>6. CASE AddLocal(r)
  <2>1. WithLocal(St, Cfg) \in Store
    BY <1>0, WithLocalTypes
  <2> QED BY <1>0, <1>6, <2>1, TurnTypes, SetTypes DEF AddLocal, TypeInv, ReqPcs
<1>7. CASE Marshal(r)
  <2>1. req' = [req EXCEPT ![r] = [req[r] EXCEPT !.pc = "trunc", !.snap = Cfg]]
    BY <1>7 DEF Marshal, TypeInv
  <2>2. [req[r] EXCEPT !.pc = "trunc", !.snap = Cfg] \in Request
    BY <1>0 DEF Request, ReqPcs
  <2> QED BY <1>7, <2>1, <2>2 DEF Marshal, TypeInv
<1>8. CASE TruncateFile(r)
  BY <1>8, TurnTypes, RestTypes DEF TruncateFile, TypeInv, ReqPcs
<1>9. CASE WriteFile(r)
  <2>1. req[r].snap \in Config
    BY <1>0 DEF Request
  <2>2. file' \in [kind : {"none", "torn", "whole"}, cfg : Config]
    BY <1>9, <2>1, RestTypes DEF WriteFile, Written
  <2>3. last' \in [cfg : Config, user : Users \cup {NoUser}]
    BY <1>9, <2>1 DEF WriteFile, TypeInv
  <2> QED BY <1>9, <2>2, <2>3, TurnTypes DEF WriteFile, TypeInv
<1>10. CASE SaveConfigFails(r)
  BY <1>10, TurnTypes, FaultTypes DEF SaveConfigFails, TypeInv
<1> QED BY <1>1, <1>2, <1>3, <1>5, <1>6, <1>7, <1>8, <1>9, <1>10 DEF Handle, UpdateSettings

-----------------------------------------------------------------------------
(* What the steps of each process leave alone. *)

\* Only p moves.
Moves(p) == proc' = [proc EXCEPT ![p] = proc'[p]]

\* A process that goes on to next is the only one that moves.
LEMMA GoesFrame ==
    ASSUME TypeInv, NEW p \in Processes, NEW next, Goes(p, next)
    PROVE  Moves(p) /\ proc'[p] = next /\ \A q \in Processes : q # p => proc'[q] = proc[q]
BY DEF Goes, Moves, TypeInv

\* The fields that a process keeps through Load and Save.
Keeps(p) == proc'[p].job = proc[p].job /\ proc'[p].st = proc[p].st

\* What Load does to the process that loads.
LEMMA LoadFrame ==
    ASSUME TypeInv, NEW p \in Processes, Load(p)
    PROVE  /\ proc[p].pc = "load" /\ Moves(p) /\ \A q \in Processes : q # p => proc'[q] = proc[q]
           /\ UNCHANGED <<file, disk, stale, last, tried, faults>>
           /\ \/ Ends(p) /\ proc'[p] = Off /\ file.kind = "torn"
              \/ /\ UNCHANGED req /\ Keeps(p) /\ proc'[p].then = AfterLoad(p)
                 /\ \/ /\ proc'[p].pc = "trunc"
                       /\ file.kind = "none" \/ (file.kind = "whole" /\ file.cfg.token = NoToken)
                    \/ /\ proc'[p].pc = AfterLoad(p)
                       /\ file.kind = "whole" /\ file.cfg.token # NoToken
                       /\ proc'[p].cfg = file.cfg
<1>0. proc[p] \in Process /\ file.cfg \in Config
  BY DEF TypeInv
<1>1. CASE LoadMissing(p)
  <2> DEFINE next == [proc[p] EXCEPT !.pc = "trunc",
                                     !.cfg = [Empty EXCEPT !.token = TokenOf(Empty)],
                                     !.then = AfterLoad(p), !.must = TRUE]
  <2>1. Goes(p, next)
    BY <1>1 DEF LoadMissing
  <2>2. next.pc = "trunc" /\ next.then = AfterLoad(p) /\ next.job = proc[p].job
        /\ next.st = proc[p].st
    BY <1>0 DEF Process
  <2>3. /\ proc[p].pc = "load" /\ file.kind = "none"
        /\ UNCHANGED <<file, disk, req, stale, last, tried, faults>>
    BY <1>1 DEF LoadMissing
  <2> HIDE DEF next
  <2> QED BY <2>1, <2>2, <2>3, GoesFrame DEF Keeps
<1>2. CASE LoadWhole(p)
  <2> DEFINE cfg == [file.cfg EXCEPT !.token = TokenOf(file.cfg)]
             at == IF file.cfg.token = NoToken THEN "trunc" ELSE AfterLoad(p)
             next == [proc[p] EXCEPT !.pc = at, !.cfg = cfg, !.then = AfterLoad(p),
                                     !.must = FALSE]
  <2>1. Goes(p, next)
    BY <1>2 DEF LoadWhole
  <2>2. next.pc = at /\ next.then = AfterLoad(p) /\ next.job = proc[p].job
        /\ next.st = proc[p].st /\ next.cfg = cfg
    BY <1>0 DEF Process
  <2>3. file.cfg.token # NoToken => cfg = file.cfg
    BY <1>0 DEF Config, TokenOf
  <2> HIDE DEF next, cfg
  <2> QED BY <1>2, <2>1, <2>2, <2>3, GoesFrame DEF LoadWhole, Keeps
<1>3. CASE LoadTorn(p)
  BY <1>3, GoesFrame DEF LoadTorn, Ends
<1> QED BY <1>1, <1>2, <1>3 DEF Load

\* What Save does to the process that saves.
LEMMA SaveFrame ==
    ASSUME TypeInv, NEW p \in Processes, Save(p)
    PROVE  /\ Moves(p) /\ \A q \in Processes : q # p => proc'[q] = proc[q]
           /\ UNCHANGED <<disk, stale, tried>>
           /\ \/ /\ proc[p].pc = "trunc" /\ proc'[p].pc = "write" /\ file' = Truncated
                 /\ Keeps(p) /\ proc'[p].cfg = proc[p].cfg /\ proc'[p].then = proc[p].then
                 /\ UNCHANGED <<req, last, faults>>
              \/ /\ proc[p].pc = "write" /\ proc'[p].pc = proc[p].then
                 /\ Keeps(p) /\ proc'[p].cfg = proc[p].cfg
                 /\ file' \in Written(proc[p].cfg) /\ last' = [last EXCEPT !.cfg = proc[p].cfg]
                 /\ UNCHANGED <<req, faults>>
              \/ /\ proc[p].pc \in {"trunc", "write"} /\ UNCHANGED <<file, last>> /\ faults' # 0
                 /\ \/ Ends(p) /\ proc'[p] = Off
                    \/ /\ proc'[p].pc = proc[p].then /\ UNCHANGED req
                       /\ Keeps(p) /\ proc'[p].cfg = proc[p].cfg
<1>0. proc[p] \in Process
  BY DEF TypeInv
<1>1. ASSUME NEW q, Goes(p, [proc[p] EXCEPT !.pc = q])
      PROVE  /\ Moves(p) /\ \A o \in Processes : o # p => proc'[o] = proc[o]
             /\ proc'[p].pc = q /\ Keeps(p) /\ proc'[p].cfg = proc[p].cfg
             /\ proc'[p].then = proc[p].then
  <2> DEFINE next == [proc[p] EXCEPT !.pc = q]
  <2>1. next.pc = q /\ next.job = proc[p].job /\ next.st = proc[p].st
        /\ next.cfg = proc[p].cfg /\ next.then = proc[p].then
    BY <1>0 DEF Process
  <2>2. Goes(p, next)
    BY <1>1
  <2> HIDE DEF next
  <2> QED BY <2>1, <2>2, GoesFrame DEF Keeps
<1>2. CASE Truncate(p)
  BY <1>1, <1>2 DEF Truncate
<1>3. CASE Write(p)
  BY <1>1, <1>3 DEF Write
<1>4. CASE SaveFails(p)
  BY <1>1, <1>4, FaultTypes, GoesFrame DEF SaveFails, Ends
<1> QED BY <1>2, <1>3, <1>4 DEF Save

\* What node-token and admin do.
LEMMA AdminFrame ==
    ASSUME TypeInv, NEW c \in Commands, Admin(c)
    PROVE  /\ Moves(c) /\ \A q \in Processes : q # c => proc'[q] = proc[q]
           /\ UNCHANGED <<file, req, stale>>
           /\ \/ /\ proc[c].pc \in {"mint", "open"} /\ proc'[c].pc = "trunc"
                 /\ proc'[c].job = proc[c].job /\ UNCHANGED <<disk, last, tried, faults>>
                 /\ proc'[c].st \in {proc[c].st, disk}
                 /\ proc[c].pc = "open" => proc[c].job.kind = "admin"
              \/ /\ proc[c].pc = "user" /\ proc'[c] = Off /\ last'.cfg = last.cfg
                 /\ \/ UNCHANGED <<disk, last, tried, faults>>
                    \/ \E u \in Users : /\ disk' = [proc[c].st EXCEPT !.user = u]
                                        /\ last'.user = u /\ tried' = {} /\ UNCHANGED faults
                    \/ UNCHANGED <<disk, last>> /\ tried \subseteq tried' /\ faults' # 0
<1>0. c \in Processes /\ c # Panel /\ proc[c] \in Process
      /\ last \in [cfg : Config, user : Users \cup {NoUser}]
  BY PanelIsProcess, SettingsAssumption DEF TypeInv
<1>1. CASE Regenerate(c)
  <2> DEFINE next == [proc[c] EXCEPT !.pc = "trunc", !.cfg.token = TokenOf(Empty), !.then = "off",
                                     !.must = TRUE]
  <2>1. Goes(c, next)
    BY <1>1 DEF Regenerate
  <2>2. next.pc = "trunc" /\ next.job = proc[c].job /\ next.st = proc[c].st
    BY <1>0 DEF Process
  <2> HIDE DEF next
  <2> QED BY <1>0, <1>1, <2>1, <2>2, GoesFrame DEF Regenerate
<1>2. CASE OpenForAdmin(c)
  <2> DEFINE next == [proc[c] EXCEPT !.pc = "trunc", !.st = disk,
                                     !.cfg = Turned(@, proc[c].job), !.then = "user",
                                     !.must = TRUE]
  <2>1. Goes(c, next)
    BY <1>2 DEF OpenForAdmin, Only
  <2>2. next.pc = "trunc" /\ next.job = proc[c].job /\ next.st = disk
    BY <1>0 DEF Process
  <2> HIDE DEF next
  <2> QED BY <1>0, <1>2, <2>1, <2>2, GoesFrame DEF OpenForAdmin, Only
<1>3. CASE AdminUser(c)
  <2>1. Moves(c) /\ proc'[c] = Off /\ (\A q \in Processes : q # c => proc'[q] = proc[q])
        /\ UNCHANGED req
    BY <1>0, <1>3, GoesFrame DEF AdminUser, Ends
  <2> QED BY <1>0, <1>3, <2>1, FaultTypes DEF AdminUser
<1> QED BY <1>1, <1>2, <1>3 DEF Admin

\* A command's step: the panel and its requests are where they were.
LEMMA CommandFrame ==
    ASSUME TypeInv, NEW c \in Commands, Run(c) \/ Admin(c)
    PROVE  /\ Moves(c) /\ proc[c].pc # "off" /\ UNCHANGED <<req, stale>>
           /\ proc'[Panel] = proc[Panel]
           /\ proc'[c].pc # "off" => proc'[c].job = proc[c].job
           /\ \A d \in Commands : d # c => proc'[d] = proc[d]
<1>0. c \in Processes /\ c # Panel /\ Panel \in Processes /\ Commands \subseteq Processes
  BY PanelIsProcess, SettingsAssumption
<1>1. CASE Load(c)
  BY <1>0, <1>1, LoadFrame DEF Off, Keeps, Ends
<1>2. CASE Save(c)
  BY <1>0, <1>2, SaveFrame DEF Off, Keeps, Ends
<1>3. CASE Admin(c)
  BY <1>0, <1>3, AdminFrame DEF Off
<1> QED BY <1>1, <1>2, <1>3 DEF Run

\* Load and Save at the panel's start: no request is served.
LEMMA StartFrame ==
    ASSUME TypeInv, PanelInv, Run(Panel)
    PROVE  /\ Moves(Panel) /\ UNCHANGED <<disk, stale, tried>>
           /\ proc[Panel].pc \in {"load", "trunc", "write"}
           /\ proc'[Panel].pc \in {"off", "trunc", "write", "open"}
           /\ proc'[Panel].pc # "off" => proc'[Panel].job = proc[Panel].job
           /\ proc'[Panel].pc \in {"trunc", "write"} => proc'[Panel].then = "open"
           /\ proc'[Panel].st \in {proc[Panel].st, NewStore}
           /\ \A r \in Requests : req[r].pc = "idle" /\ req'[r].pc = "idle"
           /\ \A c \in Commands : proc'[c] = proc[c]
<1>0. Panel \in Processes /\ \A c \in Commands : c \in Processes /\ c # Panel
  BY PanelIsProcess, SettingsAssumption
<1>1. proc[Panel].pc \in {"load", "trunc", "write"}
  BY <1>0, LoadFrame, SaveFrame DEF Run
<1>2. \A r \in Requests : req[r].pc = "idle" /\ req'[r].pc = "idle"
  <2>1. \A r \in Requests : req[r].pc = "idle"
    BY <1>1 DEF PanelInv, Up
  <2>2. UNCHANGED req \/ Ends(Panel)
    BY <1>0, LoadFrame, SaveFrame DEF Run
  <2> QED BY <2>1, <2>2 DEF Ends, Idle
<1>3. CASE Load(Panel)
  <2>1. AfterLoad(Panel) = "open"
    BY <1>1 DEF AfterLoad, PanelInv
  <2> QED BY <1>0, <1>1, <1>2, <1>3, <2>1, LoadFrame DEF Off, Keeps
<1>4. CASE Save(Panel)
  <2>1. proc[Panel].then = "open"
    BY <1>0, <1>4, SaveFrame DEF PanelInv
  <2> QED BY <1>0, <1>1, <1>2, <1>4, <2>1, SaveFrame DEF Off, Keeps
<1> QED BY <1>3, <1>4 DEF Run

\* The rest of the panel's start.
LEMMA OpenFrame ==
    ASSUME TypeInv, PanelInv, OpenStore \/ EnsureAtStart
    PROVE  /\ Moves(Panel) /\ UNCHANGED <<file, req, stale, last, tried>>
           /\ proc'[Panel].job = proc[Panel].job /\ proc'[Panel].cfg = proc[Panel].cfg
           /\ \A r \in Requests : req[r].pc = "idle"
           /\ \A c \in Commands : proc'[c] = proc[c]
           /\ \/ /\ proc[Panel].pc = "open" /\ proc'[Panel].pc = "local" /\ proc'[Panel].st = disk
                 /\ UNCHANGED <<disk, faults>>
              \/ /\ proc[Panel].pc = "local" /\ proc'[Panel].pc = "up"
                 /\ \/ proc'[Panel].st = proc[Panel].st /\ UNCHANGED <<disk, faults>>
                    \/ /\ NoLocal /\ proc'[Panel].st = WithLocal(proc[Panel].st, proc[Panel].cfg)
                       /\ \/ disk' = proc'[Panel].st /\ UNCHANGED faults
                          \/ UNCHANGED disk /\ faults' # 0
<1>0. /\ Panel \in Processes /\ proc[Panel] \in Process
      /\ \A c \in Commands : c \in Processes /\ c # Panel
  BY PanelIsProcess, SettingsAssumption DEF TypeInv
<1>1. proc[Panel].pc \in {"open", "local"}
  BY DEF OpenStore, EnsureAtStart
<1>2. \A r \in Requests : req[r].pc = "idle"
  BY <1>1 DEF PanelInv, Up
<1>3. UNCHANGED <<file, req, stale, last, tried>>
  BY DEF OpenStore, EnsureAtStart, Only
<1>4. CASE OpenStore
  <2> DEFINE next == [proc[Panel] EXCEPT !.pc = "local", !.st = disk]
  <2>1. Goes(Panel, next)
    BY <1>4 DEF OpenStore, Only
  <2>2. next.pc = "local" /\ next.st = disk /\ next.job = proc[Panel].job
        /\ next.cfg = proc[Panel].cfg
    BY <1>0 DEF Process
  <2> HIDE DEF next
  <2> QED BY <1>0, <1>2, <1>3, <1>4, <2>1, <2>2, GoesFrame DEF OpenStore, Only
<1>5. CASE EnsureAtStart
  <2> DEFINE st == IF proc[Panel].cfg.master /\ NoLocal
                   THEN WithLocal(proc[Panel].st, proc[Panel].cfg) ELSE proc[Panel].st
             next == [proc[Panel] EXCEPT !.pc = "up", !.st = st]
  <2>1. next.pc = "up" /\ next.st = st /\ next.job = proc[Panel].job
        /\ next.cfg = proc[Panel].cfg
    BY <1>0 DEF Process
  <2>2. /\ Goes(Panel, next) /\ proc[Panel].pc = "local"
        /\ \/ st = proc[Panel].st /\ UNCHANGED <<disk, faults>>
           \/ /\ NoLocal /\ st = WithLocal(proc[Panel].st, proc[Panel].cfg)
              /\ \/ disk' = st /\ UNCHANGED faults
                 \/ UNCHANGED disk /\ Fault
    <3>1. CASE proc[Panel].cfg.master /\ NoLocal
      <4>1. st = WithLocal(proc[Panel].st, proc[Panel].cfg)
        BY <3>1
      <4>2. proc[Panel].pc = "local" /\ Flushed(st, next)
        BY <1>5, <3>1 DEF EnsureAtStart
      <4> HIDE DEF st, next
      <4> QED BY <3>1, <4>1, <4>2 DEF Flushed
    <3>2. CASE ~(proc[Panel].cfg.master /\ NoLocal)
      <4>1. next = [proc[Panel] EXCEPT !.pc = "up"]
        BY <1>0, <3>2 DEF Process
      <4> QED BY <1>5, <3>2, <4>1 DEF EnsureAtStart
    <3> QED BY <3>1, <3>2
  <2> HIDE DEF next, st
  <2> QED BY <1>0, <1>2, <1>3, <2>1, <2>2, GoesFrame, FaultTypes
<1> QED BY <1>4, <1>5

\* A request's step: it changes the panel's memory at most, and no other process.
LEMMA HandleFrame ==
    ASSUME TypeInv, PanelInv, NEW r \in Requests, Handle(r)
    PROVE  /\ Up /\ req[r].pc # "idle" /\ Moves(Panel) /\ UNCHANGED stale
           /\ proc'[Panel].pc = "up" /\ proc'[Panel].job = proc[Panel].job
           /\ req' = [req EXCEPT ![r] = req'[r]]
           /\ req'[r].pc # "idle" => req'[r].job = req[r].job /\ req[r].pc # "tunnel"
                                     /\ req'[r].pc # "tunnel"
<1>0. Panel \in Processes /\ proc[Panel] \in Process /\ req[r] \in Request
  BY PanelIsProcess DEF TypeInv
<1>1. Up /\ req[r].pc # "idle"
  BY DEF Handle, FlushTunnel, HasUsers, UpdateSettings, SetUser, NoPassword, SetBase, SetBase2,
     SetMaster, FindLocal, AddLocal, Marshal, TruncateFile, WriteFile, SaveConfigFails, Assign,
     PanelInv
<1>2. /\ UNCHANGED stale
      /\ proc' = proc \/ (\E cfg : SetCfg(cfg)) \/ \E st : SetStore(st)
  BY DEF Handle, FlushTunnel, HasUsers, UpdateSettings, SetUser, NoPassword, SetBase, SetBase2,
     SetMaster, FindLocal, AddLocal, Marshal, TruncateFile, WriteFile, SaveConfigFails, Assign
<1>3. \/ Answer(r)
      \/ /\ req[r].pc # "tunnel"
         /\ \/ \E q \in ReqPcs \ {"idle", "tunnel"} : Turn(r, q)
            \/ req' = [req EXCEPT ![r].pc = "trunc", ![r].snap = Cfg]
  BY DEF Handle, FlushTunnel, HasUsers, UpdateSettings, SetUser, NoPassword, SetBase, SetBase2,
     SetMaster, FindLocal, AddLocal, Marshal, TruncateFile, WriteFile, SaveConfigFails, Assign,
     ReqPcs
<1>4. Moves(Panel) /\ proc'[Panel].pc = "up" /\ proc'[Panel].job = proc[Panel].job
  BY <1>0, <1>1, <1>2 DEF Up, SetCfg, SetStore, Flushed, Goes, Moves, TypeInv, Process
<1>5. /\ req' = [req EXCEPT ![r] = req'[r]]
      /\ req'[r].pc # "idle" => req'[r].job = req[r].job /\ req[r].pc # "tunnel"
                                /\ req'[r].pc # "tunnel"
  BY <1>0, <1>3 DEF Answer, Turn, Idle, TypeInv, Request, ReqPcs
<1> QED BY <1>1, <1>2, <1>4, <1>5

\* A process that ends takes its requests with it.
LEMMA EndFrame ==
    ASSUME TypeInv, NEW p \in Processes, Ends(p)
    PROVE  /\ Moves(p) /\ proc'[p] = Off
           /\ p # Panel => UNCHANGED req
           /\ p = Panel => \A r \in Requests : req'[r] = Idle
BY DEF Ends, Goes, Moves, TypeInv

\* A command that starts.
LEMMA CommandStarts ==
    ASSUME TypeInv, NEW c \in Commands, NEW j \in CommandJobs, Command(c, j)
    PROVE  /\ Moves(c) /\ proc[c].pc = "off" /\ MayCommand
           /\ proc'[c].pc = "load" /\ proc'[c].job = j /\ proc'[c].st = NewStore
           /\ proc'[Panel] = proc[Panel]
           /\ UNCHANGED <<file, disk, req, last, tried, faults>>
           /\ stale' = (stale \/ (proc[Panel].pc # "off" /\ j.kind # "read"))
<1>0. c \in Processes /\ c # Panel
  BY PanelIsProcess, SettingsAssumption
<1> QED BY <1>0 DEF Command, Goes, Off, Moves, TypeInv

\* A panel that starts.
LEMMA PanelStarts ==
    ASSUME TypeInv, PanelInv, StartPanel
    PROVE  /\ Moves(Panel) /\ proc[Panel].pc = "off" /\ MayStart /\ stale' = FALSE
           /\ proc'[Panel].pc = "load" /\ proc'[Panel].job.kind = "serve"
           /\ proc'[Panel].st = NewStore
           /\ UNCHANGED <<file, disk, req, last, tried, faults>>
           /\ \A r \in Requests : req[r].pc = "idle"
<1>0. Panel \in Processes
  BY PanelIsProcess
<1> QED BY <1>0 DEF StartPanel, PanelInv, Up, Goes, Off, Job, Moves, TypeInv

\* A request that arrives.
LEMMA RequestStarts ==
    ASSUME TypeInv, NEW r \in Requests, NEW j \in RequestJobs, Begin(r, j)
    PROVE  /\ Up /\ req[r].pc = "idle" /\ MayRequest(j.kind)
           /\ req' = [req EXCEPT ![r] = req'[r]]
           /\ req'[r].job = j /\ req'[r].pc \in {"has", "user", "tunnel"}
           /\ req'[r].pc = "tunnel" <=> j.kind = "tunnel"
           /\ UNCHANGED <<file, disk, proc, stale, last, tried, faults>>
<1>1. j.kind \in {"setup", "settings", "tunnel"}
  BY DEF RequestJobs, Job
<1> QED BY <1>1 DEF Begin, Idle, TypeInv

-----------------------------------------------------------------------------
(* The invariants about processes and requests, each under the overlaps it needs avoided. *)

\* Nothing that a state is made of changes.
LEMMA StutterInv == ASSUME TypeInv, PanelInv, UNCHANGED vars
    PROVE  TypeInv' /\ PanelInv'
BY DEF TypeInv, PanelInv, vars, Up

\* A kill.
LEMMA KillFrame ==
    ASSUME TypeInv, NEW p \in Processes, Kill(p)
    PROVE  /\ Moves(p) /\ proc[p].pc # "off" /\ proc'[p] = Off
           /\ \A q \in Processes : q # p => proc'[q] = proc[q]
           /\ UNCHANGED <<file, disk, stale, last, tried>> /\ faults' # 0
           /\ p # Panel => UNCHANGED req
           /\ p = Panel => \A r \in Requests : req'[r] = Idle
BY EndFrame, GoesFrame, FaultTypes DEF Kill, Ends

\* A stop.
LEMMA StopFrame ==
    ASSUME TypeInv, Stop
    PROVE  /\ Moves(Panel) /\ Up /\ ~Serving /\ proc'[Panel] = Off
           /\ \A q \in Processes : q # Panel => proc'[q] = proc[q]
           /\ UNCHANGED <<file, disk, stale, last, tried, faults>>
           /\ \A r \in Requests : req'[r] = Idle
BY EndFrame, GoesFrame, PanelIsProcess DEF Stop, Ends

\* The panel serves requests only when it is up.
LEMMA PanelStep == ASSUME TypeInv, PanelInv, [Next]_vars PROVE PanelInv'
<1>0. Panel \in Processes /\ \A c \in Commands : c \in Processes /\ c # Panel
  BY PanelIsProcess, SettingsAssumption
<1>1. CASE Run(Panel)
  BY <1>1, StartFrame DEF PanelInv
<1>2. CASE OpenStore \/ EnsureAtStart
  BY <1>2, OpenFrame DEF PanelInv, Up
<1>3. CASE StartPanel
  BY <1>3, PanelStarts DEF PanelInv, Up
<1>4. CASE Stop
  BY <1>4, StopFrame DEF PanelInv, Off, Idle
<1>5. ASSUME NEW c \in Commands, Run(c) \/ Admin(c) PROVE PanelInv'
  BY <1>5, CommandFrame DEF PanelInv, Up
<1>6. ASSUME NEW c \in Commands, NEW j \in CommandJobs, Command(c, j) PROVE PanelInv'
  BY <1>6, CommandStarts DEF PanelInv, Up
<1>7. ASSUME NEW r \in Requests, NEW j \in RequestJobs, Begin(r, j) PROVE PanelInv'
  BY <1>7, RequestStarts DEF PanelInv, Up, TypeInv
<1>8. ASSUME NEW r \in Requests, Handle(r) PROVE PanelInv'
  BY <1>0, <1>8, HandleFrame DEF PanelInv, Up, TypeInv
<1>9. ASSUME NEW p \in Processes, Kill(p) PROVE PanelInv'
  BY <1>0, <1>9, KillFrame DEF PanelInv, Up, Off, Idle
<1>10. CASE UNCHANGED vars
  BY <1>10, StutterInv
<1> QED BY <1>1, <1>2, <1>3, <1>4, <1>5, <1>6, <1>7, <1>8, <1>9, <1>10 DEF Next, Serve

\* The types are kept.
LEMMA TypeStep == ASSUME TypeInv, PanelInv, FreeToken, [Next]_vars PROVE TypeInv'
<1>1. CASE Run(Panel)
  BY <1>1, RunTypes, PanelIsProcess
<1>2. CASE OpenStore \/ EnsureAtStart
  BY <1>2, StartTypes
<1>3. ASSUME NEW c \in Commands, Run(c) \/ Admin(c) PROVE TypeInv'
  BY <1>3, RunTypes, AdminTypes, PanelIsProcess
<1>4. ASSUME NEW r \in Requests, Handle(r) PROVE TypeInv'
  BY <1>4, HandleTypes
<1>5. CASE UNCHANGED vars
  BY <1>5, StutterInv
<1> QED BY <1>1, <1>2, <1>3, <1>4, <1>5, LifeTypes DEF Next, Serve

\* Two requests do not change settings or users at once if people avoid that.
LEMMA OneChangeStep ==
    ASSUME "requests" \in Avoided, TypeInv, PanelInv, OneChange, [Next]_vars PROVE OneChange'
<1>0. Panel \in Processes /\ \A c \in Commands : c \in Processes /\ c # Panel
  BY PanelIsProcess, SettingsAssumption
<1>1. CASE Run(Panel) \/ Stop
  BY <1>1, StartFrame, StopFrame DEF OneChange, Idle
<1>2. CASE OpenStore \/ EnsureAtStart \/ StartPanel
  BY <1>2, OpenFrame, PanelStarts DEF OneChange
<1>3. ASSUME NEW c \in Commands,
             Run(c) \/ Admin(c) \/ \E j \in CommandJobs : Command(c, j)
      PROVE  OneChange'
  BY <1>3, CommandFrame, CommandStarts DEF OneChange
<1>4. ASSUME NEW r \in Requests, NEW j \in RequestJobs, Begin(r, j) PROVE OneChange'
  <2>1. j.kind # "tunnel" => ~Changing
    BY <1>4, RequestStarts DEF MayRequest
  <2> QED BY <1>4, <2>1, RequestStarts DEF OneChange, Changing, TypeInv
<1>5. ASSUME NEW r \in Requests, Handle(r) PROVE OneChange'
  BY <1>5, HandleFrame DEF OneChange, TypeInv
<1>6. ASSUME NEW p \in Processes, Kill(p) PROVE OneChange'
  BY <1>0, <1>6, KillFrame DEF OneChange, Idle
<1>7. CASE UNCHANGED vars
  BY <1>7 DEF OneChange, vars
<1> QED BY <1>1, <1>2, <1>3, <1>4, <1>5, <1>6, <1>7 DEF Next, Serve

\* A command runs alone if people avoid the rest.
LEMMA OneCommandStep ==
    ASSUME "commands" \in Avoided, TypeInv, PanelInv, OneCommand, [Next]_vars PROVE OneCommand'
<1>0. Panel \in Processes /\ \A c \in Commands : c \in Processes /\ c # Panel
  BY PanelIsProcess, SettingsAssumption
<1>1. CASE Run(Panel)
  <2>1. \A c \in Commands : proc[c].pc = "off" /\ proc'[c].pc = "off"
    BY <1>1, StartFrame DEF OneCommand
  <2> QED BY <1>1, <2>1, StartFrame DEF OneCommand
<1>2. CASE OpenStore \/ EnsureAtStart
  <2>1. \A c \in Commands : proc[c].pc = "off" /\ proc'[c].pc = "off"
    BY <1>2, OpenFrame DEF OneCommand
  <2> QED BY <1>2, <2>1, OpenFrame DEF OneCommand
<1>3. CASE StartPanel
  <2>1. \A c \in Commands : proc[c].pc = "off" /\ proc'[c].pc = "off"
    BY <1>0, <1>3, PanelStarts DEF MayStart, Commanding, Moves, TypeInv
  <2> QED BY <1>3, <2>1, PanelStarts DEF OneCommand
<1>4. CASE Stop
  BY <1>0, <1>4, StopFrame DEF OneCommand, Serving, Off, Idle
<1>5. ASSUME NEW c \in Commands, Run(c) \/ Admin(c) PROVE OneCommand'
  BY <1>0, <1>5, CommandFrame DEF OneCommand, Serving
<1>6. ASSUME NEW c \in Commands, NEW j \in CommandJobs, Command(c, j) PROVE OneCommand'
  <2>1. /\ \A d \in Commands : proc[d].pc = "off" /\ (d # c => proc'[d] = proc[d])
        /\ ~Serving /\ proc[Panel].pc \in {"off", "up"}
    BY <1>0, <1>6, CommandStarts DEF MayCommand, Commanding, Moves, TypeInv
  <2>2. /\ proc'[c].job = j /\ proc'[Panel] = proc[Panel] /\ UNCHANGED req
        /\ stale' = (stale \/ (proc[Panel].pc # "off" /\ j.kind # "read"))
    BY <1>6, CommandStarts
  <2>3. j.kind # "read" => stale' \/ proc[Panel].pc = "off"
    BY <2>2
  <2> QED BY <2>1, <2>2, <2>3 DEF OneCommand, Serving
<1>7. ASSUME NEW r \in Requests, NEW j \in RequestJobs, Begin(r, j) PROVE OneCommand'
  <2>1. \A c \in Commands : proc[c].pc = "off"
    BY <1>7, RequestStarts DEF MayRequest, Commanding
  <2> QED BY <1>7, <2>1, RequestStarts DEF OneCommand
<1>8. ASSUME NEW r \in Requests, Handle(r) PROVE OneCommand'
  <2>1. \A c \in Commands : proc[c].pc = "off" /\ proc'[c] = proc[c]
    BY <1>0, <1>8, HandleFrame DEF OneCommand, Serving, Moves, TypeInv
  <2> QED BY <1>8, <2>1, HandleFrame DEF OneCommand, Up
<1>9. ASSUME NEW p \in Processes, Kill(p) PROVE OneCommand'
  <2>1. CASE p = Panel
    BY <1>0, <1>9, <2>1, KillFrame DEF OneCommand, Serving, Off, Idle
  <2>2. CASE p # Panel
    BY <1>0, <1>9, <2>2, KillFrame DEF OneCommand, Serving, Off
  <2> QED BY <2>1, <2>2
<1>10. CASE UNCHANGED vars
  BY <1>10 DEF OneCommand, Serving, vars
<1> QED BY <1>1, <1>2, <1>3, <1>4, <1>5, <1>6, <1>7, <1>8, <1>9, <1>10 DEF Next, Serve

-----------------------------------------------------------------------------
(* What a request's step does to the files and to the panel's memory. *)

\* The panel's memory is written to store.json, or that fails.
Stores == \/ disk' = St' /\ UNCHANGED faults
          \/ UNCHANGED disk /\ faults' # 0

\* The effects of a request's steps, by the place of the request before and after.
FlushEffect(r) ==
    /\ req[r].pc = "tunnel" /\ req'[r].pc = "idle"
    /\ Cfg' = Cfg /\ St' = St /\ Stores /\ UNCHANGED <<file, last, tried>>
QuietEffect(r) ==
    /\ \/ req[r].pc = "has" /\ req'[r].pc \in {"user", "idle"}
       \/ req[r].pc = "user" /\ req'[r].pc = "base"
       \/ req[r].pc = "local" /\ req'[r].pc = "add" /\ NoLocal
       \/ req[r].pc = "local" /\ req'[r].pc = "marshal"
       \/ req[r].pc = "marshal" /\ req'[r].pc = "trunc" /\ req'[r].snap = Cfg
    /\ UNCHANGED <<file, disk, proc, last, tried, faults>>
UserEffect(r) ==
    /\ req[r].pc = "user" /\ req'[r].pc \in {"base", "idle"}
    /\ Cfg' = Cfg /\ St'.locals = St.locals /\ Stores /\ UNCHANGED file /\ last'.cfg = last.cfg
    /\ \/ last'.user = St'.user /\ disk' = St' /\ tried' = {} /\ UNCHANGED faults
       \/ UNCHANGED <<last, disk>> /\ tried' = tried \cup {St'.user} /\ faults' # 0
AssignEffect(r) ==
    /\ req[r].pc \in {"base", "base2", "master"}
    /\ req'[r].pc \in {"base2", "master", "local", "marshal"}
    /\ St' = St /\ UNCHANGED <<file, disk, last, tried, faults>>
AddEffect(r) ==
    /\ req[r].pc = "add" /\ req'[r].pc = "marshal"
    /\ Cfg' = Cfg /\ St' = WithLocal(St, Cfg) /\ Stores /\ UNCHANGED <<file, last, tried>>
TruncateEffect(r) ==
    /\ req[r].pc = "trunc" /\ req'[r].pc = "write" /\ req'[r].snap = req[r].snap
    /\ file' = Truncated /\ UNCHANGED <<disk, proc, last, tried, faults>>
WriteEffect(r) ==
    /\ req[r].pc = "write" /\ req'[r].pc = "idle"
    /\ file' \in Written(req[r].snap) /\ last' = [last EXCEPT !.cfg = req[r].snap]
    /\ UNCHANGED <<disk, proc, tried, faults>>
FailEffect(r) ==
    /\ req[r].pc \in {"trunc", "write"} /\ req'[r].pc = "idle"
    /\ UNCHANGED <<file, disk, proc, last, tried>> /\ faults' # 0

\* A change of the panel's copy of the store leaves its configuration alone.
LEMMA SetStoreFrame ==
    ASSUME TypeInv, NEW st, SetStore(st) PROVE Cfg' = Cfg /\ St' = st /\ Stores
<1>0. Panel \in Processes /\ proc[Panel] \in Process
  BY PanelIsProcess DEF TypeInv
<1> DEFINE next == [proc[Panel] EXCEPT !.st = st]
<1>1. next.st = st /\ next.cfg = proc[Panel].cfg
  BY <1>0 DEF Process
<1>2. Flushed(st, next)
  BY DEF SetStore
<1> HIDE DEF next
<1> QED BY <1>0, <1>1, <1>2, GoesFrame, FaultTypes DEF Flushed, Stores, Cfg, St

\* A change of its configuration leaves the copy of the store alone.
LEMMA SetCfgFrame == ASSUME TypeInv, NEW cfg, SetCfg(cfg) PROVE Cfg' = cfg /\ St' = St
<1>0. Panel \in Processes /\ proc[Panel] \in Process
  BY PanelIsProcess DEF TypeInv
<1> QED BY <1>0 DEF SetCfg, Cfg, St, TypeInv, Process

\* Every step of a request has one of these effects.
LEMMA HandleEffect ==
    ASSUME TypeInv, PanelInv, NEW r \in Requests, Handle(r)
    PROVE  \/ FlushEffect(r) \/ QuietEffect(r) \/ UserEffect(r) \/ AssignEffect(r)
           \/ AddEffect(r) \/ TruncateEffect(r) \/ WriteEffect(r) \/ FailEffect(r)
<1>0. /\ req[r] \in Request /\ St \in Store
      /\ last \in [cfg : Config, user : Users \cup {NoUser}]
  BY PanelIsProcess DEF TypeInv, Process, St
<1>1. \A q : Turn(r, q) => req'[r].pc = q /\ req'[r].snap = req[r].snap
  BY <1>0 DEF Turn, TypeInv, Request
<1>2. Answer(r) => req'[r].pc = "idle"
  BY DEF Answer, Idle, TypeInv
<1>3. CASE FlushTunnel(r)
  BY <1>2, <1>3, SetStoreFrame DEF FlushTunnel, FlushEffect
<1>4. CASE HasUsers(r) \/ NoPassword(r) \/ FindLocal(r)
  BY <1>1, <1>2, <1>4 DEF HasUsers, NoPassword, FindLocal, QuietEffect
<1>5. CASE Marshal(r)
  BY <1>0, <1>5 DEF Marshal, QuietEffect, TypeInv, Request
<1>6. CASE SetUser(r)
  <2> DEFINE st == [St EXCEPT !.user = req[r].job.user]
  <2>1. st.locals = St.locals /\ st.user = req[r].job.user
    BY <1>0 DEF Store
  <2>2. SetStore(st)
    BY <1>6 DEF SetUser
  <2>3. Cfg' = Cfg /\ St' = st /\ Stores
    BY <2>2, SetStoreFrame
  <2>4. req[r].pc = "user" /\ req'[r].pc \in {"base", "idle"} /\ UNCHANGED file
    BY <1>1, <1>2, <1>6 DEF SetUser
  <2>5. \/ UNCHANGED faults /\ last' = [last EXCEPT !.user = req[r].job.user] /\ tried' = {}
        \/ faults' # faults /\ UNCHANGED last /\ tried' = tried \cup {req[r].job.user}
    BY <1>6 DEF SetUser
  <2>6. faults' # faults => UNCHANGED disk /\ faults' # 0
    BY <2>3 DEF Stores
  <2>7. UNCHANGED faults => disk' = St'
    <3>1. disk' = st \/ Fault
      BY <2>2 DEF SetStore, Flushed
    <3> QED BY <2>3, <3>1, SettingsAssumption DEF Fault, TypeInv
  <2> HIDE DEF st
  <2> QED BY <1>0, <2>1, <2>3, <2>4, <2>5, <2>6, <2>7 DEF UserEffect
<1>7. CASE SetBase(r) \/ SetBase2(r) \/ SetMaster(r)
  <2>1. \E p \in {"base", "base2", "master"}, q \in {"base2", "master", "local", "marshal"} :
           \E cfg : Assign(r, p, q, cfg)
    BY <1>7 DEF SetBase, SetBase2, SetMaster
  <2> QED BY <1>1, <2>1, SetCfgFrame DEF Assign, AssignEffect
<1>8. CASE AddLocal(r)
  BY <1>1, <1>8, SetStoreFrame DEF AddLocal, AddEffect
<1>9. CASE TruncateFile(r)
  BY <1>1, <1>9 DEF TruncateFile, TruncateEffect
<1>10. CASE WriteFile(r)
  BY <1>2, <1>10 DEF WriteFile, WriteEffect
<1>11. CASE SaveConfigFails(r)
  BY <1>2, <1>11, FaultTypes DEF SaveConfigFails, FailEffect
<1> QED BY <1>3, <1>4, <1>5, <1>6, <1>7, <1>8, <1>9, <1>10, <1>11 DEF Handle, UpdateSettings

-----------------------------------------------------------------------------
(* The local node. *)

\* A command has no more nodes than there are on disk, and writes no more than it has.
LEMMA CommandNodes ==
    ASSUME TypeInv, NEW c \in Commands, Run(c) \/ Admin(c)
    PROVE  /\ proc'[c].st.locals \in {proc[c].st.locals, disk.locals, <<>>}
           /\ disk'.locals \in {disk.locals, proc[c].st.locals}
<1>0. c \in Processes /\ proc[c].st \in Store
  BY PanelIsProcess DEF TypeInv, Process
<1>1. Off.st.locals = <<>>
  BY DEF Off, NewStore
<1>2. CASE Load(c)
  BY <1>0, <1>1, <1>2, LoadFrame DEF Keeps
<1>3. CASE Save(c)
  BY <1>0, <1>1, <1>3, SaveFrame DEF Keeps
<1>4. CASE Admin(c)
  <2>1. \A u \in Users : [proc[c].st EXCEPT !.user = u].locals = proc[c].st.locals
    BY <1>0 DEF Store
  <2> QED BY <1>0, <1>1, <1>4, <2>1, AdminFrame
<1> QED BY <1>2, <1>3, <1>4 DEF Run

\* The first node of a list makes it a list of one.
LEMMA FirstNode ==
    ASSUME NEW st \in Store, NEW cfg, st.locals = <<>> PROVE Len(WithLocal(st, cfg).locals) = 1
<1> DEFINE x == [base |-> cfg.base, token |-> cfg.token]
<1>1. WithLocal(st, cfg).locals = Append(<<>>, x)
  BY DEF WithLocal, Store
<1>2. <<>> \in Seq({x}) /\ Len(<<>>) = 0
  OBVIOUS
<1> HIDE DEF x
<1>3. Len(Append(<<>>, x)) = 1
  BY <1>2
<1> QED BY <1>1, <1>3

\* The step of one process leaves the lists of the others as they are.
LEMMA NodesOf ==
    ASSUME TypeInv, OneLocalNode, NEW p \in Processes, Moves(p),
           Len(disk'.locals) <= 1, Len(proc'[p].st.locals) <= 1
    PROVE  OneLocalNode'
BY DEF OneLocalNode, Moves, TypeInv

\* The panel adds itself once, provided that two requests do not change settings at once.
LEMMA NodeStep ==
    ASSUME "requests" \in Avoided, TypeInv, PanelInv, OneChange, NodeInv, [Next]_vars
    PROVE  NodeInv'
<1>0. /\ Panel \in Processes /\ \A c \in Commands : c \in Processes /\ c # Panel
      /\ proc[Panel] \in Process /\ proc[Panel].st \in Store /\ OneLocalNode
      /\ Len(<<>>) = 0 /\ NewStore.locals = <<>> /\ Off.st.locals = <<>> /\ Idle.pc = "idle"
  BY PanelIsProcess, SettingsAssumption DEF TypeInv, Process, NodeInv, NewStore, Off, Idle
<1>00. Len(disk.locals) <= 1 /\ \A p \in Processes : Len(proc[p].st.locals) <= 1
  BY <1>0 DEF OneLocalNode
<1>01. NoLocal => Len(WithLocal(St, Cfg).locals) <= 1
  <2>1. NoLocal => Len(WithLocal(St, Cfg).locals) = 1
    BY <1>0, FirstNode, Zenon DEF NoLocal, St
  <2>2. 1 <= 1
    OBVIOUS
  <2> QED BY <2>1, <2>2, Zenon
<1>1. CASE Run(Panel)
  <2>1. Len(proc'[Panel].st.locals) <= 1 /\ Len(disk'.locals) <= 1
    BY <1>0, <1>00, <1>1, StartFrame
  <2> QED BY <1>0, <1>1, <2>1, StartFrame, NodesOf DEF NodeInv
<1>2. CASE OpenStore \/ EnsureAtStart
  <2>1. Len(proc'[Panel].st.locals) <= 1 /\ Len(disk'.locals) <= 1
    BY <1>0, <1>00, <1>01, <1>2, OpenFrame DEF St, Cfg
  <2> QED BY <1>0, <1>2, <2>1, OpenFrame, NodesOf DEF NodeInv
<1>3. CASE StartPanel
  <2>1. Len(proc'[Panel].st.locals) <= 1 /\ Len(disk'.locals) <= 1
    BY <1>0, <1>00, <1>3, PanelStarts
  <2> QED BY <1>0, <1>3, <2>1, PanelStarts, NodesOf DEF NodeInv
<1>4. CASE Stop
  <2>1. Len(proc'[Panel].st.locals) <= 1 /\ Len(disk'.locals) <= 1
    BY <1>0, <1>00, <1>4, StopFrame
  <2> QED BY <1>0, <1>4, <2>1, StopFrame, NodesOf DEF NodeInv
<1>5. ASSUME NEW c \in Commands, Run(c) \/ Admin(c) PROVE NodeInv'
  <2>1. Len(proc'[c].st.locals) <= 1 /\ Len(disk'.locals) <= 1
    BY <1>0, <1>00, <1>5, CommandNodes
  <2> QED BY <1>0, <1>5, <2>1, CommandFrame, NodesOf DEF NodeInv, NoLocal
<1>6. ASSUME NEW c \in Commands, NEW j \in CommandJobs, Command(c, j) PROVE NodeInv'
  <2>1. Len(proc'[c].st.locals) <= 1 /\ Len(disk'.locals) <= 1
    BY <1>0, <1>00, <1>6, CommandStarts
  <2> QED BY <1>0, <1>6, <2>1, CommandStarts, NodesOf DEF NodeInv, NoLocal
<1>7. ASSUME NEW r \in Requests, NEW j \in RequestJobs, Begin(r, j) PROVE NodeInv'
  BY <1>7, RequestStarts DEF NodeInv, OneLocalNode, NoLocal, TypeInv
<1>8. ASSUME NEW r \in Requests, Handle(r) PROVE NodeInv'
  <2>1. ASSUME NEW s \in Requests, s # r, req[s].pc = "add"
        PROVE  req[r].pc = "tunnel"
    <3>1. req[s].job.kind # "tunnel" /\ req[r].pc # "idle"
      BY <1>8, <2>1, HandleFrame DEF PanelInv
    <3>2. req[r].job.kind = "tunnel"
      BY <2>1, <3>1 DEF OneChange
    <3> QED BY <3>1, <3>2 DEF PanelInv
  <2>2. \A s \in Requests : s # r => req'[s] = req[s]
    BY <1>8, HandleFrame DEF TypeInv
  <2>3. CASE FlushEffect(r)
    <3>1. Len(proc'[Panel].st.locals) <= 1 /\ Len(disk'.locals) <= 1
      BY <1>0, <1>00, <2>3 DEF FlushEffect, St, Stores
    <3> QED BY <1>0, <1>8, <2>2, <2>3, <3>1, HandleFrame, NodesOf
            DEF NodeInv, FlushEffect, NoLocal, St
  <2>4. CASE QuietEffect(r)
    <3>1. \A s \in Requests : req'[s].pc = "add" => req[s].pc = "add" \/ NoLocal
      BY <2>2, <2>4 DEF QuietEffect
    <3> QED BY <2>4, <3>1 DEF NodeInv, OneLocalNode, NoLocal, QuietEffect
  <2>5. CASE UserEffect(r)
    <3>1. Len(proc'[Panel].st.locals) <= 1 /\ Len(disk'.locals) <= 1
      BY <1>0, <1>00, <2>5 DEF UserEffect, St, Stores
    <3> QED BY <1>0, <1>8, <2>1, <2>2, <2>5, <3>1, HandleFrame, NodesOf DEF NodeInv, UserEffect
  <2>6. CASE AssignEffect(r)
    <3>1. Len(proc'[Panel].st.locals) <= 1 /\ Len(disk'.locals) <= 1
      BY <1>0, <1>00, <2>6 DEF AssignEffect, St
    <3> QED BY <1>0, <1>8, <2>1, <2>2, <2>6, <3>1, HandleFrame, NodesOf DEF NodeInv, AssignEffect
  <2>7. CASE AddEffect(r)
    <3>1. NoLocal
      BY <2>7 DEF AddEffect, NodeInv
    <3>2. Len(proc'[Panel].st.locals) <= 1 /\ Len(disk'.locals) <= 1
      BY <1>0, <1>00, <1>01, <2>7, <3>1 DEF AddEffect, St, Stores
    <3> QED BY <1>0, <1>8, <2>1, <2>2, <2>7, <3>2, HandleFrame, NodesOf DEF NodeInv, AddEffect
  <2>8. CASE TruncateEffect(r) \/ WriteEffect(r) \/ FailEffect(r)
    BY <2>1, <2>2, <2>8
       DEF NodeInv, OneLocalNode, NoLocal, TruncateEffect, WriteEffect, FailEffect
  <2> QED BY <1>8, <2>3, <2>4, <2>5, <2>6, <2>7, <2>8, HandleEffect
<1>9. ASSUME NEW p \in Processes, Kill(p) PROVE NodeInv'
  <2>1. Len(proc'[p].st.locals) <= 1 /\ Len(disk'.locals) <= 1
    BY <1>0, <1>00, <1>9, KillFrame
  <2>2. \A r \in Requests : req'[r].pc = "add" => req[r].pc = "add" /\ proc'[Panel] = proc[Panel]
    BY <1>0, <1>9, KillFrame
  <2> QED BY <1>0, <1>9, <2>1, <2>2, KillFrame, NodesOf DEF NodeInv, NoLocal
<1>10. CASE UNCHANGED vars
  BY <1>10 DEF NodeInv, OneLocalNode, NoLocal, vars
<1> QED BY <1>1, <1>2, <1>3, <1>4, <1>5, <1>6, <1>7, <1>8, <1>9, <1>10 DEF Next, Serve

-----------------------------------------------------------------------------
(* The users. *)

\* The commands go on as they were asked.
LEMMA CommandStep == ASSUME TypeInv, PanelInv, CommandInv, [Next]_vars PROVE CommandInv'
<1>0. /\ Panel \in Processes /\ \A c \in Commands : c \in Processes /\ c # Panel
      /\ Off.pc = "off"
  BY PanelIsProcess, SettingsAssumption DEF Off
<1>1. CASE Run(Panel) \/ OpenStore \/ EnsureAtStart
  BY <1>1, StartFrame, OpenFrame DEF CommandInv
<1>2. CASE StartPanel \/ Stop
  BY <1>0, <1>2, PanelStarts, StopFrame DEF CommandInv, Moves, TypeInv
<1>3. ASSUME NEW c \in Commands, Run(c) \/ Admin(c) PROVE CommandInv'
  <2>1. SUFFICES ASSUME proc'[c].pc \notin {"off", "load", "up", "local"},
                        ~(proc'[c].pc \in {"trunc", "write"} /\ proc'[c].then = "off")
                 PROVE  proc'[c].job.kind # "read"
    BY <1>3, CommandFrame DEF CommandInv
  <2>2. CASE Load(c)
    <3>1. AfterLoad(c) = "off" \/ proc[c].job.kind # "read"
      BY DEF AfterLoad
    <3> QED BY <1>0, <2>1, <2>2, <3>1, LoadFrame DEF Keeps
  <2>3. CASE Save(c)
    BY <1>0, <2>1, <2>3, SaveFrame DEF Keeps, CommandInv
  <2>4. CASE Admin(c)
    BY <1>0, <2>1, <2>4, AdminFrame DEF CommandInv
  <2> QED BY <1>3, <2>2, <2>3, <2>4 DEF Run
<1>4. ASSUME NEW c \in Commands, NEW j \in CommandJobs, Command(c, j) PROVE CommandInv'
  BY <1>0, <1>4, CommandStarts DEF CommandInv, Moves, TypeInv
<1>5. ASSUME NEW r \in Requests,
             Handle(r) \/ \E j \in RequestJobs : Begin(r, j)
      PROVE  CommandInv'
  BY <1>0, <1>5, HandleFrame, RequestStarts DEF CommandInv, Moves, TypeInv
<1>6. ASSUME NEW p \in Processes, Kill(p) PROVE CommandInv'
  BY <1>0, <1>6, KillFrame DEF CommandInv
<1>7. CASE UNCHANGED vars
  BY <1>7 DEF CommandInv, vars
<1> QED BY <1>1, <1>2, <1>3, <1>4, <1>5, <1>6, <1>7 DEF Next, Serve

\* A command that sets the user runs while the panel is stopped or out of date.
LEMMA CommandUser ==
    ASSUME TypeInv, CommandInv, OneCommand, NEW c \in Commands, Run(c) \/ Admin(c)
    PROVE  \/ UNCHANGED <<disk, tried>> /\ last'.user = last.user
           \/ UNCHANGED disk /\ last'.user = last.user /\ tried \subseteq tried'
           \/ /\ stale \/ proc[Panel].pc = "off"
              /\ disk'.user = last'.user
<1>0. c \in Processes /\ proc[c].st \in Store
      /\ last \in [cfg : Config, user : Users \cup {NoUser}]
  BY PanelIsProcess DEF TypeInv, Process
<1>1. CASE Load(c)
  BY <1>0, <1>1, LoadFrame
<1>2. CASE Save(c)
  BY <1>0, <1>2, SaveFrame
<1>3. CASE Admin(c)
  <2>1. proc[c].pc = "user" => stale \/ proc[Panel].pc = "off"
    BY DEF CommandInv, OneCommand
  <2>2. \A u \in Users : [proc[c].st EXCEPT !.user = u].user = u
    BY <1>0 DEF Store
  <2>3. CASE proc[c].pc \in {"mint", "open"}
    BY <1>0, <1>3, <2>3, AdminFrame
  <2>4. CASE proc[c].pc = "user"
    <3>1. \/ UNCHANGED <<disk, last, tried>>
          \/ \E u \in Users : disk' = [proc[c].st EXCEPT !.user = u] /\ last'.user = u
          \/ UNCHANGED <<disk, last>> /\ tried \subseteq tried'
      BY <1>3, <2>4, AdminFrame
    <3> QED BY <2>1, <2>2, <2>4, <3>1
  <2> QED BY <1>3, <2>3, <2>4, AdminFrame
<1> QED BY <1>1, <1>2, <1>3 DEF Run

\* The acknowledged user stays, provided that commands run alone and requests are not sent to
\* a panel that is out of date.
LEMMA UserStep ==
    ASSUME {"commands", "stale"} \subseteq Avoided, TypeInv, PanelInv, CommandInv, OneCommand,
           UserInv, [Next]_vars
    PROVE  UserInv'
<1>0. /\ Panel \in Processes /\ \A c \in Commands : c \in Processes /\ c # Panel
      /\ Off.pc = "off" /\ Idle.pc = "idle"
  BY PanelIsProcess, SettingsAssumption DEF Off, Idle
<1> USE DEF UserInv, PasswordIsDurable
<1>1. CASE Run(Panel)
  <2>1. last'.user = last.user
    BY <1>0, <1>1, LoadFrame, SaveFrame DEF Run, TypeInv
  <2> QED BY <1>1, <2>1, StartFrame DEF Serving
<1>2. CASE OpenStore \/ EnsureAtStart
  <2>1. ~stale
    BY <1>2, OpenFrame DEF OneCommand
  <2>2. WithLocal(St, Cfg).user = St.user
    <3>1. St \in Store
      BY <1>0 DEF TypeInv, Process, St
    <3> QED BY <3>1 DEF WithLocal, Store
  <2> QED BY <1>2, <2>1, <2>2, OpenFrame DEF Serving, St, Cfg
<1>3. CASE StartPanel
  BY <1>3, PanelStarts DEF Serving
<1>4. CASE Stop
  BY <1>0, <1>4, StopFrame DEF Serving
<1>5. ASSUME NEW c \in Commands, Run(c) \/ Admin(c) PROVE UserInv'
  BY <1>5, CommandFrame, CommandUser DEF Serving, St
<1>6. ASSUME NEW c \in Commands, NEW j \in CommandJobs, Command(c, j) PROVE UserInv'
  <2>1. ~Serving
    BY <1>6, CommandStarts DEF MayCommand
  <2>2. stale => stale'
    BY <1>6, CommandStarts
  <2> QED BY <1>6, <2>1, <2>2, CommandStarts DEF Serving, St
<1>7. ASSUME NEW r \in Requests, NEW j \in RequestJobs, Begin(r, j) PROVE UserInv'
  <2>1. ~stale
    BY <1>7, RequestStarts DEF MayRequest
  <2> QED BY <1>7, <2>1, RequestStarts DEF Serving, St
<1>8. ASSUME NEW r \in Requests, Handle(r) PROVE UserInv'
  <2>1. ~stale /\ ~stale' /\ Up
    BY <1>8, HandleFrame DEF Serving
  <2>2. St.user = last.user \/ St.user \in tried
    BY <2>1 DEF Up
  <2>3. SUFFICES /\ disk'.user = last'.user \/ disk'.user \in tried'
                 /\ St'.user = last'.user \/ St'.user \in tried'
    BY <2>1
  <2>4. CASE FlushEffect(r) \/ AddEffect(r)
    <3>1. St \in Store
      BY <1>0 DEF TypeInv, Process, St
    <3>2. WithLocal(St, Cfg).user = St.user
      BY <3>1 DEF WithLocal, Store
    <3> QED BY <2>2, <2>4, <3>2 DEF FlushEffect, AddEffect, Stores
  <2>5. CASE QuietEffect(r) \/ TruncateEffect(r) \/ FailEffect(r)
    BY <2>2, <2>5 DEF QuietEffect, TruncateEffect, FailEffect, St
  <2>6. CASE UserEffect(r)
    BY <2>2, <2>6 DEF UserEffect, Stores
  <2>7. CASE AssignEffect(r)
    BY <2>2, <2>7 DEF AssignEffect
  <2>8. CASE WriteEffect(r)
    <3>1. last'.user = last.user
      BY <2>8 DEF WriteEffect, TypeInv
    <3> QED BY <2>2, <2>8, <3>1 DEF WriteEffect, St
  <2> QED BY <1>8, <2>4, <2>5, <2>6, <2>7, <2>8, HandleEffect
<1>9. ASSUME NEW p \in Processes, Kill(p) PROVE UserInv'
  BY <1>0, <1>9, KillFrame DEF Serving, St
<1>10. CASE UNCHANGED vars
  BY <1>10 DEF Serving, St, vars
<1> QED BY <1>1, <1>2, <1>3, <1>4, <1>5, <1>6, <1>7, <1>8, <1>9, <1>10 DEF Next, Serve

-----------------------------------------------------------------------------
(* config.json. *)

\* Where a process or a request is when it writes config.json.
Saves == {"trunc", "write"}

\* At most one of the processes and requests is about to write config.json, or is writing it.
LEMMA OneWriter ==
    ASSUME TypeInv, PanelInv, OneCommand, OneChange
    PROVE  /\ \A p, q \in Processes : proc[p].pc \in Saves /\ proc[q].pc \in Saves => p = q
           /\ \A p \in Processes, r \in Requests : proc[p].pc \in Saves => req[r].pc \notin Saves
           /\ \A r, s \in Requests : req[r].pc \in Saves /\ req[s].pc \in Saves => r = s
<1>1. \A c \in Commands : proc[c].pc # "off" => ~Serving /\ proc[Panel].pc \in {"off", "up"}
  BY DEF OneCommand
<1>2. \A p, q \in Processes : proc[p].pc \in Saves /\ proc[q].pc \in Saves => p = q
  BY <1>1 DEF OneCommand, Saves, Processes
<1>3. \A p \in Processes, r \in Requests : proc[p].pc \in Saves => req[r].pc \notin Saves
  BY <1>1 DEF PanelInv, Up, Saves, Serving, Processes
<1>4. \A r \in Requests : req[r].pc \in Saves => req[r].pc # "idle" /\ req[r].job.kind # "tunnel"
  BY DEF PanelInv, Saves
<1>5. \A r, s \in Requests : req[r].pc \in Saves /\ req[s].pc \in Saves => r = s
  BY <1>4 DEF OneChange
<1> QED BY <1>2, <1>3, <1>5

\* A step that is nobody's writing leaves the file as the last Save wrote it.
LEMMA FileKept ==
    ASSUME FileInv, UNCHANGED <<file, last>> \/ (UNCHANGED file /\ last'.cfg = last.cfg),
           UNCHANGED faults \/ faults' # 0,
           faults' = 0 => (Writing' <=> Writing)
    PROVE  FileInv'
BY DEF FileInv

\* Nobody starts or ends writing if only p moves, and neither from nor to the writing.
LEMMA WritingKept ==
    ASSUME TypeInv, NEW p \in Processes, Moves(p),
           proc[p].pc # "write", proc'[p].pc # "write",
           \A r \in Requests : req'[r].pc = "write" <=> req[r].pc = "write"
    PROVE  Writing' <=> Writing
BY DEF Writing, Moves, TypeInv

\* A process that saves alone does so as a whole.
LEMMA SaveStep ==
    ASSUME TypeInv, PanelInv, OneCommand, OneChange, FileInv, NEW p \in Processes, Save(p)
    PROVE  FileInv'
<1>0. proc[p].pc \in Saves
  BY SaveFrame DEF Saves
<1>1. /\ \A q \in Processes : q # p => proc[q].pc # "write" /\ proc'[q].pc # "write"
      /\ \A r \in Requests : req[r].pc # "write"
  BY <1>0, OneWriter, SaveFrame DEF Saves
<1>2. CASE proc[p].pc = "trunc" /\ proc'[p].pc = "write" /\ file' = Truncated
           /\ UNCHANGED <<req, last, faults>>
  BY <1>2 DEF FileInv, Writing, Truncated
<1>3. CASE /\ proc[p].pc = "write" /\ proc'[p].pc = proc[p].then
           /\ file' \in Written(proc[p].cfg) /\ last' = [last EXCEPT !.cfg = proc[p].cfg]
           /\ UNCHANGED <<req, faults>>
  <2>1. SUFFICES ASSUME faults = 0
                 PROVE  /\ file'.kind = "torn" <=> Writing'
                        /\ file'.kind = "whole" => file'.cfg = last'.cfg
    BY <1>3 DEF FileInv
  <2>2. file.kind = "torn"
    BY <1>3, <2>1 DEF FileInv, Writing
  <2>3. file' = [kind |-> "whole", cfg |-> proc[p].cfg] /\ last'.cfg = proc[p].cfg
    BY <1>3, <2>2 DEF Written, TypeInv
  <2>4. proc[p].then # "write"
    BY DEF TypeInv, Process
  <2>5. ~Writing'
    BY <1>1, <1>3, <2>4 DEF Writing
  <2> QED BY <2>3, <2>5
<1>4. CASE faults' # 0
  BY <1>4 DEF FileInv
<1> QED BY <1>2, <1>3, <1>4, SaveFrame

\* config.json is torn only while it is written, provided that commands run alone and two
\* requests do not change settings at once.
LEMMA FileStep ==
    ASSUME TypeInv, PanelInv, OneCommand, OneChange, FileInv, [Next]_vars PROVE FileInv'
<1>0. /\ Panel \in Processes /\ \A c \in Commands : c \in Processes /\ c # Panel
      /\ Off.pc = "off" /\ Idle.pc = "idle"
  BY PanelIsProcess, SettingsAssumption DEF Off, Idle
<1>1. ASSUME NEW p \in Processes, Load(p) PROVE FileInv'
  <2>1. proc[p].pc = "load" /\ proc'[p].pc # "write"
    BY <1>0, <1>1, LoadFrame DEF AfterLoad
  <2>2. \A r \in Requests : req'[r].pc = "write" <=> req[r].pc = "write"
    <3>1. UNCHANGED req \/ p # Panel \/ \A r \in Requests : req[r].pc = "idle"
      BY <2>1 DEF PanelInv, Up
    <3>2. UNCHANGED req \/ Ends(p)
      BY <1>1, LoadFrame
    <3> QED BY <1>0, <3>1, <3>2, EndFrame
  <2> QED BY <1>1, <2>1, <2>2, LoadFrame, WritingKept, FileKept
<1>2. CASE OpenStore \/ EnsureAtStart
  <2>1. UNCHANGED <<file, req, last>> /\ (UNCHANGED faults \/ faults' # 0) /\ Moves(Panel)
        /\ proc[Panel].pc # "write" /\ proc'[Panel].pc # "write"
    BY <1>2, OpenFrame
  <2> QED BY <1>0, <2>1, WritingKept, FileKept
<1>3. CASE StartPanel
  <2>1. UNCHANGED <<file, req, last, faults>> /\ Moves(Panel)
        /\ proc[Panel].pc # "write" /\ proc'[Panel].pc # "write"
    BY <1>3, PanelStarts
  <2> QED BY <1>0, <2>1, WritingKept, FileKept
<1>4. CASE Stop
  <2>1. UNCHANGED <<file, last, faults>> /\ Moves(Panel)
        /\ proc[Panel].pc # "write" /\ proc'[Panel].pc # "write"
        /\ \A r \in Requests : req'[r].pc = "write" <=> req[r].pc = "write"
    BY <1>0, <1>4, StopFrame DEF Serving, Up
  <2> QED BY <1>0, <2>1, WritingKept, FileKept
<1>5. ASSUME NEW c \in Commands, Admin(c) PROVE FileInv'
  <2>1. UNCHANGED <<file, req>> /\ (UNCHANGED faults \/ faults' # 0) /\ Moves(c)
        /\ last'.cfg = last.cfg /\ proc[c].pc # "write" /\ proc'[c].pc # "write"
    BY <1>0, <1>5, AdminFrame
  <2> QED BY <1>0, <2>1, WritingKept, FileKept
<1>6. ASSUME NEW c \in Commands, NEW j \in CommandJobs, Command(c, j) PROVE FileInv'
  <2>1. UNCHANGED <<file, req, last, faults>> /\ Moves(c)
        /\ proc[c].pc # "write" /\ proc'[c].pc # "write"
    BY <1>6, CommandStarts
  <2> QED BY <1>0, <2>1, WritingKept, FileKept
<1>7. ASSUME NEW r \in Requests, NEW j \in RequestJobs, Begin(r, j) PROVE FileInv'
  <2>1. UNCHANGED <<file, proc, last, faults>> /\ req'[r].pc # "write" /\ req[r].pc # "write"
        /\ \A s \in Requests : s # r => req'[s] = req[s]
    BY <1>7, RequestStarts DEF TypeInv
  <2>2. Writing' <=> Writing
    BY <2>1 DEF Writing
  <2> QED BY <2>1, <2>2, FileKept
<1>8. ASSUME NEW r \in Requests, Handle(r) PROVE FileInv'
  <2>1. Up /\ req' = [req EXCEPT ![r] = req'[r]] /\ \A s \in Requests : s # r => req'[s] = req[s]
    BY <1>8, HandleFrame DEF TypeInv
  <2>2. /\ proc[Panel].pc # "write" /\ proc'[Panel].pc # "write"
        /\ \A c \in Commands : proc[c].pc # "write" /\ proc'[c].pc # "write"
    <3>1. proc'[Panel].pc = "up" /\ \A c \in Commands : proc'[c] = proc[c]
      BY <1>0, <1>8, HandleFrame DEF Moves, TypeInv
    <3>2. \A c \in Commands : proc[c].pc = "off"
      BY <1>8, HandleFrame DEF OneCommand, Serving
    <3> QED BY <2>1, <3>1, <3>2 DEF Up
  <2>3. /\ Writing <=> \E s \in Requests : req[s].pc = "write"
        /\ Writing' <=> \E s \in Requests : req'[s].pc = "write"
    BY <2>2 DEF Writing, Processes
  <2>4. CASE FlushEffect(r) \/ QuietEffect(r) \/ UserEffect(r) \/ AssignEffect(r) \/ AddEffect(r)
    <3>1. req[r].pc # "write" /\ req'[r].pc # "write"
      BY <2>4 DEF FlushEffect, QuietEffect, UserEffect, AssignEffect, AddEffect
    <3>2. UNCHANGED file /\ last'.cfg = last.cfg /\ (UNCHANGED faults \/ faults' # 0)
      BY <2>4 DEF FlushEffect, QuietEffect, UserEffect, AssignEffect, AddEffect, Stores
    <3> QED BY <2>1, <2>3, <3>1, <3>2, FileKept
  <2>5. CASE TruncateEffect(r)
    BY <2>3, <2>5 DEF FileInv, TruncateEffect, Truncated
  <2>6. CASE WriteEffect(r)
    <3>1. SUFFICES ASSUME faults = 0
                   PROVE  /\ file'.kind = "torn" <=> Writing'
                          /\ file'.kind = "whole" => file'.cfg = last'.cfg
      BY <2>6 DEF FileInv, WriteEffect
    <3>2. file.kind = "torn"
      BY <2>3, <2>6, <3>1 DEF FileInv, WriteEffect
    <3>3. file' = [kind |-> "whole", cfg |-> req[r].snap] /\ last'.cfg = req[r].snap
      BY <2>6, <3>2 DEF WriteEffect, Written, TypeInv
    <3>4. ~Writing'
      <4>1. \A s \in Requests : s # r => req[s].pc # "write"
        BY <2>6, OneWriter DEF WriteEffect, Saves
      <4> QED BY <2>1, <2>3, <2>6, <4>1 DEF WriteEffect
    <3> QED BY <3>3, <3>4
  <2>7. CASE FailEffect(r)
    BY <2>7 DEF FileInv, FailEffect
  <2> QED BY <1>8, <2>4, <2>5, <2>6, <2>7, HandleEffect
<1>9. ASSUME NEW p \in Processes, Kill(p) PROVE FileInv'
  BY <1>9, KillFrame DEF FileInv
<1>10. CASE UNCHANGED vars
  BY <1>10 DEF FileInv, Writing, vars
<1> QED BY <1>0, <1>1, <1>2, <1>3, <1>4, <1>5, <1>6, <1>7, <1>8, <1>9, <1>10, SaveStep
        DEF Next, Serve, Run

\* What the request saves stays what the panel has.
LEMMA SnapStep ==
    ASSUME TypeInv, PanelInv, OneChange, SnapInv, [Next]_vars PROVE SnapInv'
<1>0. /\ Panel \in Processes /\ \A c \in Commands : c \in Processes /\ c # Panel
      /\ Off.pc = "off" /\ Idle.pc = "idle"
  BY PanelIsProcess, SettingsAssumption DEF Off, Idle
<1>1. CASE Run(Panel) \/ StartPanel \/ Stop
  <2>1. \A r \in Requests : req'[r].pc = "idle"
    BY <1>0, <1>1, StartFrame, PanelStarts, StopFrame
  <2> QED BY <2>1 DEF SnapInv
<1>2. CASE OpenStore \/ EnsureAtStart
  BY <1>2, OpenFrame DEF SnapInv
<1>3. ASSUME NEW c \in Commands,
             Run(c) \/ Admin(c) \/ \E j \in CommandJobs : Command(c, j)
      PROVE  SnapInv'
  BY <1>3, CommandFrame, CommandStarts DEF SnapInv, Cfg
<1>4. ASSUME NEW r \in Requests, NEW j \in RequestJobs, Begin(r, j) PROVE SnapInv'
  BY <1>4, RequestStarts DEF SnapInv, Cfg, TypeInv
<1>5. ASSUME NEW r \in Requests, Handle(r) PROVE SnapInv'
  <2>1. Up /\ \A s \in Requests : s # r => req'[s] = req[s]
    BY <1>5, HandleFrame DEF TypeInv
  <2>2. CASE FlushEffect(r) \/ QuietEffect(r) \/ UserEffect(r) \/ AddEffect(r)
             \/ TruncateEffect(r) \/ WriteEffect(r) \/ FailEffect(r)
    <3>1. Cfg' = Cfg
      BY <2>2 DEF FlushEffect, QuietEffect, UserEffect, AddEffect, TruncateEffect, WriteEffect,
         FailEffect, Cfg
    <3>2. req'[r].pc \in {"trunc", "write"} => req'[r].snap = Cfg
      BY <2>2 DEF FlushEffect, QuietEffect, UserEffect, AddEffect, TruncateEffect, WriteEffect,
         FailEffect, SnapInv
    <3> QED BY <2>1, <3>1, <3>2 DEF SnapInv
  <2>3. CASE AssignEffect(r)
    <3>1. \A s \in Requests : s # r => req[s].pc \notin {"trunc", "write"}
      BY <2>3 DEF AssignEffect, OneChange, PanelInv
    <3> QED BY <2>1, <2>3, <3>1 DEF AssignEffect, SnapInv
  <2> QED BY <1>5, <2>2, <2>3, HandleEffect
<1>6. ASSUME NEW p \in Processes, Kill(p) PROVE SnapInv'
  BY <1>0, <1>6, KillFrame DEF SnapInv, Cfg
<1>7. CASE UNCHANGED vars
  BY <1>7 DEF SnapInv, Cfg, vars
<1> QED BY <1>1, <1>2, <1>3, <1>4, <1>5, <1>6, <1>7 DEF Next, Serve

-----------------------------------------------------------------------------
(* What the panel serves by. *)

\* A step that leaves the panel's memory, what it was saved from and its being out of date alone.
LEMMA LoadedKept ==
    ASSUME LoadedInv,
           UNCHANGED <<stale, disk>> /\ proc'[Panel] = proc[Panel] /\ last'.cfg = last.cfg,
           UNCHANGED faults \/ faults' # 0,
           faults' = 0 => tried' = {},
           file'.kind = file.kind \/ file'.kind # "none",
           \A c \in Commands : proc'[c].pc \in {"trunc", "write"} =>
               proc[c].pc \in {"trunc", "write"} \/ stale \/ ~Loaded,
           (\A r \in Requests : ~Saving(r)') => \A r \in Requests : ~Saving(r)
    PROVE  LoadedInv'
BY DEF LoadedInv, Loaded, Cfg, St

\* A panel that is about to load, or stopped, has not loaded.
LEMMA NotLoaded ==
    ASSUME LoadedInv, UNCHANGED tried, UNCHANGED faults \/ faults' # 0,
           proc'[Panel].pc \in {"off", "load", "trunc", "write"}
    PROVE  LoadedInv'
BY DEF LoadedInv, Loaded

\* What the panel loads is what was saved last.
LEMMA PanelLoads ==
    ASSUME TypeInv, PanelInv, OneCommand, FileInv, LoadedInv, Run(Panel)
    PROVE  LoadedInv'
<1>0. /\ Panel \in Processes /\ proc[Panel] \in Process /\ file.cfg \in Config
      /\ last \in [cfg : Config, user : Users \cup {NoUser}]
  BY PanelIsProcess DEF TypeInv
<1>1. UNCHANGED faults \/ faults' # 0
  BY <1>0, LoadFrame, SaveFrame DEF Run
<1>2. CASE proc'[Panel].pc # "open"
  BY <1>1, <1>2, StartFrame, NotLoaded
<1>3. ASSUME proc'[Panel].pc = "open", faults' = 0
      PROVE  file'.kind # "none" /\ last'.cfg.token \in Tokens /\ Cfg' = last'.cfg
  <2>1. CASE Load(Panel)
    <3>1. /\ file.kind = "whole" /\ file.cfg.token # NoToken /\ proc'[Panel].cfg = file.cfg
          /\ UNCHANGED <<file, last, faults>>
      BY <1>0, <1>3, <2>1, LoadFrame DEF Off
    <3>2. file.cfg = last.cfg
      BY <1>3, <3>1 DEF FileInv
    <3> QED BY <1>0, <3>1, <3>2 DEF Cfg, Config
  <2>2. CASE Save(Panel)
    <3>1. /\ proc'[Panel].cfg = proc[Panel].cfg /\ file' \in Written(proc[Panel].cfg)
          /\ last' = [last EXCEPT !.cfg = proc[Panel].cfg] /\ proc[Panel].pc = "write"
      BY <1>0, <1>3, <2>2, SaveFrame
    <3>2. proc[Panel].cfg.token \in Tokens
      BY <1>0, <3>1 DEF TypeInv
    <3> QED BY <1>0, <3>1, <3>2 DEF Cfg, Written
  <2> QED BY <2>1, <2>2 DEF Run
<1>4. proc'[Panel].pc = "open" => \A c \in Commands : proc'[c].pc \notin {"trunc", "write"}
  BY StartFrame DEF OneCommand
<1>5. CASE proc'[Panel].pc = "open"
  <2>1. faults' = 0 => tried' = {}
    BY <1>1, StartFrame DEF LoadedInv
  <2> QED BY <1>3, <1>4, <1>5, <2>1 DEF LoadedInv
<1> QED BY <1>2, <1>5

\* A command leaves what the panel has loaded alone, unless it is then out of date.
LEMMA CommandLoaded ==
    ASSUME TypeInv, PanelInv, CommandInv, OneCommand, FileInv, LoadedInv,
           NEW c \in Commands, Run(c) \/ Admin(c)
    PROVE  LoadedInv'
<1>0. /\ c \in Processes /\ c # Panel /\ proc[c] \in Process /\ file.cfg \in Config
      /\ last \in [cfg : Config, user : Users \cup {NoUser}]
  BY PanelIsProcess, SettingsAssumption DEF TypeInv
<1>1. /\ proc'[Panel] = proc[Panel] /\ UNCHANGED <<req, stale>> /\ proc[c].pc # "off"
      /\ \A d \in Commands : d # c => proc'[d] = proc[d]
  BY CommandFrame
<1>2. SUFFICES ASSUME faults' = 0, faults = 0 PROVE LoadedInv'
  <2>1. UNCHANGED faults \/ faults' # 0
    BY <1>0, LoadFrame, SaveFrame, AdminFrame DEF Run
  <2> QED BY <1>2, <2>1 DEF LoadedInv
<1>3. tried = {} /\ (Loaded => file.kind # "none" /\ last.cfg.token \in Tokens)
  BY <1>2 DEF LoadedInv
<1>4. proc[c].job.kind # "read" => stale \/ ~Loaded
  BY <1>1 DEF OneCommand, Loaded
<1>5. CASE Load(c)
  <2>1. /\ UNCHANGED <<file, disk, last, tried, faults>>
        /\ proc'[c].pc \in {"off", "open", "mint", "trunc"}
        /\ proc'[c].pc = "trunc" =>
               file.kind = "none" \/ (file.kind = "whole" /\ file.cfg.token = NoToken)
    BY <1>0, <1>5, LoadFrame DEF AfterLoad, Off
  <2>2. proc'[c].pc = "trunc" => ~Loaded
    BY <1>0, <1>2, <1>3, <2>1, SettingsAssumption DEF FileInv
  <2> QED BY <1>1, <1>3, <2>1, <2>2, LoadedKept DEF Saving
<1>6. CASE Save(c)
  <2>1. /\ proc[c].pc \in {"trunc", "write"} /\ UNCHANGED <<disk, tried>>
        /\ \/ file' = Truncated /\ UNCHANGED last
           \/ file' \in Written(proc[c].cfg) /\ last' = [last EXCEPT !.cfg = proc[c].cfg]
    BY <1>0, <1>2, <1>6, SaveFrame
  <2>2. file'.kind # "none"
    BY <2>1 DEF Truncated, Written
  <2>3. last'.cfg.token \in Tokens \/ UNCHANGED last
    BY <1>0, <2>1 DEF TypeInv
  <2>4. Loaded => stale
    BY <1>2, <2>1 DEF LoadedInv
  <2> QED BY <1>1, <1>3, <2>1, <2>2, <2>3, <2>4 DEF LoadedInv, Loaded
<1>7. CASE Admin(c)
  <2>1. proc[c].job.kind # "read" /\ UNCHANGED file /\ last'.cfg = last.cfg
    BY <1>0, <1>7, AdminFrame DEF CommandInv
  <2>2. tried' = {}
    BY <1>0, <1>2, <1>3, <1>7, AdminFrame
  <2>3. Loaded => stale
    BY <1>4, <2>1
  <2> QED BY <1>1, <1>3, <2>1, <2>2, <2>3 DEF LoadedInv, Loaded
<1> QED BY <1>5, <1>6, <1>7 DEF Run

\* A request leaves the panel with what it saves.
LEMMA HandleLoaded ==
    ASSUME TypeInv, PanelInv, OneCommand, UserInv, SnapInv, LoadedInv,
           NEW r \in Requests, Handle(r)
    PROVE  LoadedInv'
<1>0. /\ Panel \in Processes /\ \A c \in Commands : c \in Processes /\ c # Panel
      /\ last \in [cfg : Config, user : Users \cup {NoUser}]
  BY PanelIsProcess, SettingsAssumption DEF TypeInv
<1>1. /\ Up /\ proc'[Panel].pc = "up" /\ ~stale /\ UNCHANGED stale
      /\ \A s \in Requests : s # r => req'[s] = req[s]
  BY HandleFrame DEF UserInv, Serving, TypeInv
<1>2. \A c \in Commands : proc'[c].pc = "off"
  <2>1. \A c \in Commands : proc[c].pc = "off" /\ proc'[c] = proc[c]
    BY <1>0, HandleFrame DEF OneCommand, Serving, Moves, TypeInv
  <2> QED BY <2>1
<1>3. Cfg.token \in Tokens
  BY <1>0, <1>1 DEF TypeInv, Up, Cfg
<1>4. SUFFICES ASSUME faults' = 0, faults = 0
      PROVE  /\ tried' = {} /\ file'.kind # "none" /\ last'.cfg.token \in Tokens
             /\ (\A s \in Requests : ~Saving(s)') => Cfg' = last'.cfg
             /\ St' = disk'
  <2>1. UNCHANGED faults \/ faults' # 0
    BY HandleEffect DEF FlushEffect, QuietEffect, UserEffect, AssignEffect, AddEffect,
       TruncateEffect, WriteEffect, FailEffect, Stores
  <2> QED BY <1>2, <1>4, <2>1 DEF LoadedInv
<1>5. /\ tried = {} /\ file.kind # "none" /\ last.cfg.token \in Tokens /\ St = disk
      /\ (\A s \in Requests : ~Saving(s)) => Cfg = last.cfg
  BY <1>1, <1>4 DEF LoadedInv, Loaded, Up
<1>6. ~Saving(r) => ((\A s \in Requests : ~Saving(s)') => \A s \in Requests : ~Saving(s))
  BY <1>1 DEF Saving
<1>7. CASE FlushEffect(r) \/ QuietEffect(r) \/ UserEffect(r)
  <2>1. Cfg' = Cfg /\ St' = disk' /\ last'.cfg = last.cfg /\ tried' = {} /\ UNCHANGED file
    BY <1>4, <1>5, <1>7 DEF FlushEffect, QuietEffect, UserEffect, Stores, Cfg, St
  <2>2. ~Saving(r) \/ Saving(r)'
    BY <1>7 DEF FlushEffect, QuietEffect, UserEffect, Saving
  <2> QED BY <1>5, <1>6, <2>1, <2>2
<1>8. CASE AssignEffect(r) \/ AddEffect(r) \/ TruncateEffect(r)
  <2>1. Saving(r)'
    BY <1>8 DEF AssignEffect, AddEffect, TruncateEffect, Saving
  <2>2. /\ UNCHANGED <<last, tried>> /\ St' = disk'
        /\ file' = Truncated \/ UNCHANGED file
    BY <1>4, <1>5, <1>8 DEF AssignEffect, AddEffect, TruncateEffect, Stores, St
  <2> QED BY <1>5, <2>1, <2>2 DEF Truncated
<1>9. CASE WriteEffect(r)
  <2>1. req[r].snap = Cfg /\ UNCHANGED <<disk, proc, tried>> /\ file' \in Written(Cfg)
        /\ last' = [last EXCEPT !.cfg = Cfg]
    BY <1>9 DEF WriteEffect, SnapInv
  <2>2. last'.cfg = Cfg /\ Cfg' = Cfg /\ St' = St
    BY <1>0, <2>1 DEF Cfg, St
  <2> QED BY <1>3, <1>5, <2>1, <2>2 DEF Written
<1>10. CASE FailEffect(r)
  BY <1>4, <1>10 DEF FailEffect
<1> QED BY <1>7, <1>8, <1>9, <1>10, HandleEffect

\* The panel serves by what was saved last, provided that none of the overlaps happens.
LEMMA LoadedStep ==
    ASSUME TypeInv, PanelInv, CommandInv, OneCommand, UserInv, FileInv, SnapInv, LoadedInv,
           [Next]_vars
    PROVE  LoadedInv'
<1>0. /\ Panel \in Processes /\ \A c \in Commands : c \in Processes /\ c # Panel
      /\ Off.pc = "off" /\ Idle.pc = "idle"
  BY PanelIsProcess, SettingsAssumption DEF Off, Idle
<1>1. CASE OpenStore \/ EnsureAtStart
  <2>1. /\ UNCHANGED <<file, req, stale, last, tried>> /\ Cfg' = Cfg
        /\ \A c \in Commands : proc'[c] = proc[c]
        /\ proc[Panel].pc \in {"open", "local"} /\ proc'[Panel].pc \in {"local", "up"}
    BY <1>1, OpenFrame DEF Cfg
  <2>2. UNCHANGED faults \/ faults' # 0
    BY <1>1, OpenFrame
  <2>3. (faults' = 0 /\ faults = 0) => St' = disk' \/ stale
    BY <1>1, <2>1, OpenFrame DEF LoadedInv, Loaded, St
  <2> QED BY <2>1, <2>2, <2>3 DEF LoadedInv, Loaded, Saving
<1>2. CASE StartPanel \/ Stop
  BY <1>0, <1>2, PanelStarts, StopFrame, NotLoaded
<1>3. ASSUME NEW c \in Commands, NEW j \in CommandJobs, Command(c, j) PROVE LoadedInv'
  <2>1. \A d \in Commands : d # c => proc'[d] = proc[d]
    BY <1>0, <1>3, CommandStarts DEF Moves, TypeInv
  <2>2. stale => stale'
    BY <1>3, CommandStarts
  <2>3. /\ UNCHANGED <<file, disk, req, last, tried, faults>> /\ proc'[Panel] = proc[Panel]
        /\ proc'[c].pc = "load"
    BY <1>3, CommandStarts
  <2> QED BY <2>1, <2>2, <2>3 DEF LoadedInv, Loaded, Cfg, St, Saving
<1>4. ASSUME NEW r \in Requests, NEW j \in RequestJobs, Begin(r, j) PROVE LoadedInv'
  <2>1. /\ UNCHANGED <<file, disk, proc, stale, last, tried, faults>> /\ req[r].pc = "idle"
        /\ \A s \in Requests : s # r => req'[s] = req[s]
    BY <1>4, RequestStarts DEF TypeInv
  <2>2. (\A s \in Requests : ~Saving(s)') => \A s \in Requests : ~Saving(s)
    BY <2>1 DEF Saving
  <2> QED BY <2>1, <2>2, LoadedKept DEF LoadedInv
<1>5. ASSUME NEW p \in Processes, Kill(p) PROVE LoadedInv'
  BY <1>5, KillFrame DEF LoadedInv
<1>6. CASE UNCHANGED vars
  BY <1>6 DEF LoadedInv, Loaded, Cfg, St, Saving, vars
<1> QED BY <1>1, <1>2, <1>3, <1>4, <1>5, <1>6, PanelLoads, CommandLoaded, HandleLoaded
        DEF Next, Serve

-----------------------------------------------------------------------------
(* The theorems. *)

\* A behaviour starts well.
LEMMA InitInv ==
    ASSUME Init
    PROVE  /\ TypeInv /\ PanelInv /\ CommandInv /\ OneChange /\ OneCommand /\ NodeInv /\ UserInv
           /\ FileInv /\ SnapInv /\ LoadedInv
<1>0. /\ Panel \in Processes /\ Commands \subseteq Processes
      /\ \A p \in Processes : proc[p] = Off /\ \A r \in Requests : req[r] = Idle
      /\ proc[Panel] = Off
  BY PanelIsProcess DEF Init
<1>1. TypeInv
  <2>1. file \in [kind : {"none", "torn", "whole"}, cfg : Config]
        /\ last \in [cfg : Config, user : Users \cup {NoUser}]
    BY RestTypes DEF Init
  <2>2. proc \in [Processes -> Process] /\ req \in [Requests -> Request]
    BY RestTypes DEF Init
  <2>3. \A p \in Processes : proc[p].pc = "off"
    BY <1>0 DEF Off
  <2>4. disk \in Store /\ stale \in BOOLEAN /\ tried \subseteq Users
    BY RestTypes DEF Init
  <2>5. calls \in 0..MaxCalls /\ faults \in 0..MaxFaults
    BY SettingsAssumption DEF Init
  <2> QED BY <2>1, <2>2, <2>3, <2>4, <2>5 DEF TypeInv
<1>2. /\ proc[Panel].pc = "off" /\ \A c \in Commands : proc[c].pc = "off"
      /\ \A r \in Requests : req[r].pc = "idle"
  BY <1>0 DEF Off, Idle
<1>3. PanelInv /\ CommandInv /\ OneChange /\ OneCommand /\ SnapInv
  BY <1>2 DEF PanelInv, CommandInv, OneChange, OneCommand, SnapInv
<1>4. NodeInv
  <2>1. disk.locals = <<>> /\ \A p \in Processes : proc[p].st.locals = <<>>
    BY <1>0 DEF Init, Off, NewStore
  <2>2. Len(<<>>) <= 1
    OBVIOUS
  <2> QED BY <1>2, <2>1, <2>2 DEF NodeInv, OneLocalNode
<1>5. UserInv
  BY <1>2 DEF Init, UserInv, PasswordIsDurable, Serving, NewStore
<1>6. FileInv
  <2>1. \A p \in Processes : proc[p].pc # "write"
    BY <1>0 DEF Off
  <2> QED BY <1>2, <2>1 DEF Init, FileInv, Writing
<1>7. LoadedInv
  BY <1>2 DEF Init, LoadedInv, Loaded
<1> QED BY <1>1, <1>3, <1>4, <1>5, <1>6, <1>7

\* The variables keep their types, and a panel that serves has a node token, whatever overlaps
\* (config.go:65-71, applyDefaults).
THEOREM SettingsTypes == Spec /\ []FreeToken => []SettingsTypeOK
<1>1. Init => TypeInv /\ PanelInv
  BY InitInv
<1>2. TypeInv /\ PanelInv /\ FreeToken /\ [Next]_vars => (TypeInv /\ PanelInv)'
  BY TypeStep, PanelStep
<1>3. TypeInv => SettingsTypeOK
  <2> SUFFICES ASSUME TypeInv PROVE SettingsTypeOK
    OBVIOUS
  <2>1. Up => Cfg.token \in Tokens
    BY PanelIsProcess DEF TypeInv, Up, Cfg
  <2>2. Process \subseteq [pc : ProcPcs, cfg : Config, st : Store, job : Asked,
                           then : ProcPcs, must : BOOLEAN]
    BY DEF Process, ProcPcs
  <2>3. proc \in [Processes -> [pc : ProcPcs, cfg : Config, st : Store, job : Asked,
                               then : ProcPcs, must : BOOLEAN]]
    BY <2>2 DEF TypeInv
  <2> QED BY <2>1, <2>3 DEF TypeInv, SettingsTypeOK, Request
<1> QED BY <1>1, <1>2, <1>3, PTL DEF Spec

\* If two requests do not change settings at once, the panel adds itself to its nodes at most
\* once (EnsureLocalNode, web.go:722-738), however many commands run beside it.
THEOREM LocalNodeIsOne ==
    ASSUME "requests" \in Avoided PROVE Spec /\ []FreeToken => []OneLocalNode
<1> DEFINE Inv == TypeInv /\ PanelInv /\ OneChange /\ NodeInv
<1>1. Init => Inv
  BY InitInv
<1>2. Inv /\ FreeToken /\ [Next]_vars => Inv'
  BY TypeStep, PanelStep, OneChangeStep, NodeStep
<1>3. Inv => OneLocalNode
  BY DEF NodeInv
<1> QED BY <1>1, <1>2, <1>3, PTL DEF Spec

\* If commands run alone and requests are not sent to a panel that is out of date, an
\* acknowledged password stays in store.json, however many requests overlap, fail or are killed.
THEOREM PasswordStays ==
    ASSUME {"commands", "stale"} \subseteq Avoided
    PROVE  Spec /\ []FreeToken => []PasswordIsDurable
<1> DEFINE Inv == TypeInv /\ PanelInv /\ CommandInv /\ OneCommand /\ UserInv
<1>0. "commands" \in Avoided
  OBVIOUS
<1>1. Init => Inv
  BY InitInv
<1>2. Inv /\ FreeToken /\ [Next]_vars => Inv'
  BY <1>0, TypeStep, PanelStep, CommandStep, OneCommandStep, UserStep
<1>3. Inv => PasswordIsDurable
  BY DEF UserInv
<1> QED BY <1>1, <1>2, <1>3, PTL DEF Spec

\* If commands run alone and two requests do not change settings at once, config.json is what
\* the last Save wrote whenever nobody is writing it, as long as nothing fails.
THEOREM FileStaysSaved ==
    ASSUME {"commands", "requests"} \subseteq Avoided
    PROVE  Spec /\ []FreeToken => []FileIsLastSave
<1> DEFINE Inv == TypeInv /\ PanelInv /\ OneChange /\ OneCommand /\ FileInv
<1>0. "commands" \in Avoided /\ "requests" \in Avoided
  OBVIOUS
<1>1. Init => Inv
  BY InitInv
<1>2. Inv /\ FreeToken /\ [Next]_vars => Inv'
  BY <1>0, TypeStep, PanelStep, OneChangeStep, OneCommandStep, FileStep
<1>3. Inv => FileIsLastSave
  BY DEF TypeInv, FileInv, FileIsLastSave
<1> QED BY <1>1, <1>2, <1>3, PTL DEF Spec

\* If none of the overlaps happens, a panel that is not out of date serves by what the last
\* commands and requests saved, as long as nothing fails.
THEOREM PanelServesSaved ==
    ASSUME Avoided = Overlaps PROVE Spec /\ []FreeToken => []PanelServesLastSave
<1> DEFINE Inv == /\ TypeInv /\ PanelInv /\ CommandInv /\ OneChange /\ OneCommand /\ UserInv
                  /\ FileInv /\ SnapInv /\ LoadedInv
<1>0. "commands" \in Avoided /\ "requests" \in Avoided /\ {"commands", "stale"} \subseteq Avoided
  BY DEF Overlaps
<1>1. Init => Inv
  BY InitInv
<1>2. Inv /\ FreeToken /\ [Next]_vars => Inv'
  <2>1. SUFFICES ASSUME Inv, FreeToken, [Next]_vars PROVE Inv'
    OBVIOUS
  <2>2. TypeInv' /\ PanelInv' /\ CommandInv' /\ OneChange' /\ OneCommand'
    BY <1>0, <2>1, TypeStep, PanelStep, CommandStep, OneChangeStep, OneCommandStep
  <2>3. UserInv' /\ FileInv' /\ SnapInv' /\ LoadedInv'
    BY <1>0, <2>1, UserStep, FileStep, SnapStep, LoadedStep
  <2> QED BY <2>2, <2>3
<1>3. Inv => PanelServesLastSave
  BY DEF UserInv, LoadedInv, Loaded, Saving, Serving, Up, St, PanelServesLastSave
<1> QED BY <1>1, <1>2, <1>3, PTL DEF Spec

\* The image of a finite set is finite.
LEMMA ImageIsFinite ==
    ASSUME NEW S, IsFiniteSet(S), NEW f, DOMAIN f = S
    PROVE  IsFiniteSet({f[x] : x \in S})
<1> DEFINE T == {f[x] : x \in S}
           g == [x \in S |-> f[x]]
<1>1. g \in Surjection(S, T)
  BY DEF Surjection
<1> QED BY <1>1, FS_Surjection

\* Finitely many tokens are in use.
LEMMA FewInUse ==
    ASSUME TypeInv, IsFiniteSet(Requests), IsFiniteSet(Commands)
    PROVE  IsFiniteSet(InUse)
<1> DEFINE ofProcs == [p \in Processes |-> proc[p].cfg.token]
           ofReqs == [r \in Requests |-> req[r].snap.token]
           ofStore == [i \in DOMAIN disk.locals |-> disk.locals[i].token]
           ofMem(p) == [i \in DOMAIN proc[p].st.locals |-> proc[p].st.locals[i].token]
           sets == [p \in Processes |-> {ofMem(p)[i] : i \in DOMAIN proc[p].st.locals}]
<1>1. IsFiniteSet(Processes)
  BY FS_AddElement DEF Processes
<1>2. IsFiniteSet({ofProcs[p] : p \in Processes})
  BY <1>1, ImageIsFinite
<1>3. IsFiniteSet({ofReqs[r] : r \in Requests})
  BY ImageIsFinite
<1>4. ASSUME NEW seq \in Seq(Local) PROVE IsFiniteSet(DOMAIN seq)
  BY FS_Interval
<1>5. IsFiniteSet({ofStore[i] : i \in DOMAIN disk.locals})
  <2>1. disk.locals \in Seq(Local)
    BY DEF TypeInv, Store
  <2>2. IsFiniteSet(DOMAIN disk.locals)
    BY <2>1, <1>4
  <2> QED BY <2>2, ImageIsFinite
<1>6. \A p \in Processes : IsFiniteSet(sets[p])
  <2> SUFFICES ASSUME NEW p \in Processes
               PROVE  IsFiniteSet({ofMem(p)[i] : i \in DOMAIN proc[p].st.locals})
    OBVIOUS
  <2>1. proc[p].st.locals \in Seq(Local)
    BY DEF TypeInv, Process, Store
  <2>2. IsFiniteSet(DOMAIN proc[p].st.locals)
    BY <2>1, <1>4
  <2>3. DOMAIN ofMem(p) = DOMAIN proc[p].st.locals
    OBVIOUS
  <2> HIDE DEF ofMem
  <2> QED BY <2>2, <2>3, ImageIsFinite
<1>7. IsFiniteSet(UNION {sets[p] : p \in Processes})
  <2>1. DOMAIN sets = Processes
    OBVIOUS
  <2> HIDE DEF sets
  <2>2. IsFiniteSet({sets[p] : p \in Processes})
    BY <1>1, <2>1, ImageIsFinite
  <2> QED BY <1>6, <2>2, FS_UNION
<1>8. IsFiniteSet({file.cfg.token, last.cfg.token})
  <2>1. IsFiniteSet({file.cfg.token})
    BY FS_Singleton
  <2>2. {file.cfg.token, last.cfg.token} = {file.cfg.token} \cup {last.cfg.token}
    OBVIOUS
  <2> QED BY <2>1, <2>2, FS_AddElement
<1>9. InUse = {file.cfg.token, last.cfg.token} \cup {ofProcs[p] : p \in Processes}
              \cup {ofReqs[r] : r \in Requests} \cup {ofStore[i] : i \in DOMAIN disk.locals}
              \cup UNION {sets[p] : p \in Processes}
  <2>1. {ofProcs[p] : p \in Processes} = {proc[p].cfg.token : p \in Processes}
    OBVIOUS
  <2>2. {ofReqs[r] : r \in Requests} = {req[r].snap.token : r \in Requests}
    OBVIOUS
  <2>3. {ofStore[i] : i \in DOMAIN disk.locals}
            = {disk.locals[i].token : i \in DOMAIN disk.locals}
    OBVIOUS
  <2>4. {sets[p] : p \in Processes}
            = {{proc[p].st.locals[i].token : i \in DOMAIN proc[p].st.locals} : p \in Processes}
    <3> DEFINE held(p) == {proc[p].st.locals[i].token : i \in DOMAIN proc[p].st.locals}
    <3>1. \A p \in Processes : sets[p] = held(p)
      OBVIOUS
    <3> HIDE DEF sets, held
    <3>2. {sets[p] : p \in Processes} = {held(p) : p \in Processes}
      BY <3>1
    <3> QED BY <3>2 DEF held
  <2> HIDE DEF ofProcs, ofReqs, ofStore, sets
  <2> QED BY <2>1, <2>2, <2>3, <2>4 DEF InUse
<1> HIDE DEF ofProcs, ofReqs, ofStore, ofMem, sets
<1> QED BY <1>2, <1>3, <1>5, <1>7, <1>8, <1>9, FS_Union

\* randHex never runs out when there are infinitely many tokens: what the other theorems suppose
\* then holds of every behaviour (config.go:125-129).
THEOREM TokensNeverRunOut ==
    ASSUME ~IsFiniteSet(Tokens), IsFiniteSet(Requests), IsFiniteSet(Commands)
    PROVE  Spec => []FreeToken
<1>1. Init => TypeInv /\ PanelInv
  BY InitInv
<1>2. TypeInv => FreeToken
  <2>1. SUFFICES ASSUME TypeInv, \A t \in Tokens : t \in InUse PROVE FALSE
    BY DEF FreeToken
  <2>2. IsFiniteSet(InUse)
    BY <2>1, FewInUse
  <2>3. Tokens \in SUBSET InUse
    BY <2>1
  <2> QED BY <2>2, <2>3, FS_Subset
<1>3. TypeInv /\ PanelInv /\ [Next]_vars => (TypeInv /\ PanelInv)'
  BY <1>2, TypeStep, PanelStep
<1> QED BY <1>1, <1>2, <1>3, PTL DEF Spec
=============================================================================
