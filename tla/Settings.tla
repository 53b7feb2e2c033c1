------------------------------ MODULE Settings ------------------------------
(***************************************************************************)
(* config.json and the users and local node of store.json, which several   *)
(* processes share: the panel, which loads both at its start, keeps a copy *)
(* of each and writes it back whole, and the command line (`admin`,        *)
(* `node-token`, and everything that only loads), which does the same with *)
(* copies of its own.  Store.flush replaces its file in one step (see      *)
(* ReplaceFile); Config.Save truncates config.json and then writes it.     *)
(***************************************************************************)
EXTENDS Integers, Sequences

CONSTANTS
    Paths,       \* normalised values of base_path (and of listen, which is handled alike)
    NewPath,     \* the one a default configuration has
    Mixed,       \* half of one string and half of another: what a torn read returns
    Tokens,      \* values randHex returns; one that nothing refers to is drawn again
    NoToken,     \* "", in a configuration of an older version
    Users,       \* a name with a password
    NoUser,      \* no user, or no password given
    Requests,    \* slots for the panel's goroutines
    Commands,    \* slots for command-line processes
    Avoided,     \* overlaps the operators avoid, among Overlaps
    MaxCalls,    \* bound: requests and commands in a behaviour
    MaxFaults    \* bound: failed calls and kills in a behaviour

Panel == "panel"
Overlaps == {"requests",  \* two requests that change settings or users at once
             "commands",  \* a command beside a command, a request or the panel's start
             "stale"}     \* a request after a command, before the panel is restarted

ASSUME SettingsAssumption ==
    /\ NewPath \in Paths /\ Mixed \notin Paths
    /\ NoToken \notin Tokens /\ NoUser \notin Users
    /\ Avoided \subseteq Overlaps
    /\ Panel \notin Commands /\ Requests \cap (Commands \cup {Panel}) = {}
    /\ MaxCalls \in Nat /\ MaxFaults \in Nat

Processes == Commands \cup {Panel}

VARIABLES
    file,     \* config.json: "none", "torn" or "whole", and its fields when it is whole
    disk,     \* store.json: the user and the local nodes
    proc,     \* the processes: where they are, their copies and what they were asked
    req,      \* the panel's goroutines
    stale,    \* auxiliary: a command has changed a file since the panel loaded it
    last,     \* auxiliary: what the last Config.Save and SetUser without an error wrote
    tried,    \* auxiliary: users of the SetUsers that failed since
    calls,    \* requests and commands so far
    faults    \* faults so far

vars == <<file, disk, proc, req, stale, last, tried, calls, faults>>

Config == [base : Paths \cup {Mixed}, token : Tokens \cup {NoToken}, master : BOOLEAN]
Local  == [base : Paths \cup {Mixed}, token : Tokens \cup {NoToken}]
Store  == [user : Users \cup {NoUser}, locals : Seq(Local)]

Empty    == [base |-> NewPath, token |-> NoToken, master |-> FALSE]
NewStore == [user |-> NoUser, locals |-> <<>>]

\* What a command or a request is asked: a path, "on" or "off" or nothing, a user or none.
Asked == [kind : {"serve", "read", "token", "admin", "settings", "setup", "tunnel"},
          base : Paths, master : {"on", "off", "keep"}, user : Users \cup {NoUser}]
Job(k) == [kind |-> k, base |-> NewPath, master |-> "keep", user |-> NoUser]

ProcPcs == {"off", "load", "trunc", "write", "open", "mint", "local", "up", "user"}
ReqPcs  == {"idle", "has", "user", "base", "base2", "master", "local", "add", "marshal",
            "trunc", "write", "tunnel"}

\* then: where a process goes after Config.Save; must: whether a failed Save ends it.
Off  == [pc |-> "off", cfg |-> Empty, st |-> NewStore, job |-> Job("read"),
         then |-> "off", must |-> TRUE]
Idle == [pc |-> "idle", job |-> Job("tunnel"), snap |-> Empty]

\* A new installation, or the configuration of a version without node tokens.
Init ==
    /\ file \in {[kind |-> "none", cfg |-> Empty], [kind |-> "whole", cfg |-> Empty]}
    /\ disk = NewStore
    /\ proc = [p \in Processes |-> Off]
    /\ req = [r \in Requests |-> Idle]
    /\ stale = FALSE
    /\ last = [cfg |-> Empty, user |-> NoUser] /\ tried = {}
    /\ calls = 0 /\ faults = 0

-----------------------------------------------------------------------------
(* What people avoid, and what the steps have in common. *)

Fault == faults < MaxFaults /\ faults' = faults + 1
Call  == calls < MaxCalls /\ calls' = calls + 1

Up == proc[Panel].pc = "up"
Commanding == \E c \in Commands : proc[c].pc # "off"
Serving    == \E r \in Requests : req[r].pc # "idle"
Changing   == \E r \in Requests : req[r].pc # "idle" /\ req[r].job.kind # "tunnel"

MayRequest(k) ==
    /\ "requests" \in Avoided /\ k # "tunnel" => ~Changing
    /\ "commands" \in Avoided => ~Commanding
    /\ "stale" \in Avoided => ~stale
MayCommand == "commands" \in Avoided =>
                  ~Commanding /\ ~Serving /\ proc[Panel].pc \in {"off", "up"}
MayStart   == "commands" \in Avoided => ~Commanding

\* p goes on; the panel's memory is proc[Panel].cfg and .st.
Goes(p, next) == proc' = [proc EXCEPT ![p] = next]
Only(p, next) ==
    /\ Goes(p, next)
    /\ UNCHANGED <<file, disk, req, stale, last, tried, calls, faults>>

\* A process ends; the panel's goroutines end with it.
Ends(p) ==
    /\ Goes(p, Off)
    /\ req' = IF p = Panel THEN [r \in Requests |-> Idle] ELSE req

\* The token of a configuration, or one that nobody has (which one makes no difference):
\* applyDefaults when the field is empty.
InUse == {file.cfg.token, last.cfg.token} \cup {proc[p].cfg.token : p \in Processes}
         \cup {req[r].snap.token : r \in Requests}
         \cup {disk.locals[i].token : i \in DOMAIN disk.locals}
         \cup UNION {{proc[p].st.locals[i].token : i \in DOMAIN proc[p].st.locals} :
                          p \in Processes}
TokenKept(cfg) == cfg.token
TokenOf(cfg) == IF cfg.token = NoToken THEN CHOOSE t \in Tokens : t \notin InUse ELSE cfg.token

\* WriteFile writes from the start of the file: over what another writer wrote since it was
\* truncated, some of that may remain.
Written(cfg) ==
    LET whole == [kind |-> "whole", cfg |-> cfg]
    IN  IF file.kind = "torn" \/ file.cfg = cfg THEN {whole}
        ELSE {whole, [kind |-> "torn", cfg |-> Empty]}
Truncated == [kind |-> "torn", cfg |-> Empty]

-----------------------------------------------------------------------------
(* config.Load and Config.Save, which every process runs. *)

AfterLoad(p) == CASE proc[p].job.kind \in {"serve", "admin"} -> "open"
                  [] proc[p].job.kind = "token" -> "mint"
                  [] OTHER -> "off"

\* A command is started: node-token, node-token --regenerate, admin, or run-tunnel, which
\* loads the configuration and changes nothing.
Command(c, job) ==
    /\ proc[c].pc = "off" /\ MayCommand /\ Call
    /\ Goes(c, [Off EXCEPT !.pc = "load", !.job = job])
    /\ stale' = (stale \/ (proc[Panel].pc # "off" /\ job.kind # "read"))
    /\ UNCHANGED <<file, disk, req, last, tried, faults>>

\* systemd starts the panel.
StartPanel ==
    /\ proc[Panel].pc = "off" /\ MayStart
    /\ Goes(Panel, [Off EXCEPT !.pc = "load", !.job = Job("serve")])
    /\ stale' = FALSE
    /\ UNCHANGED <<file, disk, req, last, tried, calls, faults>>

LoadFailsOnMissing(p) ==
    /\ proc[p].pc = "load" /\ file.kind = "none"
    /\ Ends(p)
    /\ UNCHANGED <<file, disk, stale, last, tried, calls, faults>>

\* No file: the defaults are saved, and a failure to do so ends the process.
LoadMissing(p) ==
    /\ proc[p].pc = "load" /\ file.kind = "none"
    /\ Goes(p, [proc[p] EXCEPT !.pc = "trunc", !.cfg = [Empty EXCEPT !.token = TokenOf(Empty)],
                               !.then = AfterLoad(p), !.must = TRUE])
    /\ UNCHANGED <<file, disk, req, stale, last, tried, calls, faults>>

LoadUnsaved(p) ==
    /\ proc[p].pc = "load" /\ file.kind = "whole"
    /\ Goes(p, [proc[p] EXCEPT !.pc = AfterLoad(p),
                               !.cfg = [file.cfg EXCEPT !.token = TokenOf(file.cfg)]])
    /\ UNCHANGED <<file, disk, req, stale, last, tried, calls, faults>>

\* A file: a token is added when it has none, and saved; a failure to save it is ignored.
LoadWhole(p) ==
    /\ proc[p].pc = "load" /\ file.kind = "whole"
    /\ Goes(p, [proc[p] EXCEPT
           !.pc = IF file.cfg.token = NoToken THEN "trunc" ELSE AfterLoad(p),
           !.cfg = [file.cfg EXCEPT !.token = TokenOf(file.cfg)],
           !.then = AfterLoad(p), !.must = FALSE])
    /\ UNCHANGED <<file, disk, req, stale, last, tried, calls, faults>>

\* A file that is not JSON ends the process (log.Fatal).
LoadTorn(p) ==
    /\ proc[p].pc = "load" /\ file.kind = "torn"
    /\ Ends(p)
    /\ UNCHANGED <<file, disk, stale, last, tried, calls, faults>>

TruncateNot(p) ==
    /\ proc[p].pc = "trunc"
    /\ Goes(p, [proc[p] EXCEPT !.pc = "write"])
    /\ UNCHANGED <<file, disk, req, stale, last, tried, calls, faults>>

\* os.WriteFile truncates,
Truncate(p) ==
    /\ proc[p].pc = "trunc"
    /\ file' = Truncated
    /\ Goes(p, [proc[p] EXCEPT !.pc = "write"])
    /\ UNCHANGED <<disk, req, stale, last, tried, calls, faults>>

\* and writes.  What is on disk then counts as acknowledged when the process goes on.
Write(p) ==
    /\ proc[p].pc = "write"
    /\ file' \in Written(proc[p].cfg)
    /\ Goes(p, [proc[p] EXCEPT !.pc = proc[p].then])
    /\ last' = [last EXCEPT !.cfg = proc[p].cfg]
    /\ UNCHANGED <<disk, req, stale, tried, calls, faults>>

\* The file cannot be opened, or the disk is full after it was truncated.
SaveFails(p) ==
    /\ proc[p].pc \in {"trunc", "write"} /\ Fault
    /\ IF proc[p].must THEN Ends(p)
       ELSE Goes(p, [proc[p] EXCEPT !.pc = proc[p].then]) /\ UNCHANGED req
    /\ UNCHANGED <<file, disk, stale, last, tried, calls>>

-----------------------------------------------------------------------------
(* The command line. *)

\* node-token --regenerate.
Regenerate(c) ==
    /\ proc[c].pc = "mint"
    /\ Goes(c, [proc[c] EXCEPT !.pc = "trunc", !.cfg.token = TokenOf(Empty), !.then = "off",
                               !.must = TRUE])
    /\ UNCHANGED <<file, disk, req, stale, last, tried, calls, faults>>

Turned(cfg, job) == [cfg EXCEPT !.base = job.base,
                                !.master = CASE job.master = "on"  -> TRUE
                                             [] job.master = "off" -> FALSE
                                             [] OTHER -> @]

\* admin opens the store, sets the fields it was given and saves the configuration.
OpenForAdmin(c) ==
    /\ proc[c].pc = "open" /\ proc[c].job.kind = "admin"
    /\ Only(c, [proc[c] EXCEPT !.pc = "trunc", !.st = disk, !.cfg = Turned(@, proc[c].job),
                               !.then = "user", !.must = TRUE])

\* Then it sets the user, when it was given a password or there is none yet: it writes its own
\* copy of the store.  The error of the flush ends it with a status that is not 0.
AdminUser(c) ==
    /\ proc[c].pc = "user"
    /\ \E u \in Users :
           /\ proc[c].job.user # NoUser => u = proc[c].job.user
           /\ IF proc[c].job.user = NoUser /\ proc[c].st.user # NoUser
              THEN UNCHANGED <<disk, last, tried, faults>>
              ELSE \/ /\ disk' = [proc[c].st EXCEPT !.user = u]
                      /\ last' = [last EXCEPT !.user = u] /\ tried' = {}
                      /\ UNCHANGED faults
                   \/ /\ Fault /\ tried' = tried \cup {u}
                      /\ UNCHANGED <<disk, last>>
    /\ Ends(c)
    /\ UNCHANGED <<file, stale, calls>>

-----------------------------------------------------------------------------
(* The panel's start. *)

OpenStore ==
    /\ proc[Panel].pc = "open"
    /\ Only(Panel, [proc[Panel] EXCEPT !.pc = "local", !.st = disk])

NoSuchLocal == \A i \in DOMAIN proc[Panel].st.locals :
                   proc[Panel].st.locals[i].token # proc[Panel].cfg.token
NoLocal == proc[Panel].st.locals = <<>>
WithLocal(st, cfg) ==
    [st EXCEPT !.locals = Append(@, [base |-> cfg.base, token |-> cfg.token])]

\* A change of the panel's copy of the store is flushed, or the flush fails and the change
\* stays in memory.
Flushed(st, next) ==
    /\ Goes(Panel, next) /\ next.st = st
    /\ \/ disk' = st /\ UNCHANGED faults
       \/ Fault /\ UNCHANGED disk

\* With the master mode EnsureLocalNode adds the local node when there is none, and ignores the
\* error of AddNode; then the panel serves.
EnsureAtStart ==
    /\ proc[Panel].pc = "local"
    /\ IF proc[Panel].cfg.master /\ NoLocal
       THEN LET st == WithLocal(proc[Panel].st, proc[Panel].cfg)
            IN  Flushed(st, [proc[Panel] EXCEPT !.pc = "up", !.st = st])
       ELSE Goes(Panel, [proc[Panel] EXCEPT !.pc = "up"]) /\ UNCHANGED <<disk, faults>>
    /\ UNCHANGED <<file, req, stale, last, tried, calls>>

\* The operator stops the panel while it serves nobody.
Stop ==
    /\ Up /\ ~Serving
    /\ Ends(Panel)
    /\ UNCHANGED <<file, disk, stale, last, tried, calls, faults>>

\* A process is killed, wherever it is.
Kill(p) ==
    /\ proc[p].pc # "off" /\ Fault
    /\ Ends(p)
    /\ UNCHANGED <<file, disk, stale, last, tried, calls>>

-----------------------------------------------------------------------------
(* The requests: setup, settings, and those on tunnels, which flush the whole store.  They *)
(* work on the panel's copies. *)

Cfg == proc[Panel].cfg
St  == proc[Panel].st

Turn(r, pc)    == req' = [req EXCEPT ![r].pc = pc]
Answer(r)      == req' = [req EXCEPT ![r] = Idle]
SetCfg(cfg)    == proc' = [proc EXCEPT ![Panel].cfg = cfg]
SetStore(st)   == Flushed(st, [proc[Panel] EXCEPT !.st = st])

Begin(r, job) ==
    /\ Up /\ req[r].pc = "idle" /\ MayRequest(job.kind) /\ Call
    /\ req' = [req EXCEPT ![r] = [Idle EXCEPT
           !.job = job, !.pc = CASE job.kind = "setup"    -> "has"
                                 [] job.kind = "settings" -> "user"
                                 [] OTHER                 -> "tunnel"]]
    /\ UNCHANGED <<file, disk, proc, stale, last, tried, faults>>

\* A request on a tunnel: one flush.
FlushTunnel(r) ==
    /\ req[r].pc = "tunnel"
    /\ SetStore(St) /\ Answer(r)
    /\ UNCHANGED <<file, stale, last, tried, calls>>

\* handleSetup: HasUsers and SetUser are two critical sections.
HasUsers(r) ==
    /\ req[r].pc = "has"
    /\ IF St.user = NoUser THEN Turn(r, "user") ELSE Answer(r)
    /\ UNCHANGED <<file, disk, proc, stale, last, tried, calls, faults>>

SetUserInMemory(r) ==
    /\ req[r].pc = "user" /\ req[r].job.user # NoUser
    /\ Goes(Panel, [proc[Panel] EXCEPT !.st.user = req[r].job.user])
    /\ last' = [last EXCEPT !.user = req[r].job.user] /\ tried' = {}
    /\ IF req[r].job.kind = "settings" THEN Turn(r, "base") ELSE Answer(r)
    /\ UNCHANGED <<file, disk, stale, calls, faults>>

\* SetUser, in setup and in settings with a new password.
SetUser(r) ==
    /\ req[r].pc = "user" /\ req[r].job.user # NoUser
    /\ SetStore([St EXCEPT !.user = req[r].job.user])
    /\ IF UNCHANGED faults
       THEN /\ last' = [last EXCEPT !.user = req[r].job.user] /\ tried' = {}
            /\ IF req[r].job.kind = "settings" THEN Turn(r, "base") ELSE Answer(r)
       ELSE /\ tried' = tried \cup {req[r].job.user} /\ UNCHANGED last
            /\ Answer(r)
    /\ UNCHANGED <<file, stale, calls>>

NoPassword(r) ==
    /\ req[r].pc = "user" /\ req[r].job.user = NoUser
    /\ Turn(r, "base")
    /\ UNCHANGED <<file, disk, proc, stale, last, tried, calls, faults>>

Assign(r, p, next, cfg) ==
    /\ req[r].pc = p /\ Turn(r, next) /\ SetCfg(cfg)
    /\ UNCHANGED <<file, disk, stale, last, tried, calls, faults>>

\* s.cfg.BasePath = ...: a string is stored in two words, and no lock is held.
SetBase(r)  == Assign(r, "base", "base2", [Cfg EXCEPT !.base = Mixed])
SetBase2(r) == Assign(r, "base2", "master", [Cfg EXCEPT !.base = req[r].job.base])

SetMaster(r) ==
    Assign(r, "master", IF req[r].job.master = "on" THEN "local" ELSE "marshal",
           [Cfg EXCEPT !.master = IF req[r].job.master = "keep" THEN @
                                  ELSE req[r].job.master = "on"])

\* EnsureLocalNode again: LocalNode, then AddNode.
FindLocal(r) ==
    /\ req[r].pc = "local" /\ Turn(r, IF NoLocal THEN "add" ELSE "marshal")
    /\ UNCHANGED <<file, disk, proc, stale, last, tried, calls, faults>>

AddLocal(r) ==
    /\ req[r].pc = "add" /\ Turn(r, "marshal")
    /\ SetStore(WithLocal(St, Cfg))
    /\ UNCHANGED <<file, stale, last, tried, calls>>

\* Config.Save in three pieces: the fields are read, the file is truncated, and written.
Marshal(r) ==
    /\ req[r].pc = "marshal"
    /\ req' = [req EXCEPT ![r].pc = "trunc", ![r].snap = Cfg]
    /\ UNCHANGED <<file, disk, proc, stale, last, tried, calls, faults>>

TruncateFile(r) ==
    /\ req[r].pc = "trunc" /\ Turn(r, "write")
    /\ file' = Truncated
    /\ UNCHANGED <<disk, proc, stale, last, tried, calls, faults>>

WriteFile(r) ==
    /\ req[r].pc = "write" /\ Answer(r)
    /\ file' \in Written(req[r].snap)
    /\ last' = [last EXCEPT !.cfg = req[r].snap]
    /\ UNCHANGED <<disk, proc, stale, tried, calls, faults>>

\* The answer is an error; what was set before stays.
SaveConfigFails(r) ==
    /\ req[r].pc \in {"trunc", "write"} /\ Answer(r) /\ Fault
    /\ UNCHANGED <<file, disk, proc, stale, last, tried, calls>>

-----------------------------------------------------------------------------
Load(p)  == LoadMissing(p) \/ LoadWhole(p) \/ LoadTorn(p)
Save(p)  == Truncate(p) \/ Write(p) \/ SaveFails(p)
Run(p)   == Load(p) \/ Save(p)
Admin(c) == Regenerate(c) \/ OpenForAdmin(c) \/ AdminUser(c)
Serve    == StartPanel \/ Run(Panel) \/ OpenStore \/ EnsureAtStart
UpdateSettings(r) ==
    \/ SetUser(r) \/ NoPassword(r) \/ SetBase(r) \/ SetBase2(r) \/ SetMaster(r)
    \/ FindLocal(r) \/ AddLocal(r) \/ Marshal(r) \/ TruncateFile(r) \/ WriteFile(r)
    \/ SaveConfigFails(r)
Handle(r) == FlushTunnel(r) \/ HasUsers(r) \/ UpdateSettings(r)

CommandJobs == {Job("read"), Job("token")} \cup {j \in Asked : j.kind = "admin"}
RequestJobs == {Job("tunnel")} \cup {j \in Asked : j.kind = "settings"}
               \cup {[Job("setup") EXCEPT !.user = u] : u \in Users}

Next ==
    \/ Serve \/ Stop
    \/ \E c \in Commands : (\E j \in CommandJobs : Command(c, j)) \/ Run(c) \/ Admin(c)
    \/ \E r \in Requests : (\E j \in RequestJobs : Begin(r, j)) \/ Handle(r)
    \/ \E p \in Processes : Kill(p)

Spec == Init /\ [][Next]_vars

\* systemd starts the panel again (Restart=always), and the scheduler runs every process and
\* goroutine that can go on.
FairSpec ==
    /\ Spec /\ WF_vars(Serve)
    /\ \A c \in Commands : WF_vars(Run(c) \/ Admin(c))
    /\ \A r \in Requests : WF_vars(Handle(r))

-----------------------------------------------------------------------------
(* Properties. *)

\* The variables have their types, and a panel that serves has a token.
SettingsTypeOK ==
    /\ Up => Cfg.token \in Tokens
    /\ file \in [kind : {"none", "torn", "whole"}, cfg : Config]
    /\ disk \in Store
    /\ proc \in [Processes -> [pc : ProcPcs, cfg : Config, st : Store, job : Asked,
                               then : ProcPcs, must : BOOLEAN]]
    /\ req \in [Requests -> [pc : ReqPcs, job : Asked, snap : Config]]
    /\ stale \in BOOLEAN
    /\ last \in [cfg : Config, user : Users \cup {NoUser}] /\ tried \subseteq Users
    /\ calls \in 0..MaxCalls /\ faults \in 0..MaxFaults

\* Somebody is between truncating config.json and writing it.
Writing == \/ \E p \in Processes : proc[p].pc = "write"
           \/ \E r \in Requests : req[r].pc = "write"

\* Whenever nobody is writing it, config.json is what the last successful Save wrote, so every
\* process that loads it reads the same token and the same settings ("so every process reads
\* the same value", config.go:65-66).
FileIsLastSave ==
    faults = 0 /\ ~Writing /\ file.kind # "none" /\ last.cfg.token # NoToken =>
        file = [kind |-> "whole", cfg |-> last.cfg]

\* The panel serves by what the last commands and requests saved: it is not left with a token
\* or a path that a command replaced before its start, nor with one it never saved.
PanelServesLastSave ==
    faults = 0 /\ Up /\ ~stale /\ ~Serving =>
        Cfg = last.cfg /\ St = disk /\ (St.user = last.user)

\* An acknowledged password is the stored one, through failures and kills, unless a later
\* attempt that was answered with an error got through after all.
PasswordIsDurable == disk.user = last.user \/ disk.user \in tried

\* The panel is in its own list of nodes at most once, on disk and in memory.
OneLocalNode == Len(disk.locals) <= 1 /\ \A p \in Processes : Len(proc[p].st.locals) <= 1

\* The panel comes up again after every stop and kill, unless config.json is torn: a kill or a
\* full disk in the middle of Save leaves a file that nothing repairs.
PanelComesUp == (proc[Panel].pc = "off") ~> (Up \/ file.kind = "torn")
=============================================================================
