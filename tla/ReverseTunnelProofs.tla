------------------------ MODULE ReverseTunnelProofs ------------------------
(***************************************************************************)
(* What holds of the tunnels in reverse mode for any number of tunnels,    *)
(* requests, hosts, accounts, keys and failures: the types, in every       *)
(* order of the requests; and, when the requests wait for those on their   *)
(* tunnel and deletes for all, that an Apply answered with success has     *)
(* left the whole setup behind and, with one account, that a deleted       *)
(* tunnel's connectors cannot log in.                                      *)
(***************************************************************************)
EXTENDS ReverseTunnel, TLAPS

RequestType == [pc : ReqPcs, op : Ops, id : Ids \cup {Nil}, t : Tunnel \cup {Nil},
                lines : SUBSET Line]
Entry == [key : Keys \cup {Nil}, unit : Unit \cup {Nil}, loaded : Unit \cup {Nil},
          boot : BOOLEAN, run : Unit \cup {Nil}]

Types ==
    /\ rec \in [Ids -> Tunnel \cup {Nil}] /\ req \in [Reqs -> RequestType]
    /\ auth \in [Users -> SUBSET Line]
    /\ usedIds \subseteq Ids /\ acked \subseteq Ids

\* A request in flight has a tunnel, and one that appends its line has a key.
BusyInv == \A r \in Reqs :
    /\ Busy(r) => req[r].id \in Ids /\ req[r].t \in Tunnel
    /\ req[r].pc = "append" => req[r].t.key # Nil

OtherTypes ==
    /\ gateway \in BOOLEAN /\ chains \subseteq Ids
    /\ usedKeys \subseteq Keys /\ settled \subseteq Ids

TypeInv ==
    /\ Types /\ BusyInv /\ OtherTypes
    /\ abroad \in [Hosts -> [Ids -> Entry]] /\ torn \in BOOLEAN /\ faults \in 0..MaxFaults

-----------------------------------------------------------------------------
\* The value of an idle request has its type.
LEMMA IdleType == Idle \in RequestType
BY DEF Idle, RequestType, ReqPcs, Ops

\* Going on changes the place of one request and nothing else in it.
LEMMA GotoFacts ==
    ASSUME Types, NEW r \in Reqs, NEW p \in ReqPcs, Goto(r, p)
    PROVE  /\ req' \in [Reqs -> RequestType]
           /\ req'[r].pc = p /\ req'[r].op = req[r].op /\ req'[r].id = req[r].id
           /\ req'[r].t = req[r].t /\ req'[r].lines = req[r].lines
           /\ \A s \in Reqs : s # r => req'[s] = req[s]
<1>1. req[r] \in RequestType
  BY DEF Types
<1>2. req' = [req EXCEPT ![r] = [req[r] EXCEPT !.pc = p]]
  BY DEF Goto
<1>3. [req[r] EXCEPT !.pc = p] \in RequestType
  BY <1>1 DEF RequestType
<1>4. req'[r] = [req[r] EXCEPT !.pc = p]
  BY <1>2 DEF Types
<1>5. /\ req'[r].pc = p /\ req'[r].op = req[r].op /\ req'[r].id = req[r].id
      /\ req'[r].t = req[r].t /\ req'[r].lines = req[r].lines
  BY <1>1, <1>4 DEF RequestType
<1>6. req' \in [Reqs -> RequestType] /\ \A s \in Reqs : s # r => req'[s] = req[s]
  BY <1>2, <1>3 DEF Types
<1> QED BY <1>5, <1>6

\* Answering makes one request idle.
LEMMA AnswerFacts ==
    ASSUME Types, NEW r \in Reqs, Answer(r)
    PROVE  /\ req' \in [Reqs -> RequestType] /\ req'[r] = Idle
           /\ \A s \in Reqs : s # r => req'[s] = req[s]
BY IdleType DEF Types, Answer

\* A failure is counted within the bound.
LEMMA FaultType ==
    ASSUME faults \in 0..MaxFaults, Fault \/ UNCHANGED faults
    PROVE  faults' \in 0..MaxFaults
BY ReverseAssumption DEF Fault

\* The unit of a tunnel has its type, and is a unit.
LEMMA UnitType == ASSUME NEW t \in Tunnel PROVE UnitOf(t) \in Unit /\ UnitOf(t) # Nil
<1>1. UnitOf(t) \in Unit
  BY DEF Tunnel, UnitOf, Unit
<1> QED BY <1>1, NilAssumption

-----------------------------------------------------------------------------
(* The types.  They hold in every order of the requests. *)

\* The program starts without tunnels.
LEMMA InitTypes == Init => TypeInv
<1> SUFFICES ASSUME Init PROVE TypeInv
  OBVIOUS
<1>1. Types /\ BusyInv /\ OtherTypes
  BY IdleType DEF Init, Types, BusyInv, OtherTypes, Busy, Idle
<1>2. Nothing \in Entry
  BY DEF Nothing, Entry
<1>3. abroad \in [Hosts -> [Ids -> Entry]]
  BY <1>2 DEF Init
<1>4. torn \in BOOLEAN
  BY DEF Init
<1>5. faults \in 0..MaxFaults
  BY ReverseAssumption DEF Init
<1> QED BY <1>1, <1>3, <1>4, <1>5 DEF TypeInv

\* A request keeps its type when it arrives, goes on or is answered.
LEMMA RequestTypes ==
    ASSUME Types, BusyInv, NEW r \in Reqs,
           \/ Answer(r)
           \/ \E p \in ReqPcs : Goto(r, p) /\ Busy(r) /\ (p = "append" => req[r].t.key # Nil)
    PROVE  req' \in [Reqs -> RequestType] /\ BusyInv'
<1>1. CASE Answer(r)
  BY <1>1, AnswerFacts DEF BusyInv, Busy, Idle
<1>2. ASSUME NEW p \in ReqPcs, Goto(r, p), Busy(r), p = "append" => req[r].t.key # Nil
      PROVE  req' \in [Reqs -> RequestType] /\ BusyInv'
  BY <1>2, GotoFacts DEF BusyInv, Busy
<1> QED BY <1>1, <1>2

\* A request that arrives has a tunnel, and its key is generated or one that is stored.
LEMMA ArriveTypes ==
    ASSUME TypeInv, NEW r \in Reqs, NEW i \in Ids, Request(r, i)
    PROVE  TypeInv'
<1> USE DEF TypeInv
<1>1. ASSUME NEW op \in Ops, NEW t \in Tunnel, NEW p \in ReqPcs \ {"append"},
             Arrive(r, op, i, t, p), usedKeys' \subseteq Keys,
             \/ rec' = rec /\ usedIds' = usedIds
             \/ usedIds' = usedIds \cup {i} /\ rec' = [rec EXCEPT ![i] = t]
      PROVE  TypeInv'
  <2> DEFINE new == [pc |-> p, op |-> op, id |-> i, t |-> t, lines |-> {}]
  <2>1. /\ req' = [req EXCEPT ![r] = new] /\ settled' = settled \ {i}
        /\ UNCHANGED <<auth, gateway, chains, abroad, acked, torn, faults>>
    BY <1>1 DEF Arrive, hereVars
  <2>2. new \in RequestType
    BY <1>1 DEF RequestType
  <2>3. new.id = i /\ new.t = t /\ new.pc # "append"
    OBVIOUS
  <2> HIDE DEF new
  <2>4. Types'
    BY <1>1, <2>1, <2>2 DEF Types
  <2>5. BusyInv'
    BY <2>1, <2>3 DEF BusyInv, Busy, Types
  <2>6. OtherTypes'
    BY <1>1, <2>1 DEF OtherTypes
  <2> QED BY <2>1, <2>4, <2>5, <2>6
<1>2. ASSUME NEW k, NEW e, NEW b, ReverseKey(k, e, b) PROVE usedKeys' \subseteq Keys
  BY <1>2 DEF ReverseKey, Generated, OtherTypes
<1>3. CASE Create(r, i)
  BY <1>1, <1>2, <1>3 DEF Create, Ops, ReqPcs
<1>4. CASE Update(r, i)
  <2>1. PICK t \in Tunnel, blank \in {BlankPasswords, FALSE} :
            ReverseKey(t.key, rec[i].key, blank) /\ Arrive(r, "update", i, t, "save")
    BY <1>4 DEF Update
  <2>2. usedKeys' \subseteq Keys
    BY <1>2, <2>1
  <2>3. UNCHANGED <<rec, usedIds>>
    BY <1>4 DEF Update
  <2> QED BY <1>1, <2>1, <2>2, <2>3 DEF Ops, ReqPcs
<1>5. CASE StartStop(r, i)
  <2>1. PICK on \in BOOLEAN : Arrive(r, "action", i, [rec[i] EXCEPT !.enabled = on], "save")
    BY <1>5 DEF StartStop
  <2> DEFINE t == [rec[i] EXCEPT !.enabled = on]
  <2>2. t \in Tunnel
    BY <1>5 DEF StartStop, Types, Tunnel
  <2>3. UNCHANGED <<rec, usedIds, usedKeys>>
    BY <1>5 DEF StartStop, usedVars
  <2>4. Arrive(r, "action", i, t, "save") /\ usedKeys' \subseteq Keys
    BY <2>1, <2>3 DEF OtherTypes
  <2> HIDE DEF t
  <2> QED BY <1>1, <2>2, <2>3, <2>4 DEF Ops, ReqPcs
<1>6. CASE Restart(r, i) \/ Delete(r, i)
  <2>1. rec[i] \in Tunnel /\ UNCHANGED <<rec, usedIds, usedKeys>>
    BY <1>6 DEF Restart, Delete, Types, usedVars
  <2>2. usedKeys' \subseteq Keys
    BY <2>1 DEF OtherTypes
  <2>3. \/ Arrive(r, "restart", i, rec[i], "restart")
        \/ Arrive(r, "delete", i, rec[i], "rmAbroad")
    BY <1>6 DEF Restart, Delete
  <2> QED BY <1>1, <2>1, <2>2, <2>3 DEF Ops, ReqPcs, RemovePcs
<1>7. CASE NotFound(r, i)
  BY <1>7 DEF NotFound, vars, hereVars, usedVars, auxVars, Types, BusyInv, OtherTypes, Busy
<1> QED BY <1>3, <1>4, <1>5, <1>6, <1>7 DEF Request

\* A host's entries keep their types when one is replaced, or systemd reads the units again.
LEMMA EntryTypes ==
    ASSUME abroad \in [Hosts -> [Ids -> Entry]], NEW h \in Hosts, NEW i \in Ids, NEW e \in Entry
    PROVE  /\ [abroad EXCEPT ![h][i] = e] \in [Hosts -> [Ids -> Entry]]
           /\ Reloaded(h) \in [Ids -> Entry]
           /\ [abroad EXCEPT ![h] = Reloaded(h)] \in [Hosts -> [Ids -> Entry]]
           /\ [abroad EXCEPT ![h] = [Reloaded(h) EXCEPT ![i] = e]] \in [Hosts -> [Ids -> Entry]]
<1>1. ASSUME NEW j \in Ids PROVE [abroad[h][j] EXCEPT !.loaded = abroad[h][j].unit] \in Entry
  <2> DEFINE e0 == abroad[h][j]
             e1 == [e0 EXCEPT !.loaded = e0.unit]
  <2>1. e0 \in Entry
    OBVIOUS
  <2>2. e1 \in Entry
    BY <2>1 DEF Entry
  <2> QED BY <2>2
<1>2. Reloaded(h) \in [Ids -> Entry]
  BY <1>1 DEF Reloaded
<1>3. [abroad EXCEPT ![h][i] = e] = [abroad EXCEPT ![h] = [abroad[h] EXCEPT ![i] = e]]
  OBVIOUS
<1> QED BY <1>2, <1>3

\* One entry of a host is replaced, or systemd reads the units again, or both.
SetsAbroad(h, i, e) ==
    \/ abroad' = [abroad EXCEPT ![h][i] = e]
    \/ abroad' = [abroad EXCEPT ![h] = Reloaded(h)]
    \/ abroad' = [abroad EXCEPT ![h] = [Reloaded(h) EXCEPT ![i] = e]]

\* A command writes its own tunnel's entry on its tunnel's host.
LEMMA AbroadForms ==
    ASSUME TypeInv, NEW r \in Reqs, Busy(r),
           \/ UNCHANGED abroad \/ WriteKey(r) \/ WriteUnit(r) \/ Reload(r) \/ Start(r)
           \/ StartBreaksOff(r) \/ Stop(r) \/ RestartAbroad(r) \/ RemoveAbroad(r)
    PROVE  /\ abroad' \in [Hosts -> [Ids -> Entry]]
           /\ \/ UNCHANGED abroad
              \/ \E e \in Entry : SetsAbroad(req[r].t.host, req[r].id, e)
<1> DEFINE t == req[r].t  h == t.host  i == req[r].id  a == abroad[h][i]
<1>1. t \in Tunnel /\ h \in Hosts /\ i \in Ids /\ t.key \in Keys \cup {Nil}
  BY DEF TypeInv, BusyInv, Tunnel
<1>2. a \in Entry /\ UnitOf(t) \in Unit /\ Here(r) = a
  BY <1>1, UnitType DEF TypeInv, Here
<1> HIDE DEF t, h, i, a
<1>3. ASSUME NEW e \in Entry, \/ abroad' = [abroad EXCEPT ![h][i] = e]
                              \/ abroad' = [abroad EXCEPT ![h] = Reloaded(h)]
                              \/ abroad' = [abroad EXCEPT ![h] = [Reloaded(h) EXCEPT ![i] = e]]
      PROVE  /\ abroad' \in [Hosts -> [Ids -> Entry]]
             /\ \E f \in Entry : SetsAbroad(req[r].t.host, req[r].id, f)
  <2>1. abroad \in [Hosts -> [Ids -> Entry]]
    BY DEF TypeInv
  <2>2. /\ [abroad EXCEPT ![h][i] = e] \in [Hosts -> [Ids -> Entry]]
        /\ [abroad EXCEPT ![h] = Reloaded(h)] \in [Hosts -> [Ids -> Entry]]
        /\ [abroad EXCEPT ![h] = [Reloaded(h) EXCEPT ![i] = e]] \in [Hosts -> [Ids -> Entry]]
    BY <1>1, <1>3, <2>1, EntryTypes
  <2>3. SetsAbroad(h, i, e)
    BY <1>3 DEF SetsAbroad
  <2> QED BY <1>3, <2>2, <2>3 DEF t, h, i
<1>4. /\ [a EXCEPT !.key = t.key] \in Entry
      /\ [a EXCEPT !.unit = UnitOf(t)] \in Entry
      /\ \A run \in {a.run, a.loaded} : [a EXCEPT !.boot = TRUE, !.run = run] \in Entry
      /\ [a EXCEPT !.boot = FALSE, !.run = Nil] \in Entry
      /\ [a EXCEPT !.run = a.loaded] \in Entry
      /\ Nothing \in Entry
  BY <1>1, <1>2 DEF Entry, Nothing
<1>5. CASE UNCHANGED abroad
  BY <1>5 DEF TypeInv
<1>6. CASE WriteKey(r)
  BY <1>2, <1>3, <1>4, <1>6 DEF WriteKey, Remote, t, h, i
<1>7. CASE WriteUnit(r)
  BY <1>2, <1>3, <1>4, <1>7 DEF WriteUnit, Remote, t, h, i
<1>8. CASE Reload(r)
  BY <1>2, <1>3, <1>8 DEF Reload, t, h
<1>9. CASE Start(r)
  BY <1>2, <1>3, <1>4, <1>9 DEF Start, Remote, t, h, i
<1>10. CASE StartBreaksOff(r)
  <2>1. PICK run \in {a.run, a.loaded} :
            abroad' = [abroad EXCEPT ![h][i] = [a EXCEPT !.boot = TRUE, !.run = run]]
    BY <1>2, <1>10 DEF StartBreaksOff, t, h, i
  <2> QED BY <1>3, <1>4, <2>1
<1>11. CASE Stop(r)
  <2>1. UNCHANGED abroad
        \/ abroad' = [abroad EXCEPT ![h][i] = [a EXCEPT !.boot = FALSE, !.run = Nil]]
    BY <1>2, <1>11 DEF Stop, Remote, t, h, i
  <2> QED BY <1>3, <1>4, <1>5, <2>1
<1>12. CASE RestartAbroad(r)
  BY <1>2, <1>3, <1>4, <1>12 DEF RestartAbroad, Remote, t, h, i
<1>13. CASE RemoveAbroad(r)
  BY <1>3, <1>4, <1>5, <1>13 DEF RemoveAbroad, t, h, i
<1> QED BY <1>5, <1>6, <1>7, <1>8, <1>9, <1>10, <1>11, <1>12, <1>13

\* The commands of Apply and Remove that leave the store and authorized_keys alone.
Runs(r) ==
    \/ Authorize(r) \/ GatewayPorts(r) \/ EnsureChains(r) \/ WriteKey(r) \/ WriteUnit(r)
    \/ Reload(r) \/ Start(r) \/ StartBreaksOff(r) \/ Stop(r) \/ RestartAbroad(r)
    \/ CommandFails(r) \/ RemoveAbroad(r) \/ RemoveChains(r)

\* The steps that write the store or authorized_keys, or read it to write it back.
Writes(r) ==
    Save(r) \/ Append(r) \/ ReadLines(r) \/ Truncate(r) \/ WriteLines(r) \/ Forget(r)

\* A command that leaves the store and authorized_keys alone goes on with Apply or with Remove,
\* or answers; Append is reached with a key.
LEMMA RunsFlow ==
    ASSUME NEW r \in Reqs, Runs(r)
    PROVE  /\ UNCHANGED <<rec, auth, usedIds, usedKeys, acked, torn>> /\ Busy(r)
           /\ Fault \/ UNCHANGED faults
           /\ \/ Answer(r)
              \/ \E p \in {"gateway", "append", "chains", "key", "unit", "reload", "start",
                           "stop"} :
                    /\ Goto(r, p) /\ (p = "append" => req[r].t.key # Nil)
                    /\ req[r].pc \in {"authorize", "gateway", "chains", "key", "unit",
                                      "reload"}
              \/ \E p \in {"rmChains", "rmRead"} :
                    Goto(r, p) /\ req[r].pc \in {"rmAbroad", "rmChains"}
<1>1. /\ UNCHANGED <<rec, auth, usedIds, usedKeys, acked, torn>> /\ Busy(r)
      /\ Fault \/ UNCHANGED faults
  BY DEF Runs, Authorize, GatewayPorts, EnsureChains, WriteKey, WriteUnit, Reload, Start,
     StartBreaksOff, Stop, RestartAbroad, CommandFails, RemoveAbroad, RemoveChains, Remote,
     Command, hereVars, usedVars, Busy
<1>2. CASE Authorize(r)
  BY <1>1, <1>2 DEF Authorize, Command
<1>3. CASE ~Authorize(r)
  BY <1>1, <1>3 DEF Runs, GatewayPorts, EnsureChains, WriteKey, WriteUnit, Reload, Start,
     StartBreaksOff, Stop, RestartAbroad, CommandFails, RemoveAbroad, RemoveChains, Remote,
     Command
<1> QED BY <1>1, <1>2, <1>3

\* What the commands change has its type.
LEMMA RunsTypes == ASSUME TypeInv, NEW r \in Reqs, Runs(r) PROVE TypeInv'
<1> USE DEF TypeInv
<1>1. /\ UNCHANGED <<rec, auth, usedIds, usedKeys, acked, torn>> /\ Busy(r)
      /\ Fault \/ UNCHANGED faults
      /\ \/ Answer(r)
         \/ \E p \in ReqPcs : Goto(r, p) /\ Busy(r) /\ (p = "append" => req[r].t.key # Nil)
  BY RunsFlow DEF ReqPcs, RemovePcs
<1>2. Types' /\ BusyInv'
  BY <1>1, RequestTypes DEF Types
<1>3. req[r].id \in Ids
  BY <1>1 DEF BusyInv
<1>4. gateway' \in BOOLEAN
  BY DEF OtherTypes, Runs, Authorize, GatewayPorts, EnsureChains, WriteKey, WriteUnit, Reload,
     Start, StartBreaksOff, Stop, RestartAbroad, CommandFails, RemoveAbroad, RemoveChains,
     Remote, Command, hereVars
<1>5. chains' \subseteq Ids
  BY <1>3 DEF OtherTypes, Runs, Authorize, GatewayPorts, EnsureChains, WriteKey, WriteUnit,
     Reload, Start, StartBreaksOff, Stop, RestartAbroad, CommandFails, RemoveAbroad,
     RemoveChains, Remote, Command, hereVars
<1>6. settled' \subseteq Ids
  BY <1>3 DEF OtherTypes, Runs, Authorize, GatewayPorts, EnsureChains, WriteKey, WriteUnit,
     Reload, Start, StartBreaksOff, Stop, RestartAbroad, CommandFails, RemoveAbroad,
     RemoveChains, Remote, Command, hereVars
<1>7. \/ UNCHANGED abroad \/ WriteKey(r) \/ WriteUnit(r) \/ Reload(r) \/ Start(r)
      \/ StartBreaksOff(r) \/ Stop(r) \/ RestartAbroad(r) \/ RemoveAbroad(r)
  BY DEF Runs, Authorize, GatewayPorts, EnsureChains, CommandFails, RemoveChains
<1>8. abroad' \in [Hosts -> [Ids -> Entry]]
  BY <1>1, <1>7, AbroadForms
<1>9. torn' \in BOOLEAN
  BY <1>1
<1>10. faults' \in 0..MaxFaults
  BY <1>1, FaultType
<1>11. OtherTypes'
  BY <1>1, <1>4, <1>5, <1>6 DEF OtherTypes
<1> QED BY <1>2, <1>8, <1>9, <1>10, <1>11

\* Every line of authorized_keys has a key.
LEMMA WritesTypes == ASSUME TypeInv, NEW r \in Reqs, Writes(r) PROVE TypeInv'
<1> USE DEF TypeInv
<1>1. /\ UNCHANGED <<gateway, chains, abroad, usedIds, usedKeys, settled>> /\ Busy(r)
      /\ Fault \/ UNCHANGED faults
  BY DEF Writes, Save, Append, ReadLines, Truncate, WriteLines, Forget, Command, hereVars,
     usedVars, auxVars, Busy
<1>2. /\ req[r] \in RequestType /\ req[r].id \in Ids /\ req[r].t \in Tunnel
      /\ req[r].t.user \in Users /\ req[r].lines \subseteq Line
  BY <1>1 DEF Types, BusyInv, Tunnel, RequestType
<1>3. OtherTypes' /\ abroad' \in [Hosts -> [Ids -> Entry]]
  BY <1>1 DEF OtherTypes
<1>4. faults' \in 0..MaxFaults
  BY <1>1, FaultType
<1>5. torn' \in BOOLEAN
  BY DEF Writes, Save, Append, ReadLines, Truncate, WriteLines, Forget, Command, auxVars
<1>6. rec' \in [Ids -> Tunnel \cup {Nil}]
  BY <1>2 DEF Types, Writes, Save, Append, ReadLines, Truncate, WriteLines, Forget, Command
<1>7. acked' \subseteq Ids
  BY <1>2 DEF Types, Writes, Save, Append, ReadLines, Truncate, WriteLines, Forget, Command,
     auxVars
<1>8. auth' \in [Users -> SUBSET Line]
  <2>1. ASSUME NEW new \in SUBSET Line, auth' = [auth EXCEPT ![req[r].t.user] = new]
        PROVE  auth' \in [Users -> SUBSET Line]
    BY <2>1 DEF Types
  <2>2. CASE Append(r)
    <3>1. [id |-> req[r].id, key |-> req[r].t.key] \in Line
      BY <1>2, <2>2 DEF Append, Command, BusyInv, Tunnel, Line
    <3>2. auth[req[r].t.user] \cup {[id |-> req[r].id, key |-> req[r].t.key]} \in SUBSET Line
      BY <1>2, <3>1 DEF Types
    <3> QED BY <2>1, <2>2, <3>2 DEF Append
  <2>3. CASE Truncate(r) \/ WriteLines(r)
    BY <1>2, <2>1, <2>3 DEF Types, Truncate, WriteLines
  <2>4. CASE Save(r) \/ ReadLines(r) \/ Forget(r)
    BY <2>4 DEF Types, Save, ReadLines, Forget, hereVars
  <2> QED BY <2>2, <2>3, <2>4 DEF Writes
<1>9. req' \in [Reqs -> RequestType] /\ BusyInv'
  <2>1. CASE ReadLines(r)
    <3> DEFINE kept == Kept(auth[req[r].t.user], req[r].id, req[r].t)
               new == [req[r] EXCEPT !.pc = "rmTruncate", !.lines = kept]
    <3>1. req' = [req EXCEPT ![r] = new]
      BY <2>1 DEF ReadLines
    <3>2. kept \subseteq Line
      BY <1>2 DEF Kept, Types
    <3> HIDE DEF kept
    <3>3. new \in RequestType /\ new.pc = "rmTruncate" /\ new.id = req[r].id
          /\ new.t = req[r].t
      BY <1>2, <3>2 DEF RequestType, ReqPcs, RemovePcs
    <3> HIDE DEF new
    <3> QED BY <1>2, <3>1, <3>3 DEF Types, BusyInv, Busy
  <2>2. CASE ~ReadLines(r)
    <3>1. \/ Answer(r)
          \/ \E p \in {"authorize", "gateway", "rmWrite", "forgetOnly", "forget"} : Goto(r, p)
      BY <2>2 DEF Writes, Save, Append, Truncate, WriteLines, Forget
    <3> QED BY <1>1, <3>1, RequestTypes DEF ReqPcs, RemovePcs
  <2> QED BY <2>1, <2>2
<1> QED BY <1>1, <1>3, <1>4, <1>5, <1>6, <1>7, <1>8, <1>9 DEF Types

\* A restart of the panel or of a host abroad.
LEMMA RestartTypes ==
    ASSUME TypeInv, Crash \/ \E h \in Hosts : RebootAbroad(h) PROVE TypeInv'
<1> USE DEF TypeInv
<1>1. CASE Crash
  <2>1. Types' /\ BusyInv' /\ OtherTypes'
    BY <1>1, IdleType DEF Crash, hereVars, usedVars, Types, BusyInv, OtherTypes, Busy, Idle
  <2>2. torn' \in BOOLEAN
    <3>1. torn' = (torn \/ \E r \in Reqs : req[r].pc = "rmWrite")
      BY <1>1 DEF Crash
    <3> QED BY <3>1, Zenon
  <2>3. faults' \in 0..MaxFaults /\ abroad' = abroad
    BY <1>1, FaultType DEF Crash
  <2> QED BY <2>1, <2>2, <2>3
<1>2. ASSUME NEW h \in Hosts, RebootAbroad(h) PROVE TypeInv'
  <2> DEFINE up(i) == [Reloaded(h)[i] EXCEPT
                          !.run = IF abroad[h][i].boot THEN abroad[h][i].unit ELSE Nil]
  <2>1. abroad' = [abroad EXCEPT ![h] = [i \in Ids |-> up(i)]]
    BY <1>2 DEF RebootAbroad
  <2>2. ASSUME NEW i \in Ids PROVE up(i) \in Entry
    <3>1. Reloaded(h)[i] \in Entry /\ abroad[h][i] \in Entry
      BY EntryTypes
    <3> QED BY <3>1 DEF Entry
  <2> HIDE DEF up
  <2>3. abroad' \in [Hosts -> [Ids -> Entry]]
    BY <2>1, <2>2
  <2>4. UNCHANGED <<rec, req, auth, gateway, chains, usedIds, usedKeys, settled, acked, torn>>
        /\ Fault
    BY <1>2 DEF RebootAbroad, hereVars, usedVars, auxVars
  <2>5. Types' /\ BusyInv' /\ OtherTypes' /\ torn' \in BOOLEAN
    BY <2>4 DEF Types, BusyInv, OtherTypes, Busy
  <2> QED BY <2>3, <2>4, <2>5, FaultType
<1> QED BY <1>1, <1>2

\* Every step keeps the types.
LEMMA TypeStep == TypeInv /\ [Next]_vars => TypeInv'
<1> SUFFICES ASSUME TypeInv, [Next]_vars PROVE TypeInv'
  OBVIOUS
<1>1. ASSUME NEW r \in Reqs, NEW i \in Ids, Request(r, i) PROVE TypeInv'
  BY <1>1, ArriveTypes
<1>2. ASSUME NEW r \in Reqs, Runs(r) \/ Writes(r) PROVE TypeInv'
  BY <1>2, RunsTypes, WritesTypes
<1>3. CASE Crash \/ \E h \in Hosts : RebootAbroad(h)
  BY <1>3, RestartTypes
<1>4. CASE UNCHANGED vars
  BY <1>4 DEF vars, hereVars, usedVars, auxVars, TypeInv, Types, BusyInv, OtherTypes, Busy
<1> QED BY <1>1, <1>2, <1>3, <1>4 DEF Next, Apply, Remove, Runs, Writes

\* The variables have their types and a request in flight has a tunnel, in every order of the
\* requests: no account's authorized_keys ever holds a line without a key, though a blank
\* password stores a tunnel without one.
THEOREM ReverseTypes == Spec => []TypeOK
<1>1. TypeInv => TypeOK
  <2> SUFFICES ASSUME TypeInv PROVE TypeOK
    OBVIOUS
  <2>1. abroad \in [Hosts -> [Ids -> Entry]] /\ torn \in BOOLEAN
    BY DEF TypeInv
  <2> QED BY <2>1 DEF TypeInv, Types, BusyInv, OtherTypes, Entry, TypeOK, RequestType
<1> QED BY <1>1, InitTypes, TypeStep, PTL DEF Spec

-----------------------------------------------------------------------------
(* The order of the requests, and the lines of deleted tunnels. *)

NoLine(i, lines) == \A l \in lines : l.id # i

\* No two requests have one tunnel, and a delete has no other beside it.
AloneInv == \A r, s \in Reqs :
    r # s /\ Busy(r) /\ Busy(s) => req[r].id # req[s].id /\ req[r].op # "delete"

\* What a request's place says about its tunnel and the lines it has read.
RequestInv == \A r \in Reqs :
    /\ Busy(r) => rec[req[r].id] # Nil
    /\ ~Busy(r) => req[r].lines = {}
    /\ req[r].pc \in RemovePcs <=> req[r].op = "delete"
    /\ req[r].pc \in {"rmTruncate", "rmWrite"} => NoLine(req[r].id, req[r].lines)
    /\ req[r].pc \in {"rmWrite", "forget"} => NoLine(req[r].id, auth[req[r].t.user])

OrderInv == TypeInv /\ AloneInv /\ RequestInv

\* A deleted tunnel has no line, in the file or in what a request will write back.
DeletedInv ==
    /\ \A i \in Ids : rec[i] # Nil => i \in usedIds
    /\ \A i \in acked : /\ rec[i] = Nil /\ i \in usedIds
                        /\ \A u \in Users : NoLine(i, auth[u])
                        /\ \A r \in Reqs : NoLine(i, req[r].lines)

OneAccount == \E u : Users = {u}

\* A step keeps DeletedInv, where there is one account.
KeepsDeleted == OneAccount /\ DeletedInv => DeletedInv'

-----------------------------------------------------------------------------
\* A request that goes on within Apply, or within Remove before it reads the lines, or ends,
\* keeps the order as long as it leaves the store and the lines alone.
LEMMA QuietStep ==
    ASSUME OrderInv, TypeInv', NEW r \in Reqs, UNCHANGED <<rec, auth, usedIds, acked>>,
           \/ Answer(r)
           \/ \E p \in ReqPcs \ {"idle", "rmTruncate", "rmWrite", "forget"} :
                 Busy(r) /\ Goto(r, p) /\ (p \in RemovePcs <=> req[r].pc \in RemovePcs)
    PROVE  OrderInv' /\ KeepsDeleted
<1> USE DEF OrderInv
<1>1. Types
  BY DEF TypeInv
<1>2. CASE Answer(r)
  <2>1. /\ req' \in [Reqs -> RequestType] /\ req'[r] = Idle
        /\ \A s \in Reqs : s # r => req'[s] = req[s]
    BY <1>1, <1>2, AnswerFacts
  <2> QED
    BY <2>1 DEF AloneInv, RequestInv, DeletedInv, KeepsDeleted, Busy, Idle, RemovePcs, NoLine
<1>3. ASSUME NEW p \in ReqPcs \ {"idle", "rmTruncate", "rmWrite", "forget"},
             Busy(r), Goto(r, p), p \in RemovePcs <=> req[r].pc \in RemovePcs
      PROVE  OrderInv' /\ KeepsDeleted
  <2>1. /\ req' \in [Reqs -> RequestType]
        /\ req'[r].pc = p /\ req'[r].op = req[r].op /\ req'[r].id = req[r].id
        /\ req'[r].t = req[r].t /\ req'[r].lines = req[r].lines
        /\ \A s \in Reqs : s # r => req'[s] = req[s]
    BY <1>1, <1>3, GotoFacts
  <2>2. AloneInv'
    BY <1>3, <2>1 DEF AloneInv, Busy
  <2>3. RequestInv'
    BY <1>3, <2>1 DEF RequestInv, Busy
  <2>4. KeepsDeleted
    BY <2>1 DEF DeletedInv, KeepsDeleted
  <2> QED BY <2>2, <2>3, <2>4
<1> QED BY <1>2, <1>3

\* The program starts without tunnels.
LEMMA InitOrder == Init => OrderInv /\ DeletedInv
BY InitTypes
   DEF Init, OrderInv, AloneInv, RequestInv, DeletedInv, Busy, Idle, RemovePcs, NoLine

\* A request arrives for a stored tunnel, or for a new one that takes an unused id.
LEMMA RequestOrder ==
    ASSUME OrderInv, TypeInv', Avoided = {"tunnel", "delete"},
           NEW r \in Reqs, NEW i \in Ids, Request(r, i)
    PROVE  OrderInv' /\ KeepsDeleted
<1> USE DEF OrderInv
<1>1. ASSUME NEW op \in Ops, NEW t \in Tunnel, NEW p \in ReqPcs, Arrive(r, op, i, t, p),
             p \in RemovePcs <=> op = "delete",
             p \notin {"idle", "rmTruncate", "rmWrite", "forget"},
             \/ rec' = rec /\ usedIds' = usedIds /\ rec[i] # Nil
             \/ i \notin usedIds /\ usedIds' = usedIds \cup {i} /\ rec' = [rec EXCEPT ![i] = t]
      PROVE  OrderInv' /\ KeepsDeleted
  <2> DEFINE new == [pc |-> p, op |-> op, id |-> i, t |-> t, lines |-> {}]
  <2>1. req' = [req EXCEPT ![r] = new] /\ UNCHANGED <<auth, acked>> /\ ~Busy(r)
    BY <1>1 DEF Arrive, hereVars
  <2>2. \A s \in Reqs : Busy(s) => req[s].id # i /\ "delete" \notin {op, req[s].op}
    BY <1>1 DEF Arrive
  <2>3. Types
    BY DEF TypeInv
  <2>4. rec'[i] # Nil /\ \A j \in Ids : j # i => rec'[j] = rec[j]
    BY <1>1, <2>3, NilAssumption DEF Types
  <2>5. AloneInv'
    BY <2>1, <2>2, <2>3 DEF Types, AloneInv, Busy
  <2>6. RequestInv'
    <3>1. ASSUME NEW s \in Reqs, s # r PROVE req'[s] = req[s]
      BY <2>1, <2>3, <3>1 DEF Types
    <3>2. req'[r] = new
      BY <2>1, <2>3 DEF Types
    <3>3. \A s \in Reqs : Busy(s) => req[s].id \in Ids
      BY DEF TypeInv, BusyInv
    <3>4. /\ Busy(r)' /\ rec'[req'[r].id] # Nil /\ req'[r].pc = p /\ req'[r].op = op
          /\ req'[r].pc \notin {"idle", "rmTruncate", "rmWrite", "forget"}
      BY <1>1, <2>4, <3>2 DEF Busy
    <3>5. ASSUME NEW s \in Reqs, s # r
          PROVE  /\ Busy(s)' <=> Busy(s)
                 /\ Busy(s) => rec'[req[s].id] # Nil
      BY <2>2, <2>4, <3>1, <3>3, <3>5 DEF RequestInv, Busy
    <3> QED BY <1>1, <2>1, <3>1, <3>4, <3>5 DEF RequestInv, NoLine
  <2>7. KeepsDeleted
    <3> SUFFICES ASSUME DeletedInv PROVE DeletedInv'
      BY DEF KeepsDeleted
    <3>1. i \notin acked
      BY <1>1 DEF DeletedInv
    <3> QED BY <1>1, <2>1, <2>3, <2>4, <3>1 DEF Types, DeletedInv, NoLine
  <2> QED BY <2>5, <2>6, <2>7
<1>2. CASE Create(r, i)
  BY <1>1, <1>2 DEF Create, Ops, ReqPcs, RemovePcs
<1>3. CASE Update(r, i)
  BY <1>1, <1>3 DEF Update, Ops, ReqPcs, RemovePcs
<1>4. CASE StartStop(r, i)
  <2>1. PICK on \in BOOLEAN : Arrive(r, "action", i, [rec[i] EXCEPT !.enabled = on], "save")
    BY <1>4 DEF StartStop
  <2> DEFINE t == [rec[i] EXCEPT !.enabled = on]
  <2>2. t \in Tunnel
    <3>1. rec[i] \in Tunnel
      BY <1>4 DEF StartStop, TypeInv, Types
    <3> QED BY <3>1 DEF Tunnel
  <2>3. Arrive(r, "action", i, t, "save") /\ rec[i] # Nil /\ UNCHANGED <<rec, usedIds>>
    BY <1>4, <2>1 DEF StartStop, usedVars
  <2> HIDE DEF t
  <2> QED BY <1>1, <2>2, <2>3 DEF Ops, ReqPcs, RemovePcs
<1>5. CASE Restart(r, i) \/ Delete(r, i)
  BY <1>1, <1>5 DEF Restart, Delete, TypeInv, Types, Ops, ReqPcs, RemovePcs, usedVars
<1>6. CASE NotFound(r, i)
  BY <1>6 DEF NotFound, vars, hereVars, usedVars, auxVars, AloneInv, RequestInv, DeletedInv,
     KeepsDeleted, Busy
<1> QED BY <1>2, <1>3, <1>4, <1>5, <1>6 DEF Request

\* The commands that leave the store and the lines alone.
LEMMA RunsOrder ==
    ASSUME OrderInv, TypeInv', NEW r \in Reqs, Runs(r) PROVE OrderInv' /\ KeepsDeleted
<1>1. /\ UNCHANGED <<rec, auth, usedIds, acked>> /\ Busy(r)
      /\ \/ Answer(r)
         \/ \E p \in ReqPcs \ {"idle", "rmTruncate", "rmWrite", "forget"} :
               Goto(r, p) /\ (p \in RemovePcs <=> req[r].pc \in RemovePcs)
  BY RunsFlow DEF ReqPcs, RemovePcs
<1> QED BY <1>1, QuietStep

\* While a delete is under way there is no other request.
LEMMA DeleteAlone ==
    ASSUME OrderInv, NEW r \in Reqs, Busy(r), NEW s \in Reqs, s # r
    PROVE  /\ req[s].pc \notin RemovePcs
           /\ req[r].pc \in RemovePcs => ~Busy(s)
           /\ Busy(s) => req[s].id # req[r].id
<1>1. req[s].pc \in RemovePcs => Busy(s)
  BY DEF Busy, RemovePcs
<1> QED BY <1>1 DEF OrderInv, AloneInv, RequestInv

\* The steps that write the store or the lines.
LEMMA WritesOrder ==
    ASSUME OrderInv, TypeInv', NEW r \in Reqs, Writes(r) PROVE OrderInv' /\ KeepsDeleted
<1> USE DEF OrderInv
<1>1. Types /\ Types' /\ BusyInv /\ Busy(r)
  BY DEF TypeInv, Writes, Save, Append, ReadLines, Truncate, WriteLines, Forget, Command, Busy
<1>2. /\ req[r] \in RequestType /\ req[r].id \in Ids /\ req[r].t \in Tunnel
      /\ req[r].t.user \in Users /\ rec[req[r].id] # Nil
  BY <1>1 DEF Types, BusyInv, RequestInv, Tunnel
<1>3. \A s \in Reqs : s # r => /\ req[s].pc \notin RemovePcs
                               /\ req[r].pc \in RemovePcs => ~Busy(s)
                               /\ Busy(s) => req[s].id # req[r].id
  BY <1>1, DeleteAlone
<1>4. OneAccount => \A v \in Users : v = req[r].t.user
  BY <1>2 DEF OneAccount
<1>5. CASE Save(r)
  <2>1. /\ rec' = [rec EXCEPT ![req[r].id] = req[r].t] /\ Goto(r, "authorize")
        /\ UNCHANGED <<auth, usedIds, acked>> /\ req[r].pc = "save"
    BY <1>2, <1>5 DEF Save, hereVars, usedVars, auxVars
  <2>2. /\ req'[r].pc = "authorize" /\ req'[r].op = req[r].op /\ req'[r].id = req[r].id
        /\ req'[r].t = req[r].t /\ req'[r].lines = req[r].lines
        /\ \A s \in Reqs : s # r => req'[s] = req[s]
    BY <1>1, <2>1, GotoFacts DEF ReqPcs
  <2>3. \A i \in Ids : rec'[i] # Nil <=> rec[i] # Nil
    BY <1>1, <1>2, <2>1, NilAssumption DEF Types
  <2>4. AloneInv'
    BY <1>1, <2>1, <2>2 DEF AloneInv, Busy
  <2>5. RequestInv'
    <3>1. \A s \in Reqs : Busy(s) => req[s].id \in Ids
      BY <1>1 DEF BusyInv
    <3> QED BY <1>2, <2>1, <2>2, <2>3, <3>1 DEF RequestInv, Busy, RemovePcs
  <2>6. KeepsDeleted
    BY <1>1, <2>1, <2>2, <2>3 DEF KeepsDeleted, DeletedInv, Types
  <2> QED BY <2>4, <2>5, <2>6
<1>6. CASE Append(r)
  <2> DEFINE line == [id |-> req[r].id, key |-> req[r].t.key]
  <2>1. /\ req[r].pc = "append" /\ Goto(r, "gateway") /\ UNCHANGED <<rec, usedIds, acked>>
        /\ auth' = [auth EXCEPT ![req[r].t.user] = @ \cup {line}]
    BY <1>6 DEF Append, Command, usedVars
  <2>2. /\ req'[r].pc = "gateway" /\ req'[r].op = req[r].op /\ req'[r].id = req[r].id
        /\ req'[r].t = req[r].t /\ req'[r].lines = req[r].lines
        /\ \A s \in Reqs : s # r => req'[s] = req[s]
    BY <1>1, <2>1, GotoFacts DEF ReqPcs
  <2>3. AloneInv'
    BY <1>1, <2>1, <2>2 DEF AloneInv, Busy
  <2>4. RequestInv'
    <3>1. \A s \in Reqs : req'[s].pc \notin {"rmWrite", "forget"}
      BY <1>3, <2>2 DEF RemovePcs
    <3> QED BY <2>1, <2>2, <3>1 DEF RequestInv, Busy, RemovePcs
  <2>5. KeepsDeleted
    <3> SUFFICES ASSUME OneAccount, DeletedInv PROVE DeletedInv'
      BY DEF KeepsDeleted
    <3>1. req[r].id \notin acked
      BY <1>2 DEF DeletedInv
    <3> QED BY <1>1, <2>1, <2>2, <3>1 DEF DeletedInv, Types, NoLine
  <2> QED BY <2>3, <2>4, <2>5
<1>7. CASE ReadLines(r)
  <2> DEFINE kept == Kept(auth[req[r].t.user], req[r].id, req[r].t)
             new == [req[r] EXCEPT !.pc = "rmTruncate", !.lines = kept]
  <2>1. req' = [req EXCEPT ![r] = new] /\ UNCHANGED <<rec, auth, usedIds, acked>>
        /\ req[r].pc = "rmRead"
    BY <1>7 DEF ReadLines, Command, hereVars, usedVars
  <2>2. kept \subseteq auth[req[r].t.user] /\ NoLine(req[r].id, kept)
    BY <1>2 DEF Kept, NoLine
  <2> HIDE DEF kept
  <2>3. /\ new.pc = "rmTruncate" /\ new.op = req[r].op /\ new.id = req[r].id
        /\ new.t = req[r].t /\ new.lines = kept
    BY <1>2 DEF RequestType
  <2> HIDE DEF new
  <2>4. req'[r] = new /\ \A s \in Reqs : s # r => req'[s] = req[s]
    BY <1>1, <2>1 DEF Types
  <2>5. AloneInv'
    BY <1>1, <2>3, <2>4 DEF AloneInv, Busy
  <2>6. RequestInv'
    BY <2>1, <2>2, <2>3, <2>4 DEF RequestInv, Busy, RemovePcs
  <2>7. KeepsDeleted
    BY <1>2, <2>1, <2>2, <2>3, <2>4 DEF KeepsDeleted, DeletedInv, NoLine
  <2> QED BY <2>5, <2>6, <2>7
<1>8. ASSUME NEW p \in {"rmWrite", "forget", "forgetOnly"}, Goto(r, p),
             req[r].pc \in {"rmTruncate", "rmWrite"}, UNCHANGED <<rec, usedIds, acked>>,
             \/ UNCHANGED auth /\ (req[r].pc = "rmWrite" \/ p = "forgetOnly")
             \/ \E new \in SUBSET req[r].lines : auth' = [auth EXCEPT ![req[r].t.user] = new]
      PROVE  OrderInv' /\ KeepsDeleted
  <2>1. /\ req'[r].pc = p /\ req'[r].op = req[r].op /\ req'[r].id = req[r].id
        /\ req'[r].t = req[r].t /\ req'[r].lines = req[r].lines
        /\ \A s \in Reqs : s # r => req'[s] = req[s]
    BY <1>1, <1>8, GotoFacts DEF ReqPcs, RemovePcs
  <2> DEFINE u == req[r].t.user
  <2>2. \/ auth'[u] \subseteq req[r].lines
        \/ auth'[u] = auth[u] /\ (req[r].pc = "rmWrite" \/ p = "forgetOnly")
    BY <1>1, <1>2, <1>8 DEF Types
  <2>3. p # "forgetOnly" => NoLine(req[r].id, auth'[u])
    BY <1>8, <2>2 DEF RequestInv, NoLine
  <2>4. AloneInv'
    BY <1>1, <1>8, <2>1 DEF AloneInv, Busy
  <2>5. RequestInv'
    BY <1>3, <1>8, <2>1, <2>3 DEF RequestInv, Busy, RemovePcs
  <2>6. KeepsDeleted
    BY <1>4, <1>8, <2>1, <2>2 DEF KeepsDeleted, DeletedInv, NoLine
  <2> QED BY <2>4, <2>5, <2>6
<1>9. CASE Truncate(r)
  <2>1. {} \in SUBSET req[r].lines
    OBVIOUS
  <2>2. \/ Goto(r, "forgetOnly") /\ UNCHANGED auth
        \/ Goto(r, "rmWrite") /\ auth' = [auth EXCEPT ![req[r].t.user] = {}]
    BY <1>9 DEF Truncate
  <2>3. req[r].pc = "rmTruncate" /\ UNCHANGED <<rec, usedIds, acked>>
    BY <1>9 DEF Truncate, Command, usedVars
  <2> QED BY <1>8, <2>1, <2>2, <2>3
<1>10. CASE WriteLines(r)
  <2>1. /\ req[r].pc = "rmWrite" /\ Goto(r, "forget") /\ UNCHANGED <<rec, usedIds, acked>>
        /\ UNCHANGED auth \/ auth' = [auth EXCEPT ![req[r].t.user] = req[r].lines]
    BY <1>10 DEF WriteLines, usedVars
  <2> QED BY <1>8, <2>1
<1>11. CASE Forget(r)
  <2>1. /\ req[r].pc \in {"forget", "forgetOnly"} /\ Answer(r) /\ UNCHANGED <<auth, usedIds>>
        /\ rec' = [rec EXCEPT ![req[r].id] = Nil]
        /\ acked' = acked \cup {i \in {req[r].id} : req[r].pc = "forget"}
    BY <1>11 DEF Forget, hereVars, usedVars
  <2>2. req'[r] = Idle /\ \A s \in Reqs : s # r => req'[s] = req[s]
    BY <1>1, <2>1, AnswerFacts
  <2>3. \A s \in Reqs : s # r => ~Busy(s)
    BY <1>3, <2>1 DEF RemovePcs
  <2>4. AloneInv'
    BY <2>2, <2>3 DEF AloneInv, Busy, Idle
  <2>5. RequestInv'
    BY <2>2, <2>3 DEF RequestInv, Busy, Idle, RemovePcs
  <2>6. \A s \in Reqs : req'[s].lines = {}
    BY <2>2, <2>3 DEF RequestInv, Idle
  <2>7. KeepsDeleted
    <3> SUFFICES ASSUME OneAccount, DeletedInv PROVE DeletedInv'
      BY DEF KeepsDeleted
    <3>1. req[r].pc = "forget" => \A v \in Users : NoLine(req[r].id, auth[v])
      BY <1>4 DEF RequestInv
    <3> QED BY <1>1, <1>2, <2>1, <2>6, <3>1 DEF DeletedInv, Types, NoLine
  <2> QED BY <2>4, <2>5, <2>7
<1> QED BY <1>5, <1>6, <1>7, <1>9, <1>10, <1>11 DEF Writes

\* The panel or a host abroad restarts.
LEMMA RestartOrder ==
    ASSUME OrderInv, TypeInv', Crash \/ \E h \in Hosts : RebootAbroad(h)
    PROVE  OrderInv' /\ KeepsDeleted
<1> USE DEF OrderInv
<1>1. CASE Crash
  BY <1>1 DEF Crash, hereVars, usedVars, AloneInv, RequestInv, KeepsDeleted, DeletedInv,
     Busy, Idle, RemovePcs, NoLine
<1>2. CASE \E h \in Hosts : RebootAbroad(h)
  BY <1>2 DEF RebootAbroad, hereVars, usedVars, auxVars, AloneInv, RequestInv, KeepsDeleted,
     DeletedInv, Busy
<1> QED BY <1>1, <1>2

\* Every step keeps the order, and with one account the lines of deleted tunnels away.
LEMMA OrderStep ==
    ASSUME Avoided = {"tunnel", "delete"}, OrderInv, [Next]_vars
    PROVE  OrderInv' /\ KeepsDeleted
<1>1. TypeInv'
  BY TypeStep DEF OrderInv
<1>2. ASSUME NEW r \in Reqs, NEW i \in Ids, Request(r, i) PROVE OrderInv' /\ KeepsDeleted
  BY <1>1, <1>2, RequestOrder
<1>3. ASSUME NEW r \in Reqs, Runs(r) \/ Writes(r) PROVE OrderInv' /\ KeepsDeleted
  BY <1>1, <1>3, RunsOrder, WritesOrder
<1>4. CASE Crash \/ \E h \in Hosts : RebootAbroad(h)
  BY <1>1, <1>4, RestartOrder
<1>5. CASE UNCHANGED vars
  BY <1>1, <1>5 DEF vars, hereVars, usedVars, auxVars, OrderInv, AloneInv, RequestInv,
     KeepsDeleted, DeletedInv, Busy
<1> QED BY <1>2, <1>3, <1>4, <1>5 DEF Next, Apply, Remove, Runs, Writes

\* A tunnel whose delete could open authorized_keys and was answered has no key left there, so
\* that none of its connectors can log in, whether or not its host was reached: with one account
\* here, and requests that wait for those on their tunnel and for deletes.
THEOREM DeletedStaysOut ==
    ASSUME NEW u, Users = {u}, Avoided = {"tunnel", "delete"}
    PROVE  Spec => []DeletedCannotLogIn
<1>1. OneAccount
  BY DEF OneAccount
<1>2. OrderInv /\ DeletedInv /\ [Next]_vars => OrderInv' /\ DeletedInv'
  BY <1>1, OrderStep DEF KeepsDeleted
<1>3. OrderInv /\ DeletedInv => DeletedCannotLogIn
  BY DEF DeletedInv, NoLine, CanLogIn, DeletedCannotLogIn
<1> QED BY <1>2, <1>3, InitOrder, PTL DEF Spec

-----------------------------------------------------------------------------
(* The keys.  Each is generated once, for one tunnel. *)

LineOf(i, k) == [id |-> i, key |-> k]

\* A tunnel has a key in the store, in a request, in a line of authorized_keys, or in a line
\* that a request will write back.
HasKey(i, k) ==
    \/ rec[i] # Nil /\ rec[i].key = k
    \/ \E u \in Users : LineOf(i, k) \in auth[u]
    \/ \E r \in Reqs : \/ Busy(r) /\ req[r].id = i /\ req[r].t.key = k
                       \/ LineOf(i, k) \in req[r].lines

\* A key is of one tunnel, and is not generated again.
KeyInv == \A i \in Ids, k \in Keys : HasKey(i, k) =>
    k \in usedKeys /\ \A j \in Ids : HasKey(j, k) => j = i

\* A step gives at most one tunnel a key, which is new or was the tunnel's before.
LEMMA KeysKept ==
    ASSUME KeyInv, usedKeys \subseteq usedKeys', NEW i0 \in Ids, NEW k0 \in Keys \cup {Nil},
           k0 = Nil \/ HasKey(i0, k0) \/ k0 \in usedKeys' \ usedKeys,
           \A i \in Ids, k \in Keys : HasKey(i, k)' => HasKey(i, k) \/ (i = i0 /\ k = k0)
    PROVE  KeyInv'
<1>1. Nil \notin Keys
  BY NilAssumption
<1>2. SUFFICES ASSUME NEW i \in Ids, NEW k \in Keys, HasKey(i, k)'
               PROVE  k \in usedKeys' /\ \A j \in Ids : HasKey(j, k)' => j = i
  BY DEF KeyInv
<1>3. CASE k # k0 \/ HasKey(i0, k0)
  <2>1. \A j \in Ids : HasKey(j, k)' => HasKey(j, k)
    BY <1>3
  <2> QED BY <1>2, <2>1 DEF KeyInv
<1>4. CASE k = k0 /\ k0 \in usedKeys' \ usedKeys
  <2>1. \A j \in Ids : ~HasKey(j, k)
    BY <1>4 DEF KeyInv
  <2> QED BY <1>2, <1>4, <2>1
<1> QED BY <1>1, <1>3, <1>4

\* A request that arrives takes the tunnel's stored key or one that is generated.
LEMMA RequestKeys ==
    ASSUME TypeInv, KeyInv, NEW r \in Reqs, NEW i \in Ids, Request(r, i)
    PROVE  KeyInv'
<1>1. Types
  BY DEF TypeInv
<1>2. ASSUME NEW op, NEW t \in Tunnel, NEW p, Arrive(r, op, i, t, p),
             rec' = rec \/ rec' = [rec EXCEPT ![i] = t], usedKeys \subseteq usedKeys',
             t.key = Nil \/ HasKey(i, t.key) \/ t.key \in usedKeys' \ usedKeys
      PROVE  KeyInv'
  <2> DEFINE new == [pc |-> p, op |-> op, id |-> i, t |-> t, lines |-> {}]
  <2>1. req' = [req EXCEPT ![r] = new] /\ auth' = auth
    BY <1>2 DEF Arrive, hereVars
  <2>2. req'[r] = new /\ \A s \in Reqs : s # r => req'[s] = req[s]
    BY <1>1, <2>1 DEF Types
  <2>3. new.id = i /\ new.t = t /\ new.lines = {}
    OBVIOUS
  <2> HIDE DEF new
  <2>4. \A j \in Ids : rec'[j] = rec[j] \/ (j = i /\ rec'[j] = t)
    BY <1>1, <1>2 DEF Types
  <2>5. ASSUME NEW j \in Ids, NEW k \in Keys, HasKey(j, k)'
        PROVE  HasKey(j, k) \/ (j = i /\ k = t.key)
    BY <2>1, <2>2, <2>3, <2>4, <2>5 DEF HasKey, Busy
  <2>6. t.key \in Keys \cup {Nil}
    BY DEF Tunnel
  <2> QED BY <1>2, <2>5, <2>6, KeysKept
<1>3. ASSUME NEW k, NEW e, NEW b, ReverseKey(k, e, b)
      PROVE  /\ usedKeys \subseteq usedKeys'
             /\ k = Nil \/ (k = e /\ e # Nil) \/ k \in usedKeys' \ usedKeys
  BY <1>3 DEF ReverseKey, Generated
<1>4. CASE Create(r, i)
  <2>1. PICK t \in Tunnel : /\ ReverseKey(t.key, Nil, FALSE) /\ rec' = [rec EXCEPT ![i] = t]
                            /\ Arrive(r, "create", i, t, "authorize")
    BY <1>4 DEF Create
  <2> QED BY <1>2, <1>3, <2>1
<1>5. CASE Update(r, i)
  <2>1. PICK t \in Tunnel, blank \in {BlankPasswords, FALSE} :
            ReverseKey(t.key, rec[i].key, blank) /\ Arrive(r, "update", i, t, "save")
    BY <1>5 DEF Update
  <2>2. rec' = rec /\ rec[i] # Nil
    BY <1>5 DEF Update
  <2>3. t.key = rec[i].key => HasKey(i, t.key)
    BY <2>2 DEF HasKey
  <2> QED BY <1>2, <1>3, <2>1, <2>2, <2>3
<1>6. ASSUME NEW op, NEW t \in Tunnel, NEW p, Arrive(r, op, i, t, p),
             t.key = rec[i].key, rec[i] # Nil, UNCHANGED <<rec, usedVars>>
      PROVE  KeyInv'
  BY <1>2, <1>6 DEF HasKey, usedVars
<1>7. CASE StartStop(r, i)
  <2>1. PICK on \in BOOLEAN : Arrive(r, "action", i, [rec[i] EXCEPT !.enabled = on], "save")
    BY <1>7 DEF StartStop
  <2> DEFINE t == [rec[i] EXCEPT !.enabled = on]
  <2>2. t \in Tunnel /\ t.key = rec[i].key /\ rec[i] # Nil /\ UNCHANGED <<rec, usedVars>>
    BY <1>1, <1>7 DEF StartStop, Types, Tunnel
  <2>3. Arrive(r, "action", i, t, "save")
    BY <2>1
  <2> HIDE DEF t
  <2> QED BY <1>6, <2>2, <2>3
<1>8. CASE Restart(r, i) \/ Delete(r, i)
  <2>1. rec[i] \in Tunnel /\ rec[i] # Nil /\ UNCHANGED <<rec, usedVars>>
    BY <1>1, <1>8 DEF Restart, Delete, Types
  <2> QED BY <1>6, <1>8, <2>1 DEF Restart, Delete
<1>9. CASE NotFound(r, i)
  BY <1>9 DEF NotFound, vars, hereVars, usedVars, auxVars, KeyInv, HasKey, Busy
<1> QED BY <1>4, <1>5, <1>7, <1>8, <1>9 DEF Request

\* No other step gives a tunnel a key that it did not have.
LEMMA OtherKeys ==
    ASSUME TypeInv, KeyInv,
           \/ \E r \in Reqs : Runs(r) \/ Writes(r)
           \/ Crash \/ \E h \in Hosts : RebootAbroad(h)
    PROVE  KeyInv'
<1>1. Types /\ BusyInv
  BY DEF TypeInv
<1>2. ASSUME usedKeys' = usedKeys,
             \A j \in Ids, k \in Keys : HasKey(j, k)' => HasKey(j, k)
      PROVE  KeyInv'
  BY <1>2 DEF KeyInv
<1>3. ASSUME NEW r \in Reqs, Runs(r) \/ Writes(r) PROVE KeyInv'
  <2>1. usedKeys' = usedKeys /\ Busy(r)
    <3>1. CASE Runs(r)
      BY <3>1, RunsFlow
    <3>2. CASE Writes(r)
      BY <3>2 DEF Writes, Save, Append, ReadLines, Truncate, WriteLines, Forget, Command,
         usedVars, Busy
    <3> QED BY <1>3, <3>1, <3>2
  <2>2. req[r].id \in Ids /\ req[r].t \in Tunnel /\ req[r].t.user \in Users
    BY <1>1, <2>1 DEF BusyInv, Tunnel
  <2>3. ASSUME \A j \in Ids : rec'[j] = rec[j] \/ (j = req[r].id /\ rec'[j] \in {req[r].t, Nil}),
               \A u \in Users : auth'[u] \subseteq auth[u] \cup req[r].lines
                                   \cup {LineOf(req[r].id, req[r].t.key)},
               \A s \in Reqs : /\ req'[s].pc = "idle" \/ (req'[s].id = req[s].id
                                                          /\ req'[s].t = req[s].t /\ Busy(s))
                               /\ \A l \in req'[s].lines : \/ l \in req[s].lines
                                                           \/ \E u \in Users : l \in auth[u]
        PROVE  \A j \in Ids, k \in Keys : HasKey(j, k)' => HasKey(j, k)
    <3> SUFFICES ASSUME NEW j \in Ids, NEW k \in Keys, HasKey(j, k)' PROVE HasKey(j, k)
      OBVIOUS
    <3>1. CASE rec'[j] # Nil /\ rec'[j].key = k
      BY <2>1, <2>3, <3>1 DEF HasKey
    <3>2. ASSUME NEW u \in Users, LineOf(j, k) \in auth'[u] PROVE HasKey(j, k)
      BY <2>1, <2>3, <3>2 DEF HasKey, LineOf
    <3>3. ASSUME NEW s \in Reqs, req'[s].pc # "idle", req'[s].id = j, req'[s].t.key = k
          PROVE  HasKey(j, k)
      BY <2>3, <3>3 DEF HasKey
    <3>4. ASSUME NEW s \in Reqs, LineOf(j, k) \in req'[s].lines PROVE HasKey(j, k)
      BY <2>3, <3>4 DEF HasKey
    <3> QED BY <3>1, <3>2, <3>3, <3>4 DEF HasKey, Busy
  <2>4. \A j \in Ids : rec'[j] = rec[j] \/ (j = req[r].id /\ rec'[j] \in {req[r].t, Nil})
    <3>1. CASE Runs(r)
      BY <3>1, RunsFlow
    <3>2. CASE Writes(r)
      BY <1>1, <2>2, <3>2 DEF Types, Writes, Save, Append, ReadLines, Truncate, WriteLines,
         Forget, Command
    <3> QED BY <1>3, <3>1, <3>2
  <2>5. \A u \in Users : auth'[u] \subseteq auth[u] \cup req[r].lines
                            \cup {LineOf(req[r].id, req[r].t.key)}
    <3>1. CASE Runs(r)
      BY <3>1, RunsFlow
    <3>2. CASE Writes(r)
      BY <1>1, <2>2, <3>2 DEF Types, Writes, Save, Append, ReadLines, Truncate, WriteLines,
         Forget, hereVars, LineOf
    <3> QED BY <1>3, <3>1, <3>2
  <2>6. \A s \in Reqs : /\ req'[s].pc = "idle" \/ (req'[s].id = req[s].id
                                                   /\ req'[s].t = req[s].t /\ Busy(s))
                        /\ \A l \in req'[s].lines : \/ l \in req[s].lines
                                                    \/ \E u \in Users : l \in auth[u]
    <3>1. CASE ReadLines(r)
      <4> DEFINE kept == Kept(auth[req[r].t.user], req[r].id, req[r].t)
                 new == [req[r] EXCEPT !.pc = "rmTruncate", !.lines = kept]
      <4>1. req'[r] = new /\ \A s \in Reqs : s # r => req'[s] = req[s]
        BY <1>1, <3>1 DEF ReadLines, Types
      <4>2. kept \subseteq auth[req[r].t.user]
        BY DEF Kept
      <4>3. new.id = req[r].id /\ new.t = req[r].t /\ new.lines = kept
        BY <1>1 DEF Types, RequestType
      <4> HIDE DEF kept, new
      <4> QED BY <2>1, <2>2, <4>1, <4>2, <4>3 DEF Busy
    <3>2. CASE ~ReadLines(r)
      <4>1. Answer(r) \/ \E p \in ReqPcs : Goto(r, p)
        <5>1. CASE Runs(r)
          BY <5>1, RunsFlow DEF ReqPcs, RemovePcs
        <5>2. CASE Writes(r)
          BY <3>2, <5>2 DEF Writes, Save, Append, Truncate, WriteLines, Forget, ReqPcs,
             RemovePcs
        <5> QED BY <1>3, <5>1, <5>2
      <4>2. CASE Answer(r)
        BY <1>1, <4>2, AnswerFacts DEF Idle, Busy
      <4>3. ASSUME NEW p \in ReqPcs, Goto(r, p)
            PROVE  \A s \in Reqs : /\ req'[s].id = req[s].id /\ req'[s].t = req[s].t
                                   /\ req'[s].lines = req[s].lines
                                   /\ s # r => req'[s] = req[s]
        BY <1>1, <4>3, GotoFacts
      <4> QED BY <2>1, <4>1, <4>2, <4>3 DEF Busy
    <3> QED BY <3>1, <3>2
  <2> QED BY <1>2, <2>1, <2>3, <2>4, <2>5, <2>6
<1>4. CASE Crash
  BY <1>2, <1>4 DEF Crash, hereVars, usedVars, HasKey, Busy, Idle
<1>5. CASE \E h \in Hosts : RebootAbroad(h)
  BY <1>2, <1>5 DEF RebootAbroad, hereVars, usedVars, HasKey, Busy
<1> QED BY <1>3, <1>4, <1>5

\* Every step keeps the keys apart.
LEMMA KeyStep == TypeInv /\ KeyInv /\ [Next]_vars => KeyInv'
<1>1. UNCHANGED vars /\ KeyInv => KeyInv'
  BY DEF vars, hereVars, usedVars, KeyInv, HasKey, Busy
<1> QED BY <1>1, RequestKeys, OtherKeys DEF Next, Apply, Remove, Runs, Writes

-----------------------------------------------------------------------------
(* What an Apply leaves behind. *)

\* The commands of Apply from one of them on.
ToStart   == {"start", "stop"}
ToReload  == {"reload"} \cup ToStart
ToUnit    == {"unit"} \cup ToReload
ToKey     == {"key"} \cup ToUnit
ToChains  == {"chains"} \cup ToKey
ToGateway == {"gateway"} \cup ToChains
ToApply   == {"authorize", "append"} \cup ToGateway

\* An Apply works on the stored tunnel, and what its earlier commands have set up is there.
Progress(r) ==
    LET i == req[r].id  t == req[r].t  pc == req[r].pc IN
    /\ pc \in ToApply => rec[i] = t
    /\ pc \in ToGateway => LineOf(i, t.key) \in auth[t.user]
    /\ pc \in ToChains => gateway
    /\ pc \in ToKey /\ faults = 0 => i \in chains
    /\ pc \in ToUnit => Here(r).key = t.key
    /\ pc \in ToReload => Here(r).unit = UnitOf(t)
    /\ pc \in ToStart => Here(r).loaded = UnitOf(t)
    /\ pc = "start" => t.enabled
    /\ pc = "stop" => ~t.enabled

ProgressInv == \A r \in Reqs : Progress(r)

\* What stays of a tunnel's setup while no request is on the tunnel.
SetUp(i) ==
    LET t == rec[i]  a == abroad[t.host][i] IN
    /\ t # Nil /\ \A r \in Reqs : Busy(r) => req[r].id # i
    /\ gateway
    /\ faults = 0 => i \in chains
    /\ a.key = t.key /\ a.unit = UnitOf(t) /\ a.loaded = UnitOf(t)
    /\ t.enabled => a.boot /\ a.run = UnitOf(t)
    /\ ~t.enabled /\ faults = 0 => a.run = Nil

\* Its line is in authorized_keys, unless a delete has truncated the file; a delete that has
\* read the file will write the line back.
LineKept(i) ==
    ~torn =>
        /\ \/ LineOf(i, rec[i].key) \in auth[rec[i].user]
           \/ \E r \in Reqs : req[r].pc = "rmWrite" /\ req[r].t.user = rec[i].user
        /\ \A r \in Reqs :
              req[r].pc \in {"rmTruncate", "rmWrite"} /\ req[r].t.user = rec[i].user =>
                  LineOf(i, rec[i].key) \in req[r].lines

SettledInv == \A i \in settled : SetUp(i) /\ LineKept(i)

SetupInv == OrderInv /\ KeyInv /\ ProgressInv /\ SettledInv

-----------------------------------------------------------------------------
\* An entry of another tunnel abroad stays, but for systemd reading its unit again.
Same(a, b) ==
    /\ b.key = a.key /\ b.unit = a.unit /\ b.boot = a.boot /\ b.run = a.run
    /\ b.loaded \in {a.loaded, a.unit}

\* What the commands of a request leave alone of the other tunnels.
LeavesOthers(r) ==
    /\ gateway => gateway'
    /\ faults' = 0 => faults = 0
    /\ \A s \in Reqs : s # r => req'[s] = req[s]
    /\ \A j \in Ids \ {req[r].id} :
          /\ rec'[j] = rec[j] /\ (j \in chains => j \in chains')
          /\ \A h \in Hosts : Same(abroad[h][j], abroad'[h][j])
    /\ settled' \subseteq settled \cup {req[r].id}

\* Reading the units again leaves the rest of an entry.
LEMMA ReloadedFacts ==
    ASSUME abroad \in [Hosts -> [Ids -> Entry]], NEW h \in Hosts, NEW j \in Ids
    PROVE  /\ Same(abroad[h][j], Reloaded(h)[j]) /\ Same(abroad[h][j], abroad[h][j])
           /\ Reloaded(h)[j].loaded = abroad[h][j].unit
<1>1. abroad[h][j] \in Entry
  OBVIOUS
<1>2. Reloaded(h)[j] = [abroad[h][j] EXCEPT !.loaded = abroad[h][j].unit]
  BY DEF Reloaded
<1> QED BY <1>1, <1>2 DEF Entry, Same

\* A command abroad leaves the other tunnels' entries.
LEMMA SetsOwn ==
    ASSUME abroad \in [Hosts -> [Ids -> Entry]], NEW h \in Hosts, NEW i \in Ids,
           NEW e \in Entry, SetsAbroad(h, i, e), NEW g \in Hosts, NEW j \in Ids \ {i}
    PROVE  Same(abroad[g][j], abroad'[g][j])
<1>1. /\ Same(abroad[g][j], Reloaded(g)[j]) /\ Same(abroad[g][j], abroad[g][j])
  BY ReloadedFacts
<1>2. Reloaded(h) \in [Ids -> Entry]
  BY EntryTypes
<1>3. abroad'[g][j] = abroad[g][j] \/ (g = h /\ abroad'[g][j] = Reloaded(h)[j])
  BY <1>2 DEF SetsAbroad
<1> QED BY <1>1, <1>3

\* The commands of one request leave the other tunnels alone.
LEMMA OthersLeft ==
    ASSUME TypeInv, NEW r \in Reqs, Runs(r) \/ Writes(r) PROVE LeavesOthers(r)
<1> USE DEF TypeInv
<1>1. Busy(r) /\ (Fault \/ UNCHANGED faults)
  <2>1. CASE Runs(r)
    BY <2>1, RunsFlow
  <2>2. CASE Writes(r)
    BY <2>2 DEF Writes, Save, Append, ReadLines, Truncate, WriteLines, Forget, Command, Busy
  <2> QED BY <2>1, <2>2
<1>2. /\ req[r].id \in Ids /\ req[r].t \in Tunnel /\ req[r].t.host \in Hosts /\ Types
      /\ abroad \in [Hosts -> [Ids -> Entry]]
  BY <1>1 DEF BusyInv, Tunnel
<1>3. faults' = 0 => faults = 0
  BY <1>1, ReverseAssumption DEF Fault
<1>4. gateway => gateway'
  BY DEF Runs, Writes, Authorize, GatewayPorts, EnsureChains, WriteKey, WriteUnit, Reload,
     Start, StartBreaksOff, Stop, RestartAbroad, CommandFails, RemoveAbroad, RemoveChains,
     Save, Append, ReadLines, Truncate, WriteLines, Forget, Remote, Command, hereVars
<1>5. \A j \in Ids \ {req[r].id} : j \in chains => j \in chains'
  BY DEF Runs, Writes, Authorize, GatewayPorts, EnsureChains, WriteKey, WriteUnit, Reload,
     Start, StartBreaksOff, Stop, RestartAbroad, CommandFails, RemoveAbroad, RemoveChains,
     Save, Append, ReadLines, Truncate, WriteLines, Forget, Remote, Command, hereVars
<1>6. settled' \subseteq settled \cup {req[r].id}
  BY DEF Runs, Writes, Authorize, GatewayPorts, EnsureChains, WriteKey, WriteUnit, Reload,
     Start, StartBreaksOff, Stop, RestartAbroad, CommandFails, RemoveAbroad, RemoveChains,
     Save, Append, ReadLines, Truncate, WriteLines, Forget, Remote, Command, hereVars, auxVars
<1>7. \A j \in Ids \ {req[r].id} : rec'[j] = rec[j]
  <2>1. CASE Runs(r)
    BY <2>1, RunsFlow
  <2>2. CASE Writes(r)
    BY <1>2, <2>2 DEF Types, Writes, Save, Append, ReadLines, Truncate, WriteLines, Forget,
       Command
  <2> QED BY <2>1, <2>2
<1>8. \A s \in Reqs : s # r => req'[s] = req[s]
  <2>1. CASE ReadLines(r)
    BY <1>2, <2>1 DEF ReadLines, Types
  <2>2. CASE ~ReadLines(r)
    <3>1. Answer(r) \/ \E p \in ReqPcs : Goto(r, p)
      <4>1. CASE Runs(r)
        BY <4>1, RunsFlow DEF ReqPcs, RemovePcs
      <4>2. CASE Writes(r)
        BY <2>2, <4>2 DEF Writes, Save, Append, Truncate, WriteLines, Forget, ReqPcs,
           RemovePcs
      <4> QED BY <4>1, <4>2
    <3> QED BY <1>2, <3>1, AnswerFacts, GotoFacts
  <2> QED BY <2>1, <2>2
<1>9. \A h \in Hosts, j \in Ids \ {req[r].id} : Same(abroad[h][j], abroad'[h][j])
  <2>1. \/ UNCHANGED abroad \/ WriteKey(r) \/ WriteUnit(r) \/ Reload(r) \/ Start(r)
        \/ StartBreaksOff(r) \/ Stop(r) \/ RestartAbroad(r) \/ RemoveAbroad(r)
    BY DEF Runs, Writes, Authorize, GatewayPorts, EnsureChains, CommandFails, RemoveChains,
       Save, Append, ReadLines, Truncate, WriteLines, Forget
  <2>2. CASE UNCHANGED abroad
    BY <1>2, <2>2, ReloadedFacts
  <2>3. ASSUME NEW e \in Entry, SetsAbroad(req[r].t.host, req[r].id, e)
        PROVE  \A h \in Hosts, j \in Ids \ {req[r].id} : Same(abroad[h][j], abroad'[h][j])
    BY <1>2, <2>3, SetsOwn
  <2> QED BY <1>1, <2>1, <2>2, <2>3, AbroadForms
<1> QED BY <1>3, <1>4, <1>5, <1>6, <1>7, <1>8, <1>9 DEF LeavesOthers

\* The progress of a request is kept by the commands of the others.
LEMMA OthersProgress ==
    ASSUME OrderInv, NEW r \in Reqs, Busy(r), LeavesOthers(r),
           req[r].pc \in RemovePcs \/ \A u \in Users : auth[u] \subseteq auth'[u],
           NEW s \in Reqs, s # r, Progress(s)
    PROVE  Progress(s)'
<1>1. req'[s] = req[s]
  BY DEF LeavesOthers
<1>2. CASE ~Busy(s)
  BY <1>1, <1>2 DEF Progress, Busy, ToApply, ToGateway, ToChains, ToKey, ToUnit, ToReload,
     ToStart
<1>3. CASE Busy(s)
  <2> DEFINE i == req[s].id  t == req[s].t
  <2>1. req[r].pc \notin RemovePcs /\ i # req[r].id
    BY <1>3, DeleteAlone
  <2>2. i \in Ids /\ t \in Tunnel /\ t.host \in Hosts /\ t.user \in Users
    BY <1>3 DEF OrderInv, TypeInv, BusyInv, Tunnel
  <2>3. /\ rec'[i] = rec[i] /\ (i \in chains => i \in chains')
        /\ Same(abroad[t.host][i], abroad'[t.host][i])
        /\ (gateway => gateway') /\ (faults' = 0 => faults = 0)
    BY <2>1, <2>2 DEF LeavesOthers
  <2>4. auth[t.user] \subseteq auth'[t.user]
    BY <2>1, <2>2
  <2>5. Here(s)' = abroad'[t.host][i] /\ Here(s) = abroad[t.host][i]
    BY <1>1 DEF Here
  <2>6. /\ req[s].pc \in ToApply => rec'[i] = t
        /\ req[s].pc \in ToGateway => LineOf(i, t.key) \in auth'[t.user]
        /\ req[s].pc \in ToChains => gateway'
        /\ req[s].pc \in ToKey /\ faults' = 0 => i \in chains'
    <3>1. rec'[i] = rec[i] /\ (gateway => gateway')
      BY <2>3
    <3>2. (i \in chains => i \in chains') /\ (faults' = 0 => faults = 0)
      BY <2>3
    <3>3. req[s].pc \in ToChains => gateway
      BY DEF Progress
    <3>4. req[s].pc \in ToApply => rec[i] = t
      BY DEF Progress
    <3>5. req[s].pc \in ToGateway => LineOf(i, t.key) \in auth[t.user]
      BY DEF Progress
    <3>6. req[s].pc \in ToKey /\ faults = 0 => i \in chains
      BY DEF Progress
    <3> QED BY <2>4, <3>1, <3>2, <3>3, <3>4, <3>5, <3>6
  <2>7. /\ req[s].pc \in ToUnit => abroad'[t.host][i].key = t.key
        /\ req[s].pc \in ToReload => abroad'[t.host][i].unit = UnitOf(t)
    BY <2>3, <2>5 DEF Progress, Same
  <2>8. req[s].pc \in ToStart => abroad'[t.host][i].loaded = UnitOf(t)
    BY <2>3, <2>5 DEF Progress, Same, ToStart, ToReload
  <2> QED BY <1>1, <2>5, <2>6, <2>7, <2>8 DEF Progress
<1> QED BY <1>2, <1>3

\* An own entry abroad that is replaced has the new value.
LEMMA OwnEntry ==
    ASSUME abroad \in [Hosts -> [Ids -> Entry]], NEW h \in Hosts, NEW i \in Ids, NEW e,
           abroad' = [abroad EXCEPT ![h][i] = e]
    PROVE  abroad'[h][i] = e
OBVIOUS

\* Each command of Apply leaves what the next one counts on.
LEMMA OwnProgress ==
    ASSUME OrderInv, KeyInv, NEW r \in Reqs, Progress(r), Runs(r) \/ Writes(r)
    PROVE  Progress(r)'
<1> DEFINE i == req[r].id  t == req[r].t  a == abroad[t.host][i]
<1>1. Types /\ BusyInv /\ abroad \in [Hosts -> [Ids -> Entry]] /\ faults \in Nat
  BY DEF OrderInv, TypeInv
<1>2. Busy(r) /\ (Fault \/ UNCHANGED faults)
  <2>1. CASE Runs(r)
    BY <2>1, RunsFlow
  <2>2. CASE Writes(r)
    BY <2>2 DEF Writes, Save, Append, ReadLines, Truncate, WriteLines, Forget, Command, Busy
  <2> QED BY <2>1, <2>2
<1>3. /\ i \in Ids /\ t \in Tunnel /\ t.host \in Hosts /\ t.user \in Users /\ rec[i] # Nil
      /\ a \in Entry /\ Here(r) = a
  BY <1>1, <1>2 DEF BusyInv, Tunnel, OrderInv, RequestInv, Here
<1>4. faults' = 0 => faults = 0
  BY <1>1, <1>2 DEF Fault
<1> DEFINE b == abroad'[t.host][i]
<1>5. ASSUME NEW p \in ReqPcs, Goto(r, p)
      PROVE  req'[r].id = i /\ req'[r].t = t /\ req'[r].pc = p /\ Here(r)' = b
  BY <1>1, <1>5, GotoFacts DEF Here
<1> USE DEF ToApply, ToGateway, ToChains, ToKey, ToUnit, ToReload, ToStart
<1>6. CASE Answer(r)
  BY <1>1, <1>6, AnswerFacts DEF Progress, Idle
<1>7. ASSUME NEW p \in {"restart", "rmAbroad", "rmChains", "rmRead", "rmTruncate", "rmWrite",
                        "forget", "forgetOnly"}, Goto(r, p)
      PROVE  Progress(r)'
  BY <1>5, <1>7 DEF Progress, ReqPcs, RemovePcs
<1>8. CASE Save(r)
  <2>1. Goto(r, "authorize") /\ rec'[i] = t
    BY <1>1, <1>3, <1>8 DEF Save, Types
  <2> HIDE DEF i, t, a, b
  <2> QED BY <1>5, <2>1 DEF Progress, ReqPcs
<1>9. CASE Authorize(r)
  <2>1. UNCHANGED <<rec, auth>> /\ req[r].pc = "authorize"
    BY <1>9 DEF Authorize, Command, hereVars
  <2>2. \/ Answer(r) \/ Goto(r, "append")
        \/ Goto(r, "gateway") /\ Installed(i, t) /\ t.key # Nil
    BY <1>9 DEF Authorize
  <2>3. ASSUME Installed(i, t), t.key # Nil PROVE LineOf(i, t.key) \in auth[t.user]
    <3>1. PICK l \in auth[t.user] : l.key = t.key
      BY <2>3 DEF Installed
    <3>2. l \in Line /\ t.key \in Keys
      BY <1>1, <1>3, <2>3, <3>1 DEF Types, Tunnel
    <3>3. l.id \in Ids /\ l = LineOf(l.id, t.key)
      BY <3>1, <3>2 DEF Line, LineOf
    <3>4. HasKey(l.id, t.key) /\ HasKey(i, t.key)
      BY <1>2, <1>3, <3>1, <3>3 DEF HasKey
    <3>5. l.id = i
      BY <1>3, <3>2, <3>3, <3>4 DEF KeyInv
    <3> QED BY <3>1, <3>3, <3>5
  <2>4. rec[i] = t
    BY <2>1 DEF Progress
  <2> HIDE DEF i, t, a, b
  <2> QED BY <1>5, <1>6, <2>1, <2>2, <2>3, <2>4 DEF Progress, ReqPcs
<1>10. CASE Append(r)
  <2>1. Goto(r, "gateway") /\ rec' = rec /\ req[r].pc = "append"
    BY <1>10 DEF Append, Command
  <2>2. LineOf(i, t.key) \in auth'[t.user]
    BY <1>1, <1>3, <1>10 DEF Append, Types, LineOf
  <2>3. rec[i] = t
    BY <2>1 DEF Progress
  <2> HIDE DEF i, t, a, b
  <2> QED BY <1>5, <2>1, <2>2, <2>3 DEF Progress, ReqPcs
<1>11. CASE GatewayPorts(r) \/ EnsureChains(r)
  <2>1. /\ UNCHANGED <<rec, auth>> /\ (gateway => gateway')
        /\ \/ req[r].pc = "gateway" /\ Goto(r, "chains") /\ gateway'
           \/ req[r].pc = "chains" /\ Goto(r, "key") /\ (faults' = 0 => i \in chains')
    BY <1>1, <1>11 DEF GatewayPorts, EnsureChains, Command, Fault
  <2>2. rec[i] = t /\ LineOf(i, t.key) \in auth[t.user] /\ (req[r].pc = "chains" => gateway)
    BY <2>1 DEF Progress
  <2> HIDE DEF i, t, a, b
  <2> QED BY <1>5, <2>1, <2>2 DEF Progress, ReqPcs
<1>12. CASE WriteKey(r) \/ WriteUnit(r) \/ Reload(r)
  <2>1. UNCHANGED <<rec, auth, gateway, chains, faults>>
    BY <1>12 DEF WriteKey, WriteUnit, Reload, Remote, Command, hereVars
  <2>2. /\ req[r].pc \in {"key", "unit", "reload"}
        /\ req[r].pc = "key" => Goto(r, "unit") /\ b.key = t.key
        /\ req[r].pc = "unit" =>
              Goto(r, "reload") /\ b.key = a.key /\ b.unit = UnitOf(t)
        /\ req[r].pc = "reload" =>
              /\ b.key = a.key /\ b.unit = a.unit /\ b.loaded = a.unit
              /\ \/ Goto(r, "start") /\ t.enabled
                 \/ Goto(r, "stop") /\ ~t.enabled
    <3>1. CASE WriteKey(r)
      <4>1. req[r].pc = "key" /\ Goto(r, "unit") /\ b = [a EXCEPT !.key = t.key]
        BY <1>1, <1>3, <3>1, OwnEntry DEF WriteKey, Remote, Command
      <4> QED BY <1>3, <4>1 DEF Entry
    <3>2. CASE WriteUnit(r)
      <4>1. req[r].pc = "unit" /\ Goto(r, "reload") /\ b = [a EXCEPT !.unit = UnitOf(t)]
        BY <1>1, <1>3, <3>2, OwnEntry DEF WriteUnit, Remote, Command
      <4> QED BY <1>3, <4>1 DEF Entry
    <3>3. CASE Reload(r)
      <4>1. /\ req[r].pc = "reload"
            /\ \/ Goto(r, "start") /\ t.enabled
               \/ Goto(r, "stop") /\ ~t.enabled
        BY <3>3 DEF Reload, Command
      <4>2. b = Reloaded(t.host)[i]
        BY <1>1, <1>3, <3>3 DEF Reload
      <4> QED BY <1>1, <1>3, <4>1, <4>2, ReloadedFacts DEF Same
    <3> QED BY <1>12, <3>1, <3>2, <3>3
  <2>3. /\ rec[i] = t /\ LineOf(i, t.key) \in auth[t.user] /\ gateway
        /\ faults = 0 => i \in chains
    BY <2>2 DEF Progress
  <2>4. /\ req[r].pc \in {"unit", "reload"} => a.key = t.key
        /\ req[r].pc = "reload" => a.unit = UnitOf(t)
    BY <1>3 DEF Progress
  <2> HIDE DEF i, t, a, b
  <2> QED BY <1>5, <2>1, <2>2, <2>3, <2>4 DEF Progress, ReqPcs
<1>13. \/ Answer(r) \/ Save(r) \/ Authorize(r) \/ Append(r) \/ GatewayPorts(r)
       \/ EnsureChains(r) \/ WriteKey(r) \/ WriteUnit(r) \/ Reload(r) \/ ReadLines(r)
       \/ \E p \in {"rmChains", "rmRead", "rmWrite", "forget", "forgetOnly"} : Goto(r, p)
  BY DEF Runs, Writes, Start, StartBreaksOff, Stop, RestartAbroad, CommandFails, RemoveAbroad,
     RemoveChains, Truncate, WriteLines, Forget, Remote
<1>14. CASE ReadLines(r)
  <2>1. req'[r].pc = "rmTruncate"
    BY <1>1, <1>14 DEF ReadLines, Types, RequestType
  <2> QED BY <2>1 DEF Progress
<1> QED BY <1>6, <1>7, <1>8, <1>9, <1>10, <1>11, <1>12, <1>13, <1>14

\* An Apply that is answered with success has left the whole setup behind.
LEMMA Finished ==
    ASSUME OrderInv, NEW r \in Reqs, Progress(r), NEW i \in Ids, i = req[r].id,
           Start(r) \/ Stop(r)
    PROVE  SetUp(i)' /\ LineKept(i)'
<1> DEFINE t == req[r].t  a == abroad[t.host][i]  b == abroad'[t.host][i]
<1>1. Types /\ BusyInv /\ abroad \in [Hosts -> [Ids -> Entry]] /\ faults \in Nat
  BY DEF OrderInv, TypeInv
<1>2. /\ req[r].pc \in {"start", "stop"} /\ Answer(r) /\ Busy(r)
      /\ UNCHANGED <<rec, auth, gateway, chains, torn>>
      /\ req[r].pc = "start" => Start(r)
      /\ req[r].pc = "stop" => Stop(r)
  BY DEF Start, Stop, Remote, Command, hereVars, Busy
<1>3. /\ t \in Tunnel /\ t.host \in Hosts /\ a \in Entry /\ Here(r) = a
      /\ UnitOf(t) # Nil
  BY <1>1, <1>2, UnitType DEF BusyInv, Tunnel, Here
<1>4. /\ rec[i] = t /\ LineOf(i, t.key) \in auth[t.user] /\ gateway
      /\ faults = 0 => i \in chains
      /\ a.key = t.key /\ a.unit = UnitOf(t) /\ a.loaded = UnitOf(t)
      /\ req[r].pc = "start" => t.enabled
      /\ req[r].pc = "stop" => ~t.enabled
  <2>1. req[r].pc \in ToStart
    BY <1>2 DEF ToStart
  <2>2. /\ req[r].pc \in ToApply /\ req[r].pc \in ToGateway /\ req[r].pc \in ToChains
        /\ req[r].pc \in ToKey /\ req[r].pc \in ToUnit /\ req[r].pc \in ToReload
    BY <2>1 DEF ToApply, ToGateway, ToChains, ToKey, ToUnit, ToReload
  <2> QED BY <1>2, <1>3, <2>1, <2>2 DEF Progress
<1>5. /\ b.key = t.key /\ b.unit = UnitOf(t) /\ b.loaded = UnitOf(t)
      /\ t.enabled => b.boot /\ b.run = UnitOf(t)
      /\ ~t.enabled /\ faults' = 0 => b.run = Nil
      /\ faults' = 0 => faults = 0
  <2>1. CASE req[r].pc = "start"
    <3>1. b = [a EXCEPT !.boot = TRUE, !.run = a.loaded] /\ faults' = faults
      <4>1. Here(r).unit # Nil
        BY <1>3, <1>4
      <4>2. /\ faults' = faults
            /\ abroad' = [abroad EXCEPT ![t.host][i] =
                             [Here(r) EXCEPT !.boot = TRUE, !.run = Here(r).loaded]]
        BY <1>2, <2>1, <4>1 DEF Start, Remote
      <4>3. abroad'[t.host][i] = [Here(r) EXCEPT !.boot = TRUE, !.run = Here(r).loaded]
        BY <1>1, <1>3, <4>2, OwnEntry
      <4> QED BY <1>3, <4>2, <4>3
    <3> QED BY <1>3, <1>4, <2>1, <3>1 DEF Entry
  <2>2. CASE req[r].pc = "stop"
    <3>1. \/ b = [a EXCEPT !.boot = FALSE, !.run = Nil] /\ faults' = faults
          \/ b = a /\ faults' # 0
      BY <1>1, <1>2, <1>3, <2>2, OwnEntry DEF Stop, Remote, Fault
    <3> QED BY <1>3, <1>4, <2>2, <3>1 DEF Entry
  <2> QED BY <1>2, <2>1, <2>2
<1>6. req'[r] = Idle /\ \A s \in Reqs : s # r => req'[s] = req[s]
  BY <1>1, <1>2, AnswerFacts
<1>7. \A s \in Reqs : s # r => req[s].pc \notin RemovePcs /\ (Busy(s) => req[s].id # i)
  BY <1>2, DeleteAlone
<1>8. rec'[i] = t /\ t # Nil /\ LineOf(i, t.key) \in auth'[t.user] /\ gateway'
      /\ (faults' = 0 => i \in chains')
  BY <1>2, <1>3, <1>4, <1>5, NilAssumption
<1> HIDE DEF t, b
<1>9. SetUp(i)'
  <2>1. \A s \in Reqs : req'[s].pc # "idle" => req'[s].id # i
    BY <1>6, <1>7 DEF Busy, Idle
  <2> QED BY <1>5, <1>8, <2>1 DEF SetUp, Busy, b
<1>10. LineKept(i)'
  <2>1. \A s \in Reqs : req'[s].pc \notin {"rmTruncate", "rmWrite"}
    BY <1>6, <1>7 DEF Idle, RemovePcs
  <2> QED BY <1>8, <2>1 DEF LineKept
<1> QED BY <1>9, <1>10

\* The setup of a tunnel stays while requests work on others.
LEMMA OthersSetUp ==
    ASSUME OrderInv, NEW r \in Reqs, LeavesOthers(r), NEW i \in Ids \ {req[r].id}, SetUp(i),
           req'[r].pc = "idle" \/ req'[r].id = req[r].id
    PROVE  SetUp(i)'
<1> DEFINE t == rec[i]
<1>1. t \in Tunnel /\ t.host \in Hosts
  BY DEF SetUp, OrderInv, TypeInv, Types, Tunnel
<1>2. /\ rec'[i] = t /\ (i \in chains => i \in chains') /\ (gateway => gateway')
      /\ (faults' = 0 => faults = 0) /\ Same(abroad[t.host][i], abroad'[t.host][i])
      /\ \A s \in Reqs : s # r => req'[s] = req[s]
  BY <1>1 DEF LeavesOthers
<1>3. \A s \in Reqs : req'[s].pc # "idle" => req'[s].id # i
  BY <1>2 DEF SetUp, Busy
<1> QED BY <1>2, <1>3 DEF SetUp, Same, Busy

\* A delete writes back the lines of the tunnels that stay.
LEMMA LinesStay ==
    ASSUME OrderInv, NEW r \in Reqs, LeavesOthers(r), Runs(r) \/ Writes(r),
           NEW i \in Ids \ {req[r].id}, rec[i] # Nil, LineKept(i)
    PROVE  LineKept(i)'
<1> DEFINE t == rec[i]  line == LineOf(i, t.key)
<1>1. Types /\ BusyInv /\ torn \in BOOLEAN
  BY DEF OrderInv, TypeInv
<1>2. t \in Tunnel /\ t.user \in Users /\ rec'[i] = t
  BY <1>1 DEF Types, Tunnel, LeavesOthers
<1>3. Busy(r)
  <2>1. CASE Runs(r)
    BY <2>1, RunsFlow
  <2>2. CASE Writes(r)
    BY <2>2 DEF Writes, Save, Append, ReadLines, Truncate, WriteLines, Forget, Command, Busy
  <2> QED BY <2>1, <2>2
<1>4. req[r].t.user \in Users /\ req[r] \in RequestType
  BY <1>1, <1>3 DEF BusyInv, Tunnel, Types
<1>5. \A s \in Reqs : s # r => req'[s] = req[s] /\ req[s].pc \notin RemovePcs
  BY <1>3, DeleteAlone DEF LeavesOthers
<1>6. ~torn => /\ \/ line \in auth[t.user]
                  \/ req[r].pc = "rmWrite" /\ req[r].t.user = t.user
               /\ req[r].pc \in {"rmTruncate", "rmWrite"} /\ req[r].t.user = t.user =>
                     line \in req[r].lines
  <2>1. \A s \in Reqs : req[s].pc = "rmWrite" => s = r
    BY <1>5 DEF RemovePcs
  <2>2. ~torn => \/ line \in auth[t.user]
                 \/ \E s \in Reqs : req[s].pc = "rmWrite" /\ req[s].t.user = t.user
    BY DEF LineKept
  <2>3. ~torn => (req[r].pc \in {"rmTruncate", "rmWrite"} /\ req[r].t.user = t.user =>
                    line \in req[r].lines)
    BY DEF LineKept
  <2> QED BY <2>1, <2>2, <2>3
<1>7. SUFFICES ASSUME ~torn'
               PROVE  /\ \/ line \in auth'[t.user]
                         \/ req'[r].pc = "rmWrite" /\ req'[r].t.user = t.user
                      /\ req'[r].pc \in {"rmTruncate", "rmWrite"} /\ req'[r].t.user = t.user
                            => line \in req'[r].lines
  BY <1>2, <1>5 DEF LineKept, RemovePcs
<1>8. ASSUME NEW p \in ReqPcs, Goto(r, p)
      PROVE  req'[r].pc = p /\ req'[r].t = req[r].t /\ req'[r].lines = req[r].lines
  BY <1>1, <1>8, GotoFacts
<1> HIDE DEF t, line
<1>9. CASE Runs(r)
  <2>1. /\ UNCHANGED <<auth, torn>> /\ req[r].pc # "rmWrite"
        /\ Answer(r) \/ \E p \in ReqPcs \ {"rmTruncate", "rmWrite"} : Goto(r, p)
    <3>1. req[r].pc # "rmWrite"
      BY <1>9 DEF Runs, Authorize, GatewayPorts, EnsureChains, WriteKey, WriteUnit, Reload,
         Start, StartBreaksOff, Stop, RestartAbroad, CommandFails, RemoveAbroad, RemoveChains,
         Remote, Command
    <3> QED BY <1>9, <3>1, RunsFlow DEF ReqPcs, RemovePcs
  <2>2. line \in auth'[t.user]
    BY <1>6, <1>7, <2>1
  <2>3. req'[r].pc \notin {"rmTruncate", "rmWrite"}
    BY <1>1, <1>8, <2>1, AnswerFacts DEF Idle
  <2> QED BY <2>2, <2>3
<1>10. CASE Save(r) \/ Append(r) \/ Forget(r)
  <2>1. /\ torn' = torn /\ \A u \in Users : auth[u] \subseteq auth'[u]
        /\ req[r].pc # "rmWrite"
        /\ Answer(r) \/ \E p \in ReqPcs \ {"rmTruncate", "rmWrite"} : Goto(r, p)
    BY <1>1, <1>10 DEF Save, Append, Forget, Command, hereVars, auxVars, ReqPcs, RemovePcs,
       Types
  <2>2. line \in auth'[t.user]
    BY <1>2, <1>6, <1>7, <2>1
  <2>3. req'[r].pc \notin {"rmTruncate", "rmWrite"}
    BY <1>1, <1>8, <2>1, AnswerFacts DEF Idle
  <2> QED BY <2>2, <2>3
<1>11. CASE ReadLines(r)
  <2> DEFINE kept == Kept(auth[req[r].t.user], req[r].id, req[r].t)
  <2>1. /\ UNCHANGED <<auth, torn>> /\ req[r].pc = "rmRead"
        /\ req' = [req EXCEPT ![r] = [req[r] EXCEPT !.pc = "rmTruncate", !.lines = kept]]
    BY <1>11 DEF ReadLines, Command, hereVars
  <2>2. line \in auth'[t.user]
    BY <1>6, <1>7, <2>1
  <2>3. line.id = i
    BY DEF line, LineOf
  <2>4. req[r].t.user = t.user => line \in kept
    BY <2>1, <2>2, <2>3 DEF Kept
  <2> HIDE DEF kept
  <2>5. req'[r].t = req[r].t /\ req'[r].lines = kept
    BY <1>1, <1>4, <2>1 DEF Types, RequestType
  <2> QED BY <2>2, <2>4, <2>5
<1>12. CASE Truncate(r)
  <2>1. /\ torn' = torn /\ req[r].pc = "rmTruncate"
        /\ \/ Goto(r, "rmWrite") /\ auth' = [auth EXCEPT ![req[r].t.user] = {}]
           \/ Goto(r, "forgetOnly") /\ auth' = auth
    BY <1>12 DEF Truncate, Command
  <2>2. /\ line \in auth[t.user] /\ (req[r].t.user = t.user => line \in req[r].lines)
    BY <1>6, <1>7, <2>1
  <2>3. CASE Goto(r, "rmWrite") /\ auth' = [auth EXCEPT ![req[r].t.user] = {}]
    BY <1>1, <1>2, <1>8, <2>2, <2>3 DEF ReqPcs, RemovePcs, Types
  <2>4. CASE Goto(r, "forgetOnly") /\ auth' = auth
    BY <1>8, <2>2, <2>4 DEF ReqPcs, RemovePcs
  <2> QED BY <2>1, <2>3, <2>4
<1>13. CASE WriteLines(r)
  <2>1. /\ torn' = torn /\ req[r].pc = "rmWrite" /\ Goto(r, "forget")
        /\ auth' = [auth EXCEPT ![req[r].t.user] = req[r].lines]
    BY <1>7, <1>13 DEF WriteLines
  <2>2. line \in auth'[t.user]
    BY <1>1, <1>2, <1>6, <1>7, <2>1 DEF Types
  <2>3. req'[r].pc = "forget"
    BY <1>8, <2>1 DEF ReqPcs, RemovePcs
  <2> QED BY <2>2, <2>3
<1> QED BY <1>9, <1>10, <1>11, <1>12, <1>13 DEF Writes

\* The commands of a request keep the setups.
LEMMA CommandSetup ==
    ASSUME SetupInv, OrderInv', KeyInv', NEW r \in Reqs, Runs(r) \/ Writes(r)
    PROVE  SetupInv'
<1> USE DEF SetupInv
<1>1. TypeInv /\ Types /\ BusyInv /\ LeavesOthers(r) /\ settled' \subseteq Ids
  BY OthersLeft DEF OrderInv, TypeInv, OtherTypes
<1>2. Busy(r)
  <2>1. CASE Runs(r)
    BY <2>1, RunsFlow
  <2>2. CASE Writes(r)
    BY <2>2 DEF Writes, Save, Append, ReadLines, Truncate, WriteLines, Forget, Command, Busy
  <2> QED BY <2>1, <2>2
<1>3. req[r].pc \in RemovePcs \/ \A u \in Users : auth[u] \subseteq auth'[u]
  <2>1. CASE Runs(r)
    BY <2>1, RunsFlow
  <2>2. CASE Writes(r)
    BY <1>1, <2>2 DEF Writes, Save, Append, ReadLines, Truncate, WriteLines, Forget, Command,
       hereVars, RemovePcs, Types
  <2> QED BY <2>1, <2>2
<1>4. ProgressInv'
  <2>1. ASSUME NEW s \in Reqs, s # r PROVE Progress(s)'
    BY <1>1, <1>2, <1>3, <2>1, OthersProgress DEF ProgressInv
  <2>2. Progress(r)'
    BY OwnProgress DEF ProgressInv
  <2> QED BY <2>1, <2>2 DEF ProgressInv
<1>5. req'[r].pc = "idle" \/ req'[r].id = req[r].id
  <2>1. CASE ReadLines(r)
    BY <1>1, <2>1 DEF ReadLines, Types, RequestType
  <2>2. CASE ~ReadLines(r)
    <3>1. Answer(r) \/ \E p \in ReqPcs : Goto(r, p)
      <4>1. CASE Runs(r)
        BY <4>1, RunsFlow DEF ReqPcs, RemovePcs
      <4>2. CASE Writes(r)
        BY <2>2, <4>2 DEF Writes, Save, Append, Truncate, WriteLines, Forget, ReqPcs,
           RemovePcs
      <4> QED BY <4>1, <4>2
    <3> QED BY <1>1, <3>1, AnswerFacts, GotoFacts DEF Idle
  <2> QED BY <2>1, <2>2
<1>6. ASSUME NEW i \in settled' PROVE SetUp(i)' /\ LineKept(i)'
  <2>1. CASE i # req[r].id
    <3>1. i \in Ids \ {req[r].id} /\ SetUp(i) /\ LineKept(i) /\ rec[i] # Nil
      BY <1>1, <1>6, <2>1 DEF LeavesOthers, SettledInv, SetUp
    <3> QED BY <1>1, <1>5, <3>1, OthersSetUp, LinesStay
  <2>2. CASE i = req[r].id
    <3>1. i \notin settled
      BY <1>2, <2>2 DEF SettledInv, SetUp
    <3>2. Start(r) \/ Stop(r)
      BY <1>6, <3>1 DEF Runs, Writes, Authorize, GatewayPorts, EnsureChains, WriteKey,
         WriteUnit, Reload, Start, StartBreaksOff, Stop, RestartAbroad, CommandFails,
         RemoveAbroad, RemoveChains, Save, Append, ReadLines, Truncate, WriteLines, Forget,
         Remote, Command, hereVars, auxVars
    <3> QED BY <1>1, <1>6, <2>2, <3>2, Finished DEF ProgressInv
  <2> QED BY <2>1, <2>2
<1> QED BY <1>4, <1>6 DEF SettledInv

\* A request that arrives takes its tunnel out of the settled ones.
LEMMA RequestSetup ==
    ASSUME Avoided = {"tunnel", "delete"}, SetupInv, OrderInv', KeyInv',
           NEW r \in Reqs, NEW i \in Ids, Request(r, i)
    PROVE  SetupInv'
<1> USE DEF SetupInv
<1>1. Types /\ settled \subseteq Ids
  BY DEF OrderInv, TypeInv, OtherTypes
<1>2. ASSUME NEW op, NEW t, NEW p \in {"authorize", "save", "restart", "rmAbroad"},
             Arrive(r, op, i, t, p),
             \/ rec' = rec /\ p # "authorize"
             \/ rec' = [rec EXCEPT ![i] = t]
      PROVE  SetupInv'
  <2> DEFINE new == [pc |-> p, op |-> op, id |-> i, t |-> t, lines |-> {}]
  <2>1. /\ req' = [req EXCEPT ![r] = new] /\ settled' = settled \ {i} /\ ~Busy(r)
        /\ UNCHANGED <<auth, gateway, chains, abroad, torn, faults>>
    BY <1>2 DEF Arrive, hereVars
  <2>2. \A s \in Reqs : Busy(s) => req[s].id # i /\ s # r
    BY <1>2 DEF Arrive
  <2>3. req'[r] = new /\ \A s \in Reqs : s # r => req'[s] = req[s]
    BY <1>1, <2>1 DEF Types
  <2>4. new.id = i /\ new.t = t /\ new.pc = p
    OBVIOUS
  <2> HIDE DEF new
  <2>5. /\ \A j \in Ids : j # i => rec'[j] = rec[j]
        /\ p = "authorize" => rec'[i] = t
    BY <1>1, <1>2 DEF Types
  <2>6. ProgressInv'
    <3>1. ASSUME NEW s \in Reqs, s # r PROVE Progress(s)'
      <4>1. req'[s] = req[s] /\ Progress(s) /\ Here(s)' = Here(s)
        BY <2>1, <2>3, <3>1 DEF ProgressInv, Here
      <4>2. CASE ~Busy(s)
        BY <4>1, <4>2 DEF Progress, Busy, ToApply, ToGateway, ToChains, ToKey, ToUnit,
           ToReload, ToStart
      <4>3. CASE Busy(s)
        <5>1. req[s].id \in Ids /\ req[s].id # i
          BY <2>2, <4>3 DEF OrderInv, TypeInv, BusyInv
        <5>2. rec'[req[s].id] = rec[req[s].id]
          BY <2>5, <5>1
        <5> QED BY <2>1, <4>1, <5>2 DEF Progress
      <4> QED BY <4>2, <4>3
    <3>2. Progress(r)'
      BY <2>3, <2>4, <2>5 DEF Progress, ToApply, ToGateway, ToChains, ToKey, ToUnit, ToReload,
         ToStart
    <3> QED BY <3>1, <3>2 DEF ProgressInv
  <2>7. ASSUME NEW j \in settled' PROVE SetUp(j)' /\ LineKept(j)'
    <3>1. j \in settled /\ j # i /\ rec'[j] = rec[j] /\ SetUp(j) /\ LineKept(j)
      BY <1>1, <2>1, <2>5, <2>7 DEF SettledInv
    <3>2. SetUp(j)'
      BY <2>1, <2>3, <2>4, <3>1 DEF SetUp, Busy
    <3>3. LineKept(j)'
      <4>1. req'[r].pc \notin {"rmTruncate", "rmWrite"}
        BY <2>3, <2>4
      <4>2. ~torn => \E s \in Reqs \cup {r} : \/ LineOf(j, rec[j].key) \in auth[rec[j].user]
                                              \/ /\ req[s].pc = "rmWrite" /\ s # r
                                                 /\ req[s].t.user = rec[j].user
        BY <2>1, <3>1 DEF LineKept, Busy
      <4> QED BY <2>1, <2>3, <3>1, <4>1, <4>2 DEF LineKept
    <3> QED BY <3>2, <3>3
  <2> QED BY <2>6, <2>7 DEF SettledInv
<1>3. CASE Create(r, i)
  BY <1>2, <1>3 DEF Create
<1>4. CASE Update(r, i) \/ StartStop(r, i) \/ Restart(r, i) \/ Delete(r, i)
  <2>1. /\ rec' = rec
        /\ \E op, t : \E p \in {"save", "restart", "rmAbroad"} : Arrive(r, op, i, t, p)
    BY <1>4 DEF Update, StartStop, Restart, Delete
  <2> QED BY <1>2, <2>1
<1>5. CASE NotFound(r, i)
  <2>1. UNCHANGED vars
    BY <1>5 DEF NotFound
  <2> QED BY <2>1 DEF vars, hereVars, usedVars, auxVars, ProgressInv, Progress, Here, SettledInv,
      SetUp, LineKept, Busy
<1> QED BY <1>3, <1>4, <1>5 DEF Request

\* A restart of the panel drops the requests, and a host abroad starts the enabled connectors
\* with the units that it has.
LEMMA RestartSetup ==
    ASSUME SetupInv, OrderInv', KeyInv', Crash \/ \E h \in Hosts : RebootAbroad(h)
    PROVE  SetupInv'
<1> USE DEF SetupInv
<1>1. Types /\ BusyInv /\ faults \in Nat /\ abroad \in [Hosts -> [Ids -> Entry]]
      /\ settled \subseteq Ids
  BY DEF OrderInv, TypeInv, OtherTypes
<1>2. CASE Crash
  <2>1. /\ UNCHANGED <<rec, auth, gateway, chains, abroad, settled>> /\ faults' # 0
        /\ torn' = (torn \/ \E r \in Reqs : req[r].pc = "rmWrite")
        /\ \A r \in Reqs : req'[r] = Idle
    BY <1>1, <1>2 DEF Crash, Fault, hereVars
  <2>2. ProgressInv'
    BY <2>1 DEF ProgressInv, Progress, Idle, ToApply, ToGateway, ToChains, ToKey, ToUnit,
       ToReload, ToStart
  <2>3. ASSUME NEW i \in settled' PROVE SetUp(i)' /\ LineKept(i)'
    <3>1. SetUp(i) /\ LineKept(i)
      BY <2>1, <2>3 DEF SettledInv
    <3>2. ~torn' => ~torn /\ \A r \in Reqs : req[r].pc # "rmWrite"
      BY <2>1, Zenon
    <3>3. SetUp(i)'
      BY <2>1, <3>1 DEF SetUp, Busy, Idle
    <3>4. LineKept(i)'
      BY <2>1, <3>1, <3>2 DEF LineKept, Idle
    <3> QED BY <3>3, <3>4
  <2> QED BY <2>2, <2>3 DEF SettledInv
<1>3. ASSUME NEW h \in Hosts, RebootAbroad(h) PROVE SetupInv'
  <2>1. UNCHANGED <<rec, req, auth, gateway, chains, settled, torn>> /\ faults' # 0
    BY <1>1, <1>3 DEF RebootAbroad, Fault, hereVars, auxVars
  <2>2. ASSUME NEW g \in Hosts, NEW i \in Ids
        PROVE  LET a == abroad[g][i]  b == abroad'[g][i] IN
               /\ b.key = a.key /\ b.unit = a.unit /\ b.loaded \in {a.loaded, a.unit}
               /\ b.boot = a.boot /\ (a.boot => b.run \in {a.run, a.unit})
    <3> DEFINE a == abroad[g][i]  b == abroad'[g][i]
    <3>1. Same(a, Reloaded(g)[i]) /\ Same(a, a) /\ Reloaded(g)[i] \in Entry
      BY <1>1, ReloadedFacts, EntryTypes
    <3>2. CASE g = h
      <4>1. b = [Reloaded(h)[i] EXCEPT !.run = IF a.boot THEN a.unit ELSE Nil]
        BY <1>1, <1>3, <3>2 DEF RebootAbroad
      <4> DEFINE e == Reloaded(h)[i]
      <4>2. e \in Entry /\ Same(a, e)
        BY <3>1, <3>2
      <4> HIDE DEF a, b, e
      <4>3. /\ b.key = e.key /\ b.unit = e.unit /\ b.loaded = e.loaded /\ b.boot = e.boot
            /\ a.boot => b.run = a.unit
        BY <4>1, <4>2 DEF Entry, e
      <4> QED BY <4>2, <4>3 DEF Same, a, b
    <3>3. CASE g # h
      <4>1. b = a
        BY <1>1, <1>3, <3>3 DEF RebootAbroad
      <4> QED BY <3>1, <4>1 DEF Same
    <3> QED BY <3>2, <3>3
  <2>3. ASSUME NEW s \in Reqs PROVE Progress(s)'
    <3>1. Progress(s)
      BY DEF ProgressInv
    <3>2. CASE ~Busy(s)
      BY <2>1, <3>1, <3>2 DEF Progress, Busy, ToApply, ToGateway, ToChains, ToKey, ToUnit,
         ToReload, ToStart
    <3>3. CASE Busy(s)
      <4>1. req[s].id \in Ids /\ req[s].t.host \in Hosts
        BY <1>1, <3>3 DEF BusyInv, Tunnel
      <4>2. /\ Here(s)'.key = Here(s).key /\ Here(s)'.unit = Here(s).unit
            /\ Here(s)'.loaded \in {Here(s).loaded, Here(s).unit}
        BY <2>1, <2>2, <4>1 DEF Here
      <4> QED BY <2>1, <3>1, <4>2 DEF Progress, ToApply, ToGateway, ToChains, ToKey, ToUnit,
          ToReload, ToStart
    <3> QED BY <3>2, <3>3
  <2>4. ASSUME NEW i \in settled' PROVE SetUp(i)' /\ LineKept(i)'
    <3>1. SetUp(i) /\ LineKept(i) /\ i \in Ids
      BY <1>1, <2>1, <2>4 DEF SettledInv
    <3>2. rec[i].host \in Hosts
      BY <1>1, <3>1 DEF Types, Tunnel, SetUp
    <3>3. SetUp(i)'
      BY <2>1, <2>2, <3>1, <3>2 DEF SetUp, Busy
    <3> QED BY <2>1, <3>1, <3>3 DEF LineKept
  <2> QED BY <2>3, <2>4 DEF ProgressInv, SettledInv
<1> QED BY <1>2, <1>3

\* An Apply that is answered with success leaves the whole of the setup behind, whatever state
\* earlier failures, crashes and older versions of the tunnel left, and it stays until the next
\* request on the tunnel: when requests wait for those on their tunnel and for deletes.
THEOREM AppliedStaysComplete ==
    ASSUME Avoided = {"tunnel", "delete"}
    PROVE  Spec => []AppliedIsComplete
<1>1. Init => SetupInv
  <2> SUFFICES ASSUME Init PROVE SetupInv
    OBVIOUS
  <2>1. OrderInv /\ KeyInv
    BY InitOrder DEF Init, KeyInv, HasKey, Busy, Idle
  <2>2. ProgressInv /\ SettledInv
    BY DEF Init, ProgressInv, SettledInv, Progress, Idle, ToApply, ToGateway, ToChains, ToKey,
       ToUnit, ToReload, ToStart
  <2> QED BY <2>1, <2>2 DEF SetupInv
<1>2. SetupInv /\ [Next]_vars => SetupInv'
  <2> SUFFICES ASSUME SetupInv, [Next]_vars PROVE SetupInv'
    OBVIOUS
  <2>1. OrderInv' /\ KeyInv'
    BY OrderStep, KeyStep DEF SetupInv, OrderInv
  <2>2. ASSUME NEW r \in Reqs, NEW i \in Ids, Request(r, i) PROVE SetupInv'
    BY <2>1, <2>2, RequestSetup
  <2>3. ASSUME NEW r \in Reqs, Runs(r) \/ Writes(r) PROVE SetupInv'
    BY <2>1, <2>3, CommandSetup
  <2>4. CASE Crash \/ \E h \in Hosts : RebootAbroad(h)
    BY <2>1, <2>4, RestartSetup
  <2>5. CASE UNCHANGED vars
    BY <2>1, <2>5 DEF vars, hereVars, usedVars, auxVars, SetupInv, ProgressInv, Progress, Here,
       SettledInv, SetUp, LineKept, Busy
  <2> QED BY <2>2, <2>3, <2>4, <2>5 DEF Next, Apply, Remove, Runs, Writes
<1>3. SetupInv => AppliedIsComplete
  BY DEF SetupInv, SettledInv, SetUp, LineKept, Rewriting, LineOf, AppliedIsComplete
<1> QED BY <1>1, <1>2, <1>3, PTL DEF Spec

\* Only a failure or a crash leaves authorized_keys truncated.
TornInv == torn => faults # 0

\* The order of the requests is what the race in removeIranAuthorizedKey takes: when requests
\* wait for those on their tunnel and for deletes, and nothing fails, the key of a tunnel whose
\* last request was an Apply is in authorized_keys.
THEOREM KeyIsThereInOrder ==
    ASSUME Avoided = {"tunnel", "delete"}
    PROVE  Spec => []AppliedKeyIsThere
<1>1. Init => TornInv
  BY DEF Init, TornInv
<1>2. TypeInv /\ TornInv /\ [Next]_vars => TornInv'
  <2> SUFFICES ASSUME TypeInv, TornInv, [Next]_vars PROVE TornInv'
    OBVIOUS
  <2>1. faults \in Nat
    BY DEF TypeInv
  <2>2. ASSUME NEW r \in Reqs, NEW i \in Ids, Request(r, i) PROVE UNCHANGED <<torn, faults>>
    BY <2>2 DEF Request, Create, Update, StartStop, Restart, Delete, NotFound, Arrive, vars,
       auxVars
  <2>3. ASSUME NEW r \in Reqs, Runs(r) PROVE torn' = torn /\ (Fault \/ UNCHANGED faults)
    BY <2>3, RunsFlow
  <2>4. ASSUME NEW r \in Reqs, Writes(r)
        PROVE  \/ torn' = torn /\ (Fault \/ UNCHANGED faults)
               \/ Fault
    BY <2>4 DEF Writes, Save, Append, ReadLines, Truncate, WriteLines, Forget, Command, auxVars
  <2>5. (Crash \/ \E h \in Hosts : RebootAbroad(h)) => Fault
    BY Zenon DEF Crash, RebootAbroad
  <2>6. CASE UNCHANGED vars
    BY <2>6 DEF vars, auxVars, TornInv
  <2>7. Fault => faults' # 0
    BY <2>1 DEF Fault
  <2> QED BY <2>2, <2>3, <2>4, <2>5, <2>6, <2>7 DEF Next, Apply, Remove, Runs, Writes, TornInv
<1>3. TypeOK /\ AppliedIsComplete /\ TornInv => AppliedKeyIsThere
  BY DEF TypeOK, AppliedIsComplete, TornInv, AppliedKeyIsThere
<1> QED BY <1>1, <1>2, <1>3, InitTypes, TypeStep, ReverseTypes, AppliedStaysComplete,
    PTL DEF Spec
=============================================================================
