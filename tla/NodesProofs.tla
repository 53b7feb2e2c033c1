---------------------------- MODULE NodesProofs ----------------------------
(***************************************************************************)
(* Theorems about Nodes for any number of hosts, requests, faults and      *)
(* changes of the remote panels: the types, the durability of the registry *)
(* and that every entry of an answer is about its own node.                *)
(***************************************************************************)
EXTENDS Nodes, SequenceTheorems, TLAPS

\* A registry with one id per node, all of them handed out.
Known(nodes) ==
    /\ nodes \in Seq(Node)
    /\ \A i \in 1..Len(nodes) : 0 < nodes[i].id /\ nodes[i].id < nextId
    /\ \A i, j \in 1..Len(nodes) : nodes[i].id = nodes[j].id => i = j

Registry ==
    /\ nextId \in Nat \ {0} /\ faults \in 0..MaxFaults
    /\ Known(mem) /\ Known(disk)
    /\ added \subseteq Ids(mem) \cap Ids(disk)
    /\ gone \cap (Ids(mem) \cup Ids(disk)) = {}
    /\ \A i \in gone : i \in Nat /\ 0 < i /\ i < nextId

\* The calls of a handler, one per node of its snapshot.
Handler == [pc : {"idle", "ask", "answer"}, kind : Kinds, snap : Seq(Node),
            go : Seq(Calling), out : Seq(Entry)]
Sized(q) == Len(q.go) = Len(q.snap) /\ Len(q.out) = Len(q.snap)

Handlers ==
    /\ remote \in [Hosts -> Remote]
    /\ req \in [Requests -> Handler] /\ \A r \in Requests : Sized(req[r])
    /\ calls \in 0..MaxCalls /\ turns \in 0..MaxTurns

\* The bounds are natural numbers.
LEMMA Bounds == MaxCalls \in Nat /\ MaxTurns \in Nat /\ MaxFaults \in Nat /\ MaxInitial \in Nat
  BY NodesAssumption, Zenon

-----------------------------------------------------------------------------
(* Registries. *)

\* What a registry is made of.
LEMMA IdsOf ==
    ASSUME NEW nodes \in Seq(Node)
    PROVE  /\ DOMAIN nodes = 1..Len(nodes) /\ Len(nodes) \in Nat
           /\ Ids(nodes) = {nodes[i].id : i \in 1..Len(nodes)}
           /\ \A i \in 1..Len(nodes) : nodes[i] \in Node /\ nodes[i].id \in Nat
<1>1. DOMAIN nodes = 1..Len(nodes) /\ Len(nodes) \in Nat
  BY LenProperties
<1>2. \A i \in 1..Len(nodes) : nodes[i] \in Node
  BY ElementOfSeq
<1> QED
  BY <1>1, <1>2 DEF Ids, Node

\* Deleting the i-th node takes its id away and no other.
LEMMA WithoutOne ==
    ASSUME NEW nodes \in Seq(Node), NEW i \in 1..Len(nodes),
           \A j, k \in 1..Len(nodes) : nodes[j].id = nodes[k].id => j = k
    PROVE  /\ Without(nodes, i) \in Seq(Node)
           /\ Ids(Without(nodes, i)) = Ids(nodes) \ {nodes[i].id}
           /\ \A j, k \in 1..Len(Without(nodes, i)) :
                  Without(nodes, i)[j].id = Without(nodes, i)[k].id => j = k
<1> DEFINE n == Len(nodes)
           w == Without(nodes, i)
           at(j) == IF j < i THEN j ELSE j + 1
<1>1. n \in Nat \ {0} /\ \A j \in 1..n : nodes[j] \in Node
  BY IdsOf
<1>2. \A j \in 1..(n - 1) : at(j) \in 1..n /\ at(j) # i
  BY <1>1
<1>3. w = [j \in 1..(n - 1) |-> nodes[at(j)]]
  BY DEF Without
<1>4. \A j \in 1..(n - 1) : w[j] = nodes[at(j)] /\ w[j] \in Node
  BY <1>1, <1>2, <1>3
<1>5. w \in Seq(Node) /\ Len(w) = n - 1
  <2>1. n - 1 \in Nat
    BY <1>1
  <2>2. w = [j \in 1..(n - 1) |-> w[j]]
    BY <1>3, <1>4
  <2> HIDE DEF w, n
  <2>3. w \in [1..(n - 1) -> Node]
    BY <1>4, <2>2
  <2> QED
    BY <2>1, <2>3, SeqDef, LenProperties
<1>6. \A k \in 1..n : k # i => \E j \in 1..(n - 1) : at(j) = k
  <2> SUFFICES ASSUME NEW k \in 1..n, k # i PROVE \E j \in 1..(n - 1) : at(j) = k
    OBVIOUS
  <2>1. CASE k < i
    <3>1. k \in 1..(n - 1) /\ at(k) = k
      BY <1>1, <2>1
    <3> QED
      BY <3>1
  <2>2. CASE k > i
    <3>1. k - 1 \in 1..(n - 1) /\ at(k - 1) = k
      BY <1>1, <2>2
    <3> QED
      BY <3>1
  <2> QED
    BY <1>1, <2>1, <2>2
<1>7. Ids(w) = {w[j].id : j \in 1..(n - 1)} /\ Ids(nodes) = {nodes[j].id : j \in 1..n}
  BY <1>5, IdsOf
<1>8. Ids(w) = Ids(nodes) \ {nodes[i].id}
  <2> HIDE DEF w, n, at
  <2>1. ASSUME NEW x \in Ids(w) PROVE x \in Ids(nodes) \ {nodes[i].id}
    <3>1. PICK j \in 1..(n - 1) : x = nodes[at(j)].id
      BY <1>4, <1>7, <2>1
    <3> QED
      BY <1>2, <1>7, <3>1 DEF n
  <2>2. ASSUME NEW x \in Ids(nodes) \ {nodes[i].id} PROVE x \in Ids(w)
    <3>1. PICK k \in 1..n : x = nodes[k].id /\ k # i
      BY <1>7, <2>2
    <3>2. PICK j \in 1..(n - 1) : at(j) = k
      BY <1>6, <3>1
    <3> QED
      BY <1>4, <1>7, <3>1, <3>2
  <2> QED
    BY <2>1, <2>2
<1>9. \A j, k \in 1..(n - 1) : w[j].id = w[k].id => j = k
  <2> SUFFICES ASSUME NEW j \in 1..(n - 1), NEW k \in 1..(n - 1), w[j].id = w[k].id PROVE j = k
    OBVIOUS
  <2>1. at(j) = at(k)
    BY <1>2, <1>4
  <2> QED
    BY <1>1, <2>1
<1> QED
  BY <1>5, <1>8, <1>9

\* Adding a node adds its id.
LEMMA AppendOne ==
    ASSUME NEW nodes \in Seq(Node), NEW x \in Node, x.id \notin Ids(nodes),
           \A j, k \in 1..Len(nodes) : nodes[j].id = nodes[k].id => j = k
    PROVE  /\ Append(nodes, x) \in Seq(Node)
           /\ Ids(Append(nodes, x)) = Ids(nodes) \cup {x.id}
           /\ \A j, k \in 1..Len(Append(nodes, x)) :
                  Append(nodes, x)[j].id = Append(nodes, x)[k].id => j = k
<1> DEFINE n == Len(nodes)
           w == Append(nodes, x)
<1>1. /\ w \in Seq(Node) /\ Len(w) = n + 1 /\ n \in Nat
      /\ \A j \in 1..n : w[j] = nodes[j]
      /\ w[n + 1] = x
  BY AppendProperties, LenProperties
<1>2. Ids(w) = {w[j].id : j \in 1..(n + 1)} /\ Ids(nodes) = {nodes[j].id : j \in 1..n}
  BY <1>1, IdsOf
<1> HIDE DEF w
<1>3. \A j \in 1..(n + 1) : j \in 1..n \/ j = n + 1
  BY <1>1
<1>4. \A j \in 1..n : j \in 1..(n + 1)
  BY <1>1
<1>5. n + 1 \in 1..(n + 1)
  BY <1>1
<1> HIDE DEF n
<1>6. Ids(w) = Ids(nodes) \cup {x.id}
  <2>1. ASSUME NEW y \in Ids(w) PROVE y \in Ids(nodes) \cup {x.id}
    BY <1>1, <1>2, <1>3, <2>1
  <2>2. ASSUME NEW y \in Ids(nodes) \cup {x.id} PROVE y \in Ids(w)
    BY <1>1, <1>2, <1>4, <1>5, <2>2
  <2> QED
    BY <2>1, <2>2
<1>7. \A j, k \in 1..(n + 1) : w[j].id = w[k].id => j = k
  BY <1>1, <1>2, <1>3 DEF n
<1> QED
  BY <1>1, <1>6, <1>7 DEF w

-----------------------------------------------------------------------------
(* The initial state. *)

\* The nodes that the registry starts with are numbered.
LEMMA InitialNodes ==
    ASSUME Init
    PROVE  /\ remote \in [Hosts -> Remote]
           /\ mem \in Seq(Node) /\ nextId = Len(mem) + 1
           /\ \A i \in 1..Len(mem) : mem[i].id = i
<1>1. PICK token : token = (CHOOSE f \in [Hosts -> Tokens] : Distinct(f))
  OBVIOUS
<1>2. token \in [Hosts -> Tokens]
  BY <1>1, NodesAssumption
<1>3. (CHOOSE p \in Paths : TRUE) \in Paths
  BY NodesAssumption
<1>4. remote = [h \in Hosts |-> [mode |-> "up", path |-> CHOOSE p \in Paths : TRUE,
                                 token |-> token[h]]]
  BY <1>1 DEF Init
<1>5. remote \in [Hosts -> Remote]
  BY <1>2, <1>3, <1>4 DEF Remote
<1>6. PICK n \in 0..MaxInitial :
          LET at == CHOOSE f \in [1..n -> Hosts] : Distinct(f)
          IN  mem = [i \in 1..n |-> [id |-> i, key |-> [at |-> at[i], path |-> remote[at[i]].path,
                                                      token |-> remote[at[i]].token]]]
  BY DEF Init
<1>7. PICK at : at = (CHOOSE f \in [1..n -> Hosts] : Distinct(f))
  OBVIOUS
<1>8. n \in Nat /\ 1..n \subseteq 1..MaxInitial
  BY NodesAssumption
<1>9. at \in [1..n -> Hosts]
  <2>1. PICK f \in [1..MaxInitial -> Hosts] : Distinct(f)
    BY NodesAssumption
  <2>2. [i \in 1..n |-> f[i]] \in [1..n -> Hosts] /\ Distinct([i \in 1..n |-> f[i]])
    BY <1>8, <2>1 DEF Distinct
  <2> QED
    BY <1>7, <2>2
<1>10. mem = [i \in 1..n |-> [id |-> i, key |-> [at |-> at[i], path |-> remote[at[i]].path,
                                                token |-> remote[at[i]].token]]]
  BY <1>6, <1>7
<1>11. \A i \in 1..n : mem[i].id = i /\ mem[i] \in Node
  <2> SUFFICES ASSUME NEW i \in 1..n PROVE mem[i].id = i /\ mem[i] \in Node
    OBVIOUS
  <2>1. at[i] \in Hosts /\ remote[at[i]].path \in Paths /\ remote[at[i]].token \in Tokens
    BY <1>5, <1>9 DEF Remote
  <2>2. mem[i] = [id |-> i, key |-> [at |-> at[i], path |-> remote[at[i]].path,
                                     token |-> remote[at[i]].token]]
    BY <1>10
  <2>3. i \in Nat
    BY <1>8
  <2> QED
    BY <2>1, <2>2, <2>3 DEF Node, Key
<1>12. mem \in Seq(Node) /\ Len(mem) = n
  <2>1. mem \in [1..n -> Node]
    BY <1>10, <1>11
  <2> QED
    BY <1>8, <2>1, SeqDef, LenProperties
<1> QED
  BY <1>5, <1>11, <1>12 DEF Init

\* An idle handler is a handler without calls.
LEMMA IdleHandler == Idle \in Handler /\ Sized(Idle) /\ DOMAIN Idle.go = {} /\ DOMAIN Idle.out = {}
<1>1. /\ <<>> \in Seq(Node) /\ <<>> \in Seq(Calling) /\ <<>> \in Seq(Entry) /\ Len(<<>>) = 0
      /\ DOMAIN <<>> = {}
  BY EmptySeq
<1>2. /\ Idle.pc = "idle" /\ Idle.kind = "none" /\ Idle.snap = <<>> /\ Idle.go = <<>>
      /\ Idle.out = <<>>
  BY DEF Idle
<1>3. Idle \in Handler
  BY <1>1 DEF Idle, Handler, Kinds
<1> QED
  BY <1>1, <1>2, <1>3 DEF Sized

\* The initial states satisfy the parts on the registry and on the handlers.
LEMMA InitRegistry == Init => Registry /\ Handlers
<1> SUFFICES ASSUME Init PROVE Registry /\ Handlers
  OBVIOUS
<1>1. /\ remote \in [Hosts -> Remote] /\ mem \in Seq(Node) /\ nextId = Len(mem) + 1
      /\ disk = mem /\ \A i \in 1..Len(mem) : mem[i].id = i
  BY InitialNodes DEF Init
<1>2. Len(mem) \in Nat /\ Ids(mem) = {mem[i].id : i \in 1..Len(mem)}
  BY <1>1, IdsOf
<1>3. Known(mem) /\ Known(disk)
  BY <1>1, <1>2 DEF Known
<1>4. Registry
  <2>1. nextId \in Nat \ {0}
    BY <1>1, <1>2
  <2>2. faults \in 0..MaxFaults
    <3>1. calls = 0 /\ turns = 0 /\ faults = 0
      BY Zenon DEF Init
    <3> QED
      BY <3>1, Bounds
  <2>3. added = Ids(mem) /\ gone = {}
    BY DEF Init
  <2> QED
    BY <1>1, <1>3, <2>1, <2>2, <2>3, Zenon DEF Registry
<1>5. Handlers
  <2>1. req \in [Requests -> Handler] /\ \A r \in Requests : Sized(req[r])
    BY IdleHandler DEF Init
  <2>2. calls \in 0..MaxCalls /\ turns \in 0..MaxTurns
    <3>1. calls = 0 /\ turns = 0 /\ faults = 0
      BY Zenon DEF Init
    <3> QED
      BY <3>1, Bounds
  <2> QED
    BY <1>1, <2>1, <2>2 DEF Handlers
<1> QED
  BY <1>4, <1>5

-----------------------------------------------------------------------------
(* The calls.  What a call has learnt is explained by the states its node has been in. *)

Answered(status, k, seen) ==
    status # "none" => \E s \in seen : s.mode = "up" /\ StatusOf(s, k) = status

FitsCall(c, k, entry) ==
    /\ c.pc # "done" => Answered(c.status, k, c.seen)
    /\ c.pc = "done" => Explained(entry, k, c.seen)

FitsHandler(q) ==
    /\ q.pc = "answer" => \A i \in 1..Len(q.snap) : q.go[i].pc = "done"
    /\ \A i \in 1..Len(q.snap) : /\ remote[q.snap[i].key.at] \in q.go[i].seen
                                 /\ FitsCall(q.go[i], q.snap[i].key, q.out[i])

Calls == \A r \in Requests : FitsHandler(req[r])

Inv == Registry /\ Handlers /\ Calls

\* The parts of a handler.
LEMMA HandlerParts ==
    ASSUME NEW q \in Handler, Sized(q)
    PROVE  /\ Len(q.snap) \in Nat
           /\ DOMAIN q.snap = 1..Len(q.snap) /\ DOMAIN q.go = 1..Len(q.snap)
           /\ DOMAIN q.out = 1..Len(q.snap)
           /\ \A i \in 1..Len(q.snap) : /\ q.snap[i] \in Node /\ q.snap[i].key.at \in Hosts
                                        /\ q.go[i] \in Calling /\ q.out[i] \in Entry
<1>1. q.snap \in Seq(Node) /\ q.go \in Seq(Calling) /\ q.out \in Seq(Entry)
  BY DEF Handler
<1>2. /\ Len(q.snap) \in Nat
      /\ DOMAIN q.snap = 1..Len(q.snap) /\ DOMAIN q.go = 1..Len(q.snap)
      /\ DOMAIN q.out = 1..Len(q.snap)
  BY <1>1, LenProperties DEF Sized
<1>3. \A i \in 1..Len(q.snap) : q.snap[i] \in Node /\ q.go[i] \in Calling /\ q.out[i] \in Entry
  BY <1>1, ElementOfSeq DEF Sized
<1> QED
  BY <1>2, <1>3 DEF Node, Key

\* A step of one handler that leaves the remote panels alone.
LEMMA OneHandler ==
    ASSUME Handlers, Calls, NEW r \in Requests, NEW q \in Handler, Sized(q), FitsHandler(q),
           req' = [req EXCEPT ![r] = q], UNCHANGED <<remote, turns>>, calls' \in 0..MaxCalls
    PROVE  Handlers' /\ Calls'
<1>1. req'[r] = q /\ \A s \in Requests \ {r} : req'[s] = req[s]
  BY DEF Handlers
<1>2. Handlers'
  BY <1>1 DEF Handlers
<1>3. \A s \in Requests : FitsHandler(req'[s])
  BY <1>1 DEF Calls
<1>4. \A s \in Requests : FitsHandler(req[s])'
  BY <1>3 DEF FitsHandler
<1> QED
  BY <1>2, <1>4 DEF Calls

\* An idle handler explains nothing, and fits.
LEMMA IdleFits == FitsHandler(Idle)
<1>1. Len(Idle.snap) = 0 /\ Idle.pc = "idle"
  BY EmptySeq DEF Idle
<1> QED
  BY <1>1 DEF FitsHandler

\* A handler that returns.
LEMMA ReturnsFits ==
    ASSUME Handlers, Calls, NEW r \in Requests, Returns(r), UNCHANGED <<remote, calls, turns>>
    PROVE  Handlers' /\ Calls'
<1>1. calls' \in 0..MaxCalls
  BY DEF Handlers
<1> QED
  BY <1>1, OneHandler, IdleHandler, IdleFits DEF Returns

\* A handler begins its calls.
LEMMA AsksFits ==
    ASSUME Handlers, Calls, NEW r \in Requests, NEW kind \in Kinds, NEW snap \in Seq(Node),
           Begin(r), Asks(r, kind, snap), UNCHANGED <<remote, turns>>
    PROVE  Handlers' /\ Calls'
<1>1. PICK go : go = [i \in DOMAIN snap |-> Sent(snap[i])]
  OBVIOUS
<1>2. PICK out : out = [i \in DOMAIN snap |-> Blank]
  OBVIOUS
<1>3. PICK q : q = [pc |-> "ask", kind |-> kind, snap |-> snap, go |-> go, out |-> out]
  OBVIOUS
<1>4. DOMAIN snap = 1..Len(snap) /\ Len(snap) \in Nat /\ \A i \in 1..Len(snap) : snap[i] \in Node
  BY LenProperties, ElementOfSeq
<1>5. \A i \in 1..Len(snap) : /\ go[i] = [pc |-> "sent", status |-> "none",
                                          seen |-> {remote[snap[i].key.at]}]
                              /\ go[i] \in Calling /\ out[i] = Blank
  <2> SUFFICES ASSUME NEW i \in 1..Len(snap)
               PROVE  /\ go[i] = [pc |-> "sent", status |-> "none", seen |-> {remote[snap[i].key.at]}]
                      /\ go[i] \in Calling /\ out[i] = Blank
    OBVIOUS
  <2>1. remote[snap[i].key.at] \in Remote
    BY <1>4 DEF Handlers, Node, Key
  <2>2. go[i] = [pc |-> "sent", status |-> "none", seen |-> {remote[snap[i].key.at]}] /\ out[i] = Blank
    BY <1>1, <1>2, <1>4 DEF Sent
  <2> QED
    BY <2>1, <2>2 DEF Calling, Status
<1>6. Blank \in Entry
  BY DEF Blank, Entry
<1>7. go \in Seq(Calling) /\ Len(go) = Len(snap) /\ out \in Seq(Entry) /\ Len(out) = Len(snap)
  <2>1. go \in [1..Len(snap) -> Calling] /\ out \in [1..Len(snap) -> Entry]
    BY <1>1, <1>2, <1>4, <1>5, <1>6
  <2> QED
    BY <1>4, <2>1, SeqDef, LenProperties
<1>8. q \in Handler /\ Sized(q)
  BY <1>3, <1>7 DEF Handler, Sized
<1>9. FitsHandler(q)
  <2>1. q.snap = snap /\ q.pc = "ask" /\ q.go = go
    BY <1>3
  <2>2. ASSUME NEW i \in 1..Len(snap)
        PROVE  remote[snap[i].key.at] \in go[i].seen /\ FitsCall(go[i], snap[i].key, q.out[i])
    <3>1. PICK c : c = go[i]
      OBVIOUS
    <3>2. c = [pc |-> "sent", status |-> "none", seen |-> {remote[snap[i].key.at]}]
      BY <1>5, <3>1
    <3>3. c.pc = "sent" /\ c.status = "none" /\ c.seen = {remote[snap[i].key.at]}
      BY <3>2
    <3> QED
      BY <3>1, <3>3 DEF FitsCall, Answered
  <2> QED
    BY <2>1, <2>2 DEF FitsHandler
<1>10. req' = [req EXCEPT ![r] = q]
  BY <1>1, <1>2, <1>3 DEF Asks
<1>11. calls' \in 0..MaxCalls
  BY Bounds DEF Begin, Handlers
<1> QED
  BY <1>8, <1>9, <1>10, <1>11, OneHandler

\* The call a handler asks with, and what it may have learnt.
LEMMA AskingCall ==
    ASSUME Handlers, Calls, NEW r \in Requests, NEW i \in DOMAIN req[r].go,
           req[r].pc = "ask", req[r].go[i].pc # "done"
    PROVE  /\ req[r] \in Handler /\ Sized(req[r]) /\ FitsHandler(req[r])
           /\ i \in 1..Len(req[r].snap) /\ req[r].go[i] \in Calling
           /\ Host(r, i) \in req[r].go[i].seen /\ Host(r, i) \in Remote
           /\ Answered(req[r].go[i].status, req[r].snap[i].key, req[r].go[i].seen)
<1>1. req[r] \in Handler /\ Sized(req[r]) /\ FitsHandler(req[r])
  BY DEF Handlers, Calls
<1>2. i \in 1..Len(req[r].snap) /\ req[r].go[i] \in Calling /\ req[r].snap[i].key.at \in Hosts
  BY <1>1, HandlerParts
<1> QED
  BY <1>1, <1>2 DEF FitsHandler, FitsCall, Host, Handlers

\* A call ends with a result that what was seen explains.
LEMMA FinishFits ==
    ASSUME Handlers, Calls, NEW r \in Requests, NEW i \in DOMAIN req[r].go,
           req[r].pc = "ask", req[r].go[i].pc # "done",
           NEW status \in Status, NEW whole \in BOOLEAN,
           Explained([status |-> status, whole |-> whole], req[r].snap[i].key, req[r].go[i].seen),
           Finish(r, i, status, whole), UNCHANGED <<remote, calls, turns>>
    PROVE  Handlers' /\ Calls'
<1>1. PICK c : c = [pc |-> "done", status |-> status, seen |-> req[r].go[i].seen]
  BY Zenon
<1>2. PICK entry : entry = [status |-> status, whole |-> whole]
  OBVIOUS
<1>3. PICK q : q = [req[r] EXCEPT !.go = [@ EXCEPT ![i] = c], !.out = [@ EXCEPT ![i] = entry]]
  OBVIOUS
<1>4. /\ req[r] \in Handler /\ Sized(req[r]) /\ FitsHandler(req[r])
      /\ i \in 1..Len(req[r].snap) /\ req[r].go[i] \in Calling
      /\ Host(r, i) \in req[r].go[i].seen
  BY AskingCall
<1>5. c \in Calling /\ entry \in Entry
  BY <1>1, <1>2, <1>4 DEF Calling, Entry
<1>6. /\ req[r].go \in Seq(Calling) /\ Len(req[r].go) = Len(req[r].snap)
      /\ req[r].out \in Seq(Entry) /\ Len(req[r].out) = Len(req[r].snap)
  BY <1>4 DEF Handler, Sized
<1>7. /\ q.pc = "ask" /\ q.snap = req[r].snap /\ q.kind = req[r].kind
      /\ q.go = [req[r].go EXCEPT ![i] = c] /\ q.out = [req[r].out EXCEPT ![i] = entry]
      /\ q = [pc |-> "ask", kind |-> q.kind, snap |-> q.snap, go |-> q.go, out |-> q.out]
  BY <1>3, <1>4 DEF Handler
<1>8. /\ q.go \in Seq(Calling) /\ Len(q.go) = Len(q.snap)
      /\ q.out \in Seq(Entry) /\ Len(q.out) = Len(q.snap)
      /\ q.go[i] = c /\ q.out[i] = entry
      /\ \A j \in 1..Len(q.snap) : j # i => q.go[j] = req[r].go[j] /\ q.out[j] = req[r].out[j]
  BY <1>4, <1>5, <1>6, <1>7, ExceptSeq
<1>9. q \in Handler /\ Sized(q)
  BY <1>4, <1>7, <1>8 DEF Handler, Sized
<1>10. FitsHandler(q)
  <2>1. ASSUME NEW j \in 1..Len(q.snap)
        PROVE  remote[q.snap[j].key.at] \in q.go[j].seen /\ FitsCall(q.go[j], q.snap[j].key, q.out[j])
    <3>1. CASE j = i
      <4>1. c.pc = "done" /\ c.seen = req[r].go[i].seen
        BY <1>1
      <4>2. remote[req[r].snap[i].key.at] \in c.seen
        BY <1>4, <4>1 DEF Host
      <4>3. FitsCall(c, req[r].snap[i].key, entry)
        BY <1>2, <4>1 DEF FitsCall
      <4> QED BY <1>7, <1>8, <3>1, <4>2, <4>3
    <3>2. CASE j # i
      BY <1>4, <1>7, <1>8, <3>2 DEF FitsHandler
    <3> QED
      BY <3>1, <3>2
  <2> QED
    BY <1>7, <2>1 DEF FitsHandler
<1>11. req' = [req EXCEPT ![r] = q]
  <2>1. q = Ended(req[r], i, status, whole)
    BY <1>1, <1>2, <1>3 DEF Ended
  <2> QED
    BY <2>1 DEF Finish
<1>12. calls' \in 0..MaxCalls
  BY DEF Handlers
<1> QED
  BY <1>9, <1>10, <1>11, <1>12, OneHandler

\* A call whose status line arrived, and whose body is still to come.
LEMMA HeadFits ==
    ASSUME Handlers, Calls, NEW r \in Requests, NEW i \in DOMAIN req[r].go,
           req[r].pc = "ask", req[r].go[i].pc # "done", NEW status \in Status,
           Answered(status, req[r].snap[i].key, req[r].go[i].seen),
           req' = [req EXCEPT ![r] = Headed(req[r], i, status)], UNCHANGED <<remote, calls, turns>>
    PROVE  Handlers' /\ Calls'
<1>1. PICK c : c = [pc |-> "head", status |-> status, seen |-> req[r].go[i].seen]
  BY Zenon
<1>2. PICK q : q = [req[r] EXCEPT !.go = [@ EXCEPT ![i] = c]]
  OBVIOUS
<1>3. /\ req[r] \in Handler /\ Sized(req[r]) /\ FitsHandler(req[r])
      /\ i \in 1..Len(req[r].snap) /\ req[r].go[i] \in Calling
      /\ Host(r, i) \in req[r].go[i].seen
  BY AskingCall
<1>4. c \in Calling /\ c.pc = "head" /\ c.status = status /\ c.seen = req[r].go[i].seen
  BY <1>1, <1>3 DEF Calling
<1>5. req[r].go \in Seq(Calling) /\ Len(req[r].go) = Len(req[r].snap)
  BY <1>3 DEF Handler, Sized
<1>6. /\ q.pc = "ask" /\ q.snap = req[r].snap /\ q.kind = req[r].kind
      /\ q.go = [req[r].go EXCEPT ![i] = c] /\ q.out = req[r].out
      /\ q = [pc |-> "ask", kind |-> q.kind, snap |-> q.snap, go |-> q.go, out |-> q.out]
  BY <1>2, <1>3 DEF Handler
<1>7. /\ q.go \in Seq(Calling) /\ Len(q.go) = Len(q.snap) /\ q.go[i] = c
      /\ \A j \in 1..Len(q.snap) : j # i => q.go[j] = req[r].go[j]
  BY <1>3, <1>4, <1>5, <1>6, ExceptSeq
<1>8. q \in Handler /\ Sized(q)
  BY <1>3, <1>6, <1>7 DEF Handler, Sized
<1>9. FitsHandler(q)
  <2>1. ASSUME NEW j \in 1..Len(q.snap)
        PROVE  remote[q.snap[j].key.at] \in q.go[j].seen /\ FitsCall(q.go[j], q.snap[j].key, q.out[j])
    <3>1. CASE j = i
      BY <1>3, <1>4, <1>6, <1>7, <3>1 DEF FitsCall, Host
    <3>2. CASE j # i
      BY <1>3, <1>6, <1>7, <3>2 DEF FitsHandler
    <3> QED
      BY <3>1, <3>2
  <2> QED
    BY <1>6, <2>1 DEF FitsHandler
<1>10. req' = [req EXCEPT ![r] = q]
  BY <1>1, <1>2 DEF Headed
<1>11. calls' \in 0..MaxCalls
  BY DEF Handlers
<1> QED
  BY <1>8, <1>9, <1>10, <1>11, OneHandler

\* Every step of a call keeps what its handler has seen in line with its result.
LEMMA CallFits ==
    ASSUME Handlers, Calls, NEW r \in Requests, NEW i \in DOMAIN req[r].go,
           Responds(r, i) \/ Body(r, i) \/ Refused(r, i) \/ TimesOut(r, i)
    PROVE  Handlers' /\ Calls'
<1>1. /\ req[r].pc = "ask" /\ req[r].go[i].pc \in {"sent", "head"}
      /\ UNCHANGED <<remote, calls, turns>>
  BY DEF Responds, Body, Refused, TimesOut, Asking, Step
<1>2. /\ req[r].go[i] \in Calling /\ Host(r, i) \in req[r].go[i].seen
      /\ Answered(req[r].go[i].status, req[r].snap[i].key, req[r].go[i].seen)
  BY <1>1, AskingCall
<1>3. req[r].go[i].status \in Status /\ "blank" \notin Status
  BY <1>2 DEF Calling, Status
<1>4. CASE Responds(r, i)
  <2>1. PICK status : status = StatusOf(Host(r, i), req[r].snap[i].key)
    OBVIOUS
  <2>2. status \in Status
    BY <2>1 DEF StatusOf, Status
  <2>3. Host(r, i).mode = "up"
    BY <1>4 DEF Responds
  <2>4. Answered(status, req[r].snap[i].key, req[r].go[i].seen)
    BY <1>2, <2>1, <2>3 DEF Answered
  <2>5. CASE ReadsBody(r, status)
    BY <1>1, <1>4, <2>1, <2>2, <2>4, <2>5, HeadFits DEF Responds
  <2>6. CASE ~ReadsBody(r, status)
    <3>1. Explained([status |-> status, whole |-> TRUE], req[r].snap[i].key, req[r].go[i].seen)
      BY <1>3, <2>2, <2>4 DEF Answered, Explained
    <3>2. Finish(r, i, status, TRUE)
      BY <1>4, <2>1, <2>6 DEF Responds
    <3> QED
      BY <1>1, <2>2, <3>1, <3>2, FinishFits
  <2> QED
    BY <2>5, <2>6
<1>5. CASE Body(r, i)
  <2>1. Explained([status |-> req[r].go[i].status, whole |-> TRUE], req[r].snap[i].key,
                  req[r].go[i].seen)
    BY <1>2, <1>3 DEF Answered, Explained
  <2>2. Finish(r, i, req[r].go[i].status, TRUE)
    BY <1>5 DEF Body
  <2> QED
    BY <1>1, <1>3, <2>1, <2>2, FinishFits
<1>6. CASE Refused(r, i) \/ TimesOut(r, i)
  <2>1. Host(r, i).mode # "up" /\ Finish(r, i, req[r].go[i].status, FALSE)
    BY <1>6 DEF Refused, TimesOut
  <2>2. Explained([status |-> req[r].go[i].status, whole |-> FALSE], req[r].snap[i].key,
                  req[r].go[i].seen)
    BY <1>2, <1>3, <2>1 DEF Answered, Explained
  <2> QED
    BY <1>1, <1>3, <2>1, <2>2, FinishFits
<1> QED
  BY <1>4, <1>5, <1>6

\* The answer that lists the results.
LEMMA ListedFits ==
    ASSUME Handlers, Calls, NEW r \in Requests, Listed(r)
    PROVE  Handlers' /\ Calls'
<1>1. PICK q : q = [req[r] EXCEPT !.pc = "answer"]
  OBVIOUS
<1>2. req[r] \in Handler /\ Sized(req[r]) /\ FitsHandler(req[r])
  BY DEF Handlers, Calls
<1>3. /\ q \in Handler /\ q.pc = "answer"
      /\ q.snap = req[r].snap /\ q.go = req[r].go /\ q.out = req[r].out
  BY <1>1, <1>2 DEF Handler
<1>4. \A i \in 1..Len(q.snap) : q.go[i].pc = "done"
  BY <1>2, <1>3, HandlerParts DEF Listed
<1>5. Sized(q) /\ FitsHandler(q)
  BY <1>2, <1>3, <1>4 DEF Sized, FitsHandler
<1>6. req' = [req EXCEPT ![r] = q] /\ UNCHANGED <<remote, turns>> /\ calls' \in 0..MaxCalls
  BY <1>1 DEF Listed, Step, Handlers
<1> QED
  BY <1>3, <1>5, <1>6, OneHandler

\* The environment: a call that has seen more explains what it explained.
LEMMA TurnFits ==
    ASSUME Handlers, Calls, NEW h \in Hosts, NEW s \in Remote, Turn(h, s)
    PROVE  Handlers' /\ Calls'
<1>1. ASSUME NEW r \in Requests
      PROVE  /\ req'[r] \in Handler /\ Sized(req'[r])
             /\ FitsHandler(req[r])'
  <2>1. PICK q \in Handler : q = req[r] /\ Sized(q) /\ FitsHandler(q)
    BY DEF Handlers, Calls
  <2>2. PICK go : go = Saw(q, h, s)
    OBVIOUS
  <2>3. /\ DOMAIN q.go = 1..Len(q.snap) /\ Len(q.snap) \in Nat
        /\ \A i \in 1..Len(q.snap) : q.go[i] \in Calling /\ q.snap[i].key.at \in Hosts
    BY <2>1, HandlerParts
  <2>4. ASSUME NEW i \in 1..Len(q.snap)
        PROVE  /\ go[i] \in Calling /\ go[i].pc = q.go[i].pc /\ go[i].status = q.go[i].status
               /\ q.go[i].seen \subseteq go[i].seen
               /\ remote'[q.snap[i].key.at] \in go[i].seen
    <3>1. remote[q.snap[i].key.at] \in q.go[i].seen
      BY <2>1 DEF FitsHandler
    <3>2. CASE q.snap[i].key.at = h
      <4>1. go[i] = [q.go[i] EXCEPT !.seen = @ \cup {s}]
        BY <2>2, <2>3, <3>2 DEF Saw
      <4>2. PICK c \in Calling : c = q.go[i]
        BY <2>3
      <4>3. PICK d : d = [c EXCEPT !.seen = @ \cup {s}]
        OBVIOUS
      <4>4. d \in Calling /\ d.pc = c.pc /\ d.status = c.status /\ d.seen = c.seen \cup {s}
        BY <4>3 DEF Calling
      <4>5. remote'[h] = s
        BY DEF Turn, Handlers
      <4> QED
        BY <3>2, <4>1, <4>2, <4>3, <4>4, <4>5
    <3>3. CASE q.snap[i].key.at # h
      <4>1. go[i] = q.go[i]
        BY <2>2, <2>3, <3>3 DEF Saw
      <4>2. remote'[q.snap[i].key.at] = remote[q.snap[i].key.at]
        BY <2>3, <3>3 DEF Turn, Handlers
      <4> QED
        BY <2>3, <3>1, <4>1, <4>2
    <3> QED
      BY <3>2, <3>3
  <2>5. go \in Seq(Calling) /\ Len(go) = Len(q.snap)
    <3>1. go = [i \in 1..Len(q.snap) |-> go[i]]
      BY <2>2, <2>3 DEF Saw
    <3>2. go \in [1..Len(q.snap) -> Calling]
      BY <2>4, <3>1
    <3> QED
      BY <2>3, <3>2, SeqDef, LenProperties
  <2>6. PICK p : p = [q EXCEPT !.go = go]
    OBVIOUS
  <2>7. p \in Handler /\ p.pc = q.pc /\ p.snap = q.snap /\ p.out = q.out /\ p.go = go
    BY <2>5, <2>6 DEF Handler
  <2>8. req'[r] = p
    BY <2>1, <2>2, <2>6 DEF Turn
  <2>9. Sized(p)
    BY <2>1, <2>5, <2>7 DEF Sized
  <2>10. ASSUME NEW i \in 1..Len(q.snap)
         PROVE  FitsCall(go[i], q.snap[i].key, q.out[i])
    <3>1. FitsCall(q.go[i], q.snap[i].key, q.out[i])
      BY <2>1 DEF FitsHandler
    <3> QED
      BY <2>4, <3>1 DEF FitsCall, Answered, Explained
  <2>11. FitsHandler(req[r])'
    BY <2>1, <2>4, <2>7, <2>8, <2>10 DEF FitsHandler
  <2> QED
    BY <2>7, <2>8, <2>9, <2>11
<1>2. req' \in [Requests -> Handler]
  BY <1>1 DEF Turn
<1>3. remote' \in [Hosts -> Remote] /\ turns' \in 0..MaxTurns /\ calls' \in 0..MaxCalls
  BY Bounds DEF Turn, Handlers
<1> QED
  BY <1>1, <1>2, <1>3 DEF Handlers, Calls

-----------------------------------------------------------------------------
(* The registry changes in three steps: a deletion, an addition and a restart. *)

\* A step that leaves the registry alone.
LEMMA SameRegistry ==
    ASSUME Registry, UNCHANGED <<mem, disk, nextId, added, gone, faults>>
    PROVE  Registry'
  BY DEF Registry, Known, Ids

\* What a flush that got through, or failed, leaves behind.
LEMMA FlushedEither ==
    ASSUME Registry, NEW nodes, Flushed(nodes)
    PROVE  /\ mem' = nodes /\ faults' \in 0..MaxFaults
           /\ \/ faults' = faults /\ disk' = nodes
              \/ faults' # faults /\ disk' = disk
<1>1. faults \in Int /\ faults \in 0..MaxFaults
  BY Bounds DEF Registry
<1> QED
  BY <1>1, Bounds DEF Flushed, Fault

\* Deleting a node.
LEMMA DeleteKeeps ==
    ASSUME Registry, NEW r \in Requests, NEW i \in DOMAIN mem, Delete(r, i)
    PROVE  Registry'
<1>1. PICK x : x = mem[i].id
  OBVIOUS
<1>2. mem \in Seq(Node) /\ DOMAIN mem = 1..Len(mem) /\ Len(mem) \in Nat
  BY IdsOf DEF Registry, Known
<1>3. PICK nodes : nodes = Without(mem, i)
  OBVIOUS
<1>4. /\ nodes \in Seq(Node) /\ Ids(nodes) = Ids(mem) \ {x}
      /\ \A j, k \in 1..Len(nodes) : nodes[j].id = nodes[k].id => j = k
  BY <1>1, <1>2, <1>3, WithoutOne DEF Registry, Known
<1>5. /\ mem' = nodes /\ faults' \in 0..MaxFaults
      /\ (faults' = faults /\ disk' = nodes) \/ (faults' # faults /\ disk' = disk)
  BY <1>3, FlushedEither DEF Delete
<1>6. x \in Ids(mem) /\ \A y \in Ids(mem) : y \in Nat /\ 0 < y /\ y < nextId
  <2>1. \A j \in 1..Len(mem) : mem[j].id \in Nat /\ 0 < mem[j].id /\ mem[j].id < nextId
    BY <1>2, IdsOf DEF Registry, Known
  <2> QED
    BY <1>1, <1>2, <2>1, IdsOf
<1>7. Known(nodes)
  <2>1. \A j \in 1..Len(nodes) : nodes[j].id \in Ids(nodes)
    BY <1>4, IdsOf
  <2> QED
    BY <1>4, <1>6, <2>1 DEF Known
<1>8. nextId' = nextId /\ nextId \in Nat \ {0}
  BY DEF Delete, Registry
<1>9. Known(mem)' /\ Known(disk)'
  BY <1>5, <1>7, <1>8 DEF Known, Registry
<1>10. added' = added \ {x} /\ gone' = IF faults' = faults THEN gone \cup {x} ELSE gone
  BY <1>1 DEF Delete
<1>11. added' \subseteq Ids(mem)' \cap Ids(disk)'
  <2>1. Ids(mem)' = Ids(mem) \ {x}
    BY <1>4, <1>5 DEF Ids
  <2>2. Ids(disk)' = Ids(mem) \ {x} \/ Ids(disk)' = Ids(disk)
    BY <1>4, <1>5 DEF Ids
  <2> QED
    BY <1>10, <2>1, <2>2 DEF Registry
<1>12. gone' \cap (Ids(mem)' \cup Ids(disk)') = {}
  <2>1. Ids(mem)' = Ids(mem) \ {x}
    BY <1>4, <1>5 DEF Ids
  <2>2. CASE faults' = faults /\ disk' = nodes
    <3>1. Ids(disk)' = Ids(mem) \ {x}
      BY <1>4, <2>2 DEF Ids
    <3> QED
      BY <1>10, <2>1, <2>2, <3>1 DEF Registry
  <2>3. CASE faults' # faults /\ disk' = disk
    <3>1. Ids(disk)' = Ids(disk)
      BY <2>3 DEF Ids
    <3> QED
      BY <1>10, <2>1, <2>3, <3>1 DEF Registry
  <2> QED
    BY <1>5, <2>2, <2>3
<1>13. \A y \in gone' : y \in Nat /\ 0 < y /\ y < nextId'
  BY <1>6, <1>8, <1>10 DEF Registry
<1> QED
  BY <1>5, <1>8, <1>9, <1>11, <1>12, <1>13 DEF Registry

\* Adding a node that its panel accepted.
LEMMA AcceptedKeeps ==
    ASSUME Registry, Handlers, NEW r \in Requests, Accepted(r)
    PROVE  Registry'
<1>1. req[r].snap[1] \in Node
  BY HandlerParts DEF Accepted, Asked, Asking, Handlers
<1>2. PICK x : x = [req[r].snap[1] EXCEPT !.id = nextId]
  OBVIOUS
<1>3. nextId \in Nat \ {0} /\ nextId' = nextId + 1
  BY DEF Registry, Accepted
<1>4. x \in Node /\ x.id = nextId
  BY <1>1, <1>2, <1>3 DEF Node
<1>5. mem \in Seq(Node) /\ DOMAIN mem = 1..Len(mem) /\ Len(mem) \in Nat
  BY IdsOf DEF Registry, Known
<1>6. \A y \in Ids(mem) \cup Ids(disk) : y \in Nat /\ 0 < y /\ y < nextId
  <2>1. /\ \A j \in 1..Len(mem) : mem[j].id \in Nat /\ 0 < mem[j].id /\ mem[j].id < nextId
        /\ \A j \in 1..Len(disk) : disk[j].id \in Nat /\ 0 < disk[j].id /\ disk[j].id < nextId
    BY IdsOf DEF Registry, Known
  <2>2. /\ Ids(mem) = {mem[j].id : j \in 1..Len(mem)}
        /\ Ids(disk) = {disk[j].id : j \in 1..Len(disk)}
    BY IdsOf DEF Registry, Known
  <2> QED
    BY <2>1, <2>2
<1>7. nextId \notin Ids(mem) \cup Ids(disk)
  BY <1>3, <1>6
<1>8. PICK nodes : nodes = Append(mem, x)
  OBVIOUS
<1>9. /\ nodes \in Seq(Node) /\ Ids(nodes) = Ids(mem) \cup {nextId}
      /\ \A j, k \in 1..Len(nodes) : nodes[j].id = nodes[k].id => j = k
  BY <1>4, <1>5, <1>7, <1>8, AppendOne DEF Registry, Known
<1>10. /\ mem' = nodes /\ faults' \in 0..MaxFaults
       /\ (faults' = faults /\ disk' = nodes) \/ (faults' # faults /\ disk' = disk)
  BY <1>2, <1>8, FlushedEither DEF Accepted
<1>11. Known(nodes)'
  <2>1. \A j \in 1..Len(nodes) : nodes[j].id \in Ids(nodes)
    BY <1>9, IdsOf
  <2>2. \A y \in Ids(nodes) : 0 < y /\ y < nextId + 1
    BY <1>3, <1>6, <1>9
  <2> QED
    BY <1>3, <1>9, <2>1, <2>2 DEF Known
<1>12. Known(disk)' \/ disk' = nodes
  <2> SUFFICES ASSUME disk' = disk PROVE Known(disk)'
    BY <1>10
  <2>1. \A j \in 1..Len(disk) : disk[j].id \in Nat
    BY IdsOf DEF Registry, Known
  <2> QED
    BY <1>3, <2>1 DEF Registry, Known
<1>13. Known(mem)' /\ Known(disk)'
  BY <1>10, <1>11, <1>12 DEF Known
<1>14. /\ added' = IF faults' = faults THEN added \cup {nextId} ELSE added
       /\ gone' = gone
  BY DEF Accepted
<1>15. Ids(mem)' = Ids(mem) \cup {nextId}
  BY <1>9, <1>10 DEF Ids
<1>16. \/ faults' = faults /\ Ids(disk)' = Ids(mem) \cup {nextId}
       \/ faults' # faults /\ Ids(disk)' = Ids(disk)
  BY <1>9, <1>10 DEF Ids
<1>17. nextId \notin gone
  BY <1>3 DEF Registry
<1>18. added' \subseteq Ids(mem)' \cap Ids(disk)'
  BY <1>14, <1>15, <1>16 DEF Registry
<1>19. gone' \cap (Ids(mem)' \cup Ids(disk)') = {}
  BY <1>14, <1>15, <1>16, <1>17 DEF Registry
<1>20. (\A y \in gone' : y \in Nat /\ 0 < y /\ y < nextId') /\ nextId' \in Nat \ {0}
  BY <1>3, <1>14 DEF Registry
<1> QED
  BY <1>10, <1>13, <1>18, <1>19, <1>20 DEF Registry

\* A restart loads what the file holds.
LEMMA RestartKeeps ==
    ASSUME Registry, Handlers, Restart
    PROVE  Registry' /\ Handlers' /\ Calls'
<1>1. Registry'
  <2>1. faults' \in 0..MaxFaults
    BY Bounds DEF Registry, Restart, Fault
  <2>2. Ids(mem)' = Ids(disk) /\ Ids(disk)' = Ids(disk)
    BY DEF Restart, Ids
  <2>3. Known(mem)' /\ Known(disk)'
    BY DEF Restart, Registry, Known
  <2> QED
    BY <2>1, <2>2, <2>3 DEF Registry, Restart
<1>2. \A r \in Requests : req'[r] = Idle
  BY DEF Restart
<1>3. Handlers'
  BY <1>2, IdleHandler DEF Restart, Handlers
<1>4. FitsHandler(Idle)'
  BY IdleHandler, HandlerParts, EmptySeq DEF FitsHandler, Idle
<1>5. Calls'
  BY <1>2, <1>4 DEF Calls, FitsHandler
<1> QED
  BY <1>1, <1>3, <1>5

-----------------------------------------------------------------------------
(* Every step keeps the invariant. *)

\* A request that begins.
LEMMA StartKeeps ==
    ASSUME Inv, NEW r \in Requests, Start(r)
    PROVE  Inv'
<1>1. Registry /\ Handlers /\ Calls /\ mem \in Seq(Node) /\ DOMAIN mem = 1..Len(mem)
  BY IdsOf DEF Inv, Registry, Known
<1>2. CASE List(r)
  <2>1. Handlers' /\ Calls'
    BY <1>1, <1>2, AsksFits DEF List, Kinds
  <2> QED
    BY <1>1, <1>2, <2>1, SameRegistry DEF List, Inv
<1>3. ASSUME NEW k \in Key, Add(r, k) PROVE Inv'
  <2>1. PICK n : n = [id |-> 0, key |-> k]
    OBVIOUS
  <2>2. n \in Node
    BY <2>1 DEF Node
  <2>3. <<n>> \in Seq(Node)
    BY <2>2
  <2>4. Handlers' /\ Calls'
    BY <1>1, <1>3, <2>1, <2>3, AsksFits DEF Add, Kinds
  <2> QED
    BY <1>1, <1>3, <2>4, SameRegistry DEF Add, Inv
<1>4. ASSUME NEW i \in DOMAIN mem, Proxy(r, i) PROVE Inv'
  <2>1. mem[i] \in Node
    BY <1>1, ElementOfSeq
  <2>2. <<mem[i]>> \in Seq(Node)
    BY <2>1
  <2>3. Handlers' /\ Calls'
    BY <1>1, <1>4, <2>2, AsksFits DEF Proxy, Kinds
  <2> QED
    BY <1>1, <1>4, <2>3, SameRegistry DEF Proxy, Inv
<1>5. ASSUME NEW i \in DOMAIN mem, Delete(r, i) PROVE Inv'
  <2>1. Registry'
    BY <1>1, <1>5, DeleteKeeps
  <2>2. calls' \in 0..MaxCalls
    BY <1>1, <1>5, Bounds DEF Delete, Begin, Handlers
  <2>3. Handlers'
    BY <1>1, <1>5, <2>2 DEF Delete, Handlers
  <2>4. Calls'
    BY <1>1, <1>5 DEF Delete, Calls, FitsHandler
  <2> QED
    BY <2>1, <2>3, <2>4 DEF Inv
<1> QED
  BY <1>2, <1>3, <1>4, <1>5 DEF Start

\* A request that goes on.
LEMMA GoOnKeeps ==
    ASSUME Inv, NEW r \in Requests, GoOn(r)
    PROVE  Inv'
<1>1. CASE Accepted(r)
  <2>1. Registry'
    BY <1>1, AcceptedKeeps DEF Inv
  <2>2. Handlers' /\ Calls'
    BY <1>1, ReturnsFits DEF Accepted, Inv
  <2> QED
    BY <2>1, <2>2 DEF Inv
<1>2. CASE Listed(r)
  <2>1. Registry'
    BY <1>2, SameRegistry DEF Listed, Step, Inv
  <2> QED
    BY <1>2, <2>1, ListedFits DEF Inv
<1>3. CASE Proxied(r) \/ Rejected(r) \/ Return(r)
  <2>1. Returns(r) /\ Step(r)
    BY <1>3 DEF Proxied, Rejected, Return
  <2>2. Registry'
    BY <2>1, SameRegistry DEF Step, Inv
  <2>3. Handlers' /\ Calls'
    BY <2>1, ReturnsFits DEF Step, Inv
  <2> QED
    BY <2>2, <2>3 DEF Inv
<1> QED
  BY <1>1, <1>2, <1>3 DEF GoOn

\* Every step keeps the invariant.
LEMMA NextKeeps ==
    ASSUME Inv, [Next]_vars
    PROVE  Inv'
<1>1. ASSUME NEW r \in Requests, Start(r) PROVE Inv'
  BY <1>1, StartKeeps
<1>2. ASSUME NEW r \in Requests, Call(r) PROVE Inv'
  <2>1. PICK i \in DOMAIN req[r].go : Responds(r, i) \/ Body(r, i) \/ Refused(r, i) \/ TimesOut(r, i)
    BY <1>2 DEF Call
  <2>2. Step(r)
    BY <2>1 DEF Responds, Body, Refused, TimesOut
  <2>3. Registry'
    BY <2>2, SameRegistry DEF Step, Inv
  <2> QED
    BY <2>1, <2>3, CallFits DEF Inv
<1>3. ASSUME NEW r \in Requests, GoOn(r) PROVE Inv'
  BY <1>3, GoOnKeeps
<1>4. ASSUME NEW h \in Hosts, NEW s \in Remote, Turn(h, s) PROVE Inv'
  <2>1. Registry'
    BY <1>4, SameRegistry DEF Turn, Inv
  <2> QED
    BY <1>4, <2>1, TurnFits DEF Inv
<1>5. CASE Restart
  BY <1>5, RestartKeeps DEF Inv
<1>6. CASE UNCHANGED vars
  <2>1. Registry'
    BY <1>6, SameRegistry DEF vars, Inv
  <2>2. Handlers' /\ Calls'
    BY <1>6 DEF vars, Inv, Handlers, Calls, FitsHandler
  <2> QED
    BY <2>1, <2>2 DEF Inv
<1> QED
  BY <1>1, <1>2, <1>3, <1>4, <1>5, <1>6 DEF Next

\* The initial states satisfy the invariant.
LEMMA InitInv == Init => Inv
<1> SUFFICES ASSUME Init PROVE Inv
  OBVIOUS
<1>1. \A r \in Requests : FitsHandler(req[r])
  BY IdleFits DEF Init
<1> QED
  BY <1>1, InitRegistry DEF Inv, Calls

\* The invariant holds throughout.
LEMMA Invariance == Spec => []Inv
<1>1. Init => Inv
  BY InitInv
<1>2. Inv /\ [Next]_vars => Inv'
  BY NextKeeps
<1> QED
  BY <1>1, <1>2, PTL DEF Spec

\* The variables of the registry and of its requests have their types, for any number of hosts,
\* requests, faults and changes.
THEOREM NodesTypes == Spec => []NodesTypeOK
<1>1. Inv => NodesTypeOK
  <2> SUFFICES ASSUME Inv PROVE NodesTypeOK
    OBVIOUS
  <2>1. /\ mem \in Seq(Node) /\ disk \in Seq(Node)
        /\ \A i, j \in DOMAIN mem : mem[i].id = mem[j].id => i = j
    BY IdsOf DEF Inv, Registry, Known
  <2>2. \A i \in Ids(mem) : i \in 1..nextId
    <3>1. \A i \in 1..Len(mem) : mem[i].id \in Nat /\ 0 < mem[i].id /\ mem[i].id < nextId
      BY IdsOf DEF Inv, Registry, Known
    <3>2. nextId \in Nat
      BY DEF Inv, Registry
    <3> QED
      BY <2>1, <3>1, <3>2, IdsOf
  <2>3. nextId \in Nat \ {0} /\ added \subseteq 1..nextId /\ gone \subseteq 1..nextId
    BY <2>2 DEF Inv, Registry
  <2>4. ASSUME NEW r \in Requests
        PROVE  /\ req[r].pc \in {"idle", "ask", "answer"} /\ req[r].kind \in Kinds
               /\ req[r].snap \in Seq(Node)
               /\ req[r].go \in Seq(Calling) /\ Len(req[r].go) = Len(req[r].snap)
               /\ req[r].out \in Seq(Entry) /\ Len(req[r].out) = Len(req[r].snap)
    BY DEF Inv, Handlers, Handler, Sized
  <2> QED
    BY <2>1, <2>3, <2>4 DEF Inv, Registry, Handlers, NodesTypeOK
<1> QED
  BY <1>1, Invariance, PTL

\* An acknowledged addition stays and an acknowledged deletion is final, in memory and on disk,
\* through any number of failed flushes and restarts.
THEOREM RegistryLasts == Spec => []RegistryIsDurable
<1>1. Inv => RegistryIsDurable
  BY DEF Inv, Registry, RegistryIsDurable
<1> QED
  BY <1>1, Invariance, PTL

\* Every entry of an answer is about its own node, for any number of nodes that are asked at once
\* and whatever the nodes, the other requests and the registry do meanwhile.
THEOREM EntriesAreTrue == Spec => []EntriesAreTheirNodes
<1>1. Inv => EntriesAreTheirNodes
  <2> SUFFICES ASSUME Inv, NEW r \in Requests, NEW i \in DOMAIN req[r].out,
                      req[r].pc = "answer" \/ req[r].go[i].pc = "done"
               PROVE  Explained(req[r].out[i], req[r].snap[i].key, req[r].go[i].seen)
    BY DEF EntriesAreTheirNodes
  <2>1. req[r] \in Handler /\ Sized(req[r]) /\ FitsHandler(req[r])
    BY DEF Inv, Handlers, Calls
  <2>2. i \in 1..Len(req[r].snap)
    BY <2>1, HandlerParts
  <2> QED
    BY <2>1, <2>2 DEF FitsHandler, FitsCall
<1> QED
  BY <1>1, Invariance, PTL
=============================================================================
