------------------------------- MODULE Nodes -------------------------------
(***************************************************************************)
(* The master's registry of nodes and the requests that use it: the list,  *)
(* which asks every node at once and waits for all of them, adding a node, *)
(* which asks it first, deleting one, and the proxy.  Nodes are other      *)
(* panels: they stop, hang, move their path and change their token.        *)
(***************************************************************************)
EXTENDS Integers, Sequences

CONSTANTS
    Hosts,       \* addresses of remote panels
    Paths,       \* base paths
    Tokens,      \* node tokens
    Requests,    \* slots for the handlers of the master's panel
    MaxCalls,    \* bound: requests in a behaviour
    MaxTurns,    \* bound: changes of the remote panels
    MaxFaults,   \* bound: failed flushes and kills of the master's panel
    MaxInitial   \* bound: nodes registered at the start

Distinct(f) == \A x, y \in DOMAIN f : f[x] = f[y] => x = y

\* There are hosts for the nodes registered at the start, and tokens for all hosts.
ASSUME NodesAssumption ==
    /\ MaxCalls \in Nat /\ MaxTurns \in Nat /\ MaxFaults \in Nat /\ MaxInitial \in Nat
    /\ \E f \in [1..MaxInitial -> Hosts] : Distinct(f)
    /\ \E f \in [Hosts -> Tokens] : Distinct(f)
    /\ Paths # {}

VARIABLES
    mem,      \* the registry in the panel's memory
    disk,     \* the registry in store.json
    remote,   \* the remote panels
    req,      \* the handlers
    nextId,   \* newID: random, taken to be fresh
    added,    \* auxiliary: ids whose add succeeded and that nobody tried to delete
    gone,     \* auxiliary: ids whose deletion succeeded
    calls, turns, faults

vars == <<mem, disk, remote, req, nextId, added, gone, calls, turns, faults>>

\* up: answers, well within the timeout; silent: takes connections or packets and does not
\* answer; down: refuses connections.
Remote == [mode : {"up", "silent", "down"}, path : Paths, token : Tokens]
Key    == [at : Hosts, path : Paths, token : Tokens]
Node   == [id : Nat, key : Key]   \* id 0: not registered yet

\* A call to a node: seen is auxiliary, the states its host has been in since it began.
Status   == {"none", "200", "401", "404"}   \* none: no answer
Calling  == [pc : {"sent", "head", "done"}, status : Status, seen : SUBSET Remote]
Sent(n)  == [pc |-> "sent", status |-> "none", seen |-> {remote[n.key.at]}]

\* An element of the answer: the status the node answered with, or not filled in, and whether
\* its whole body arrived.
Entry == [status : Status \cup {"blank"}, whole : BOOLEAN]
Blank == [status |-> "blank", whole |-> FALSE]

Kinds == {"none", "list", "add", "proxy"}
Idle  == [pc |-> "idle", kind |-> "none", snap |-> <<>>, go |-> <<>>, out |-> <<>>]

Ids(nodes) == {nodes[i].id : i \in DOMAIN nodes}

\* The remote panels are up, with different tokens; some are registered, once each.  Which of
\* them, with which tokens and at which path makes no difference.
Init ==
    /\ LET token == CHOOSE f \in [Hosts -> Tokens] : Distinct(f)
       IN  remote = [h \in Hosts |-> [mode |-> "up", path |-> CHOOSE p \in Paths : TRUE,
                                    token |-> token[h]]]
    /\ \E n \in 0..MaxInitial :
           LET at == CHOOSE f \in [1..n -> Hosts] : Distinct(f)
               key(h) == [at |-> h, path |-> remote[h].path, token |-> remote[h].token]
           IN  mem = [i \in 1..n |-> [id |-> i, key |-> key(at[i])]]
    /\ disk = mem /\ nextId = Len(mem) + 1
    /\ req = [r \in Requests |-> Idle]
    /\ added = Ids(mem) /\ gone = {}
    /\ calls = 0 /\ turns = 0 /\ faults = 0

-----------------------------------------------------------------------------
(* The store. *)

Fault == faults < MaxFaults /\ faults' = faults + 1

FlushedUnchecked(nodes) == mem' = nodes /\ disk' \in {nodes, disk} /\ UNCHANGED faults

\* A change of the registry is flushed, or the flush fails and the change stays in memory.
Flushed(nodes) ==
    /\ mem' = nodes
    /\ \/ disk' = nodes /\ UNCHANGED faults
       \/ Fault /\ UNCHANGED disk

Without(nodes, i) ==
    [j \in 1..(Len(nodes) - 1) |-> IF j < i THEN nodes[j] ELSE nodes[j + 1]]

-----------------------------------------------------------------------------
(* The requests.  A handler begins with its first look at the store.  An id nobody has is *)
(* answered 404 and changes nothing; the others are those of the i-th node. *)

Begin(r) ==
    /\ req[r].pc = "idle"
    /\ calls < MaxCalls /\ calls' = calls + 1

\* The handler asks the nodes of snap, each in a goroutine (or itself, when it is one node).
Asks(r, kind, snap) ==
    req' = [req EXCEPT ![r] =
               [pc |-> "ask", kind |-> kind, snap |-> snap,
                go  |-> [i \in DOMAIN snap |-> Sent(snap[i])],
                out |-> [i \in DOMAIN snap |-> Blank]]]
Returns(r) == req' = [req EXCEPT ![r] = Idle]

\* handleNodesList: Nodes() copies the registry in the order of creation, which is the order
\* AddNode appends in.
List(r) ==
    /\ Begin(r) /\ Asks(r, "list", mem)
    /\ UNCHANGED <<mem, disk, remote, nextId, added, gone, turns, faults>>

\* handleNodeAdd: asks the node it was given before it registers it.
Add(r, k) ==
    /\ Begin(r) /\ Asks(r, "add", <<[id |-> 0, key |-> k]>>)
    /\ UNCHANGED <<mem, disk, remote, nextId, added, gone, turns, faults>>

\* handleNodeProxy: works on the copy of the node Node() returns.
Proxy(r, i) ==
    /\ Begin(r) /\ Asks(r, "proxy", <<mem[i]>>)
    /\ UNCHANGED <<mem, disk, remote, nextId, added, gone, turns, faults>>

\* handleNodeDelete, in one step: success when the flush got through, and "not found" after one
\* that failed.
Delete(r, i) ==
    /\ Begin(r) /\ UNCHANGED req
    /\ Flushed(Without(mem, i))
    /\ added' = added \ {mem[i].id}
    /\ gone' = IF UNCHANGED faults THEN gone \cup {mem[i].id} ELSE gone
    /\ UNCHANGED <<remote, nextId, turns>>

-----------------------------------------------------------------------------
(* nodeRequest, once per call: <<r, i>> is the call to the i-th node of r's snapshot. *)

Host(r, i) == remote[req[r].snap[i].key.at]
Asking(r, i, pc) == req[r].pc = "ask" /\ i \in DOMAIN req[r].go /\ req[r].go[i].pc = pc

\* What a panel that is up answers: 404 outside its base path, 401 for another token.
StatusOf(s, k) == IF s.path # k.path THEN "404" ELSE IF s.token # k.token THEN "401" ELSE "200"

FinishInOrder(r, i, status, whole) ==
    LET free == CHOOSE j \in DOMAIN req[r].out : req[r].out[j] = Blank
    IN  req' = [req EXCEPT ![r].go[i].pc = "done", ![r].go[i].status = status,
                           ![r].out[free] = [status |-> status, whole |-> whole]]

\* The call has ended: its result is put at its node's place in the answer.
Ended(q, i, status, whole) ==
    [q EXCEPT !.go[i]  = [pc |-> "done", status |-> status, seen |-> q.go[i].seen],
              !.out[i] = [status |-> status, whole |-> whole]]
Finish(r, i, status, whole) ==
    req' = [req EXCEPT ![r] = Ended(req[r], i, status, whole)]

\* Whether the handler reads the body: the list only behind a 200, adding a node never.
ReadsBody(r, status) == req[r].kind = "proxy" \/ (req[r].kind = "list" /\ status = "200")

Step(r) == UNCHANGED <<mem, disk, remote, nextId, added, gone, calls, turns, faults>>

Headed(q, i, status) ==
    [q EXCEPT !.go[i] = [pc |-> "head", status |-> status, seen |-> q.go[i].seen]]

\* The node answers: the status and the headers.
Responds(r, i) ==
    /\ Asking(r, i, "sent") /\ Host(r, i).mode = "up"
    /\ LET status == StatusOf(Host(r, i), req[r].snap[i].key)
       IN  IF ReadsBody(r, status)
           THEN req' = [req EXCEPT ![r] = Headed(req[r], i, status)]
           ELSE Finish(r, i, status, TRUE)
    /\ Step(r)

Body(r, i) ==
    /\ Asking(r, i, "head") /\ Host(r, i).mode = "up"
    /\ Finish(r, i, req[r].go[i].status, TRUE)
    /\ Step(r)

\* Nobody listens, or the connection breaks in the middle of the body.
Refused(r, i) ==
    /\ \E pc \in {"sent", "head"} : Asking(r, i, pc)
    /\ Host(r, i).mode = "down"
    /\ Finish(r, i, req[r].go[i].status, FALSE)
    /\ Step(r)

TimesOutBeforeHead(r, i) ==
    /\ Asking(r, i, "sent")
    /\ Host(r, i).mode = "silent"
    /\ Finish(r, i, req[r].go[i].status, FALSE)
    /\ Step(r)

\* The request's own timeout (6 s, 8 s, 20 s), or the client's (12 s), over the body too.
TimesOut(r, i) ==
    /\ \E pc \in {"sent", "head"} : Asking(r, i, pc)
    /\ Host(r, i).mode = "silent"
    /\ Finish(r, i, req[r].go[i].status, FALSE)
    /\ Step(r)

-----------------------------------------------------------------------------
(* The handlers go on. *)

ListedEarly(r) ==
    /\ req[r].pc = "ask" /\ req[r].kind = "list"
    /\ req[r].go # <<>> => \E i \in DOMAIN req[r].go : req[r].go[i].pc = "done"
    /\ req' = [req EXCEPT ![r].pc = "answer"]
    /\ Step(r)

\* wg.Wait: then the answer is written.
Listed(r) ==
    /\ req[r].pc = "ask" /\ req[r].kind = "list"
    /\ \A i \in DOMAIN req[r].go : req[r].go[i].pc = "done"
    /\ req' = [req EXCEPT ![r].pc = "answer"]
    /\ Step(r)

Asked(r, kind) == req[r].kind = kind /\ Asking(r, 1, "done")
Got(r) == req[r].out[1].status

\* 502 for a node that did not answer; else its status and its body as far as it came: one that
\* breaks off is passed on as if it were whole.
Proxied(r) ==
    /\ Asked(r, "proxy")
    /\ Returns(r)
    /\ Step(r)

Rejected(r) ==
    /\ Asked(r, "add") /\ Got(r) # "200"
    /\ Returns(r)
    /\ Step(r)

AcceptedCounting(r) ==
    /\ Asked(r, "add") /\ Got(r) = "200"
    /\ Flushed(Append(mem, [req[r].snap[1] EXCEPT !.id = Len(mem) + 1]))
    /\ nextId' = nextId + 1
    /\ added' = IF UNCHANGED faults THEN added \cup {nextId} ELSE added
    /\ Returns(r)
    /\ UNCHANGED <<remote, gone, calls, turns>>

\* AddNode: the node that accepted the token a moment ago is appended; the answer is an error
\* when the flush fails.
Accepted(r) ==
    /\ Asked(r, "add") /\ Got(r) = "200"
    /\ Flushed(Append(mem, [req[r].snap[1] EXCEPT !.id = nextId]))
    /\ nextId' = nextId + 1
    /\ added' = IF UNCHANGED faults THEN added \cup {nextId} ELSE added
    /\ Returns(r)
    /\ UNCHANGED <<remote, gone, calls, turns>>

\* The list has been written.
Return(r) ==
    /\ req[r].pc = "answer"
    /\ Returns(r)
    /\ Step(r)

-----------------------------------------------------------------------------
(* The environment. *)

\* The calls of a handler to host h see its new state.
Saw(q, h, s) ==
    [i \in DOMAIN q.go |-> IF q.snap[i].key.at = h THEN [q.go[i] EXCEPT !.seen = @ \cup {s}]
                                                   ELSE q.go[i]]

\* A remote panel stops or hangs, or is started again, perhaps at another path or with another
\* token.
Turn(h, s) ==
    /\ s # remote[h]
    /\ s.mode # "up" => remote[h].mode = "up" /\ s = [remote[h] EXCEPT !.mode = s.mode]
    /\ turns < MaxTurns
    /\ turns' = turns + 1
    /\ remote' = [remote EXCEPT ![h] = s]
    /\ req' = [r \in Requests |-> [req[r] EXCEPT !.go = Saw(req[r], h, s)]]
    /\ UNCHANGED <<mem, disk, nextId, added, gone, calls, faults>>

\* The master's panel is killed, and started again by systemd: it loads store.json.
Restart ==
    /\ Fault
    /\ mem' = disk /\ req' = [r \in Requests |-> Idle]
    /\ UNCHANGED <<disk, remote, nextId, added, gone, calls, turns>>

-----------------------------------------------------------------------------
Call(r)   == \E i \in DOMAIN req[r].go :
                 Responds(r, i) \/ Body(r, i) \/ Refused(r, i) \/ TimesOut(r, i)
GoOn(r)   == Listed(r) \/ Proxied(r) \/ Rejected(r) \/ Accepted(r) \/ Return(r)
Start(r)  == \/ List(r)
             \/ \E k \in Key : Add(r, k)
             \/ \E i \in DOMAIN mem : Proxy(r, i) \/ Delete(r, i)

Next ==
    \/ \E r \in Requests : Start(r) \/ Call(r) \/ GoOn(r)
    \/ \E h \in Hosts, s \in Remote : Turn(h, s)
    \/ Restart

Spec == Init /\ [][Next]_vars

\* The scheduler runs every goroutine that can go on, and timers fire.
FairSpec == Spec /\ \A r \in Requests : WF_vars(Call(r) \/ GoOn(r))

-----------------------------------------------------------------------------
(* Properties. *)

\* The variables have their types; an answer has a place for every node that is asked, and no
\* two registered nodes have one id.
NodesTypeOK ==
    /\ mem \in Seq(Node) /\ disk \in Seq(Node)
    /\ \A i, j \in DOMAIN mem : mem[i].id = mem[j].id => i = j
    /\ remote \in [Hosts -> Remote]
    /\ \A r \in Requests :
           /\ req[r].pc \in {"idle", "ask", "answer"} /\ req[r].kind \in Kinds
           /\ req[r].snap \in Seq(Node)
           /\ req[r].go \in Seq(Calling) /\ Len(req[r].go) = Len(req[r].snap)
           /\ req[r].out \in Seq(Entry) /\ Len(req[r].out) = Len(req[r].snap)
    /\ nextId \in Nat \ {0} /\ added \subseteq 1..nextId /\ gone \subseteq 1..nextId
    /\ calls \in 0..MaxCalls /\ turns \in 0..MaxTurns /\ faults \in 0..MaxFaults

\* What a node showed while it was asked explains an entry.
Explained(entry, k, seen) ==
    /\ entry.status # "blank"
    /\ entry.status # "none" => \E s \in seen : s.mode = "up" /\ StatusOf(s, k) = entry.status
    /\ ~entry.whole => \E s \in seen : s.mode # "up"

\* Every entry of an answer is about its own node: it says online, rejected or moved only if
\* that very node was so while the request ran, and unreachable only if that node failed,
\* whatever the other nodes, other requests and the registry did; and nothing is answered
\* before every node has its entry.
EntriesAreTheirNodes ==
    \A r \in Requests : \A i \in DOMAIN req[r].out :
        req[r].pc = "answer" \/ req[r].go[i].pc = "done" =>
            Explained(req[r].out[i], req[r].snap[i].key, req[r].go[i].seen)

\* A node whose add was acknowledged stays registered and one whose deletion was acknowledged
\* stays gone, in memory and on disk, through failed flushes and restarts.
RegistryIsDurable ==
    /\ added \subseteq Ids(mem) \cap Ids(disk)
    /\ gone \cap (Ids(mem) \cup Ids(disk)) = {}

\* Every request is answered, however many of the nodes it asks hang for ever.
RequestsAreAnswered == \A r \in Requests : (req[r].pc # "idle") ~> (req[r].pc = "idle")
=============================================================================
