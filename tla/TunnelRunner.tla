--------------------------- MODULE TunnelRunner ---------------------------
(***************************************************************************)
(* One tunnel process (`run-tunnel --id X`): a pool of N maintainers that  *)
(* each keep one SSH connection, the listeners, the handlers of accepted   *)
(* connections, and Run, which starts and ends them.  Every atomic Load or *)
(* Store of worker.client and worker.healthy is a step of its own.  The    *)
(* process is restarted by its systemd unit whenever it ends.              *)
(***************************************************************************)
EXTENDS Integers, FiniteSets

CONSTANTS
    N,          \* Tunnel.Workers, at least 1 (NewRunner)
    Conns,      \* names for ssh.Client values; a name nothing refers to is reused
    NoConn,     \* nil
    Listeners,  \* number of Tunnel.Forwards, at least 1 (NewRunner)
    Handlers,   \* slots for `handle` goroutines
    MaxMiss,    \* ServerAliveCountMax
    BackoffCap, \* 30 s in the code
    MaxFaults   \* bound: faults the environment may cause in a behaviour

ASSUME NAssumption == N \in Nat \ {0} /\ Listeners \in Nat \ {0}
ASSUME ConnAssumption == NoConn \notin Conns
ASSUME LimitAssumption ==
    /\ MaxMiss \in Nat \ {0}
    /\ BackoffCap \in Nat \ {0, 1}
    /\ MaxFaults \in Nat

Workers == 0 .. N-1

VARIABLES
    rpc,        \* where Run is
    cancelled,  \* ctx.Err() # nil
    opened,     \* listeners that are accepting
    drained,    \* workers whose client Run has closed on its way out
    worker,     \* by index: the fields of a worker and the locals of its maintainer
    conn,       \* transport of an ssh.Client: "up", "silent" (peer stopped answering), "down"
    rr,         \* each listener's counter, used modulo N only
    handler,    \* the goroutines of accepted connections
    faults      \* faults so far

runVars == <<rpc, cancelled, opened, drained>>
vars    == <<runVars, worker, conn, rr, handler, faults>>

RunPcs  == {"exited", "listen", "serve", "drain", "flush"}
WorkPcs == {"dial", "stalled", "backoff", "storeClient", "storeHealthy", "select",
            "ping", "clearHealthy", "clearClient", "close", "done"}
HandPcs == {"idle", "check", "load", "refused", "dial", "open"}

\* A worker whose maintainer does not run, or has not dialled yet: pc is where maintainWorker
\* and its keepalive are, held the local variable `client`.
Resting == [pc |-> "done", held |-> NoConn, client |-> NoConn, healthy |-> FALSE,
            backoff |-> 1, misses |-> 0]

\* A slot without a handler: start is its rr, i the loop index of pickWorker, client what
\* pickWorker returned; stable (auxiliary) is the set of workers that have been healthy
\* without a break since pickWorker began.
Idle == [pc |-> "idle", start |-> 0, i |-> 0, client |-> NoConn, stable |-> {}]

-----------------------------------------------------------------------------
(* The environment, and what all steps of a goroutine have in common. *)

Alive == rpc # "exited"

Fault == faults < MaxFaults /\ faults' = faults + 1

\* A name no goroutine refers to: the client a dial returns next.
Fresh(c) == /\ conn[c] = "down"
            /\ \A w \in Workers : c \notin {worker[w].held, worker[w].client}
            /\ \A h \in Handlers : handler[h].client # c

\* ssh.Client.Close: ends the transport, a no-op when it has ended.
CloseConn(c) == conn' = [x \in Conns |-> IF x = c THEN "down" ELSE conn[x]]

\* The maintainer of w goes on from p.
Goes(w, p, next) ==
    /\ Alive /\ worker[w].pc = p
    /\ worker' = [worker EXCEPT ![w] = next]
    /\ UNCHANGED <<runVars, rr>>

\* It touches nothing but its worker.
Step(w, p, next) == Goes(w, p, next) /\ UNCHANGED <<conn, handler, faults>>

\* A handler goes on from p.
Serve(h, p, next) ==
    /\ Alive /\ handler[h].pc = p
    /\ handler' = [handler EXCEPT ![h] = next]
    /\ UNCHANGED <<runVars, worker, conn, faults>>

\* No process: no goroutine, no open socket.
Init ==
    /\ rpc = "exited" /\ cancelled = FALSE /\ opened = 0 /\ drained = 0
    /\ worker = [w \in Workers |-> Resting] /\ handler = [h \in Handlers |-> Idle]
    /\ conn = [c \in Conns |-> "down"] /\ rr = [l \in 1..Listeners |-> 0]
    /\ faults = 0

\* The process ends: every goroutine and socket goes with it.
Off ==
    /\ rpc' = "exited" /\ cancelled' = FALSE /\ opened' = 0 /\ drained' = 0
    /\ worker' = [w \in Workers |-> Resting] /\ handler' = [h \in Handlers |-> Idle]
    /\ conn' = [c \in Conns |-> "down"] /\ rr' = [l \in 1..Listeners |-> 0]

-----------------------------------------------------------------------------
(* Run, and the process around it. *)

\* systemd starts the process; Run spawns the maintainers at once.
Spawn ==
    /\ rpc = "exited"
    /\ rpc' = "listen"
    /\ worker' = [w \in Workers |-> [Resting EXCEPT !.pc = "dial"]]
    /\ UNCHANGED <<cancelled, opened, drained, conn, rr, handler, faults>>

\* One startListener that succeeds; connections are accepted from here on.
Listen ==
    /\ rpc = "listen"
    /\ opened' = opened + 1
    /\ rpc' = IF opened + 1 = Listeners THEN "serve" ELSE "listen"
    /\ UNCHANGED <<cancelled, drained, worker, conn, rr, handler, faults>>

\* A port is taken: Run closes the earlier listeners, returns the error, and main exits.
ListenFails == rpc = "listen" /\ Fault /\ Off

\* SIGTERM or SIGINT.
Cancel ==
    /\ Alive /\ ~cancelled /\ Fault
    /\ cancelled' = TRUE
    /\ UNCHANGED <<rpc, opened, drained, worker, conn, rr, handler>>

\* <-ctx.Done(), then every listener is closed.
SeeCancelled ==
    /\ rpc = "serve" /\ cancelled
    /\ rpc' = "drain" /\ opened' = 0
    /\ UNCHANGED <<cancelled, drained, worker, conn, rr, handler, faults>>

\* One turn of the loop that closes each worker's published client.
DrainNext ==
    /\ rpc = "drain"
    /\ drained' = drained + 1
    /\ rpc' = IF drained + 1 = N THEN "flush" ELSE "drain"
    /\ CloseConn(worker[drained].client)
    /\ UNCHANGED <<cancelled, opened, worker, rr, handler, faults>>

DrainWaiting == DrainNext /\ worker[drained].pc = "done"
Drain == DrainNext

\* The last flushStat, and main returns.
Exit == rpc = "flush" /\ Off /\ UNCHANGED faults

\* The process is killed.
Crash == Alive /\ Fault /\ Off

-----------------------------------------------------------------------------
(* maintainWorker(w) and keepalive. *)

\* `for ctx.Err() == nil`: another dial, or the end of the goroutine.
LoopTopUnchecked == "dial"
LoopTop == IF cancelled THEN "done" ELSE "dial"

NextBackoffUncapped(b) == 2 * b
NextBackoff(b) == IF b < BackoffCap THEN 2 * b ELSE b

DialOK(w) == \E c \in Conns :
    /\ Fresh(c)
    /\ Goes(w, "dial", [worker[w] EXCEPT !.pc = "storeClient", !.held = c, !.backoff = 1])
    /\ conn' = [conn EXCEPT ![c] = "up"]
    /\ UNCHANGED <<handler, faults>>

DialFails(w) ==
    /\ Goes(w, "dial", [worker[w] EXCEPT !.pc = "backoff"]) /\ Fault
    /\ UNCHANGED <<conn, handler>>

\* The peer accepts the TCP connection and says nothing: the handshake has no deadline.
DialStalls(w) ==
    /\ Goes(w, "dial", [worker[w] EXCEPT !.pc = "stalled"]) /\ Fault
    /\ UNCHANGED <<conn, handler>>

StallEnds(w) == Step(w, "stalled", [worker[w] EXCEPT !.pc = "backoff"])

\* The timer fires.
BackoffTimer(w) ==
    Step(w, "backoff", [worker[w] EXCEPT !.pc = LoopTop, !.backoff = NextBackoff(@)])

\* ctx.Done while waiting.
BackoffCancelled(w) == cancelled /\ Step(w, "backoff", [worker[w] EXCEPT !.pc = "done"])

StoreClient(w) ==
    Step(w, "storeClient", [worker[w] EXCEPT !.pc = "storeHealthy", !.client = worker[w].held])

StoreHealthy(w) ==
    Step(w, "storeHealthy", [worker[w] EXCEPT !.pc = "select", !.healthy = TRUE, !.misses = 0])

\* keepalive's select: the ticker.
Tick(w) == Step(w, "select", [worker[w] EXCEPT !.pc = "ping"])

\* keepalive's select: ctx.Done, or client.Wait has returned.
SelectEnds(w) ==
    /\ Step(w, "select", [worker[w] EXCEPT !.pc = "clearHealthy"])
    /\ cancelled \/ conn[worker[w].held] = "down"

\* One more miss: keepalive gives up, or goes on.
Missed(w) ==
    Step(w, "ping", [worker[w] EXCEPT
        !.pc = IF worker[w].misses + 1 >= MaxMiss THEN "clearHealthy" ELSE "select",
        !.misses = @ + 1])

PingAnsweredLate(w) == Missed(w) /\ conn[worker[w].held] = "up"

\* SendRequest returns the peer's reply.
PingAnswered(w) ==
    /\ Step(w, "ping", [worker[w] EXCEPT !.pc = "select", !.misses = 0])
    /\ conn[worker[w].held] = "up"

PingErrorIgnored(w) ==
    /\ Step(w, "ping", [worker[w] EXCEPT !.pc = "select"])
    /\ conn[worker[w].held] = "down"

\* SendRequest returns an error, which it does only once the transport has ended.
PingFails(w) == Missed(w) /\ conn[worker[w].held] = "down"

ClearClientFirst(w) ==
    Step(w, "clearHealthy", [worker[w] EXCEPT !.pc = "clearClient", !.client = NoConn])

ClearHealthy(w) ==
    /\ Goes(w, "clearHealthy", [worker[w] EXCEPT !.pc = "clearClient", !.healthy = FALSE])
    /\ handler' = [h \in Handlers |-> [handler[h] EXCEPT !.stable = @ \ {w}]]
    /\ UNCHANGED <<conn, faults>>

ClearClient(w) ==
    Step(w, "clearClient", [worker[w] EXCEPT !.pc = "close", !.client = NoConn])

ForgetToClose(w) == Step(w, "close", [worker[w] EXCEPT !.pc = LoopTop, !.held = NoConn])

\* client.Close(), and back to the top of the loop.
Close(w) ==
    /\ Goes(w, "close", [worker[w] EXCEPT !.pc = LoopTop, !.held = NoConn])
    /\ CloseConn(worker[w].held)
    /\ UNCHANGED <<handler, faults>>

Maintain(w) ==
    \/ DialOK(w) \/ DialFails(w) \/ BackoffTimer(w) \/ BackoffCancelled(w)
    \/ StoreClient(w) \/ StoreHealthy(w) \/ Tick(w) \/ SelectEnds(w)
    \/ PingAnswered(w) \/ PingFails(w) \/ ClearHealthy(w) \/ ClearClient(w) \/ Close(w)

-----------------------------------------------------------------------------
(* The accept loop of a listener, and handle. *)

Candidate(h) == worker[(handler[h].start + handler[h].i) % N]

Accept(l, h) ==
    /\ l <= opened
    /\ rr' = [rr EXCEPT ![l] = (@ + 1) % N]
    /\ Serve(h, "idle", [Idle EXCEPT !.pc = "check", !.start = (rr[l] + 1) % N,
                                     !.stable = {w \in Workers : worker[w].healthy}])

GiveUpOneEarly(h) ==
    IF handler[h].i + 2 >= N THEN [handler[h] EXCEPT !.pc = "refused"]
                             ELSE [handler[h] EXCEPT !.pc = "check", !.i = @ + 1]

ScanPastTheEnd(h) ==
    IF handler[h].i = N THEN [handler[h] EXCEPT !.pc = "refused"]
                        ELSE [handler[h] EXCEPT !.pc = "check", !.i = @ + 1]

\* pickWorker goes on to the next worker, or has seen them all.
NextCandidate(h) ==
    IF handler[h].i + 1 = N THEN [handler[h] EXCEPT !.pc = "refused"]
                            ELSE [handler[h] EXCEPT !.pc = "check", !.i = @ + 1]

Check(h) ==
    /\ Serve(h, "check", IF Candidate(h).healthy THEN [handler[h] EXCEPT !.pc = "load"]
                                                 ELSE NextCandidate(h))
    /\ UNCHANGED rr

Load(h) ==
    /\ Serve(h, "load",
             IF Candidate(h).client # NoConn
                THEN [handler[h] EXCEPT !.pc = "dial", !.client = Candidate(h).client]
                ELSE NextCandidate(h))
    /\ UNCHANGED rr

\* The channel opens on the picked client; it may have been closed since.
OpenChannel(h) ==
    /\ Serve(h, "dial", [handler[h] EXCEPT !.pc = "open"]) /\ UNCHANGED rr
    /\ conn[handler[h].client] = "up"

\* handle returns, which closes the local connection: without a worker, because the peer
\* rejected the channel or the transport has ended, or when both copies have ended.
Refuse(h)       == Serve(h, "refused", Idle) /\ UNCHANGED rr
ChannelFails(h) == Serve(h, "dial", Idle) /\ UNCHANGED rr /\ conn[handler[h].client] # "silent"
CopyEnds(h)     == Serve(h, "open", Idle) /\ UNCHANGED rr

Handle(h) == Check(h) \/ Load(h) \/ Refuse(h) \/ OpenChannel(h) \/ ChannelFails(h)

-----------------------------------------------------------------------------
(* The network and the peer. *)

Becomes(c, from, to) ==
    /\ conn[c] \in from
    /\ conn' = [conn EXCEPT ![c] = to]
    /\ UNCHANGED <<runVars, worker, rr, handler>>

Drop(c) == Becomes(c, {"up", "silent"}, "down") /\ Fault

\* The peer stops answering, and the TCP connection stays.
Silence(c) == Becomes(c, {"up"}, "silent") /\ Fault

Resume(c) == Becomes(c, {"silent"}, "up") /\ UNCHANGED faults

\* The operating system gives the transport up.
SilenceEnds(c) == Becomes(c, {"silent"}, "down") /\ UNCHANGED faults

-----------------------------------------------------------------------------
Run == Listen \/ SeeCancelled \/ Drain \/ Exit

Next ==
    \/ Spawn \/ Run \/ ListenFails \/ Cancel \/ Crash
    \/ \E w \in Workers : Maintain(w) \/ DialStalls(w) \/ StallEnds(w)
    \/ \E h \in Handlers : Handle(h) \/ CopyEnds(h)
    \/ \E l \in 1..Listeners, h \in Handlers : Accept(l, h)
    \/ \E c \in Conns : Drop(c) \/ Silence(c) \/ Resume(c) \/ SilenceEnds(c)

Spec == Init /\ [][Next]_vars

\* The Go scheduler runs every goroutine that can run, and systemd restarts the process.
\* Nothing obliges the network, the peer, the operator or a client of the tunnel.
FairSpec ==
    /\ Spec
    /\ WF_vars(Spawn) /\ WF_vars(Run)
    /\ \A w \in Workers : WF_vars(Maintain(w))
    /\ \A h \in Handlers : WF_vars(Handle(h))

-----------------------------------------------------------------------------
(* Properties. *)

Worker == [pc : WorkPcs, held : Conns \cup {NoConn}, client : Conns \cup {NoConn},
           healthy : BOOLEAN, backoff : Nat, misses : Nat]
Handler == [pc : HandPcs, start : Workers, i : Workers, client : Conns \cup {NoConn},
            stable : SUBSET Workers]

\* The variables have their types.
TypeOK ==
    /\ rpc \in RunPcs /\ cancelled \in BOOLEAN /\ opened \in 0..Listeners /\ drained \in 0..N
    /\ worker \in [Workers -> Worker] /\ handler \in [Handlers -> Handler]
    /\ conn \in [Conns -> {"up", "silent", "down"}] /\ rr \in [1..Listeners -> Workers]
    /\ faults \in 0..MaxFaults

\* A worker marked healthy always has a client to hand out, the published client is the one
\* its maintainer holds, and no two workers hand out the same one: the order of the four
\* stores in maintainWorker, as any other goroutine sees it.
PublishedClientIsHeld ==
    /\ \A w \in Workers : worker[w].healthy => worker[w].client # NoConn
    /\ \A w \in Workers : worker[w].client \in {NoConn, worker[w].held}
    /\ \A v, w \in Workers :
          v # w /\ worker[v].client # NoConn => worker[v].client # worker[w].client

\* No SSH connection outlives its maintainer: one that has not ended is held by a maintainer
\* that will still close it, through every shutdown and reconnection.
NoLeakedConnection ==
    \A c \in Conns : conn[c] # "down" =>
        \E w \in Workers : worker[w].held = c /\ worker[w].pc # "done"

\* A connection is refused for want of a worker only if no worker was healthy during the
\* whole of pickWorker, whatever the maintainers did between its loads.
RefusedOnlyIfNoneStable ==
    \A h \in Handlers : handler[h].pc = "refused" => handler[h].stable = {}

\* The wait before the next dial stays below twice the cap and starts from one second
\* again after each connection.
BackoffBounded ==
    \A w \in Workers : /\ worker[w].backoff < 2 * BackoffCap
                       /\ worker[w].held # NoConn => worker[w].backoff = 1

\* The program itself never ends a connection whose peer answers, except when it shuts down:
\* keepalive counts only failures, and consecutive ones.
LiveConnectionsAreKept ==
    [][\A c \in Conns : conn[c] = "up" /\ conn'[c] = "down"
                          => cancelled \/ faults' > faults]_vars

\* Once the process is told to stop, no maintainer begins another dial.
NoDialAfterCancel ==
    [][\A w \in Workers : cancelled /\ cancelled' /\ worker'[w].pc = "dial"
                             => worker[w].pc = "dial"]_vars

\* A process told to stop ends, whatever its peers and its maintainers are waiting for.
\* (Run starts its listeners to the end before it looks at ctx.)
ShutdownCompletes == cancelled ~> rpc = "exited"

\* No peer stays silent for ever without the operating system noticing.
SilenceIsNoticed ==
    /\ \A c \in Conns : []<>(conn[c] # "silent")
    /\ \A w \in Workers : []<>(worker[w].pc # "stalled")

\* When the faults are over every worker is offered with a connection that works, and stays
\* so, provided that silent peers are noticed.
PoolRecovers ==
    SilenceIsNoticed =>
        <>[](/\ rpc = "serve"
             /\ \A w \in Workers : worker[w].healthy /\ conn[worker[w].client] = "up")

\* runner.go:149: keepalive "returns when the connection fails".  A peer that no longer
\* answers is given up after ServerAliveCountMax intervals, or answers again.
KeepaliveDetectsSilence ==
    \A w \in Workers : worker[w].pc = "ping" ~> (worker[w].pc # "ping")
=============================================================================
