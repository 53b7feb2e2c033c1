------------------------ MODULE TunnelRunnerProofs ------------------------
(* Safety of a tunnel process, for any number of workers, connections,     *)
(* listeners and handlers.                                                 *)
EXTENDS TunnelRunner, TLAPS

\* What Run's place says about the rest of it.
RunInv ==
    /\ rpc = "exited" => ~cancelled /\ opened = 0 /\ \A w \in Workers : worker[w].pc = "done"
    /\ rpc = "listen" => opened < Listeners
    /\ rpc \notin {"drain", "flush"} => drained = 0
    /\ rpc = "drain" => drained < N
    /\ rpc \in {"drain", "flush"} => cancelled

\* What a maintainer's place says about its connection and what it has published.
WorkerInv == \A w \in Workers :
    /\ worker[w].held = NoConn <=> worker[w].pc \in {"dial", "stalled", "backoff", "done"}
    /\ worker[w].client =
          IF worker[w].pc \in {"storeHealthy", "select", "ping", "clearHealthy", "clearClient"}
             THEN worker[w].held ELSE NoConn
    /\ worker[w].healthy <=> worker[w].pc \in {"select", "ping", "clearHealthy"}
    /\ worker[w].backoff < 2 * BackoffCap
    /\ worker[w].held # NoConn => worker[w].backoff = 1

\* Each connection that has not ended has exactly one maintainer, and one that is about to be
\* closed has ended unless the process is told to stop.
ConnInv ==
    /\ \A v, w \in Workers :
          v # w /\ worker[v].held # NoConn => worker[v].held # worker[w].held
    /\ \A c \in Conns : conn[c] # "down" => \E w \in Workers : worker[w].held = c
    /\ \A w \in Workers : worker[w].pc \in {"clearHealthy", "clearClient", "close"} =>
          cancelled \/ conn[worker[w].held] = "down"

Inv == TypeOK /\ RunInv /\ WorkerInv /\ ConnInv

-----------------------------------------------------------------------------
(* The steps of Run. *)

\* Worker 0 exists, and workers are counted by naturals.
LEMMA WorkerZero == 0 \in Workers /\ Workers \subseteq Nat /\ N \in Nat \ {0}
BY NAssumption DEF Workers

\* The values of an idle worker and of an idle handler have their types.
LEMMA IdleTypes == Resting \in Worker /\ Idle \in Handler
BY WorkerZero DEF Resting, Worker, WorkPcs, Idle, Handler, HandPcs

\* The process starts from nothing.
LEMMA InitInv == Init => Inv
<1> SUFFICES ASSUME Init PROVE Inv
  OBVIOUS
<1> USE DEF Init
<1>1. cancelled \in BOOLEAN
  BY Zenon
<1>2. TypeOK
  BY <1>1, IdleTypes, WorkerZero, NAssumption, LimitAssumption DEF TypeOK, RunPcs
<1>3. RunInv /\ WorkerInv /\ ConnInv
  BY LimitAssumption DEF RunInv, WorkerInv, ConnInv, Resting
<1> QED BY <1>2, <1>3 DEF Inv

\* A process that ends leaves nothing.
LEMMA OffInv == ASSUME Inv, Off, faults' \in 0..MaxFaults PROVE Inv'
<1> USE DEF Off
<1>1. cancelled' \in BOOLEAN
  BY Zenon
<1>2. TypeOK'
  BY <1>1, IdleTypes, WorkerZero, NAssumption DEF TypeOK, RunPcs
<1>3. RunInv' /\ WorkerInv' /\ ConnInv'
  BY LimitAssumption DEF RunInv, WorkerInv, ConnInv, Resting
<1> QED BY <1>2, <1>3 DEF Inv

\* The steps of Run and of the process keep the invariant.
LEMMA RunStep == ASSUME Inv, Spawn \/ Run \/ ListenFails \/ Cancel \/ Crash PROVE Inv'
<1> USE DEF Inv
<1>1. CASE Spawn
  <2> USE <1>1 DEF Spawn
  <2>1. TypeOK'
    BY IdleTypes DEF TypeOK, RunPcs, Worker, WorkPcs
  <2>2. RunInv' /\ WorkerInv' /\ ConnInv'
    BY NAssumption, LimitAssumption DEF RunInv, WorkerInv, ConnInv, Resting
  <2> QED BY <2>1, <2>2
<1>2. CASE Listen \/ SeeCancelled \/ Cancel
  <2> USE <1>2 DEF Listen, SeeCancelled, Cancel
  <2>1. cancelled' \in BOOLEAN
    BY Zenon DEF TypeOK
  <2>2. TypeOK'
    BY <2>1, NAssumption, LimitAssumption DEF TypeOK, RunInv, RunPcs, Fault
  <2>3. RunInv' /\ WorkerInv' /\ ConnInv'
    BY NAssumption DEF TypeOK, RunInv, WorkerInv, ConnInv, Alive
  <2> QED BY <2>2, <2>3
<1>3. CASE Drain
  <2> USE <1>3 DEF Drain, DrainNext, CloseConn
  <2>1. TypeOK'
    BY NAssumption DEF TypeOK, RunPcs, RunInv
  <2>2. RunInv' /\ WorkerInv' /\ ConnInv'
    BY NAssumption DEF TypeOK, RunInv, WorkerInv, ConnInv
  <2> QED BY <2>1, <2>2
<1>4. CASE Exit \/ ListenFails \/ Crash
  BY <1>4, OffInv, LimitAssumption DEF TypeOK, Exit, ListenFails, Crash, Fault
<1> QED BY <1>1, <1>2, <1>3, <1>4 DEF Run

-----------------------------------------------------------------------------
(* The steps of a maintainer. *)

\* What the value a maintainer gives to its worker must satisfy for the invariant to hold
\* afterwards, if the connection it holds stays the same.
Fits(w) ==
    LET next == worker'[w] IN
    /\ next \in Worker
    /\ next.held = worker[w].held
    /\ next.held = NoConn <=> next.pc \in {"dial", "stalled", "backoff", "done"}
    /\ next.client =
          IF next.pc \in {"storeHealthy", "select", "ping", "clearHealthy", "clearClient"}
             THEN next.held ELSE NoConn
    /\ next.healthy <=> next.pc \in {"select", "ping", "clearHealthy"}
    /\ next.backoff < 2 * BackoffCap
    /\ next.held # NoConn => next.backoff = 1
    /\ next.pc \in {"clearHealthy", "clearClient", "close"} =>
          cancelled \/ conn[next.held] = "down"

\* A step of a maintainer that leaves the connections alone keeps the invariant if its
\* worker's new value fits.
LEMMA FittingStep ==
    ASSUME Inv, NEW w \in Workers, Alive, worker' = [worker EXCEPT ![w] = worker'[w]], Fits(w),
           UNCHANGED <<runVars, rr, conn>>,
           handler' \in [Handlers -> Handler], faults' \in 0..MaxFaults
    PROVE  Inv'
<1> USE DEF Inv, runVars, Fits
<1>1. TypeOK'
  BY DEF TypeOK
<1>2. RunInv'
  BY DEF RunInv, Alive, TypeOK
<1>3. WorkerInv'
  BY DEF WorkerInv, TypeOK
<1>4. ConnInv'
  BY DEF ConnInv, TypeOK
<1> QED BY <1>1, <1>2, <1>3, <1>4

\* The steps of a maintainer keep the invariant.
LEMMA MaintainStep ==
    ASSUME Inv, NEW w \in Workers, Maintain(w) \/ DialStalls(w) \/ StallEnds(w)
    PROVE  Inv'
<1> USE DEF Inv
<1>0. worker \in [Workers -> Worker] /\ worker[w] \in Worker
  BY DEF TypeOK
<1>1. CASE DialOK(w)
  <2> PICK c \in Conns : DialOK(w)!(c)
    BY <1>1 DEF DialOK
  <2> USE DEF Goes, runVars
  <2>1. TypeOK'
    BY <1>0 DEF TypeOK, Worker, WorkPcs
  <2>2. worker' = [worker EXCEPT ![w] = [worker[w] EXCEPT !.pc = "storeClient", !.held = c,
                                                       !.backoff = 1]]
    OBVIOUS
  <2>3. RunInv' /\ WorkerInv'
    BY <2>2, ConnAssumption, LimitAssumption DEF RunInv, WorkerInv, TypeOK, Worker, Alive
  <2>4. ConnInv'
    BY <2>2, ConnAssumption DEF ConnInv, WorkerInv, TypeOK, Worker, Fresh
  <2> QED BY <2>1, <2>3, <2>4
<1>2. CASE \/ DialFails(w) \/ DialStalls(w) \/ StallEnds(w) \/ BackoffTimer(w)
           \/ BackoffCancelled(w) \/ StoreClient(w) \/ StoreHealthy(w) \/ Tick(w)
           \/ SelectEnds(w) \/ PingAnswered(w) \/ PingFails(w) \/ ClearHealthy(w)
           \/ ClearClient(w)
  <2>1. /\ Alive /\ UNCHANGED <<runVars, rr, conn>>
        /\ worker' = [worker EXCEPT ![w] = worker'[w]]
        /\ UNCHANGED faults \/ Fault
        /\ handler' = [h \in Handlers |-> [handler[h] EXCEPT !.stable = @ \ {w}]]
           \/ UNCHANGED handler
    BY <1>0, <1>2
       DEF DialFails, DialStalls, StallEnds, BackoffTimer, BackoffCancelled, StoreClient,
           StoreHealthy, Tick, SelectEnds, PingAnswered, PingFails, Missed, ClearHealthy,
           ClearClient, Step, Goes
  <2>2. faults' \in 0..MaxFaults
    BY <2>1, LimitAssumption DEF TypeOK, Fault
  <2>3. handler' \in [Handlers -> Handler]
    <3>1. ASSUME NEW h \in Handlers
          PROVE  [handler[h] EXCEPT !.stable = @ \ {w}] \in Handler
      <4>1. handler[h] \in Handler
        BY DEF TypeOK
      <4> QED BY <4>1 DEF Handler
    <3> QED BY <2>1, <3>1 DEF TypeOK
  <2>4. Fits(w)
    <3> DEFINE next == worker'[w]
    <3> USE <1>0 DEF Step, Goes
    <3>1. CASE DialFails(w) \/ DialStalls(w) \/ StallEnds(w) \/ BackoffCancelled(w)
      <4>1. \E p \in {"backoff", "stalled", "done"} : next = [worker[w] EXCEPT !.pc = p]
        BY <3>1 DEF DialFails, DialStalls, StallEnds, BackoffCancelled
      <4>2. worker[w].pc \in {"dial", "stalled", "backoff"}
        BY <3>1 DEF DialFails, DialStalls, StallEnds, BackoffCancelled
      <4> QED BY <4>1, <4>2 DEF Fits, Worker, WorkPcs, WorkerInv
    <3>2. CASE BackoffTimer(w)
      <4>1. \E p \in {"done", "dial"} :
               next = [worker[w] EXCEPT !.pc = p, !.backoff = NextBackoff(worker[w].backoff)]
        BY <3>2 DEF BackoffTimer, LoopTop
      <4>2. worker[w].pc = "backoff"
        BY <3>2 DEF BackoffTimer
      <4>3. /\ NextBackoff(worker[w].backoff) \in Nat
            /\ NextBackoff(worker[w].backoff) < 2 * BackoffCap
        BY LimitAssumption DEF NextBackoff, Worker, WorkerInv
      <4> HIDE DEF NextBackoff
      <4> QED BY <4>1, <4>2, <4>3 DEF Fits, Worker, WorkPcs, WorkerInv
    <3>3. CASE StoreClient(w)
      <4>1. next = [worker[w] EXCEPT !.pc = "storeHealthy", !.client = worker[w].held]
        BY <3>3 DEF StoreClient
      <4> QED BY <3>3, <4>1 DEF StoreClient, Fits, Worker, WorkPcs, WorkerInv
    <3>4. CASE StoreHealthy(w)
      <4>1. next = [worker[w] EXCEPT !.pc = "select", !.healthy = TRUE, !.misses = 0]
        BY <3>4 DEF StoreHealthy
      <4> QED BY <3>4, <4>1 DEF StoreHealthy, Fits, Worker, WorkPcs, WorkerInv
    <3>5. CASE Tick(w) \/ SelectEnds(w)
      <4>1. \/ next = [worker[w] EXCEPT !.pc = "ping"]
            \/ /\ next = [worker[w] EXCEPT !.pc = "clearHealthy"]
               /\ cancelled \/ conn[worker[w].held] = "down"
        BY <3>5 DEF Tick, SelectEnds
      <4>2. worker[w].pc = "select"
        BY <3>5 DEF Tick, SelectEnds
      <4> QED BY <4>1, <4>2 DEF Fits, Worker, WorkPcs, WorkerInv
    <3>6. CASE PingAnswered(w)
      <4>1. next = [worker[w] EXCEPT !.pc = "select", !.misses = 0]
        BY <3>6 DEF PingAnswered
      <4> QED BY <3>6, <4>1 DEF PingAnswered, Fits, Worker, WorkPcs, WorkerInv
    <3>7. CASE PingFails(w)
      <4> DEFINE m == worker[w].misses + 1
                 p == IF m >= MaxMiss THEN "clearHealthy" ELSE "select"
      <4>1. next = [worker[w] EXCEPT !.pc = p, !.misses = m]
        BY <3>7 DEF PingFails, Missed
      <4>2. m \in Nat /\ p \in {"clearHealthy", "select"}
        BY DEF Worker
      <4>3. worker[w].pc = "ping" /\ conn[worker[w].held] = "down"
        BY <3>7 DEF PingFails, Missed
      <4> HIDE DEF m, p
      <4> QED BY <4>1, <4>2, <4>3 DEF Fits, Worker, WorkPcs, WorkerInv
    <3>8. CASE ClearHealthy(w)
      <4>1. next = [worker[w] EXCEPT !.pc = "clearClient", !.healthy = FALSE]
        BY <3>8 DEF ClearHealthy
      <4> QED BY <3>8, <4>1 DEF ClearHealthy, Fits, Worker, WorkPcs, WorkerInv, ConnInv
    <3>9. CASE ClearClient(w)
      <4>1. next = [worker[w] EXCEPT !.pc = "close", !.client = NoConn]
        BY <3>9 DEF ClearClient
      <4> QED BY <3>9, <4>1 DEF ClearClient, Fits, Worker, WorkPcs, WorkerInv, ConnInv
    <3> QED BY <1>2, <3>1, <3>2, <3>3, <3>4, <3>5, <3>6, <3>7, <3>8, <3>9
  <2> QED BY <2>1, <2>2, <2>3, <2>4, FittingStep
<1>3. CASE Close(w)
  <2> USE <1>3 DEF Close, LoopTop, CloseConn, Goes, runVars
  <2>1. TypeOK'
    BY <1>0 DEF TypeOK, Worker, WorkPcs
  <2>2. RunInv' /\ WorkerInv'
    BY DEF RunInv, WorkerInv, TypeOK, Worker, Alive
  <2>3. ConnInv'
    BY ConnAssumption DEF ConnInv, TypeOK, Worker
  <2> QED BY <2>1, <2>2, <2>3
<1> QED BY <1>1, <1>2, <1>3 DEF Maintain

-----------------------------------------------------------------------------
(* The steps of the listeners and handlers, and of the network. *)

\* The workers are counted round: the next one and a handler's candidate are workers.
LEMMA NextWorker == \A i \in Workers : (i + 1) % N \in Workers
BY NAssumption DEF Workers

\* Going on to the next candidate stays among the workers.
LEMMA NextCandidateTypes ==
    ASSUME NEW h \in Handlers, handler[h] \in Handler PROVE NextCandidate(h) \in Handler
<1>1. handler[h].i + 1 # N => handler[h].i + 1 \in Workers
  BY NAssumption DEF Handler, Workers
<1> QED BY <1>1 DEF Handler, HandPcs, NextCandidate

\* The steps of a handler touch no connection and no worker.
LEMMA HandlerStep ==
    ASSUME Inv, NEW h \in Handlers,
           Handle(h) \/ CopyEnds(h) \/ \E l \in 1..Listeners : Accept(l, h)
    PROVE  Inv'
<1> USE DEF Inv
<1>1. handler[h] \in Handler
  BY DEF TypeOK
<1>2. \E p : \E next \in Handler : Serve(h, p, next)
  <2>1. CASE Check(h) \/ Load(h)
    <3>1. (handler[h].start + handler[h].i) % N \in Workers
      BY <1>1, NAssumption DEF Handler, Workers
    <3>2. Candidate(h) \in Worker
      BY <3>1 DEF Candidate, TypeOK
    <3>3. CASE Check(h)
      BY <1>1, <3>3, NextCandidateTypes DEF Check, Handler, HandPcs
    <3>4. CASE Load(h)
      BY <1>1, <3>2, <3>4, NextCandidateTypes DEF Load, Handler, HandPcs, Worker
    <3> QED BY <2>1, <3>3, <3>4
  <2>2. CASE Refuse(h) \/ ChannelFails(h) \/ CopyEnds(h)
    BY <2>2, IdleTypes DEF Refuse, ChannelFails, CopyEnds
  <2>3. CASE OpenChannel(h)
    BY <1>1, <2>3 DEF OpenChannel, Handler, HandPcs
  <2>4. ASSUME NEW l \in 1..Listeners, Accept(l, h)
        PROVE  \E p : \E next \in Handler : Serve(h, p, next)
    BY <2>4, NextWorker, IdleTypes DEF Accept, Handler, HandPcs, TypeOK
  <2> QED BY <2>1, <2>2, <2>3, <2>4 DEF Handle
<1>3. rr' \in [1..Listeners -> Workers]
  BY NextWorker DEF Handle, Check, Load, Refuse, ChannelFails, CopyEnds, OpenChannel, Accept,
     TypeOK
<1> QED BY <1>2, <1>3 DEF Serve, runVars, TypeOK, RunInv, WorkerInv, ConnInv

\* The network ends or silences connections; it makes none.
LEMMA NetworkStep ==
    ASSUME Inv, NEW c \in Conns, Drop(c) \/ Silence(c) \/ Resume(c) \/ SilenceEnds(c)
    PROVE  Inv'
<1> USE DEF Inv, runVars
<1> USE DEF Drop, Silence, Resume, SilenceEnds, Becomes
<1>1. TypeOK'
  BY LimitAssumption DEF TypeOK, Fault
<1>2. RunInv' /\ WorkerInv'
  BY DEF RunInv, WorkerInv
<1>3. ConnInv'
  <2>1. \A x \in Conns : conn[x] = "down" => conn'[x] = "down"
    BY DEF TypeOK
  <2>2. \A w \in Workers : worker[w].held \in Conns \cup {NoConn}
    BY DEF TypeOK, Worker
  <2>3. \A w \in Workers : worker[w].pc \in {"clearHealthy", "clearClient", "close"} =>
           worker[w].held # NoConn
    BY DEF WorkerInv
  <2> QED BY <2>1, <2>2, <2>3 DEF ConnInv
<1> QED BY <1>1, <1>2, <1>3

-----------------------------------------------------------------------------
(* The theorems. *)

\* The invariant is inductive.
LEMMA StepInv == Inv /\ [Next]_vars => Inv'
<1> SUFFICES ASSUME Inv, [Next]_vars PROVE Inv'
  OBVIOUS
<1>1. CASE Spawn \/ Run \/ ListenFails \/ Cancel \/ Crash
  BY <1>1, RunStep
<1>2. ASSUME NEW w \in Workers, Maintain(w) \/ DialStalls(w) \/ StallEnds(w) PROVE Inv'
  BY <1>2, MaintainStep
<1>3. ASSUME NEW h \in Handlers,
             Handle(h) \/ CopyEnds(h) \/ \E l \in 1..Listeners : Accept(l, h)
      PROVE  Inv'
  BY <1>3, HandlerStep
<1>4. ASSUME NEW c \in Conns, Drop(c) \/ Silence(c) \/ Resume(c) \/ SilenceEnds(c) PROVE Inv'
  BY <1>4, NetworkStep
<1>5. CASE UNCHANGED vars
  BY <1>5 DEF vars, runVars, Inv, TypeOK, RunInv, WorkerInv, ConnInv
<1> QED BY <1>1, <1>2, <1>3, <1>4, <1>5 DEF Next

\* Every reachable state satisfies the invariant.
LEMMA AlwaysInv == Spec => []Inv
BY InitInv, StepInv, PTL DEF Spec

\* The variables of a tunnel process always have their types.
THEOREM RunnerTypes == Spec => []TypeOK
<1>1. Inv => TypeOK
  BY DEF Inv
<1> QED BY <1>1, AlwaysInv, PTL

\* What handle may read of a worker between the four stores of maintainWorker is always
\* consistent: a healthy worker has a client, its maintainer's own, and no other worker's.
THEOREM PublishedClients == Spec => []PublishedClientIsHeld
<1>1. Inv => PublishedClientIsHeld
  BY DEF Inv, WorkerInv, ConnInv, PublishedClientIsHeld
<1> QED BY <1>1, AlwaysInv, PTL

\* No SSH connection is left open without a maintainer that will close it.
THEOREM NothingLeaks == Spec => []NoLeakedConnection
<1>1. Inv => NoLeakedConnection
  BY ConnAssumption DEF Inv, WorkerInv, ConnInv, NoLeakedConnection
<1> QED BY <1>1, AlwaysInv, PTL

\* The wait between dials is bounded, for every cap.
THEOREM BackoffStaysBounded == Spec => []BackoffBounded
<1>1. Inv => BackoffBounded
  BY DEF Inv, WorkerInv, BackoffBounded
<1> QED BY <1>1, AlwaysInv, PTL

\* The program closes a connection only when its peer is gone or it is told to stop: what a
\* maintainer closes has ended, and Run closes clients only after the cancellation.
THEOREM OnlyDeadConnectionsClosed == Spec => LiveConnectionsAreKept
<1> DEFINE Kept == \A c \in Conns : conn[c] = "up" /\ conn'[c] = "down"
                                        => cancelled \/ faults' > faults
<1>1. Inv /\ [Next]_vars => [Kept]_vars
  <2> SUFFICES ASSUME Inv, Next PROVE Kept
    BY DEF vars, runVars
  <2> USE DEF Inv
  <2>1. CASE Fault
    BY <2>1, LimitAssumption DEF Fault, TypeOK
  <2>2. CASE Drain \/ SeeCancelled \/ Exit
    BY <2>2 DEF RunInv, Drain, DrainNext, SeeCancelled, Exit
  <2>3. CASE Spawn \/ Listen
    BY <2>3 DEF Spawn, Listen
  <2>4. ASSUME NEW w \in Workers, Maintain(w) \/ DialStalls(w) \/ StallEnds(w), ~Fault
        PROVE  Kept
    <3>1. CASE Close(w)
      BY <3>1 DEF Close, CloseConn, ConnInv, Goes
    <3>2. CASE DialOK(w)
      BY <3>2 DEF DialOK
    <3>3. CASE ~Close(w) /\ ~DialOK(w)
      BY <2>4, <3>3 DEF Maintain, DialFails, DialStalls, StallEnds, BackoffTimer,
         BackoffCancelled, StoreClient, StoreHealthy, Tick, SelectEnds, PingAnswered, PingFails,
         Missed, ClearHealthy, ClearClient, Step, TypeOK
    <3> QED BY <3>1, <3>2, <3>3
  <2>5. ASSUME NEW h \in Handlers,
               Handle(h) \/ CopyEnds(h) \/ \E l \in 1..Listeners : Accept(l, h)
        PROVE  Kept
    BY <2>5 DEF Handle, Check, Load, Refuse, ChannelFails, CopyEnds, OpenChannel, Accept, Serve
  <2>6. ASSUME NEW c \in Conns, Drop(c) \/ Silence(c) \/ Resume(c) \/ SilenceEnds(c), ~Fault
        PROVE  Kept
    BY <2>6 DEF Drop, Silence, Resume, SilenceEnds, Becomes, TypeOK
  <2>7. CASE ListenFails \/ Cancel \/ Crash
    BY <2>1, <2>7 DEF ListenFails, Cancel, Crash
  <2> HIDE DEF Kept
  <2> QED BY <2>1, <2>2, <2>3, <2>4, <2>5, <2>6, <2>7 DEF Next, Run
<1>2. Spec => [][Kept]_vars
  BY <1>1, AlwaysInv, PTL DEF Spec
<1> QED BY <1>2 DEF LiveConnectionsAreKept

\* A maintainer that goes round its loop after the cancellation ends: no dial begins.
THEOREM CancelledNeverDials == Spec => NoDialAfterCancel
<1> DEFINE Quiet == \A w \in Workers :
                       cancelled /\ cancelled' /\ worker'[w].pc = "dial" => worker[w].pc = "dial"
<1>1. Inv /\ [Next]_vars => [Quiet]_vars
  <2> SUFFICES ASSUME Inv, Next PROVE Quiet
    BY DEF vars, runVars
  <2> USE DEF Inv, TypeOK, RunInv, runVars
  <2>1. CASE Spawn \/ Run \/ ListenFails \/ Cancel \/ Crash
    BY <2>1 DEF Spawn, Run, Listen, SeeCancelled, Drain, DrainNext, Exit, ListenFails, Cancel,
       Crash, Off
  <2>2. ASSUME NEW w \in Workers, Maintain(w) \/ DialStalls(w) \/ StallEnds(w) PROVE Quiet
    <3>1. worker[w] \in Worker
      BY DEF TypeOK
    <3>2. worker' = [worker EXCEPT ![w] = worker'[w]]
      BY <2>2 DEF Maintain, DialOK, DialFails, DialStalls, StallEnds, BackoffTimer,
         BackoffCancelled, StoreClient, StoreHealthy, Tick, SelectEnds, PingAnswered, PingFails,
         Missed, ClearHealthy, ClearClient, Close, Goes, Step, TypeOK
    <3>3. CASE BackoffTimer(w)
      <4>1. worker'[w] = [worker[w] EXCEPT !.pc = LoopTop, !.backoff = NextBackoff(@)]
        BY <3>3 DEF BackoffTimer, Goes, Step, TypeOK
      <4>2. worker'[w].pc = LoopTop
        BY <3>1, <4>1, Zenon DEF Worker
      <4> QED BY <3>2, <4>2 DEF LoopTop, TypeOK
    <3>4. CASE Close(w)
      <4>1. worker'[w] = [worker[w] EXCEPT !.pc = LoopTop, !.held = NoConn]
        BY <3>4 DEF Close, Goes, TypeOK
      <4>2. worker'[w].pc = LoopTop
        BY <3>1, <4>1, Zenon DEF Worker
      <4> QED BY <3>2, <4>2 DEF LoopTop, TypeOK
    <3>5. CASE ~BackoffTimer(w) /\ ~Close(w)
      <4>1. CASE DialOK(w)
        BY <3>1, <4>1 DEF DialOK, Goes, Worker, TypeOK
      <4>2. CASE DialFails(w) \/ DialStalls(w) \/ StallEnds(w)
        BY <3>1, <4>2 DEF DialFails, DialStalls, StallEnds, Step, Goes, Worker, TypeOK
      <4>8. CASE BackoffCancelled(w) \/ Tick(w) \/ SelectEnds(w)
        BY <3>1, <4>8 DEF BackoffCancelled, Tick, SelectEnds, Step, Goes, Worker, TypeOK
      <4>3. CASE StoreClient(w)
        BY <3>1, <4>3 DEF StoreClient, Step, Goes, Worker, TypeOK
      <4>9. CASE ClearClient(w)
        BY <3>1, <4>9 DEF ClearClient, Step, Goes, Worker, TypeOK
      <4>4. CASE StoreHealthy(w)
        BY <3>1, <4>4 DEF StoreHealthy, Step, Goes, Worker, TypeOK
      <4>5. CASE ClearHealthy(w)
        BY <3>1, <4>5 DEF ClearHealthy, Goes, Worker, TypeOK
      <4>6. CASE PingAnswered(w)
        BY <3>1, <4>6 DEF PingAnswered, Step, Goes, Worker, TypeOK
      <4>7. CASE PingFails(w)
        <5> DEFINE p == IF worker[w].misses + 1 >= MaxMiss THEN "clearHealthy" ELSE "select"
        <5>1. worker'[w] = [worker[w] EXCEPT !.pc = p, !.misses = @ + 1]
          BY <4>7 DEF PingFails, Missed, Step, Goes, TypeOK
        <5>2. worker'[w].pc = p
          BY <3>1, <5>1, Zenon DEF Worker
        <5> QED BY <3>2, <5>2 DEF TypeOK
      <4> QED BY <2>2, <3>5, <4>1, <4>2, <4>3, <4>4, <4>5, <4>6, <4>7, <4>8, <4>9 DEF Maintain
    <3> QED BY <3>3, <3>4, <3>5
  <2>3. ASSUME NEW h \in Handlers,
               Handle(h) \/ CopyEnds(h) \/ \E l \in 1..Listeners : Accept(l, h)
        PROVE  Quiet
    BY <2>3 DEF Handle, Check, Load, Refuse, ChannelFails, CopyEnds, OpenChannel, Accept, Serve
  <2>4. ASSUME NEW c \in Conns, Drop(c) \/ Silence(c) \/ Resume(c) \/ SilenceEnds(c) PROVE Quiet
    BY <2>4 DEF Drop, Silence, Resume, SilenceEnds, Becomes
  <2> QED BY <2>1, <2>2, <2>3, <2>4 DEF Next
<1>2. Spec => [][Quiet]_vars
  BY <1>1, AlwaysInv, PTL DEF Spec
<1> QED BY <1>2 DEF NoDialAfterCancel

-----------------------------------------------------------------------------
(* pickWorker overlooks no worker that stays healthy. *)

\* The workers of a handler's stable set are healthy still, and pickWorker has passed none of
\* them: a worker that is passed was unhealthy, or without a client, at that moment.
ScanInv == \A h \in Handlers :
    /\ \A w \in handler[h].stable : worker[w].healthy
    /\ handler[h].pc \in {"check", "load"} =>
          \A j \in Workers : j < handler[h].i =>
              (handler[h].start + j) % N \notin handler[h].stable
    /\ handler[h].pc = "refused" => handler[h].stable = {}

\* Counting round from any worker meets every worker within N steps.
LEMMA RoundMeetsAll ==
    ASSUME NEW start \in Workers, NEW w \in Workers
    PROVE  \E j \in Workers : (start + j) % N = w
<1>0. N \in Nat /\ N > 0 /\ start \in 0..N-1 /\ w \in 0..N-1
  BY NAssumption DEF Workers
<1>1. CASE start <= w
  <2>1. w - start \in Workers /\ start + (w - start) = w
    BY <1>0, <1>1 DEF Workers
  <2>2. w % N = w
    BY <1>0
  <2> QED BY <2>1, <2>2
<1>2. CASE w < start
  <2>1. w + N - start \in Workers /\ start + (w + N - start) = w + N
    BY <1>0, <1>2 DEF Workers
  <2>2. (w + N) % N = w
    BY <1>0
  <2> QED BY <2>1, <2>2
<1> QED BY <1>0, <1>1, <1>2

\* A maintainer takes a worker out of the stable sets when it marks it unhealthy, and in no
\* other step does it mark one so.
LEMMA MaintainScan ==
    ASSUME Inv, ScanInv, NEW w \in Workers, Maintain(w) \/ DialStalls(w) \/ StallEnds(w)
    PROVE  ScanInv'
<1> USE DEF Inv
<1>0. worker \in [Workers -> Worker] /\ worker[w] \in Worker
  BY DEF TypeOK
<1>1. CASE ClearHealthy(w)
  <2>1. handler' = [h \in Handlers |-> [handler[h] EXCEPT !.stable = @ \ {w}]]
    BY <1>1 DEF ClearHealthy
  <2>2. \A v \in Workers : v # w => worker'[v] = worker[v]
    BY <1>0, <1>1 DEF ClearHealthy, Goes
  <2>3. ASSUME NEW h \in Handlers
        PROVE  /\ handler[h].stable \subseteq Workers
               /\ handler'[h].pc = handler[h].pc /\ handler'[h].i = handler[h].i
               /\ handler'[h].start = handler[h].start
               /\ handler'[h].stable = handler[h].stable \ {w}
    <3>1. handler[h] \in Handler
      BY DEF TypeOK
    <3> QED BY <2>1, <3>1 DEF Handler
  <2> QED BY <2>2, <2>3 DEF ScanInv
<1>2. CASE ~ClearHealthy(w)
  <2>1. UNCHANGED handler
    BY <1>2 DEF Maintain, DialOK, DialFails, DialStalls, StallEnds, BackoffTimer,
       BackoffCancelled, StoreClient, StoreHealthy, Tick, SelectEnds, PingAnswered, PingFails,
       Missed, ClearClient, Close, Step
  <2>2. /\ worker' = [worker EXCEPT ![w] = worker'[w]]
        /\ worker[w].healthy => worker'[w].healthy
    <3>1. worker' = [worker EXCEPT ![w] = worker'[w]]
      BY <1>2 DEF Maintain, DialOK, DialFails, DialStalls, StallEnds, BackoffTimer,
         BackoffCancelled, StoreClient, StoreHealthy, Tick, SelectEnds, PingAnswered, PingFails,
         Missed, ClearClient, Close, Goes, Step, TypeOK
    <3>2. worker[w].healthy => worker'[w].healthy
      <4>1. CASE StoreHealthy(w)
        BY <1>0, <4>1 DEF StoreHealthy, Step, Goes, Worker
      <4>2. CASE DialOK(w)
        BY <1>0, <4>2 DEF DialOK, Goes, Worker
      <4>3. CASE DialFails(w) \/ DialStalls(w)
        BY <1>0, <4>3 DEF DialFails, DialStalls, Goes, Worker
      <4>4. CASE StallEnds(w) \/ BackoffTimer(w)
        BY <1>0, <4>4 DEF StallEnds, BackoffTimer, Step, Goes, Worker
      <4>5. CASE BackoffCancelled(w) \/ StoreClient(w)
        BY <1>0, <4>5 DEF BackoffCancelled, StoreClient, Step, Goes, Worker
      <4>6. CASE Tick(w) \/ SelectEnds(w)
        BY <1>0, <4>6 DEF Tick, SelectEnds, Step, Goes, Worker
      <4>7. CASE PingAnswered(w) \/ ClearClient(w)
        BY <1>0, <4>7 DEF PingAnswered, ClearClient, Step, Goes, Worker
      <4>8. CASE PingFails(w)
        BY <1>0, <4>8 DEF PingFails, Missed, Step, Goes, Worker
      <4>9. CASE Close(w)
        BY <1>0, <4>9 DEF Close, Goes, Worker
      <4> QED BY <1>2, <4>1, <4>2, <4>3, <4>4, <4>5, <4>6, <4>7, <4>8, <4>9
         DEF Maintain
    <3> QED BY <3>1, <3>2
  <2>3. \A v \in Workers : worker[v].healthy => worker'[v].healthy
    BY <1>0, <2>2
  <2>4. \A h \in Handlers : handler[h].stable \subseteq Workers
    BY DEF TypeOK, Handler
  <2> QED BY <2>1, <2>3, <2>4 DEF ScanInv
<1> QED BY <1>1, <1>2

\* pickWorker passes only workers outside the stable set: a stable one is healthy and has
\* published its client, and is taken.
LEMMA HandlerScan ==
    ASSUME Inv, ScanInv, NEW h \in Handlers,
           Handle(h) \/ CopyEnds(h) \/ \E l \in 1..Listeners : Accept(l, h)
    PROVE  ScanInv'
<1> USE DEF Inv
<1>1. handler \in [Handlers -> Handler] /\ handler[h] \in Handler
  BY DEF TypeOK
<1>2. UNCHANGED worker
  BY DEF Handle, Check, Load, Refuse, OpenChannel, ChannelFails, CopyEnds, Accept, Serve
<1>3. SUFFICES ASSUME handler' = [handler EXCEPT ![h] = handler'[h]]
               PROVE  /\ \A w \in handler'[h].stable : worker[w].healthy
                      /\ handler'[h].pc \in {"check", "load"} =>
                            \A j \in Workers : j < handler'[h].i =>
                                (handler'[h].start + j) % N \notin handler'[h].stable
                      /\ handler'[h].pc = "refused" => handler'[h].stable = {}
  <2>1. handler' = [handler EXCEPT ![h] = handler'[h]]
    BY <1>1 DEF Handle, Check, Load, Refuse, OpenChannel, ChannelFails, CopyEnds, Accept, Serve
  <2> QED BY <1>1, <1>2, <1>3, <2>1 DEF ScanInv
<1>4. ASSUME handler[h].pc \in {"check", "load"}, handler'[h] = NextCandidate(h),
             (handler[h].start + handler[h].i) % N \notin handler[h].stable
      PROVE  /\ handler'[h].stable = handler[h].stable
             /\ \/ handler'[h].pc = "refused" /\ handler[h].stable = {}
                \/ /\ handler'[h].pc = "check" /\ handler'[h].start = handler[h].start
                   /\ \A j \in Workers : j < handler'[h].i =>
                          (handler[h].start + j) % N \notin handler[h].stable
  <2>1. \A j \in Workers : j < handler[h].i + 1 =>
           (handler[h].start + j) % N \notin handler[h].stable
    <3>1. \A j \in Workers : j < handler[h].i + 1 => j < handler[h].i \/ j = handler[h].i
      BY <1>1, NAssumption DEF Handler, Workers
    <3> QED BY <1>4, <3>1 DEF ScanInv
  <2>2. CASE handler[h].i + 1 = N
    <3>1. \A j \in Workers : j < handler[h].i + 1
      BY <2>2, NAssumption DEF Workers
    <3>2. \A w \in Workers : w \notin handler[h].stable
      BY <1>1, <2>1, <3>1, RoundMeetsAll DEF Handler
    <3>3. handler'[h] = [handler[h] EXCEPT !.pc = "refused"]
      BY <1>4, <2>2 DEF NextCandidate
    <3> QED BY <1>1, <3>2, <3>3 DEF Handler
  <2>3. CASE handler[h].i + 1 # N
    <3>1. handler'[h] = [handler[h] EXCEPT !.pc = "check", !.i = handler[h].i + 1]
      BY <1>4, <2>3 DEF NextCandidate
    <3> QED BY <1>1, <2>1, <3>1 DEF Handler
  <2> QED BY <2>2, <2>3
<1>5. CASE Check(h)
  <2>1. CASE Candidate(h).healthy
    <3>1. handler[h].pc = "check" /\ handler'[h] = [handler[h] EXCEPT !.pc = "load"]
      BY <1>1, <1>5, <2>1 DEF Check, Serve
    <3> QED BY <1>1, <3>1 DEF ScanInv, Handler
  <2>2. CASE ~Candidate(h).healthy
    <3>1. handler[h].pc = "check" /\ handler'[h] = NextCandidate(h)
      BY <1>1, <1>5, <2>2 DEF Check, Serve
    <3>2. (handler[h].start + handler[h].i) % N \notin handler[h].stable
      BY <2>2 DEF Candidate, ScanInv
    <3> QED BY <1>4, <3>1, <3>2 DEF ScanInv
  <2> QED BY <2>1, <2>2
<1>6. CASE Load(h)
  <2>1. CASE Candidate(h).client # NoConn
    <3>1. handler'[h] = [handler[h] EXCEPT !.pc = "dial", !.client = Candidate(h).client]
      BY <1>1, <1>6, <2>1 DEF Load, Serve
    <3> QED BY <1>1, <3>1 DEF ScanInv, Handler
  <2>2. CASE Candidate(h).client = NoConn
    <3>1. handler[h].pc = "load" /\ handler'[h] = NextCandidate(h)
      BY <1>1, <1>6, <2>2 DEF Load, Serve
    <3>2. (handler[h].start + handler[h].i) % N \in Workers
      BY <1>1, NAssumption DEF Handler, Workers
    <3>3. ~Candidate(h).healthy
      BY <2>2, <3>2 DEF Candidate, WorkerInv
    <3>4. (handler[h].start + handler[h].i) % N \notin handler[h].stable
      BY <3>3 DEF Candidate, ScanInv
    <3> QED BY <1>4, <3>1, <3>4 DEF ScanInv
  <2> QED BY <2>1, <2>2
<1>7. CASE Refuse(h) \/ ChannelFails(h) \/ CopyEnds(h)
  <2>1. handler'[h] = Idle
    BY <1>1, <1>7 DEF Refuse, ChannelFails, CopyEnds, Serve
  <2> QED BY <2>1 DEF Idle
<1>8. CASE OpenChannel(h)
  <2>1. handler'[h] = [handler[h] EXCEPT !.pc = "open"]
    BY <1>1, <1>8 DEF OpenChannel, Serve
  <2> QED BY <1>1, <2>1 DEF ScanInv, Handler
<1>9. ASSUME NEW l \in 1..Listeners, Accept(l, h)
      PROVE  /\ \A w \in handler'[h].stable : worker[w].healthy
             /\ handler'[h].pc = "check" /\ handler'[h].i = 0
  <2>1. handler'[h] = [Idle EXCEPT !.pc = "check", !.start = (rr[l] + 1) % N,
                                   !.stable = {w \in Workers : worker[w].healthy}]
    BY <1>1, <1>9 DEF Accept, Serve
  <2> QED BY <2>1 DEF Idle
<1>10. \A j \in Workers : ~(j < 0)
  BY DEF Workers
<1> QED BY <1>5, <1>6, <1>7, <1>8, <1>9, <1>10 DEF Handle

\* A connection is refused only if no worker stayed healthy while pickWorker looked, for any
\* number of workers and any interleaving of its loads with the stores of the maintainers.
THEOREM RefusalsAreJustified == Spec => []RefusedOnlyIfNoneStable
<1>1. Init => ScanInv
  BY DEF Init, Idle, ScanInv
<1>2. Inv /\ ScanInv /\ [Next]_vars => ScanInv'
  <2> SUFFICES ASSUME Inv, ScanInv, [Next]_vars PROVE ScanInv'
    OBVIOUS
  <2>1. CASE Off
    BY <2>1 DEF Off, Idle, ScanInv
  <2>2. CASE Spawn
    <3>1. \A h \in Handlers : handler[h].stable = {} /\ handler[h].pc = handler[h].pc
      BY <2>2 DEF Spawn, Inv, TypeOK, Handler, ScanInv, RunInv, WorkerInv
    <3> QED BY <2>2, <3>1 DEF Spawn, ScanInv
  <2>3. CASE Listen \/ SeeCancelled \/ Drain \/ Cancel
    BY <2>3 DEF Listen, SeeCancelled, Drain, DrainNext, Cancel, ScanInv
  <2>4. ASSUME NEW w \in Workers, Maintain(w) \/ DialStalls(w) \/ StallEnds(w) PROVE ScanInv'
    BY <2>4, MaintainScan
  <2>5. ASSUME NEW h \in Handlers,
               Handle(h) \/ CopyEnds(h) \/ \E l \in 1..Listeners : Accept(l, h)
        PROVE  ScanInv'
    BY <2>5, HandlerScan
  <2>6. ASSUME NEW c \in Conns, Drop(c) \/ Silence(c) \/ Resume(c) \/ SilenceEnds(c)
        PROVE  ScanInv'
    BY <2>6 DEF Drop, Silence, Resume, SilenceEnds, Becomes, ScanInv
  <2>7. CASE UNCHANGED vars
    BY <2>7 DEF vars, ScanInv
  <2>8. Run \/ ListenFails \/ Crash => Off \/ Listen \/ SeeCancelled \/ Drain
    BY DEF Run, ListenFails, Crash, Exit
  <2> QED BY <2>1, <2>2, <2>3, <2>4, <2>5, <2>6, <2>7, <2>8 DEF Next
<1>3. ScanInv => RefusedOnlyIfNoneStable
  BY DEF ScanInv, RefusedOnlyIfNoneStable
<1> QED BY <1>1, <1>2, <1>3, AlwaysInv, PTL DEF Spec
=============================================================================
