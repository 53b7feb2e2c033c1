----------------------------- MODULE Forwarding -----------------------------
(***************************************************************************)
(* What `handle` does with an accepted connection once its channel is      *)
(* open: two goroutines copy, one in each direction, each counts its bytes *)
(* and half-closes its destination when its copy ends, and the handler     *)
(* waits for both before it closes the two ends.  Meanwhile statLoop       *)
(* publishes the counters, which it loads one after the other.  A byte     *)
(* stands for what one Read returns.                                       *)
(***************************************************************************)
EXTENDS Integers, FiniteSets, FiniteSetsExt

CONSTANTS
    Handlers,   \* slots for `handle` goroutines
    MaxWork     \* bound: connections accepted and bytes sent in a behaviour

ASSUME HandlersAssumption == IsFiniteSet(Handlers)
ASSUME BoundAssumption == MaxWork \in Nat

Ends == {"client", "server"}
Dirs == {"up", "down"}   \* local -> remote and remote -> local

Source(d) == IF d = "up" THEN "client" ELSE "server"
Target(d) == IF d = "up" THEN "server" ELSE "client"

VARIABLES
    pc,       \* where a handler is
    copy,     \* per direction: where its goroutine is and the bytes it has written
    end,      \* the two ends: "open", "half" (sends no more), "closed" (nor receives), or
              \* "cut" (reset, or the SSH connection is lost: bytes on the way may be lost)
    sent,     \* bytes an end has sent
    full,     \* an end's window: no write to it goes through until it reads
    conns,    \* Runner.conns
    bytes,    \* Runner.bytesOut and bytesIn, by direction
    moved,    \* auxiliary: the bytes all copies have written, by direction
    stat,     \* the snapshot a reader finds
    flush,    \* flushStat: where it is, and the values it has loaded
    work      \* connections accepted and bytes sent so far

connVars == <<pc, copy, end, sent, full, conns, bytes, moved, work>>
vars == <<connVars, stat, flush>>

HandPcs == {"idle", "opened", "copying", "close"}
CopyPcs == {"read", "write", "count", "shut", "done"}

NoTraffic == [d \in Dirs |-> 0]
Resting   == [d \in Dirs |-> [pc |-> "done", n |-> 0]]
Started   == [d \in Dirs |-> [pc |-> "read", n |-> 0]]

Init ==
    /\ pc = [h \in Handlers |-> "idle"]
    /\ copy = [h \in Handlers |-> Resting]
    /\ end = [h \in Handlers |-> [e \in Ends |-> "closed"]]
    /\ sent = [h \in Handlers |-> [e \in Ends |-> 0]]
    /\ full = [h \in Handlers |-> [e \in Ends |-> FALSE]]
    /\ conns = 0 /\ bytes = NoTraffic /\ moved = NoTraffic
    /\ stat = [bytes |-> NoTraffic, conns |-> 0]
    /\ flush = [pc |-> "wait", bytes |-> NoTraffic]
    /\ work = 0

-----------------------------------------------------------------------------
Work == work < MaxWork /\ work' = work + 1

(* The two peers and the network between. *)

\* What a peer does after both copies are done changes nothing for the handler.
Connected(h) == pc[h] \in {"opened", "copying"}

Send(h, e) ==
    /\ Connected(h) /\ end[h][e] = "open" /\ Work
    /\ sent' = [sent EXCEPT ![h][e] = @ + 1]
    /\ UNCHANGED <<pc, copy, end, full, conns, bytes, moved, stat, flush>>

\* The peer takes what was written to it.
Receive(h, e) ==
    /\ Connected(h) /\ end[h][e] \in {"open", "half"} /\ full[h][e]
    /\ full' = [full EXCEPT ![h][e] = FALSE]
    /\ UNCHANGED <<pc, copy, end, sent, conns, bytes, moved, work, stat, flush>>

\* It ends its stream (FIN, channel EOF), closes the connection, or aborts it.
Turns(h, e, from, to) ==
    /\ Connected(h) /\ end[h][e] \in from
    /\ end' = [end EXCEPT ![h][e] = to]
    /\ UNCHANGED <<pc, copy, sent, full, conns, bytes, moved, work, stat, flush>>

HalfClose(h, e) == Turns(h, e, {"open"}, "half")
FullClose(h, e) == Turns(h, e, {"open", "half"}, "closed")
Abort(h, e)     == Turns(h, e, {"open", "half", "closed"}, "cut")

-----------------------------------------------------------------------------
(* A copy goroutine: io.CopyBuffer, the counter, CloseWrite. *)

Copying(h, d, p, next) ==
    /\ pc[h] = "copying" /\ copy[h][d].pc = p
    /\ copy' = [copy EXCEPT ![h][d] = next]
    /\ UNCHANGED <<pc, end, sent, conns, work, stat, flush>>

\* Read returns bytes; those sent before an end of stream come first.
ReadSome(h, d) ==
    /\ Copying(h, d, "read", [copy[h][d] EXCEPT !.pc = "write"])
    /\ copy[h][d].n < sent[h][Source(d)]
    /\ UNCHANGED <<full, bytes, moved>>

ReadEndsEarly(h, d) ==
    /\ Copying(h, d, "read", [copy[h][d] EXCEPT !.pc = "count"])
    /\ end[h][Source(d)] # "open"
    /\ UNCHANGED <<full, bytes, moved>>

ReadEndsCleanly(h, d) ==
    /\ Copying(h, d, "read", [copy[h][d] EXCEPT !.pc = "count"])
    /\ end[h][Source(d)] \in {"half", "closed"} /\ copy[h][d].n = sent[h][Source(d)]
    /\ UNCHANGED <<full, bytes, moved>>

\* Read returns io.EOF once everything was read, or at any moment from a cut connection: a
\* channel whose SSH connection is lost reads as ended.
ReadEnds(h, d) ==
    /\ Copying(h, d, "read", [copy[h][d] EXCEPT !.pc = "count"])
    /\ \/ end[h][Source(d)] \in {"half", "closed"} /\ copy[h][d].n = sent[h][Source(d)]
       \/ end[h][Source(d)] = "cut"
    /\ UNCHANGED <<full, bytes, moved>>

\* Write succeeds when the window has room; what is written to a closed end goes nowhere.
WriteSome(h, d) ==
    /\ Copying(h, d, "write", [pc |-> "read", n |-> copy[h][d].n + 1])
    /\ end[h][Target(d)] = "closed" \/ (end[h][Target(d)] # "cut" /\ ~full[h][Target(d)])
    /\ full' = [full EXCEPT ![h][Target(d)] = TRUE]
    /\ moved' = [moved EXCEPT ![d] = @ + 1]
    /\ UNCHANGED bytes

WriteRetried(h, d) ==
    /\ Copying(h, d, "write", copy[h][d])
    /\ end[h][Target(d)] \in {"closed", "cut"}
    /\ UNCHANGED <<full, bytes, moved>>

WriteFails(h, d) ==
    /\ Copying(h, d, "write", [copy[h][d] EXCEPT !.pc = "count"])
    /\ end[h][Target(d)] \in {"closed", "cut"}
    /\ UNCHANGED <<full, bytes, moved>>

CountUnlessError(h, d) ==
    /\ Copying(h, d, "count", [copy[h][d] EXCEPT !.pc = "shut"])
    /\ bytes' = IF end[h][Source(d)] = "cut" THEN bytes
                ELSE [bytes EXCEPT ![d] = @ + copy[h][d].n]
    /\ UNCHANGED <<full, moved>>

\* bytesOut.Add or bytesIn.Add: what was written, also after an error.
Count(h, d) ==
    /\ Copying(h, d, "count", [copy[h][d] EXCEPT !.pc = "shut"])
    /\ bytes' = [bytes EXCEPT ![d] = @ + copy[h][d].n]
    /\ UNCHANGED <<full, moved>>

\* CloseWrite passes the end of the stream on; wg.Done.
CloseWrite(h, d) ==
    /\ Copying(h, d, "shut", [copy[h][d] EXCEPT !.pc = "done"])
    /\ UNCHANGED <<full, bytes, moved>>

-----------------------------------------------------------------------------
(* The handler. *)

\* client.Dial has opened the channel.
OpenChannel(h) ==
    /\ pc[h] = "idle" /\ Work
    /\ pc' = [pc EXCEPT ![h] = "opened"]
    /\ end' = [end EXCEPT ![h] = [e \in Ends |-> "open"]]
    /\ UNCHANGED <<copy, sent, full, conns, bytes, moved, stat, flush>>

Goes(h, p, q) ==
    /\ pc[h] = p
    /\ pc' = [pc EXCEPT ![h] = q]
    /\ UNCHANGED <<bytes, moved, work, stat, flush>>

\* conns.Add(1), and both goroutines.
Start(h) ==
    /\ Goes(h, "opened", "copying")
    /\ conns' = conns + 1
    /\ copy' = [copy EXCEPT ![h] = Started]
    /\ UNCHANGED <<end, sent, full>>

BothDone(h)   == \A d \in Dirs : copy[h][d].pc = "done"
EitherDone(h) == \E d \in Dirs : copy[h][d].pc = "done"

\* wg.Wait returns; conns.Add(-1) is the first of the deferred calls.
WaitForOne(h) ==
    /\ Goes(h, "copying", "close") /\ EitherDone(h)
    /\ conns' = conns - 1
    /\ copy' = [copy EXCEPT ![h] = [d \in Dirs |-> [@[d] EXCEPT !.pc = "done"]]]
    /\ UNCHANGED <<end, sent, full>>

WaitUncounted(h) ==
    /\ Goes(h, "copying", "close") /\ BothDone(h)
    /\ conns' = IF \E e \in Ends : end[h][e] = "cut" THEN conns ELSE conns - 1
    /\ UNCHANGED <<copy, end, sent, full>>

Wait(h) ==
    /\ Goes(h, "copying", "close") /\ BothDone(h)
    /\ conns' = conns - 1
    /\ UNCHANGED <<copy, end, sent, full>>

\* The other deferred calls: remote.Close and local.Close.
Close(h) ==
    /\ Goes(h, "close", "idle")
    /\ copy' = [copy EXCEPT ![h] = Resting]
    /\ end' = [end EXCEPT ![h] = [e \in Ends |-> "closed"]]
    /\ sent' = [sent EXCEPT ![h] = [e \in Ends |-> 0]]
    /\ full' = [full EXCEPT ![h] = [e \in Ends |-> FALSE]]
    /\ UNCHANGED conns

-----------------------------------------------------------------------------
(* flushStat, which statLoop calls on each tick: BytesIn, BytesOut and ActiveConns are three *)
(* atomic loads.  Writing the file is one step here. *)

LoadIn ==
    /\ flush.pc = "wait"
    /\ flush' = [pc |-> "out", bytes |-> [NoTraffic EXCEPT !["down"] = bytes["down"]]]
    /\ UNCHANGED <<connVars, stat>>

LoadOut ==
    /\ flush.pc = "out"
    /\ flush' = [pc |-> "conns", bytes |-> [flush.bytes EXCEPT !["up"] = bytes["up"]]]
    /\ UNCHANGED <<connVars, stat>>

PublishWhenActive ==
    /\ flush.pc = "conns"
    /\ stat' = IF conns = 0 THEN stat ELSE [bytes |-> flush.bytes, conns |-> conns]
    /\ flush' = [pc |-> "wait", bytes |-> NoTraffic]
    /\ UNCHANGED connVars

Publish ==
    /\ flush.pc = "conns"
    /\ stat' = [bytes |-> flush.bytes, conns |-> conns]
    /\ flush' = [pc |-> "wait", bytes |-> NoTraffic]
    /\ UNCHANGED connVars

-----------------------------------------------------------------------------
Copy(h, d) == \/ ReadSome(h, d) \/ ReadEnds(h, d) \/ WriteSome(h, d) \/ WriteFails(h, d)
              \/ Count(h, d) \/ CloseWrite(h, d)
Handle(h)  == Start(h) \/ Wait(h) \/ Close(h)
Peer(h, e) == Send(h, e) \/ Receive(h, e) \/ HalfClose(h, e) \/ FullClose(h, e) \/ Abort(h, e)
FlushStat  == LoadIn \/ LoadOut \/ Publish

Next ==
    \/ \E h \in Handlers : OpenChannel(h) \/ Handle(h)
    \/ \E h \in Handlers, d \in Dirs : Copy(h, d)
    \/ \E h \in Handlers, e \in Ends : Peer(h, e)
    \/ FlushStat

Spec == Init /\ [][Next]_vars

\* Go schedules every goroutine, and the ticker of statLoop fires.  Peers owe nothing.
FairSpec ==
    /\ Spec
    /\ \A h \in Handlers : WF_vars(Handle(h))
    /\ \A h \in Handlers, d \in Dirs : WF_vars(Copy(h, d))
    /\ WF_vars(FlushStat)

-----------------------------------------------------------------------------
(* Properties. *)

\* The variables have their types, and ActiveConns stays within the handlers there are.
ForwardingTypeOK ==
    /\ pc \in [Handlers -> HandPcs]
    /\ copy \in [Handlers -> [Dirs -> [pc : CopyPcs, n : Nat]]]
    /\ end \in [Handlers -> [Ends -> {"open", "half", "closed", "cut"}]]
    /\ sent \in [Handlers -> [Ends -> Nat]]
    /\ full \in [Handlers -> [Ends -> BOOLEAN]]
    /\ conns \in 0..Cardinality(Handlers)
    /\ bytes \in [Dirs -> Nat] /\ moved \in [Dirs -> Nat] /\ work \in Nat
    /\ stat \in [bytes : [Dirs -> Nat], conns : 0..Cardinality(Handlers)]
    /\ flush \in [pc : {"wait", "out", "conns"}, bytes : [Dirs -> Nat]]

\* Nothing broke this direction: its source was not cut, its target still receives.
Intact(h, d) == end[h][Source(d)] # "cut" /\ end[h][Target(d)] \in {"open", "half"}

Running(h) == pc[h] \in {"copying", "close"}

\* An end of stream is passed on, and a connection closed, only when the source has ended its
\* stream and after its last byte; so a client that half-closes its request gets the whole
\* response, whatever the other direction does (runner.go:259-274).
EndIsPassedOn ==
    \A h \in Handlers, d \in Dirs :
        Running(h) /\ copy[h][d].pc = "done" /\ Intact(h, d) =>
            end[h][Source(d)] # "open" /\ copy[h][d].n = sent[h][Source(d)]

Active == {h \in Handlers : pc[h] = "copying"}

\* ActiveConns is the number of connections that are copying, however they end
\* (runner.go:253-254).
GaugeIsExact == conns = Cardinality(Active)

\* What a copy has written and not yet counted.
Uncounted(h, d) == IF copy[h][d].pc \in {"read", "write", "count"} THEN copy[h][d].n ELSE 0

\* The traffic counters and the copies in progress add up to the bytes written, none lost and
\* none twice, also after errors (runner.go:262,271).
CountersAreExact ==
    \A d \in Dirs : bytes[d] + MapThenSumSet(LAMBDA h : Uncounted(h, d), Handlers) = moved[d]

\* The end of a stream, or its loss, reaches the other end if that one goes on reading, even
\* when nothing comes from there (runner.go:263-265,272-274).
EndReachesTarget ==
    \A h \in Handlers, d \in Dirs :
        WF_vars(Receive(h, Target(d))) =>
            ((pc[h] = "copying" /\ end[h][Source(d)] # "open") ~>
                (pc[h] # "copying" \/ copy[h][d].pc = "done"))

\* A handler whose two ends are gone returns and closes both (runner.go:238,251,276).
HandlersEnd ==
    \A h \in Handlers :
        (\A e \in Ends : end[h][e] \in {"closed", "cut"}) ~> (pc[h] = "idle")

\* When traffic stops, the published snapshot comes to show all of it: the three loads of
\* flushStat may be torn by a connection that ends, and the next tick corrects it
\* (runner.go:291-309).
StatCatchesUp ==
    (\A h \in Handlers : pc[h] = "idle") ~>
        \/ stat.bytes = moved /\ stat.conns = 0
        \/ \E h \in Handlers : pc[h] # "idle"
=============================================================================
