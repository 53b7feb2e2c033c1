------------------------- MODULE ForwardingProofs -------------------------
(* Theorems about Forwarding for any number of handlers, bytes and connections at once. *)
EXTENDS Forwarding, FiniteSetTheorems, WellFoundedInduction, TLAPS

\* The types without the bounds that follow from GaugeIsExact.
FieldTypes ==
    /\ pc \in [Handlers -> HandPcs]
    /\ copy \in [Handlers -> [Dirs -> [pc : CopyPcs, n : Nat]]]
    /\ end \in [Handlers -> [Ends -> {"open", "half", "closed", "cut"}]]
    /\ sent \in [Handlers -> [Ends -> Nat]]
    /\ full \in [Handlers -> [Ends -> BOOLEAN]]
    /\ bytes \in [Dirs -> Nat] /\ moved \in [Dirs -> Nat] /\ work \in Nat
    /\ stat \in [bytes : [Dirs -> Nat], conns : 0..Cardinality(Handlers)]
    /\ flush \in [pc : {"wait", "out", "conns"}, bytes : [Dirs -> Nat]]

\* The stream of direction d has ended and all of it has been written.
Through(h, d) == end[h][Source(d)] # "open" /\ copy[h][d].n = sent[h][Source(d)]

\* What the place of a copy says about the bytes of its direction: nothing is read that was
\* not sent, and a copy over an intact connection is over only after the last byte.
CopyFits(h, d) ==
    /\ copy[h][d].n <= sent[h][Source(d)]
    /\ copy[h][d].pc = "write" => copy[h][d].n < sent[h][Source(d)]
    /\ copy[h][d].pc \in {"count", "shut", "done"} /\ Intact(h, d) => Through(h, d)

\* Both copies are over when the handler closes, and copies only fit while it runs.
HandlerFits(h) ==
    /\ pc[h] = "close" => BothDone(h)
    /\ Running(h) => \A d \in Dirs : CopyFits(h, d)

Inv == FieldTypes /\ GaugeIsExact /\ \A h \in Handlers : HandlerFits(h)

\* A set of handlers is finite, and has at most all of them.
LEMMA ActiveBound ==
    /\ IsFiniteSet(Active) /\ Cardinality(Active) \in 0..Cardinality(Handlers)
    /\ Cardinality(Handlers) \in Nat
<1>1. Active \subseteq Handlers
  BY DEF Active
<1>2. IsFiniteSet(Active) /\ Cardinality(Active) <= Cardinality(Handlers)
  BY <1>1, FS_Subset, HandlersAssumption
<1> QED BY <1>2, FS_CardinalityType, HandlersAssumption

\* The invariant gives the checked properties.
LEMMA InvImplies == Inv => ForwardingTypeOK /\ EndIsPassedOn
<1> SUFFICES ASSUME Inv PROVE ForwardingTypeOK /\ EndIsPassedOn
  OBVIOUS
<1>1. ForwardingTypeOK
  BY ActiveBound DEF Inv, FieldTypes, GaugeIsExact, ForwardingTypeOK
<1>2. EndIsPassedOn
  BY DEF Inv, HandlerFits, CopyFits, Through, EndIsPassedOn
<1> QED BY <1>1, <1>2

\* No handler, nothing to forward.
LEMMA InitInv == Init => Inv
<1> SUFFICES ASSUME Init PROVE Inv
  OBVIOUS
<1>1. FieldTypes
  BY ActiveBound DEF Init, FieldTypes, HandPcs, CopyPcs, Resting, NoTraffic, Dirs, Ends
<1>2. Active = {}
  BY DEF Init, Active
<1>3. GaugeIsExact
  BY <1>2, FS_EmptySet DEF Init, GaugeIsExact
<1>4. ASSUME NEW h \in Handlers PROVE HandlerFits(h)
  BY <1>4 DEF Init, HandlerFits, Running
<1> QED BY <1>1, <1>3, <1>4 DEF Inv

\* A step that leaves the handlers where they are, or moves none into or out of the copying
\* state, leaves the gauge exact.
LEMMA GaugeKept ==
    ASSUME GaugeIsExact, conns' = conns,
           \A h \in Handlers : (pc'[h] = "copying") <=> (pc[h] = "copying")
    PROVE  GaugeIsExact'
<1>1. Active' = Active
  BY DEF Active
<1> QED BY <1>1 DEF GaugeIsExact

\* A step of one copy keeps the invariant if the copy still fits afterwards.
LEMMA CopyKeeps ==
    ASSUME Inv, NEW h \in Handlers, NEW d \in Dirs, Copy(h, d) PROVE Inv'
<1> USE DEF Inv, Copy, Copying, Dirs, Ends, Source, Target
<1>1. FieldTypes'
  <2> USE DEF FieldTypes, CopyPcs
  <2>1. copy[h][d] \in [pc : CopyPcs, n : Nat] /\ h \in Handlers /\ d \in {"up", "down"}
    OBVIOUS
  <2>2. CASE ReadSome(h, d)
    BY <2>1, <2>2 DEF ReadSome
  <2>3. CASE ReadEnds(h, d)
    BY <2>1, <2>3 DEF ReadEnds
  <2>4. CASE WriteSome(h, d)
    <3>1. copy' \in [Handlers -> [Dirs -> [pc : CopyPcs, n : Nat]]]
      BY <2>1, <2>4 DEF WriteSome
    <3>2. full' \in [Handlers -> [Ends -> BOOLEAN]] /\ moved' \in [Dirs -> Nat]
      BY <2>1, <2>4 DEF WriteSome
    <3> QED BY <2>4, <3>1, <3>2 DEF WriteSome
  <2>5. CASE WriteFails(h, d)
    BY <2>1, <2>5 DEF WriteFails
  <2>6. CASE Count(h, d)
    <3>1. copy' \in [Handlers -> [Dirs -> [pc : CopyPcs, n : Nat]]]
      BY <2>1, <2>6 DEF Count
    <3>2. bytes' \in [Dirs -> Nat]
      BY <2>1, <2>6 DEF Count
    <3> QED BY <2>6, <3>1, <3>2 DEF Count
  <2>7. CASE CloseWrite(h, d)
    BY <2>1, <2>7 DEF CloseWrite
  <2> QED BY <2>2, <2>3, <2>4, <2>5, <2>6, <2>7
<1>2. conns' = conns /\ pc' = pc /\ end' = end /\ sent' = sent /\ pc[h] = "copying"
  BY DEF ReadSome, ReadEnds, WriteSome, WriteFails, Count, CloseWrite
<1>3. GaugeIsExact'
  BY <1>2, GaugeKept
<1>4. \A g \in Handlers, e \in Dirs : g # h \/ e # d => copy'[g][e] = copy[g][e]
  BY DEF FieldTypes, ReadSome, ReadEnds, WriteSome, WriteFails, Count, CloseWrite
<1>5. CopyFits(h, d)'
  <2>1. CopyFits(h, d)
    BY <1>2 DEF HandlerFits, Running
  <2>2. copy[h][d] \in [pc : CopyPcs, n : Nat] /\ sent[h][Source(d)] \in Nat
    BY DEF FieldTypes
  <2>3. CASE ReadSome(h, d)
    BY <2>1, <2>2, <2>3, <1>2 DEF ReadSome, CopyFits, Through, Intact, FieldTypes
  <2>4. CASE ReadEnds(h, d)
    BY <2>1, <2>2, <2>4, <1>2 DEF ReadEnds, CopyFits, Through, Intact, FieldTypes
  <2>5. CASE WriteSome(h, d)
    BY <2>1, <2>2, <2>5, <1>2 DEF WriteSome, CopyFits, Through, Intact, FieldTypes
  <2>6. CASE WriteFails(h, d)
    BY <2>1, <2>2, <2>6, <1>2 DEF WriteFails, CopyFits, Through, Intact, FieldTypes
  <2>7. CASE Count(h, d)
    BY <2>1, <2>2, <2>7, <1>2 DEF Count, CopyFits, Through, Intact, FieldTypes
  <2>8. CASE CloseWrite(h, d)
    BY <2>1, <2>2, <2>8, <1>2 DEF CloseWrite, CopyFits, Through, Intact, FieldTypes
  <2> QED BY <2>3, <2>4, <2>5, <2>6, <2>7, <2>8 DEF Copy
<1>6. ASSUME NEW g \in Handlers, NEW e \in Dirs, Running(g) PROVE CopyFits(g, e)'
  <2>1. CASE g = h /\ e = d
    BY <2>1, <1>5
  <2>2. CASE g # h \/ e # d
    BY <2>2, <1>2, <1>4, <1>6 DEF HandlerFits, CopyFits, Through, Intact
  <2> QED BY <2>1, <2>2
<1>7. ASSUME NEW g \in Handlers PROVE HandlerFits(g)'
  <2>1. Running(g)' <=> Running(g)
    BY <1>2 DEF Running
  <2>2. pc'[g] = "close" => BothDone(g)'
    BY <1>2, <1>4 DEF HandlerFits, BothDone
  <2> QED BY <1>6, <2>1, <2>2 DEF HandlerFits
<1> QED BY <1>1, <1>3, <1>7

\* A step of a peer keeps it: what is sent extends an open stream only, and an end that has
\* ended does not open again.
LEMMA PeerKeeps ==
    ASSUME Inv, NEW h \in Handlers, NEW e \in Ends, Peer(h, e) PROVE Inv'
<1> DEFINE Later(g, c) ==
        /\ \/ sent'[g][c] = sent[g][c]
           \/ sent'[g][c] = sent[g][c] + 1 /\ end[g][c] = "open" /\ end'[g][c] = "open"
        /\ end[g][c] # "open" => end'[g][c] # "open"
        /\ end[g][c] = "cut" => end'[g][c] = "cut"
        /\ end[g][c] = "closed" => end'[g][c] \in {"closed", "cut"}
<1>1. FieldTypes /\ pc' = pc /\ copy' = copy /\ conns' = conns
  BY DEF Inv, Peer, Turns, HalfClose, FullClose, Abort, Send, Receive
<1>2. FieldTypes' /\ \A g \in Handlers, c \in Ends : Later(g, c)
  <2> USE <1>1 DEF FieldTypes
  <2>1. CASE Send(h, e)
    BY <2>1 DEF Send, Work
  <2>2. CASE Receive(h, e)
    BY <2>2 DEF Receive
  <2>3. CASE HalfClose(h, e)
    BY <2>3 DEF HalfClose, Turns
  <2>4. CASE FullClose(h, e)
    BY <2>4 DEF FullClose, Turns
  <2>5. CASE Abort(h, e)
    BY <2>5 DEF Abort, Turns
  <2> QED BY <2>1, <2>2, <2>3, <2>4, <2>5 DEF Peer
<1>3. GaugeIsExact'
  BY <1>1, GaugeKept DEF Inv
<1>4. ASSUME NEW g \in Handlers, NEW d \in Dirs, Running(g) PROVE CopyFits(g, d)'
  <2>1. CopyFits(g, d)
    BY <1>4 DEF Inv, HandlerFits
  <2>2. Source(d) \in Ends /\ Target(d) \in Ends
    BY DEF Dirs, Source, Target, Ends
  <2>3. /\ copy[g][d].n \in Nat /\ sent[g][Source(d)] \in Nat
        /\ end[g][Source(d)] \in {"open", "half", "closed", "cut"}
        /\ end[g][Target(d)] \in {"open", "half", "closed", "cut"}
    BY <1>1, <2>2 DEF FieldTypes
  <2>4. Later(g, Source(d)) /\ Later(g, Target(d))
    BY <1>2, <2>2
  <2> QED BY <1>1, <2>1, <2>3, <2>4 DEF CopyFits, Through, Intact
<1>5. ASSUME NEW g \in Handlers PROVE HandlerFits(g)'
  BY <1>1, <1>4 DEF HandlerFits, BothDone, Running, Inv
<1> QED BY <1>2, <1>3, <1>5 DEF Inv

\* A step of a handler keeps it; Start and Wait move the gauge with the set of active handlers.
LEMMA HandleKeeps ==
    ASSUME Inv, NEW h \in Handlers, OpenChannel(h) \/ Handle(h) PROVE Inv'
<1> USE DEF Inv, Handle
<1>1. ASSUME NEW g \in Handlers, g # h PROVE HandlerFits(g)'
  <2>1. /\ pc'[g] = pc[g] /\ copy'[g] = copy[g] /\ end'[g] = end[g] /\ sent'[g] = sent[g]
    BY <1>1 DEF FieldTypes, OpenChannel, Start, Wait, Close, Goes
  <2> QED BY <2>1 DEF HandlerFits, CopyFits, Through, Intact, BothDone, Running
<1>2. CASE OpenChannel(h)
  <2>1. FieldTypes' /\ HandlerFits(h)'
    BY <1>2 DEF FieldTypes, OpenChannel, Work, HandPcs, HandlerFits, Running
  <2>2. GaugeIsExact'
    BY <1>2, GaugeKept DEF FieldTypes, OpenChannel
  <2> QED BY <1>1, <2>1, <2>2
<1>3. CASE Close(h)
  <2>1. FieldTypes' /\ HandlerFits(h)'
    BY <1>3 DEF FieldTypes, Close, Goes, HandPcs, CopyPcs, Resting, HandlerFits, Running
  <2>2. GaugeIsExact'
    BY <1>3, GaugeKept DEF FieldTypes, Close, Goes
  <2> QED BY <1>1, <2>1, <2>2
<1>4. CASE Start(h)
  <2>1. FieldTypes'
    BY <1>4, ActiveBound DEF FieldTypes, Start, Goes, HandPcs, CopyPcs, Started
  <2>2. HandlerFits(h)'
    BY <1>4 DEF FieldTypes, Start, Goes, HandlerFits, CopyFits, Started, Source, Dirs, Ends
  <2>3. Active' = Active \cup {h} /\ h \notin Active
    BY <1>4 DEF FieldTypes, Active, Start, Goes
  <2>4. GaugeIsExact'
    BY <1>4, <2>3, ActiveBound, FS_AddElement DEF GaugeIsExact, Start
  <2> QED BY <1>1, <2>1, <2>2, <2>4
<1>5. CASE Wait(h)
  <2>1. FieldTypes'
    BY <1>5 DEF FieldTypes, Wait, Goes, HandPcs
  <2>2. HandlerFits(h)'
    BY <1>5 DEF FieldTypes, Wait, Goes, HandlerFits, CopyFits, Through, Intact, BothDone,
                Running
  <2>3. Active' = Active \ {h} /\ h \in Active
    BY <1>5 DEF FieldTypes, Active, Wait, Goes
  <2>4. GaugeIsExact'
    BY <1>5, <2>3, ActiveBound, FS_RemoveElement DEF GaugeIsExact, Wait
  <2> QED BY <1>1, <2>1, <2>2, <2>4
<1> QED BY <1>2, <1>3, <1>4, <1>5

\* flushStat changes nothing but the snapshot and its own copy of the counters.
LEMMA FlushKeeps == ASSUME Inv, FlushStat \/ UNCHANGED vars PROVE Inv'
<1>1. /\ UNCHANGED connVars
      /\ FieldTypes
  BY DEF Inv, FlushStat, LoadIn, LoadOut, Publish, vars
<1>2. conns \in 0..Cardinality(Handlers)
  BY ActiveBound DEF Inv, GaugeIsExact
<1>3. FieldTypes'
  <2> USE <1>1, <1>2 DEF FieldTypes, connVars, NoTraffic
  <2>1. CASE LoadIn
    BY <2>1 DEF LoadIn, Dirs
  <2>2. CASE LoadOut
    BY <2>2 DEF LoadOut, Dirs
  <2>3. CASE Publish
    BY <2>3 DEF Publish
  <2>4. CASE UNCHANGED vars
    BY <2>4 DEF vars
  <2> QED BY <2>1, <2>2, <2>3, <2>4 DEF FlushStat
<1>4. GaugeIsExact'
  BY <1>1, GaugeKept DEF Inv, connVars
<1>5. ASSUME NEW g \in Handlers PROVE HandlerFits(g)'
  BY <1>1 DEF Inv, connVars, HandlerFits, CopyFits, Through, Intact, BothDone, Running
<1> QED BY <1>3, <1>4, <1>5 DEF Inv

\* Every step keeps the invariant.
LEMMA StepInv == Inv /\ [Next]_vars => Inv'
BY CopyKeeps, PeerKeeps, HandleKeeps, FlushKeeps DEF Next

\* Types of every reachable state, with ActiveConns between 0 and the number of handlers.
THEOREM ForwardingTypes == Spec => []ForwardingTypeOK
<1> QED BY InvImplies, InitInv, StepInv, PTL DEF Spec

\* For any number of connections at once: an end of stream is passed on only after the last
\* byte of a stream that has ended (runner.go:259-274).
THEOREM EndsAreTrue == Spec => []EndIsPassedOn
<1> QED BY InvImplies, InitInv, StepInv, PTL DEF Spec

\* For any number of connections at once: ActiveConns counts those that copy
\* (runner.go:253-254).
THEOREM GaugeStaysExact == Spec => []GaugeIsExact
<1>1. Inv => GaugeIsExact
  BY DEF Inv
<1> QED BY <1>1, InitInv, StepInv, PTL DEF Spec

-----------------------------------------------------------------------------
(* The traffic counters.  The bytes that are written and not yet counted are counted one by *)
(* one, as the elements of a set, since a sum over a set of handlers is a recursive function. *)

\* The bytes that the copies of direction d have written and not yet counted, and those of the
\* handlers in V.
Pending(d) == {p \in Handlers \X Nat : p[2] < Uncounted(p[1], d)}
PendingOf(V, d) == {p \in Pending(d) : p[1] \in V}

\* A handler that does not copy has none.
RestInv == \A h \in Handlers, d \in Dirs :
    pc[h] \in {"idle", "opened"} => copy[h][d].pc = "done"

CountInv == \A d \in Dirs :
    IsFiniteSet(Pending(d)) /\ bytes[d] + Cardinality(Pending(d)) = moved[d]

\* What is uncounted is a number.
LEMMA UncountedType ==
    ASSUME FieldTypes, NEW h \in Handlers, NEW d \in Dirs PROVE Uncounted(h, d) \in Nat
BY DEF FieldTypes, Uncounted

\* One handler has as many bytes pending as it has written and not yet counted.
LEMMA OneHandler ==
    ASSUME FieldTypes, NEW h \in Handlers, NEW d \in Dirs
    PROVE  /\ IsFiniteSet(PendingOf({h}, d))
           /\ Cardinality(PendingOf({h}, d)) = Uncounted(h, d)
<1> DEFINE n == Uncounted(h, d)  f == [k \in 0..(n - 1) |-> <<h, k>>]
<1>1. n \in Nat
  BY UncountedType
<1>2. PendingOf({h}, d) = {<<h, k>> : k \in 0..(n - 1)}
  BY <1>1 DEF PendingOf, Pending
<1> HIDE DEF n
<1>3. f \in Bijection(0..(n - 1), PendingOf({h}, d))
  <2>1. f \in [0..(n - 1) -> PendingOf({h}, d)]
    BY <1>2
  <2>2. \A j, k \in 0..(n - 1) : f[j] = f[k] => j = k
    OBVIOUS
  <2>3. \A p \in PendingOf({h}, d) : \E k \in 0..(n - 1) : f[k] = p
    BY <1>2
  <2> HIDE DEF f
  <2> QED BY <2>1, <2>2, <2>3 DEF Bijection, Injection, IsInjective, Surjection
<1>4. IsFiniteSet(0..(n - 1)) /\ Cardinality(0..(n - 1)) = n
  BY <1>1, FS_Interval
<1>5. ExistsBijection(0..(n - 1), PendingOf({h}, d))
  BY <1>3 DEF ExistsBijection
<1> QED BY <1>4, <1>5, FS_Bijection DEF n

\* The sum in CountersAreExact is the number of pending bytes.  Its recursive function is the
\* one that counts the pending bytes of a set of handlers: that one satisfies the equation, and
\* a smallest set of handlers on which the two differ cannot be.
LEMMA SumIsPending ==
    ASSUME FieldTypes, NEW d \in Dirs, IsFiniteSet(Pending(d))
    PROVE  MapThenSumSet(LAMBDA h : Uncounted(h, d), Handlers) = Cardinality(Pending(d))
<1> DEFINE one(s) == CHOOSE x \in s : TRUE
           Sums(g) == [s \in SUBSET Handlers |->
                         IF s = {} THEN 0
                         ELSE LET x == CHOOSE x \in s : TRUE
                              IN  Uncounted(x, d) + g[s \ {x}]]
           sum == CHOOSE g : g = Sums(g)
           num == [s \in SUBSET Handlers |-> Cardinality(PendingOf(s, d))]
<1>1. MapThenSumSet(LAMBDA h : Uncounted(h, d), Handlers) = sum[Handlers]
  BY DEF MapThenSumSet, MapThenFoldSet
<1>2. ASSUME NEW s \in SUBSET Handlers
      PROVE  IsFiniteSet(PendingOf(s, d)) /\ num[s] \in Nat
  <2>1. PendingOf(s, d) \in SUBSET Pending(d)
    BY DEF PendingOf
  <2> QED BY <2>1, FS_Subset, FS_CardinalityType
<1>3. ASSUME NEW s \in SUBSET Handlers, NEW x \in s
      PROVE  num[s] = Uncounted(x, d) + num[s \ {x}]
  <2>1. /\ PendingOf(s, d) = PendingOf({x}, d) \cup PendingOf(s \ {x}, d)
        /\ PendingOf({x}, d) \cap PendingOf(s \ {x}, d) = {}
    BY DEF PendingOf
  <2>2. IsFiniteSet(PendingOf({x}, d)) /\ Cardinality(PendingOf({x}, d)) = Uncounted(x, d)
    BY OneHandler
  <2>3. s \ {x} \in SUBSET Handlers
    OBVIOUS
  <2>4. IsFiniteSet(PendingOf(s \ {x}, d)) /\ num[s \ {x}] \in Nat
    BY <1>2, <2>3
  <2>5. Cardinality(PendingOf(s, d)) =
            Cardinality(PendingOf({x}, d)) + Cardinality(PendingOf(s \ {x}, d)) - 0
    <3> DEFINE A == PendingOf({x}, d)  B == PendingOf(s \ {x}, d)
    <3>1. Cardinality(A \cup B) = Cardinality(A) + Cardinality(B) - Cardinality(A \cap B)
      BY <2>2, <2>4, FS_Union
    <3>2. Cardinality(A \cap B) = 0
      BY <2>1, FS_EmptySet
    <3> QED BY <2>1, <3>1, <3>2
  <2>6. Uncounted(x, d) \in Nat
    BY UncountedType
  <2> QED BY <2>2, <2>3, <2>4, <2>5, <2>6
<1>4. num[{}] = 0
  <2>1. PendingOf({}, d) = {}
    BY DEF PendingOf
  <2> QED BY <2>1, FS_EmptySet
<1>5. \A s \in SUBSET Handlers : s # {} => one(s) \in s
  OBVIOUS
<1>6. num = Sums(num)
  <2>1. ASSUME NEW s \in SUBSET Handlers PROVE num[s] = Sums(num)[s]
    <3>1. CASE s = {}
      BY <1>4, <3>1
    <3>2. CASE s # {}
      <4> DEFINE x == one(s)
      <4>1. x \in s
        BY <1>5, <3>2
      <4>2. Sums(num)[s] = Uncounted(x, d) + num[s \ {x}]
        BY <3>2
      <4> HIDE DEF x, num
      <4> QED BY <1>3, <4>1, <4>2
    <3> QED BY <3>1, <3>2
  <2> QED BY <2>1
<1>7. sum = Sums(sum)
  <2> HIDE DEF num, Sums
  <2> QED BY <1>6
<1>8. ASSUME NEW s \in SUBSET Handlers, s # {}, NEW x, x = one(s)
      PROVE  sum[s] = Uncounted(x, d) + sum[s \ {x}] /\ x \in s
  <2> HIDE DEF sum
  <2> QED BY <1>5, <1>7, <1>8
<1>9. sum[{}] = 0
  <2> HIDE DEF sum
  <2> QED BY <1>7
<1> HIDE DEF sum, num, one, Sums
<1>10. \A s \in SUBSET Handlers : sum[s] = num[s]
  <2> DEFINE T == {s \in SUBSET Handlers : sum[s] # num[s]}
  <2> SUFFICES ASSUME T # {} PROVE FALSE
    OBVIOUS
  <2>1. /\ IsWellFoundedOn(StrictSubsetOrdering(Handlers), FiniteSubsetsOf(Handlers))
        /\ T \subseteq FiniteSubsetsOf(Handlers)
    BY FS_StrictSubsetOrderingWellFounded, FS_FiniteSubsetsOfFinite, HandlersAssumption
  <2>2. PICK s \in T : \A r \in T : <<r, s>> \notin StrictSubsetOrdering(Handlers)
    BY <2>1, WFMin
  <2>3. s # {}
    BY <1>4, <1>9
  <2>4. PICK x : x = one(s)
    OBVIOUS
  <2>5. x \in s /\ sum[s] = Uncounted(x, d) + sum[s \ {x}]
    BY <1>8, <2>3, <2>4
  <2>6. num[s] = Uncounted(x, d) + num[s \ {x}]
    BY <1>3, <2>5
  <2>7. s \ {x} \in T
    BY <2>2, <2>5, <2>6
  <2>8. <<s \ {x}, s>> \in StrictSubsetOrdering(Handlers)
    BY <2>5 DEF StrictSubsetOrdering
  <2> QED BY <2>2, <2>7, <2>8
<1>11. PendingOf(Handlers, d) = Pending(d)
  BY DEF PendingOf, Pending
<1> QED BY <1>1, <1>10, <1>11 DEF num

\* A step that leaves what is uncounted and the counters keeps the balance.
LEMMA BalanceKept ==
    ASSUME CountInv, UNCHANGED <<bytes, moved>>,
           \A g \in Handlers, d \in Dirs : Uncounted(g, d)' = Uncounted(g, d)
    PROVE  CountInv'
<1>1. \A d \in Dirs : Pending(d)' = Pending(d)
  BY DEF Pending
<1> QED BY <1>1 DEF CountInv

\* A copy changes the bytes of its own direction only, and counts each when it ends.
LEMMA CopyCounts ==
    ASSUME Inv, CountInv, NEW h \in Handlers, NEW d \in Dirs, Copy(h, d)
    PROVE  CountInv'
<1> DEFINE c == copy[h][d]
<1>1. /\ FieldTypes /\ c \in [pc : CopyPcs, n : Nat] /\ c.n \in Nat
      /\ bytes[d] \in Nat /\ moved[d] \in Nat
  BY DEF Inv, FieldTypes
<1>2. ASSUME NEW next, copy' = [copy EXCEPT ![h][d] = next]
      PROVE  /\ copy'[h][d] = next
             /\ \A g \in Handlers, e \in Dirs : g # h \/ e # d => copy'[g][e] = copy[g][e]
  BY <1>1, <1>2 DEF FieldTypes
<1>3. ASSUME NEW next, copy' = [copy EXCEPT ![h][d] = next], UNCHANGED <<bytes, moved>>,
             \/ next.pc \in {"read", "write", "count"} /\ c.pc \in {"read", "write", "count"}
                /\ next.n = c.n
             \/ next.pc = "done" /\ c.pc = "shut"
      PROVE  CountInv'
  <2>1. \A g \in Handlers, e \in Dirs : Uncounted(g, e)' = Uncounted(g, e)
    BY <1>2, <1>3 DEF Uncounted
  <2> QED BY <1>3, <2>1, BalanceKept
<1>4. CASE ReadSome(h, d) \/ ReadEnds(h, d) \/ WriteFails(h, d)
  <2>1. PICK p \in {"write", "count"} :
            copy' = [copy EXCEPT ![h][d] = [copy[h][d] EXCEPT !.pc = p]]
    BY <1>4 DEF ReadSome, ReadEnds, WriteFails, Copying
  <2> DEFINE next == [c EXCEPT !.pc = p]
  <2>2. next.pc = p /\ next.n = c.n
    BY <1>1
  <2>3. c.pc \in {"read", "write"} /\ UNCHANGED <<bytes, moved>>
    BY <1>4 DEF ReadSome, ReadEnds, WriteFails, Copying
  <2>4. copy' = [copy EXCEPT ![h][d] = next]
    BY <2>1
  <2> HIDE DEF next, c
  <2> QED BY <1>3, <2>2, <2>3, <2>4
<1>5. CASE CloseWrite(h, d)
  <2> DEFINE next == [c EXCEPT !.pc = "done"]
  <2>1. next.pc = "done"
    BY <1>1
  <2>2. copy' = [copy EXCEPT ![h][d] = next] /\ c.pc = "shut" /\ UNCHANGED <<bytes, moved>>
    BY <1>5 DEF CloseWrite, Copying
  <2> HIDE DEF next, c
  <2> QED BY <1>3, <2>1, <2>2
<1>6. CASE WriteSome(h, d)
  <2> DEFINE next == [pc |-> "read", n |-> c.n + 1]
  <2>1. /\ copy' = [copy EXCEPT ![h][d] = next] /\ c.pc = "write"
        /\ moved' = [moved EXCEPT ![d] = @ + 1] /\ bytes' = bytes
    BY <1>6 DEF WriteSome, Copying
  <2>2. next.pc = "read" /\ next.n = c.n + 1
    OBVIOUS
  <2> HIDE DEF next
  <2>3. /\ Uncounted(h, d)' = c.n + 1 /\ Uncounted(h, d) = c.n
        /\ \A g \in Handlers, e \in Dirs : g # h \/ e # d => Uncounted(g, e)' = Uncounted(g, e)
    <3>1. Uncounted(h, d)' = next.n /\ Uncounted(h, d) = c.n
      BY <1>2, <2>1, <2>2 DEF Uncounted
    <3>2. ASSUME NEW g \in Handlers, NEW e \in Dirs, g # h \/ e # d
          PROVE  Uncounted(g, e)' = Uncounted(g, e)
      BY <1>2, <2>1, <3>2 DEF Uncounted
    <3> QED BY <2>2, <3>1, <3>2
  <2>4. \A e \in Dirs : e # d => Pending(e)' = Pending(e)
    BY <2>3 DEF Pending
  <2>5. Pending(d)' = Pending(d) \cup {<<h, c.n>>} /\ <<h, c.n>> \notin Pending(d)
    <3>1. \A k \in Nat : k < c.n + 1 <=> k < c.n \/ k = c.n
      BY <1>1
    <3> HIDE DEF c
    <3> QED BY <1>1, <2>3, <3>1 DEF Pending
  <2>6. IsFiniteSet(Pending(d)) /\ bytes[d] + Cardinality(Pending(d)) = moved[d]
    BY DEF CountInv
  <2>7. /\ IsFiniteSet(Pending(d)')
        /\ Cardinality(Pending(d)') = Cardinality(Pending(d)) + 1
    BY <2>5, <2>6, FS_AddElement
  <2>8. Cardinality(Pending(d)) \in Nat
    BY <2>6, FS_CardinalityType
  <2>9. moved'[d] = moved[d] + 1 /\ \A e \in Dirs : e # d => moved'[e] = moved[e]
    BY <1>1, <2>1 DEF FieldTypes
  <2>10. ASSUME NEW e \in Dirs
         PROVE  IsFiniteSet(Pending(e)') /\ bytes'[e] + Cardinality(Pending(e)') = moved'[e]
    <3>1. CASE e = d
      BY <1>1, <2>1, <2>6, <2>7, <2>8, <2>9, <3>1
    <3>2. CASE e # d
      BY <2>1, <2>4, <2>9, <3>2 DEF CountInv
    <3> QED BY <3>1, <3>2
  <2> QED BY <2>10 DEF CountInv
<1>7. CASE Count(h, d)
  <2> DEFINE next == [c EXCEPT !.pc = "shut"]
  <2>1. /\ copy' = [copy EXCEPT ![h][d] = next] /\ c.pc = "count"
        /\ bytes' = [bytes EXCEPT ![d] = @ + c.n] /\ moved' = moved
    BY <1>7 DEF Count, Copying
  <2>2. next.pc = "shut"
    BY <1>1
  <2> HIDE DEF next
  <2>3. /\ Uncounted(h, d)' = 0 /\ Uncounted(h, d) = c.n
        /\ \A g \in Handlers, e \in Dirs : g # h \/ e # d => Uncounted(g, e)' = Uncounted(g, e)
    <3>1. Uncounted(h, d)' = 0 /\ Uncounted(h, d) = c.n
      BY <1>2, <2>1, <2>2 DEF Uncounted
    <3>2. ASSUME NEW g \in Handlers, NEW e \in Dirs, g # h \/ e # d
          PROVE  Uncounted(g, e)' = Uncounted(g, e)
      BY <1>2, <2>1, <3>2 DEF Uncounted
    <3> QED BY <3>1, <3>2
  <2>4. \A e \in Dirs : e # d => Pending(e)' = Pending(e)
    BY <2>3 DEF Pending
  <2>5. /\ Pending(d) = Pending(d)' \cup PendingOf({h}, d)
        /\ Pending(d)' \cap PendingOf({h}, d) = {}
        /\ Pending(d)' \in SUBSET Pending(d)
    BY <2>3 DEF Pending, PendingOf
  <2>6. IsFiniteSet(Pending(d)) /\ bytes[d] + Cardinality(Pending(d)) = moved[d]
    BY DEF CountInv
  <2>7. IsFiniteSet(PendingOf({h}, d)) /\ Cardinality(PendingOf({h}, d)) = c.n
    BY <1>1, <2>3, OneHandler
  <2>8. IsFiniteSet(Pending(d)') /\ Cardinality(Pending(d)') \in Nat
    BY <2>5, <2>6, FS_Subset, FS_CardinalityType
  <2>9. Cardinality(Pending(d)) = Cardinality(Pending(d)') + c.n
    <3> DEFINE A == Pending(d)'  B == PendingOf({h}, d)
    <3>1. Cardinality(A \cup B) = Cardinality(A) + Cardinality(B) - Cardinality(A \cap B)
      BY <2>7, <2>8, FS_Union
    <3>2. Cardinality(A \cap B) = 0
      BY <2>5, FS_EmptySet
    <3> HIDE DEF c
    <3> QED BY <1>1, <2>5, <2>7, <2>8, <3>1, <3>2
  <2>10. bytes'[d] = bytes[d] + c.n /\ \A e \in Dirs : e # d => bytes'[e] = bytes[e]
    BY <1>1, <2>1 DEF FieldTypes
  <2>11. ASSUME NEW e \in Dirs
         PROVE  IsFiniteSet(Pending(e)') /\ bytes'[e] + Cardinality(Pending(e)') = moved'[e]
    <3>1. CASE e = d
      <4> HIDE DEF c
      <4> QED BY <1>1, <2>1, <2>6, <2>8, <2>9, <2>10, <3>1
    <3>2. CASE e # d
      BY <2>1, <2>4, <2>10, <3>2 DEF CountInv
    <3> QED BY <3>1, <3>2
  <2> QED BY <2>11 DEF CountInv
<1> QED BY <1>4, <1>5, <1>6, <1>7 DEF Copy

\* No other step writes or counts a byte; a handler starts and ends with nothing uncounted.
LEMMA OthersCount ==
    ASSUME Inv, RestInv, CountInv,
           \/ \E h \in Handlers : OpenChannel(h) \/ Handle(h)
           \/ \E h \in Handlers, e \in Ends : Peer(h, e)
           \/ FlushStat \/ UNCHANGED vars
    PROVE  CountInv'
<1>1. UNCHANGED <<bytes, moved>>
  BY DEF OpenChannel, Handle, Start, Wait, Close, Goes, Peer, Send, Receive, HalfClose,
     FullClose, Abort, Turns, FlushStat, LoadIn, LoadOut, Publish, vars, connVars
<1>2. CASE UNCHANGED copy
  BY <1>1, <1>2, BalanceKept DEF Uncounted
<1>3. ASSUME NEW h \in Handlers, Start(h) \/ Close(h) PROVE CountInv'
  <2>1. \A e \in Dirs : copy[h][e].pc = "done"
    BY <1>3 DEF Start, Close, Goes, RestInv, Inv, HandlerFits, BothDone
  <2>2. copy' = [copy EXCEPT ![h] = Started] \/ copy' = [copy EXCEPT ![h] = Resting]
    BY <1>3 DEF Start, Close
  <2>3. \A g \in Handlers, e \in Dirs : Uncounted(g, e)' = Uncounted(g, e)
    <3>1. ASSUME NEW e \in Dirs
          PROVE  copy'[h][e] \in {[pc |-> "read", n |-> 0], [pc |-> "done", n |-> 0]}
      BY <2>2 DEF Inv, FieldTypes, Started, Resting
    <3>2. ASSUME NEW e \in Dirs PROVE Uncounted(h, e)' = 0 /\ Uncounted(h, e) = 0
      BY <2>1, <3>1 DEF Uncounted
    <3>3. ASSUME NEW g \in Handlers, NEW e \in Dirs, g # h
          PROVE  Uncounted(g, e)' = Uncounted(g, e)
      BY <2>2, <3>3 DEF Inv, FieldTypes, Uncounted
    <3> QED BY <3>2, <3>3
  <2> QED BY <1>1, <2>3, BalanceKept
<1>4. \/ UNCHANGED copy \/ \E h \in Handlers : Start(h) \/ Close(h)
  BY DEF OpenChannel, Handle, Wait, Goes, Peer, Send, Receive, HalfClose, FullClose, Abort,
     Turns, FlushStat, LoadIn, LoadOut, Publish, vars, connVars
<1> QED BY <1>2, <1>3, <1>4

\* A handler that does not copy has two copies that are done.
LEMMA RestStep == Inv /\ RestInv /\ [Next]_vars => RestInv'
<1> SUFFICES ASSUME Inv, RestInv, [Next]_vars PROVE RestInv'
  OBVIOUS
<1>1. ASSUME NEW h \in Handlers, OpenChannel(h) \/ Handle(h) PROVE RestInv'
  BY <1>1 DEF OpenChannel, Handle, Start, Wait, Close, Goes, Resting, Inv, FieldTypes, RestInv
<1>2. ASSUME NEW h \in Handlers, NEW d \in Dirs, Copy(h, d) PROVE RestInv'
  <2>1. pc[h] = "copying" /\ pc' = pc /\ \E next : copy' = [copy EXCEPT ![h][d] = next]
    BY <1>2 DEF Copy, Copying, ReadSome, ReadEnds, WriteSome, WriteFails, Count, CloseWrite
  <2> QED BY <2>1 DEF Inv, FieldTypes, RestInv
<1>3. CASE UNCHANGED <<pc, copy>>
  BY <1>3 DEF RestInv
<1>4. \/ \E h \in Handlers : OpenChannel(h) \/ Handle(h)
      \/ \E h \in Handlers, d \in Dirs : Copy(h, d)
      \/ UNCHANGED <<pc, copy>>
  BY DEF Next, Peer, Send, Receive, HalfClose, FullClose, Abort, Turns, FlushStat, LoadIn,
     LoadOut, Publish, vars, connVars
<1> QED BY <1>1, <1>2, <1>3, <1>4

\* For any number of connections at once and however they end, the traffic counters and the
\* copies in progress add up to the bytes written, none lost and none twice
\* (runner.go:262,271).
THEOREM CountersStayExact == Spec => []CountersAreExact
<1>1. Init => RestInv /\ CountInv
  <2> SUFFICES ASSUME Init PROVE RestInv /\ CountInv
    OBVIOUS
  <2>1. RestInv
    BY DEF Init, RestInv, Resting
  <2>2. \A d \in Dirs : Pending(d) = {} /\ bytes[d] = 0 /\ moved[d] = 0
    BY DEF Init, Pending, Uncounted, Resting, NoTraffic
  <2> QED BY <2>1, <2>2, FS_EmptySet DEF CountInv
<1>2. Inv /\ RestInv /\ CountInv /\ [Next]_vars => CountInv'
  BY CopyCounts, OthersCount DEF Next
<1>3. Inv /\ CountInv => CountersAreExact
  BY SumIsPending DEF Inv, CountInv, CountersAreExact
<1> QED BY <1>1, <1>2, <1>3, InitInv, StepInv, RestStep, PTL DEF Spec
=============================================================================
