------------------------- MODULE ReplaceFileProofs -------------------------
(* With the lock held, replacing a file through a temporary one is atomic, *)
(* for any number of writers, inodes and versions.                         *)
EXTENDS ReplaceFile, TLAPS

\* Only the holder of the lock is at work, on the newest version, and its temporary file is
\* never the file readers see.
Inv ==
    /\ TypeOK
    /\ \A w \in Writers : pc[w] # "idle" =>
          lock = w /\ ver[w] = newest /\ ver[w] \in Versions /\ Shown < ver[w]
    /\ file # Nil => content[file] \in Versions /\ content[file] <= newest /\ file # tmp
    /\ \A w \in Writers : pc[w] = "write" => fd[w] = tmp /\ tmp # Nil /\ content[tmp] = Empty
    /\ \A w \in Writers : pc[w] = "rename" => tmp # Nil /\ content[tmp] = ver[w]
    /\ \A w \in Writers : pc[w] # "write" => fd[w] = Nil

\* The first state has it.
LEMMA InitInv == Init => Inv
BY ReplaceAssumption DEF Init, Inv, TypeOK, Versions, Empty, Shown

\* Every step of writers that take the lock keeps it.
LEMMA StepInv == ASSUME Guarded, Inv, [Next]_vars PROVE Inv'
<1> USE ReplaceAssumption DEF Inv, TypeOK, Versions, Empty, Torn, Shown
<1>1. ASSUME NEW w \in Writers, Begin(w) PROVE Inv'
  BY <1>1 DEF Begin
<1>2. ASSUME NEW w \in Writers, Open(w) PROVE Inv'
  BY <1>2 DEF Open, Unused
<1>3. ASSUME NEW w \in Writers, Write(w) PROVE Inv'
  BY <1>3 DEF Write
<1>4. ASSUME NEW w \in Writers, Rename(w) PROVE Inv'
  BY <1>4 DEF Rename, Finish
<1>5. ASSUME NEW w \in Writers, WriteFails(w) PROVE Inv'
  BY <1>5 DEF WriteFails, Finish
<1>6. ASSUME NEW w \in Writers, CallFails(w) PROVE Inv'
  BY <1>6 DEF CallFails, Finish
<1>7. CASE Die
  BY <1>7 DEF Die
<1>8. CASE UNCHANGED vars
  BY <1>8 DEF vars
<1> QED BY <1>1, <1>2, <1>3, <1>4, <1>5, <1>6, <1>7, <1>8 DEF Next

\* Readers never find an empty or torn file (Store.flush, store.go:122-133).
THEOREM FileAlwaysComplete == ASSUME Guarded PROVE Spec => []FileIsComplete
<1>1. Inv => FileIsComplete
  BY DEF Inv, FileIsComplete
<1> QED BY <1>1, InitInv, StepInv, PTL DEF Spec

\* A step either leaves what readers see, or shows them a newer version.
LEMMA StepReplaces == ASSUME Guarded, Inv, [Next]_vars PROVE [Reg!Replace]_Shown
<1> USE ReplaceAssumption DEF Inv, TypeOK, Versions, Empty, Torn, Shown
<1>1. ASSUME NEW w \in Writers, Rename(w) PROVE [Reg!Replace]_Shown
  BY <1>1 DEF Rename, Finish, Reg!Replace
<1>2. ASSUME NEW w \in Writers, Begin(w) \/ Open(w) \/ Write(w) \/ WriteFails(w) \/ CallFails(w)
      PROVE UNCHANGED Shown
  BY <1>2 DEF Begin, Open, Unused, Write, WriteFails, CallFails, Finish
<1>3. CASE Die
  BY <1>3 DEF Die
<1>4. CASE UNCHANGED vars
  BY <1>4 DEF vars
<1> QED BY <1>1, <1>2, <1>3, <1>4 DEF Next

\* Under the lock the file implements an atomic register.
THEOREM ReplaceIsAtomic == ASSUME Guarded PROVE Spec => AtomicReplace
<1>1. Init => Reg!RegisterInit
  BY DEF Init, Reg!RegisterInit, Shown
<1> QED BY <1>1, InitInv, StepInv, StepReplaces, PTL DEF Spec, AtomicReplace, Reg!RegisterSpec
=============================================================================
