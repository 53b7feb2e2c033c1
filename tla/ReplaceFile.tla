---------------------------- MODULE ReplaceFile ----------------------------
(***************************************************************************)
(* Write a temporary file, then rename it over the real one: Store.flush   *)
(* and WriteStat do the same three system calls with the same temporary    *)
(* name.  Store.flush runs with the store's write lock held (Guarded);     *)
(* WriteStat is called by statLoop and by the end of Run, two goroutines   *)
(* that share no lock.  Names refer to inodes, and a process may die       *)
(* between two calls.                                                      *)
(***************************************************************************)
EXTENDS Naturals

CONSTANTS
    Writers,     \* goroutines that may write
    Inodes,      \* inode numbers; one that nothing refers to is reused
    Nil,         \* no inode, no goroutine
    Guarded,     \* whether a writer holds a lock
    MaxVersion   \* bound: versions written in a behaviour

ASSUME ReplaceAssumption ==
    /\ Nil \notin Inodes /\ Nil \notin Writers
    /\ Guarded \in BOOLEAN /\ MaxVersion \in Nat

VARIABLES
    file,     \* inode of the real name
    tmp,      \* inode of the temporary name
    content,  \* per inode: a version, or Empty or Torn
    newest,   \* the last version taken
    lock,     \* who holds the lock
    pc,       \* "idle", "open", "write", "rename"
    ver,      \* the version a writer writes
    fd        \* the inode it has open

vars == <<file, tmp, content, newest, lock, pc, ver, fd>>

Versions == 1..MaxVersion
Empty    == 0                \* truncated
Torn     == MaxVersion + 1   \* parts of one or two versions

Unused(n) == n \notin {file, tmp} /\ \A w \in Writers : fd[w] # n

Init ==
    /\ file = Nil /\ tmp = Nil /\ content = [n \in Inodes |-> Empty]
    /\ newest = 0 /\ lock = Nil
    /\ pc = [w \in Writers |-> "idle"] /\ ver = [w \in Writers |-> 0]
    /\ fd = [w \in Writers |-> Nil]

Finish(w) ==
    /\ pc' = [pc EXCEPT ![w] = "idle"] /\ ver' = [ver EXCEPT ![w] = 0]
    /\ fd' = [fd EXCEPT ![w] = Nil]
    /\ lock' = IF lock = w THEN Nil ELSE lock

BeginUnguarded(w) ==
    /\ pc[w] = "idle" /\ newest < MaxVersion
    /\ newest' = newest + 1
    /\ pc' = [pc EXCEPT ![w] = "open"] /\ ver' = [ver EXCEPT ![w] = newest + 1]
    /\ UNCHANGED <<file, tmp, content, fd, lock>>

\* Take the lock if there is one, and marshal the state.
Begin(w) ==
    /\ pc[w] = "idle" /\ newest < MaxVersion
    /\ IF Guarded THEN lock = Nil /\ lock' = w ELSE UNCHANGED lock
    /\ newest' = newest + 1
    /\ pc' = [pc EXCEPT ![w] = "open"] /\ ver' = [ver EXCEPT ![w] = newest + 1]
    /\ UNCHANGED <<file, tmp, content, fd>>

OpenInPlace(w) == \E n \in Inodes :
    /\ pc[w] = "open"
    /\ IF file = Nil THEN Unused(n) ELSE n = file
    /\ file' = n /\ fd' = [fd EXCEPT ![w] = n]
    /\ content' = [content EXCEPT ![n] = Empty]
    /\ pc' = [pc EXCEPT ![w] = "write"]
    /\ UNCHANGED <<tmp, newest, lock, ver>>

\* os.WriteFile opens the temporary name: an existing inode is truncated.
Open(w) == \E n \in Inodes :
    /\ pc[w] = "open"
    /\ IF tmp = Nil THEN Unused(n) ELSE n = tmp
    /\ tmp' = n /\ fd' = [fd EXCEPT ![w] = n]
    /\ content' = [content EXCEPT ![n] = Empty]
    /\ pc' = [pc EXCEPT ![w] = "write"]
    /\ UNCHANGED <<file, newest, lock, ver>>

\* The bytes go to the open inode, from its start; over longer bytes some of those remain.
Write(w) ==
    /\ pc[w] = "write"
    /\ \E c \in IF content[fd[w]] = Empty THEN {ver[w]} ELSE {ver[w], Torn} :
           content' = [content EXCEPT ![fd[w]] = c]
    /\ pc' = [pc EXCEPT ![w] = "rename"] /\ fd' = [fd EXCEPT ![w] = Nil]
    /\ UNCHANGED <<file, tmp, newest, lock, ver>>

\* os.Rename, an error when the temporary name is gone.
Rename(w) ==
    /\ pc[w] = "rename"
    /\ IF tmp # Nil THEN file' = tmp /\ tmp' = Nil ELSE UNCHANGED <<file, tmp>>
    /\ Finish(w)
    /\ UNCHANGED <<content, newest>>

\* A full disk: os.WriteFile fails after part of the bytes, and the call returns the error.
WriteFails(w) ==
    /\ pc[w] = "write"
    /\ content' = [content EXCEPT ![fd[w]] = Torn]
    /\ Finish(w)
    /\ UNCHANGED <<file, tmp, newest>>

\* The file cannot be opened, or the rename fails: the call returns the error.
CallFails(w) ==
    /\ pc[w] \in {"open", "rename"}
    /\ Finish(w)
    /\ UNCHANGED <<file, tmp, content, newest>>

\* The process dies, perhaps in the middle of a write, and another one starts.
Die ==
    /\ \E part \in {content} \cup {[content EXCEPT ![fd[w]] = Torn] :
                                       w \in {v \in Writers : pc[v] = "write"}} :
           content' = part
    /\ lock' = Nil /\ pc' = [w \in Writers |-> "idle"]
    /\ ver' = [w \in Writers |-> 0] /\ fd' = [w \in Writers |-> Nil]
    /\ UNCHANGED <<file, tmp, newest>>

Next ==
    \/ \E w \in Writers : Begin(w) \/ Open(w) \/ Write(w) \/ Rename(w)
                        \/ WriteFails(w) \/ CallFails(w)
    \/ Die

Spec == Init /\ [][Next]_vars

-----------------------------------------------------------------------------
(* Properties. *)

\* The variables have their types.
TypeOK ==
    /\ file \in Inodes \cup {Nil} /\ tmp \in Inodes \cup {Nil}
    /\ content \in [Inodes -> 0..MaxVersion + 1] /\ newest \in 0..MaxVersion
    /\ lock \in Writers \cup {Nil}
    /\ pc \in [Writers -> {"idle", "open", "write", "rename"}]
    /\ ver \in [Writers -> 0..MaxVersion] /\ fd \in [Writers -> Inodes \cup {Nil}]

\* A reader finds no file or one complete version, at every moment: "WriteStat atomically
\* persists a stat snapshot" (stat.go:27), "flush writes the store atomically" (store.go:122).
FileIsComplete == file # Nil => content[file] \in Versions

\* The version a reader finds.
Shown == IF file = Nil THEN 0 ELSE content[file]

Reg == INSTANCE Register WITH current <- Shown

\* With the lock held the file is an atomic register: complete, and never older than before,
\* through failed writes and deaths at any point.
AtomicReplace == Reg!RegisterSpec
=============================================================================
