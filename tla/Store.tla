------------------------------- MODULE Store -------------------------------
(***************************************************************************)
(* The tunnels of the store (internal/store): a copy in memory behind one  *)
(* mutex, and store.json, which flush replaces as a whole with a           *)
(* temporary file and a rename.  Each call is one critical section, so it  *)
(* is one action; `ok` says whether flush succeeded.  A flush that fails   *)
(* leaves the change in memory.                                            *)
(***************************************************************************)
CONSTANTS
    Ids,      \* tunnel identifiers
    Cfgs,     \* user-supplied settings of a tunnel: host, forwards, tuning
    Blank,    \* the settings of the placeholder AddTunnel inserts for a create
    Modes,    \* "local" and "reverse"
    NoTunnel  \* no entry

ASSUME BlankAssumption == Blank \notin Cfgs
ASSUME ModesAssumption == {"local"} \subseteq Modes /\ Modes \subseteq {"local", "reverse"}

Tunnel == [cfg : Cfgs \cup {Blank}, mode : Modes, enabled : BOOLEAN]

ASSUME NoTunnelAssumption == NoTunnel \notin Tunnel

VARIABLES
    mem,   \* Store.data.Tunnels, by id
    disk,  \* the same in store.json
    used,  \* auxiliary: the ids newID has returned
    gone   \* auxiliary: the ids whose deletion was written to disk

storeVars == <<mem, disk, used, gone>>

None == [i \in Ids |-> NoTunnel]

\* A new installation: Open writes an empty file.
StoreInit == mem = None /\ disk = None /\ used = {} /\ gone = {}

\* The caller holds the write lock.
Flush(m, ok) == mem' = m /\ disk' = IF ok THEN m ELSE disk

\* newID draws four random bytes; two equal draws are left out of the model.
AddTunnel(i, t, ok) ==
    /\ i \notin used
    /\ used' = used \cup {i}
    /\ Flush([mem EXCEPT ![i] = t], ok)
    /\ UNCHANGED gone

StoredOnce(i) == i \in used

\* UpdateTunnel finds an entry to replace; without one it returns ErrNotFound.
Stored(i) == mem[i] # NoTunnel

UpdateTunnel(i, t, ok) ==
    /\ Stored(i)
    /\ Flush([mem EXCEPT ![i] = t], ok)
    /\ UNCHANGED <<used, gone>>

DeleteTunnel(i, ok) ==
    /\ mem[i] # NoTunnel
    /\ Flush([mem EXCEPT ![i] = NoTunnel], ok)
    /\ gone' = IF ok THEN gone \cup {i} ELSE gone
    /\ UNCHANGED used

\* A new process opens the store.
Reopen == mem' = disk /\ UNCHANGED <<disk, used, gone>>

StoreNext ==
    \/ \E i \in Ids, ok \in BOOLEAN :
          \/ \E t \in Tunnel : AddTunnel(i, t, ok) \/ UpdateTunnel(i, t, ok)
          \/ DeleteTunnel(i, ok)
    \/ Reopen

\* What the store promises to its callers, whatever they do.
StoreSpec == StoreInit /\ [][StoreNext]_storeVars

-----------------------------------------------------------------------------
\* Types of the store.
StoreTypeOK ==
    /\ mem \in [Ids -> Tunnel \cup {NoTunnel}] /\ disk \in [Ids -> Tunnel \cup {NoTunnel}]
    /\ used \subseteq Ids /\ gone \subseteq used

\* A tunnel whose deletion was written stays deleted, in memory and on disk: no request that
\* still holds a copy of it, no failed flush and no restart brings it back.
DeletedStaysDeleted == \A i \in gone : mem[i] = NoTunnel /\ disk[i] = NoTunnel

\* Entries belong to ids that were handed out.
EntriesAreUsed == \A i \in Ids : mem[i] # NoTunnel \/ disk[i] # NoTunnel => i \in used
=============================================================================
