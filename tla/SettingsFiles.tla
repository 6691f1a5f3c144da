----------------------------- MODULE SettingsFiles -----------------------------
(***************************************************************************)
(* The files of settings.rs: the settings, which `set` changes one key at  *)
(* a time, and the list of addresses that add-ip and remove-ip of          *)
(* daemon.rs change one address at a time.                                 *)
(*                                                                         *)
(* Every write replaces the file by way of a temporary one (write_atomic)  *)
(* under WRITE_LOCK.  `set` also reads under the lock; add-ip and               *)
(* remove-ip read the list, change it, and only the write is under the     *)
(* lock.  The daemon or the machine may go down between any two steps.     *)
(*                                                                         *)
(* An entry is named by the request that is about it: a request of Sets    *)
(* writes its own key, one of Adds adds its own address, one of Removes    *)
(* removes its own, which is in the list at the start.                     *)
(***************************************************************************)
EXTENDS Naturals, FiniteSets

CONSTANTS
    Sets, Adds, Removes,  \* the requests
    NoWriter,             \* the lock is free
    MaxCrashes            \* bound on crashes

Requests == Sets \cup Adds \cup Removes

ASSUME RequestsAssumption ==
    /\ NoWriter \notin Requests
    /\ Sets \cap Adds = {} /\ Sets \cap Removes = {} /\ Adds \cap Removes = {}
ASSUME BoundsAssumption == MaxCrashes \in Nat

VARIABLES
    disk,      \* the two files: their entries, and whether those are on the medium
    tmp,       \* the temporary file beside each
    writeLock, \* WRITE_LOCK: its holder
    op,        \* the requests: program point and the entries read
    saved,     \* requests that succeeded since the last crash
    crashes    \* how often the daemon went down

filesVars == <<disk, tmp, writeLock, op, saved, crashes>>

Files == {"settings", "addresses"}
FileOf(r) == IF r \in Sets THEN "settings" ELSE "addresses"

NoTmp == [state |-> "none", entries |-> {}]

FilesInit ==
    /\ disk = [f \in Files |-> [entries |-> IF f = "addresses" THEN Removes ELSE {},
                                whole |-> TRUE, durable |-> TRUE]]
    /\ tmp = [f \in Files |-> NoTmp]
    /\ writeLock = NoWriter
    /\ op = [r \in Requests |-> [at |-> "new", read |-> {}]]
    /\ saved = {}
    /\ crashes = 0

At(r, pc) == op[r].at = pc
Go(r, pc) == op' = [op EXCEPT ![r].at = pc]

-------------------------------------------------------------------------------
(* set, add_ip, remove_ip *)

\* `set` goes for the lock, the others read the list at once.
BeginWrite(r) ==
    /\ At(r, "new")
    /\ op' = [op EXCEPT ![r] =
                 IF r \in Sets THEN [at |-> "lock", read |-> {}]
                 ELSE [at |-> IF r \in Adds /\ r \in disk["addresses"].entries
                              THEN "over" ELSE "lock",
                       read |-> disk["addresses"].entries]]
    /\ UNCHANGED <<disk, tmp, writeLock, saved, crashes>>

\* Mutation of Lock: writes are not serialised.
LockNot(r) ==
    /\ At(r, "lock")
    /\ writeLock' = r
    /\ op' = [op EXCEPT ![r] = [at |-> "create",
                 read |-> IF r \in Sets THEN disk["settings"].entries ELSE @.read]]
    /\ UNCHANGED <<disk, tmp, saved, crashes>>

\* WRITE_LOCK is taken; `set` reads the settings under it.
Lock(r) ==
    /\ At(r, "lock") /\ writeLock = NoWriter
    /\ writeLock' = r
    /\ op' = [op EXCEPT ![r] = [at |-> "create",
                 read |-> IF r \in Sets THEN disk["settings"].entries ELSE @.read]]
    /\ UNCHANGED <<disk, tmp, saved, crashes>>

Changed(r) == IF r \in Removes THEN op[r].read \ {r} ELSE op[r].read \cup {r}

-------------------------------------------------------------------------------
(* write_atomic *)

\* A leftover is unlinked and the temporary file made anew.
Create(r) ==
    /\ At(r, "create")
    /\ tmp' = [tmp EXCEPT ![FileOf(r)] = [state |-> "partial", entries |-> {}]]
    /\ Go(r, "write")
    /\ UNCHANGED <<disk, writeLock, saved, crashes>>

\* Mutation of Write: there is no fsync.
WriteUnsynced(r) ==
    /\ At(r, "write")
    /\ tmp' = [tmp EXCEPT ![FileOf(r)] = [state |-> "written", entries |-> Changed(r)]]
    /\ Go(r, "rename")
    /\ UNCHANGED <<disk, writeLock, saved, crashes>>

Write(r) ==
    /\ At(r, "write")
    /\ tmp' = [tmp EXCEPT ![FileOf(r)] = [state |-> "written", entries |-> Changed(r)]]
    /\ Go(r, "sync")
    /\ UNCHANGED <<disk, writeLock, saved, crashes>>

Sync(r) ==
    /\ At(r, "sync")
    /\ tmp' = [tmp EXCEPT ![FileOf(r)].state = "synced"]
    /\ Go(r, "rename")
    /\ UNCHANGED <<disk, writeLock, saved, crashes>>

\* The temporary file becomes the file, in whatever state it is.
Rename(r) ==
    /\ At(r, "rename")
    /\ LET t == tmp[FileOf(r)] IN
       disk' = [disk EXCEPT ![FileOf(r)] =
                   [entries |-> t.entries, whole |-> t.state \in {"written", "synced"},
                    durable |-> t.state = "synced"]]
    /\ tmp' = [tmp EXCEPT ![FileOf(r)] = NoTmp]
    /\ saved' = saved \cup {r}
    /\ Go(r, "unlock")
    /\ UNCHANGED <<writeLock, crashes>>

\* A step fails, for want of space say: the temporary file is removed.
Fails(r) ==
    /\ op[r].at \in {"create", "write", "sync", "rename"}
    /\ tmp' = [tmp EXCEPT ![FileOf(r)] = NoTmp]
    /\ Go(r, "unlock")
    /\ UNCHANGED <<disk, writeLock, saved, crashes>>

Unlock(r) ==
    /\ At(r, "unlock")
    /\ writeLock' = NoWriter
    /\ Go(r, "over")
    /\ UNCHANGED <<disk, tmp, saved, crashes>>

-------------------------------------------------------------------------------

\* The machine goes down: the requests are lost, a file that was not on the medium
\* is found cut short.  The next daemon has another pid, and temporary name.
Crash ==
    /\ crashes < MaxCrashes
    /\ crashes' = crashes + 1
    /\ writeLock' = NoWriter
    /\ tmp' = [f \in Files |-> NoTmp]
    /\ op' = [r \in Requests |-> IF At(r, "new") THEN op[r] ELSE [op[r] EXCEPT !.at = "over"]]
    /\ disk' = [f \in Files |-> [disk[f] EXCEPT !.whole = @ /\ disk[f].durable]]
    /\ saved' = {}

FilesSettled ==
    /\ \A r \in Requests : At(r, "over")
    /\ UNCHANGED filesVars

Step(r) ==
    \/ BeginWrite(r) \/ Lock(r) \/ Create(r) \/ Write(r) \/ Sync(r) \/ Rename(r)
    \/ Fails(r) \/ Unlock(r)

FilesNext == (\E r \in Requests : Step(r)) \/ Crash \/ FilesSettled

FilesSpec == FilesInit /\ [][FilesNext]_filesVars

-------------------------------------------------------------------------------
(* Properties *)

\* Every variable has its type, and the lock is held by a request that writes.
FilesTypeOK ==
    /\ disk \in [Files -> [entries : SUBSET Requests, whole : BOOLEAN, durable : BOOLEAN]]
    /\ tmp \in [Files -> [state : {"none", "partial", "written", "synced"},
                          entries : SUBSET Requests]]
    /\ writeLock \in Requests \cup {NoWriter}
    /\ op \in [Requests -> [at : {"new", "lock", "create", "write", "sync", "rename",
                                  "unlock", "over"},
                            read : SUBSET Requests]]
    /\ saved \subseteq Requests /\ crashes \in 0..MaxCrashes
    /\ writeLock # NoWriter =>
         op[writeLock].at \in {"create", "write", "sync", "rename", "unlock"}

\* A crash, a full disk or two writers never leave a file truncated: a reader,
\* who takes no lock, finds a version that somebody wrote to the end.
NeverTruncated == \A f \in Files : disk[f].whole

\* A setting that was saved stays, whatever is saved meanwhile.
SettingsSurvive == \A r \in Sets : r \in saved => r \in disk["settings"].entries

===============================================================================
