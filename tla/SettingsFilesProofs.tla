-------------------------- MODULE SettingsFilesProofs --------------------------
(***************************************************************************)
(* SettingsFiles for any number of concurrent requests and of crashes: no  *)
(* file is ever truncated, and no setting that was saved is lost to        *)
(* another.  The invariant: only the holder of the lock is between its     *)
(* read and its rename, so what `set` read is still what the file has.     *)
(***************************************************************************)
EXTENDS SettingsFiles, TLAPS

Writing == {"create", "write", "sync", "rename"}

\* The requests past the lock are its holder.
Exclusive ==
    \A r \in Requests : op[r].at \in Writing \cup {"unlock"} => writeLock = r

\* The temporary file of a writer is as far as its writer.
Staged ==
    \A r \in Requests :
       /\ At(r, "sync") => tmp[FileOf(r)] = [state |-> "written", entries |-> Changed(r)]
       /\ At(r, "rename") => tmp[FileOf(r)] = [state |-> "synced", entries |-> Changed(r)]

\* What `set` is about to change is what the settings are.
Current ==
    \A r \in Sets : op[r].at \in Writing => op[r].read = disk["settings"].entries

OnMedium == \A f \in Files : disk[f].whole /\ disk[f].durable

IInv == FilesTypeOK /\ Exclusive /\ Staged /\ Current /\ OnMedium /\ SettingsSurvive

LEMMA FileOfIsFile == \A r \in Requests : FileOf(r) \in Files
  BY DEF FileOf, Files

LEMMA InitInv == ASSUME FilesInit PROVE IInv
  <1>1. FilesTypeOK
    <2>1. disk \in [Files -> [entries : SUBSET Requests, whole : BOOLEAN, durable : BOOLEAN]]
      BY DEF FilesInit, Requests
    <2>2. op \in [Requests -> [at : {"new", "lock", "create", "write", "sync", "rename",
                                     "unlock", "over"},
                               read : SUBSET Requests]]
      BY DEF FilesInit
    <2> QED BY <2>1, <2>2, BoundsAssumption DEF FilesInit, FilesTypeOK, NoTmp
  <1>2. Exclusive /\ Staged /\ Current
    BY DEF FilesInit, Exclusive, Staged, Current, Writing, At, Requests
  <1>3. OnMedium /\ SettingsSurvive
    BY DEF FilesInit, OnMedium, SettingsSurvive
  <1> QED BY <1>1, <1>2, <1>3 DEF IInv

LEMMA BeginInv ==
    ASSUME IInv, NEW r \in Requests, BeginWrite(r)
    PROVE  IInv'
  <1> DEFINE next == IF r \in Sets THEN [at |-> "lock", read |-> {}]
                     ELSE [at |-> IF r \in Adds /\ r \in disk["addresses"].entries
                                  THEN "over" ELSE "lock",
                           read |-> disk["addresses"].entries]
  <1>1. /\ op' = [op EXCEPT ![r] = next] /\ op[r].at = "new"
        /\ UNCHANGED <<disk, tmp, writeLock, saved, crashes>>
    BY DEF BeginWrite, At
  <1>2. /\ next.at \in {"lock", "over"} /\ next.read \in SUBSET Requests
        /\ next = [at |-> next.at, read |-> next.read]
    BY DEF IInv, FilesTypeOK, Files
  <1> HIDE DEF next
  <1>3. op'[r] = next /\ \A q \in Requests \ {r} : op'[q] = op[q]
    BY <1>1 DEF IInv, FilesTypeOK
  <1>4. FilesTypeOK'
    BY <1>1, <1>2, <1>3 DEF IInv, FilesTypeOK
  <1>5. Exclusive' /\ Staged' /\ Current'
    BY <1>1, <1>2, <1>3 DEF IInv, Exclusive, Staged, Current, Writing, At, Changed, Requests
  <1> QED BY <1>1, <1>4, <1>5 DEF IInv, OnMedium, SettingsSurvive

LEMMA LockInv ==
    ASSUME IInv, NEW r \in Requests, Lock(r)
    PROVE  IInv'
  <1> DEFINE seen == IF r \in Sets THEN disk["settings"].entries ELSE op[r].read
  <1>1. /\ op' = [op EXCEPT ![r] = [at |-> "create", read |-> seen]]
        /\ op[r].at = "lock" /\ writeLock = NoWriter /\ writeLock' = r
        /\ UNCHANGED <<disk, tmp, saved, crashes>>
    BY DEF Lock, At
  <1>2. seen \in SUBSET Requests /\ (r \in Sets => seen = disk["settings"].entries)
    BY DEF IInv, FilesTypeOK, Files
  <1> HIDE DEF seen
  <1>3. /\ op'[r] = [at |-> "create", read |-> seen]
        /\ \A q \in Requests \ {r} : op'[q] = op[q]
    BY <1>1 DEF IInv, FilesTypeOK
  <1>4. \A q \in Requests : op[q].at \notin Writing \cup {"unlock"}
    BY <1>1, RequestsAssumption DEF IInv, Exclusive
  <1>5. FilesTypeOK'
    BY <1>1, <1>2, <1>3 DEF IInv, FilesTypeOK
  <1>6. Exclusive' /\ Staged' /\ Current'
    BY <1>1, <1>2, <1>3, <1>4
    DEF IInv, Exclusive, Staged, Current, Writing, At, Changed, Requests
  <1> QED BY <1>1, <1>5, <1>6 DEF IInv, OnMedium, SettingsSurvive

\* The steps that write the temporary file: one request moves, the file stays.
LEMMA TmpInv ==
    ASSUME IInv, NEW r \in Requests, Create(r) \/ Write(r) \/ Sync(r) \/ Fails(r)
    PROVE  IInv'
  <1> DEFINE f == FileOf(r)
  <1>0. f \in Files
    BY FileOfIsFile
  <1>1. /\ op[r].at \in Writing
        /\ op'[r].at \in {"write", "sync", "rename", "unlock"}
        /\ op'[r].read = op[r].read
        /\ \A q \in Requests \ {r} : op'[q] = op[q]
        /\ UNCHANGED <<disk, writeLock, saved, crashes>>
    BY DEF Create, Write, Sync, Fails, Writing, At, Go, IInv, FilesTypeOK
  <1>2. op' \in [Requests -> [at : {"new", "lock", "create", "write", "sync", "rename",
                                    "unlock", "over"},
                              read : SUBSET Requests]]
    <2>1. \E pc \in {"write", "sync", "rename", "unlock"} : op' = [op EXCEPT ![r].at = pc]
      BY DEF Create, Write, Sync, Fails, Go
    <2> QED BY <2>1 DEF IInv, FilesTypeOK
  <1>3. Changed(r) \in SUBSET Requests
    BY DEF Changed, IInv, FilesTypeOK
  <1>4. /\ tmp' \in [Files -> [state : {"none", "partial", "written", "synced"},
                               entries : SUBSET Requests]]
        /\ op'[r].at = "sync" => tmp'[f] = [state |-> "written", entries |-> Changed(r)]
        /\ op'[r].at = "rename" => tmp'[f] = [state |-> "synced", entries |-> Changed(r)]
    <2>1. CASE Create(r)
      BY <2>1, <1>0 DEF Create, Go, IInv, FilesTypeOK
    <2>2. CASE Write(r)
      BY <2>2, <1>0, <1>3 DEF Write, Go, IInv, FilesTypeOK
    <2>3. CASE Sync(r)
      <3>1. tmp[f] = [state |-> "written", entries |-> Changed(r)]
        BY <2>3 DEF Sync, IInv, Staged
      <3>2. /\ tmp' = [tmp EXCEPT ![f].state = "synced"]
            /\ op'[r].at = "rename"
        BY <2>3 DEF Sync, Go, IInv, FilesTypeOK
      <3>3. tmp'[f] = [state |-> "synced", entries |-> Changed(r)]
        BY <1>0, <3>1, <3>2 DEF IInv, FilesTypeOK
      <3> QED BY <1>0, <1>3, <3>2, <3>3 DEF IInv, FilesTypeOK
    <2>4. CASE Fails(r)
      BY <2>4, <1>0 DEF Fails, Go, NoTmp, IInv, FilesTypeOK
    <2> QED BY <2>1, <2>2, <2>3, <2>4
  <1>5. writeLock = r /\ \A q \in Requests \ {r} : op'[q].at \notin Writing \cup {"unlock"}
    BY <1>1 DEF IInv, Exclusive
  <1>6. FilesTypeOK'
    BY <1>1, <1>2, <1>4, <1>5 DEF IInv, FilesTypeOK, Writing
  <1>7. Exclusive'
    BY <1>1, <1>5 DEF IInv, Exclusive
  <1>8. Staged'
    BY <1>1, <1>4, <1>5 DEF Staged, At, Changed, Writing
  <1>9. Current'
    BY <1>1, <1>5 DEF IInv, Current, Writing, Requests
  <1> QED BY <1>1, <1>6, <1>7, <1>8, <1>9 DEF IInv, OnMedium, SettingsSurvive

LEMMA RenameInv ==
    ASSUME IInv, NEW r \in Requests, Rename(r)
    PROVE  IInv'
  <1> DEFINE f == FileOf(r)
  <1>0. f \in Files
    BY FileOfIsFile
  <1>1. tmp[f] = [state |-> "synced", entries |-> Changed(r)]
    BY DEF Rename, IInv, Staged
  <1>2. Changed(r) \in SUBSET Requests
    BY DEF Changed, IInv, FilesTypeOK
  <1>3. /\ disk' = [disk EXCEPT ![f] = [entries |-> Changed(r), whole |-> TRUE, durable |-> TRUE]]
        /\ tmp' = [tmp EXCEPT ![f] = NoTmp]
        /\ saved' = saved \cup {r}
        /\ UNCHANGED <<writeLock, crashes>>
    <2>1. /\ disk' = [disk EXCEPT ![f] =
                        [entries |-> tmp[f].entries, whole |-> tmp[f].state \in {"written", "synced"},
                         durable |-> tmp[f].state = "synced"]]
          /\ tmp' = [tmp EXCEPT ![f] = NoTmp]
          /\ saved' = saved \cup {r}
          /\ UNCHANGED <<writeLock, crashes>>
      BY DEF Rename
    <2>2. /\ tmp[f].entries = Changed(r)
          /\ (tmp[f].state \in {"written", "synced"}) = TRUE
          /\ (tmp[f].state = "synced") = TRUE
      BY <1>1
    <2> HIDE DEF f
    <2> QED BY <2>1, <2>2
  <1>4. /\ op[r].at = "rename" /\ op'[r].at = "unlock" /\ op'[r].read = op[r].read
        /\ \A q \in Requests \ {r} : op'[q] = op[q]
        /\ op' \in [Requests -> [at : {"new", "lock", "create", "write", "sync", "rename",
                                       "unlock", "over"},
                                 read : SUBSET Requests]]
    BY DEF Rename, At, Go, IInv, FilesTypeOK
  <1>5. writeLock = r /\ \A q \in Requests \ {r} : op'[q].at \notin Writing \cup {"unlock"}
    BY <1>4 DEF IInv, Exclusive, Writing
  <1>6. FilesTypeOK'
    BY <1>0, <1>2, <1>3, <1>4, <1>5 DEF IInv, FilesTypeOK, NoTmp
  <1>7. Exclusive' /\ Staged' /\ Current'
    BY <1>3, <1>4, <1>5 DEF Exclusive, Staged, Current, Writing, At, Requests
  <1>8. OnMedium'
    BY <1>0, <1>3 DEF IInv, OnMedium, FilesTypeOK
  <1>9. SettingsSurvive'
    <2>1. CASE r \in Sets
      <3>1. f = "settings" /\ Changed(r) = disk["settings"].entries \cup {r}
        BY <1>4, <2>1, RequestsAssumption DEF FileOf, Changed, IInv, Current, Writing
      <3>2. disk'["settings"].entries = disk["settings"].entries \cup {r}
        BY <1>0, <1>3, <3>1 DEF IInv, FilesTypeOK
      <3> QED BY <1>3, <3>2 DEF IInv, SettingsSurvive
    <2>2. CASE r \notin Sets
      <3>1. disk'["settings"] = disk["settings"]
        BY <1>3, <2>2 DEF FileOf, IInv, FilesTypeOK, Files
      <3> QED BY <1>3, <2>2, <3>1 DEF IInv, SettingsSurvive
    <2> QED BY <2>1, <2>2
  <1> QED BY <1>6, <1>7, <1>8, <1>9 DEF IInv

LEMMA UnlockInv ==
    ASSUME IInv, NEW r \in Requests, Unlock(r)
    PROVE  IInv'
  <1>1. /\ op[r].at = "unlock" /\ op'[r].at = "over" /\ op'[r].read = op[r].read
        /\ \A q \in Requests \ {r} : op'[q] = op[q]
        /\ op' \in [Requests -> [at : {"new", "lock", "create", "write", "sync", "rename",
                                       "unlock", "over"},
                                 read : SUBSET Requests]]
        /\ writeLock' = NoWriter
        /\ UNCHANGED <<disk, tmp, saved, crashes>>
    BY DEF Unlock, At, Go, IInv, FilesTypeOK
  <1>2. \A q \in Requests : op'[q].at \notin Writing \cup {"unlock"}
    BY <1>1 DEF IInv, Exclusive, Writing
  <1>3. FilesTypeOK'
    BY <1>1 DEF IInv, FilesTypeOK
  <1>4. Exclusive' /\ Staged' /\ Current'
    BY <1>2 DEF Exclusive, Staged, Current, Writing, At, Requests
  <1> QED BY <1>1, <1>3, <1>4 DEF IInv, OnMedium, SettingsSurvive

LEMMA CrashInv == ASSUME IInv, Crash PROVE IInv'
  <1>1. \A q \in Requests : op'[q].at \in {"new", "over"} /\ op'[q].read = op[q].read
    BY DEF Crash, At, IInv, FilesTypeOK
  <1>2. op' \in [Requests -> [at : {"new", "lock", "create", "write", "sync", "rename",
                                    "unlock", "over"},
                              read : SUBSET Requests]]
    BY DEF Crash, IInv, FilesTypeOK
  <1>3. disk' \in [Files -> [entries : SUBSET Requests, whole : BOOLEAN, durable : BOOLEAN]]
        /\ OnMedium'
    BY DEF Crash, IInv, FilesTypeOK, OnMedium
  <1>4. /\ tmp' \in [Files -> [state : {"none", "partial", "written", "synced"},
                               entries : SUBSET Requests]]
        /\ writeLock' = NoWriter /\ saved' = {} /\ crashes' \in 0..MaxCrashes
    BY BoundsAssumption DEF Crash, NoTmp, IInv, FilesTypeOK
  <1>5. FilesTypeOK'
    BY <1>2, <1>3, <1>4 DEF FilesTypeOK
  <1>6. Exclusive' /\ Staged' /\ Current'
    BY <1>1 DEF Exclusive, Staged, Current, Writing, At, Requests
  <1> QED BY <1>3, <1>4, <1>5, <1>6 DEF IInv, SettingsSurvive

LEMMA NextInv == ASSUME IInv, [FilesNext]_filesVars PROVE IInv'
  <1>1. ASSUME NEW r \in Requests, Step(r) PROVE IInv'
    BY <1>1, BeginInv, LockInv, TmpInv, RenameInv, UnlockInv DEF Step
  <1>2. ASSUME UNCHANGED filesVars PROVE IInv'
    BY <1>2
    DEF filesVars, IInv, FilesTypeOK, Exclusive, Staged, Current, OnMedium, SettingsSurvive, At, Changed
  <1> QED BY <1>1, <1>2, CrashInv DEF FilesNext, FilesSettled

\* Whoever writes and whenever the machine goes down, the settings and the
\* addresses are a version that was written to the end (write_atomic).
THEOREM NeverTruncatedHolds == FilesSpec => []NeverTruncated
  <1>1. IInv => NeverTruncated
    BY DEF IInv, OnMedium, NeverTruncated
  <1> QED BY <1>1, InitInv, NextInv, PTL DEF FilesSpec

\* Two concurrent read-modify-write cycles of `set` cannot drop each other's keys.
THEOREM SettingsSurviveHolds == FilesSpec => []SettingsSurvive
  <1>1. IInv => SettingsSurvive
    BY DEF IInv
  <1> QED BY <1>1, InitInv, NextInv, PTL DEF FilesSpec
===============================================================================
