------------------------------ MODULE StateStore ------------------------------
(***************************************************************************)
(* state.Store: the JSON document held in memory under a read-write lock   *)
(* and saved to state.json with a backup copy, with everything that can    *)
(* happen between two of its system calls.  A state is a version number;   *)
(* what a save writes, copies and renames is abstracted to which version a *)
(* file holds.                                                             *)
(***************************************************************************)
EXTENDS Integers

CONSTANTS
    Procs,       \* goroutines that call Update or Save
    MaxUpdates,  \* bound on the number of updates attempted
    Faults       \* which of FaultKinds may happen

FaultKinds ==
    { "io",       \* a system call of a save fails
      "dirSync",  \* the directory cannot be synced (an ignored error)
      "kill",     \* the process dies; the files are as it left them
      "power",    \* the machine dies; unsynced renames may be undone
      "corrupt" } \* state.json becomes unreadable, once

ASSUME FaultsAssumption == Faults \subseteq FaultKinds
ASSUME MaxUpdatesAssumption == MaxUpdates \in Nat

VARIABLES
    mem,        \* Store.state
    pc,         \* where each goroutine is in Update or Save
    kind,       \* which of the two it is in
    before,     \* Update's deep copy, for the rollback
    tmp,        \* what each goroutine's temporary file holds
    disk,       \* state.json and its backup, as processes see them
    durable,    \* the same, as they would survive a power failure
    corrupted,  \* whether the one corruption has happened
    made,       \* versions made so far
    acked,      \* the newest version an Update returned nil for
    failed,     \* versions whose Update returned an error
    previous,   \* the version readers saw before the one they see now
    uncopied    \* the backup missed a copy, or a power failure undid one

files == <<disk, durable>>
ghosts == <<acked, failed, previous, uncopied>>
vars == <<mem, pc, kind, before, tmp, disk, durable, corrupted, made, acked,
          failed, previous, uncopied>>

Fresh == 0
Versions == 0..MaxUpdates
Absent == -1
Unreadable == -2
File == Versions \cup {Absent, Unreadable}
Disk == [primary : File, backup : File]

May(f) == f \in Faults

TypeOK ==
    /\ mem \in Versions
    /\ pc \in [Procs -> {"idle", "changed", "written", "copied", "renamed"}]
    /\ kind \in [Procs -> {"update", "save"}]
    /\ before \in [Procs -> Versions]
    /\ tmp \in [Procs -> Versions]
    /\ disk \in Disk
    /\ durable \in Disk
    /\ corrupted \in BOOLEAN
    /\ made \in Versions
    /\ acked \in Versions
    /\ failed \subseteq Versions
    /\ previous \in Versions
    /\ uncopied \in BOOLEAN

\* Who holds the lock for writing, and who for reading.
Updating == {p \in Procs : pc[p] # "idle" /\ kind[p] = "update"}
Saving == {p \in Procs : pc[p] # "idle" /\ kind[p] = "save"}

\* What Snapshot returns, now or as soon as the writer lets it in.
Seen == IF Updating = {} THEN mem ELSE before[CHOOSE p \in Updating : TRUE]

\* load: a missing state.json means a new appliance, an unreadable one sends
\* it to the backup.
Load(d) ==
    CASE d.primary \in Versions -> d.primary
      [] d.primary = Absent -> Fresh
      [] OTHER -> IF d.backup \in Versions THEN d.backup ELSE Fresh

Init ==
    /\ disk = [primary |-> Absent, backup |-> Absent]
    /\ durable = disk
    /\ mem = Load(disk)
    /\ pc = [p \in Procs |-> "idle"]
    /\ kind = [p \in Procs |-> "update"]
    /\ before = [p \in Procs |-> Fresh]
    /\ tmp = [p \in Procs |-> Fresh]
    /\ corrupted = FALSE
    /\ made = Fresh
    /\ acked = Fresh
    /\ failed = {}
    /\ previous = Fresh
    /\ uncopied = FALSE

-----------------------------------------------------------------------------
(* Update and Save *)

\* Update takes the write lock, keeps a copy and lets the caller's function
\* change the state.  (A function that fails is rolled back under the same
\* lock, before anything was saved: no step.)
BeginUpdate(p) ==
    /\ pc[p] = "idle"
    /\ Updating = {} /\ Saving = {}
    /\ made < MaxUpdates
    /\ before' = [before EXCEPT ![p] = mem]
    /\ mem' = made + 1
    /\ made' = made + 1
    /\ kind' = [kind EXCEPT ![p] = "update"]
    /\ pc' = [pc EXCEPT ![p] = "changed"]
    /\ UNCHANGED <<tmp, files, corrupted, ghosts>>

\* Save shares the lock with other saves.
BeginSave(p) ==
    /\ pc[p] = "idle"
    /\ Updating = {}
    /\ kind' = [kind EXCEPT ![p] = "save"]
    /\ pc' = [pc EXCEPT ![p] = "changed"]
    /\ UNCHANGED <<mem, before, tmp, files, corrupted, made, ghosts>>

\* Marshal, create a temporary file, write, sync and close it.
WriteTemp(p) ==
    /\ pc[p] = "changed"
    /\ tmp' = [tmp EXCEPT ![p] = mem]
    /\ pc' = [pc EXCEPT ![p] = "written"]
    /\ UNCHANGED <<mem, kind, before, files, corrupted, made, ghosts>>

\* Altered: an existing backup is kept.
CopyBackupOnce(p) ==
    /\ pc[p] = "written"
    /\ pc' = [pc EXCEPT ![p] = "copied"]
    /\ disk' = IF disk.backup = Absent
               THEN [disk EXCEPT !.backup = disk.primary] ELSE disk
    /\ uncopied' = FALSE
    /\ UNCHANGED <<mem, kind, before, tmp, durable, corrupted, made, acked,
                   failed, previous>>

\* copyFileAtomic copies state.json to the backup, as it is; an error is
\* logged and the save goes on.
CopyBackup(p) ==
    /\ pc[p] = "written"
    /\ pc' = [pc EXCEPT ![p] = "copied"]
    /\ \/ /\ disk.primary # Absent
          /\ disk' = [disk EXCEPT !.backup = disk.primary]
          /\ uncopied' = FALSE
       \/ /\ disk.primary = Absent \/ May("io")
          /\ uncopied' = TRUE
          /\ UNCHANGED disk
    /\ UNCHANGED <<mem, kind, before, tmp, durable, corrupted, made, acked,
                   failed, previous>>

RenameTemp(p) ==
    /\ pc[p] = "copied"
    /\ disk' = [disk EXCEPT !.primary = tmp[p]]
    /\ pc' = [pc EXCEPT ![p] = "renamed"]
    /\ UNCHANGED <<mem, kind, before, tmp, durable, corrupted, made, ghosts>>

\* Altered: the directory is not synced.
ReturnUnsynced(p) ==
    /\ pc[p] = "renamed"
    /\ IF kind[p] = "update"
       THEN acked' = mem /\ previous' = before[p]
       ELSE UNCHANGED <<acked, previous>>
    /\ pc' = [pc EXCEPT ![p] = "idle"]
    /\ UNCHANGED <<mem, kind, before, tmp, files, corrupted, made, failed,
                   uncopied>>

\* The directory is synced, the error ignored; the lock is released.
Return(p) ==
    /\ pc[p] = "renamed"
    /\ \/ durable' = disk
       \/ May("dirSync") /\ UNCHANGED durable
    /\ IF kind[p] = "update"
       THEN acked' = mem /\ previous' = before[p]
       ELSE UNCHANGED <<acked, previous>>
    /\ pc' = [pc EXCEPT ![p] = "idle"]
    /\ UNCHANGED <<mem, kind, before, tmp, disk, corrupted, made, failed,
                   uncopied>>

\* Altered: the error is returned, the change is kept.
FailNoRollback(p) ==
    /\ May("io")
    /\ pc[p] \in {"changed", "copied"}
    /\ failed' = IF kind[p] = "update" THEN failed \cup {mem} ELSE failed
    /\ pc' = [pc EXCEPT ![p] = "idle"]
    /\ UNCHANGED <<mem, kind, before, tmp, files, corrupted, made, acked,
                   previous, uncopied>>

\* Writing the temporary file or renaming it fails: Update rolls back.
Fail(p) ==
    /\ May("io")
    /\ pc[p] \in {"changed", "copied"}
    /\ IF kind[p] = "update"
       THEN mem' = before[p] /\ failed' = failed \cup {mem}
       ELSE UNCHANGED <<mem, failed>>
    /\ pc' = [pc EXCEPT ![p] = "idle"]
    /\ UNCHANGED <<kind, before, tmp, files, corrupted, made, acked, previous,
                   uncopied>>

-----------------------------------------------------------------------------
(* Failures and restarts *)

\* Two unreadable files are renamed out of the way, each if it can be.
Quarantined(d) ==
    IF d.primary # Unreadable \/ d.backup \in Versions THEN {d}
    ELSE {[primary |-> Absent, backup |-> Absent]} \cup
         (IF May("io") THEN [primary : {Absent, d.primary},
                             backup : {Absent, d.backup}]
          ELSE {})

\* A new process opens the store on the files d.
Reopen(d) ==
    /\ mem' = Load(d)
    /\ previous' = IF Load(d) = Seen THEN previous ELSE Seen
    /\ disk' \in Quarantined(d)
    /\ pc' = [p \in Procs |-> "idle"]
    /\ UNCHANGED <<kind, before, tmp, corrupted, made, acked, failed>>

Kill ==
    /\ May("kill")
    /\ Reopen(disk)
    /\ durable' = IF disk' = disk THEN durable ELSE disk'
    /\ UNCHANGED uncopied

\* Each rename that was not synced has reached the disk or has not.
Survivors ==
    [primary : {disk.primary, durable.primary},
     backup : {disk.backup, durable.backup}]

PowerFailure ==
    /\ May("power")
    /\ \E d \in Survivors : Reopen(d)
    /\ durable' = disk'
    /\ uncopied' = TRUE

Corrupt ==
    /\ May("corrupt")
    /\ ~corrupted
    /\ disk.primary \in Versions
    /\ corrupted' = TRUE
    /\ disk' = [disk EXCEPT !.primary = Unreadable]
    /\ durable' = [durable EXCEPT !.primary = Unreadable]
    /\ UNCHANGED <<mem, pc, kind, before, tmp, made, ghosts>>

-----------------------------------------------------------------------------

Next ==
    \/ \E p \in Procs :
        \/ BeginUpdate(p) \/ BeginSave(p) \/ WriteTemp(p) \/ CopyBackup(p)
        \/ RenameTemp(p) \/ Return(p) \/ Fail(p)
    \/ Kill
    \/ PowerFailure
    \/ Corrupt

Spec == Init /\ [][Next]_vars

-----------------------------------------------------------------------------
(* Properties *)

\* Whatever way the process or the machine dies now, the next one starts from
\* an update that was acknowledged, or from a newer one.
AckedSurvives == \A d \in Survivors : Load(d) >= acked

\* An update that was reported as failed is gone: readers do not see it and
\* no restart brings it back.
FailedStaysGone ==
    /\ Seen \notin failed
    /\ \A d \in Survivors : Load(d) \notin failed

\* With no update in progress, memory holds what a restart would load,
\* through failed saves and concurrent ones.
MemoryIsDisk == Updating = {} => mem = Load(disk)

\* At rest the backup is at most one update behind, so that the loss of
\* state.json costs at most the last one (unless a copy failed or was undone,
\* and until the next one that succeeds).
BackupLagsByOne ==
    Updating = {} /\ Saving = {} /\ ~uncopied =>
        disk.backup \in {Absent, mem, previous}
            \cup (IF corrupted THEN {Unreadable} ELSE {})

\* The promise of the store: a restart finds what was acknowledged or
\* something newer, and readers never see anything but what is on disk.
Promise == INSTANCE DurableState WITH stored <- Load(disk), seen <- Seen
KeepsPromise == Promise!Spec
=============================================================================
