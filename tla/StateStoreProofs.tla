--------------------------- MODULE StateStoreProofs ---------------------------
(***************************************************************************)
(* Crash safety of StateStore for any number of goroutines and updates.    *)
(* Each promise is proved under the faults it survives: memory and disk    *)
(* agree as long as state.json stays readable, DurableState is implemented *)
(* unless directories that cannot be synced meet power failures, and an    *)
(* acknowledged update is never at risk if they can be synced.  Under      *)
(* every fault, a failed update stays gone and the backup is close.        *)
(***************************************************************************)
EXTENDS StateStore, TLAPS

\* What a theorem may assume of the faults, from weak to strong.

\* state.json stays readable.
StaysReadable == "corrupt" \notin Faults

\* Moreover a directory that cannot be synced does not meet a power failure.
RenamesLast == StaysReadable /\ ~({"dirSync", "power"} \subseteq Faults)

\* Moreover every directory can be synced.
SoundDisk == Faults \cap {"dirSync", "corrupt"} = {}

\* Where an Update is: its change is in memory, and in state.json from the
\* rename on.
UpdateProgress(p) ==
    /\ Load(disk) = IF pc[p] = "renamed" THEN mem ELSE before[p]
    /\ before[p] < mem

StoreInv ==
    /\ TypeOK
    /\ disk.primary # Unreadable
    /\ durable.primary # Unreadable
    /\ \A p, q \in Procs : p \in Updating /\ pc[q] # "idle" => p = q
    /\ \A p \in Procs : pc[p] \in {"written", "copied", "renamed"} => tmp[p] = mem
    /\ Updating = {} => mem = Load(disk)
    /\ \A p \in Updating : UpdateProgress(p)
    /\ Load(durable) <= Load(disk)
    /\ mem <= made

-----------------------------------------------------------------------------
(* Operators *)

\* A readable or missing state.json alone decides what a restart loads.
LEMMA LoadPrimary ==
    ASSUME NEW d \in Disk, d.primary # Unreadable
    PROVE  Load(d) = IF d.primary = Absent THEN Fresh ELSE d.primary
  BY DEF Load, Disk, File, Absent, Unreadable, Versions, Fresh

LEMMA LoadVersion ==
    ASSUME NEW d \in Disk PROVE Load(d) \in Versions
  BY MaxUpdatesAssumption DEF Load, Disk, File, Versions, Fresh

\* Only one goroutine holds the write lock: readers see what it saw.
LEMMA SeenUnder ==
    ASSUME StoreInv, NEW p \in Procs, p \in Updating
    PROVE  Seen = before[p]
<1>1. Updating = {p}
  BY DEF StoreInv, Updating
<1> QED
  BY <1>1 DEF Seen

-----------------------------------------------------------------------------
(* The invariant *)

LEMMA StoreInvInit == Init => StoreInv
<1> SUFFICES ASSUME Init PROVE StoreInv
  OBVIOUS
<1>1. disk \in Disk /\ durable \in Disk /\ Load(disk) = Fresh /\ durable = disk
  BY LoadPrimary DEF Init, Disk, File, Absent, Unreadable
<1>2. TypeOK
  <2>1. Fresh \in Versions
    BY MaxUpdatesAssumption DEF Versions, Fresh
  <2> QED
    BY <1>1, <2>1 DEF Init, TypeOK
<1>3. Updating = {}
  BY DEF Init, Updating
<1> QED
  BY <1>1, <1>2, <1>3 DEF Init, StoreInv, Absent, Unreadable, Fresh

LEMMA StoreTypeNext == ASSUME TypeOK, [Next]_vars PROVE TypeOK'
<1> USE MaxUpdatesAssumption DEF TypeOK, Versions, Disk, File, files, ghosts
<1>1. ASSUME NEW p \in Procs,
             BeginUpdate(p) \/ BeginSave(p) \/ WriteTemp(p) \/ CopyBackup(p)
             \/ RenameTemp(p)
      PROVE  TypeOK'
  <2>1. CASE BeginUpdate(p)
    BY <2>1 DEF BeginUpdate
  <2>2. CASE BeginSave(p)
    BY <2>2 DEF BeginSave
  <2>3. CASE WriteTemp(p)
    BY <2>3 DEF WriteTemp
  <2>4. CASE CopyBackup(p)
    BY <2>4 DEF CopyBackup
  <2>5. CASE RenameTemp(p)
    BY <2>5 DEF RenameTemp
  <2> QED
    BY <1>1, <2>1, <2>2, <2>3, <2>4, <2>5
<1>2. ASSUME NEW p \in Procs, Return(p) \/ Fail(p) PROVE TypeOK'
  <2>1. CASE Return(p)
    BY <1>2, <2>1 DEF Return
  <2>2. CASE Fail(p)
    <3>1. mem' \in Versions /\ failed' \subseteq Versions
      BY <2>2 DEF Fail
    <3> QED
      BY <2>2, <3>1 DEF Fail
  <2> QED
    BY <1>2, <2>1, <2>2
<1>3. ASSUME NEW d \in Disk, Reopen(d) PROVE disk' \in Disk /\ mem' \in Versions
                                               /\ previous' \in Versions
  <2>1. disk' \in Disk
    BY <1>3 DEF Reopen, Quarantined
  <2>2. mem' \in Versions
    BY <1>3, LoadVersion DEF Reopen
  <2>3. Seen \in Versions
    BY DEF Seen, Updating
  <2> QED
    BY <1>3, <2>1, <2>2, <2>3 DEF Reopen
<1>4. CASE Kill
  BY <1>4, <1>3 DEF Kill, Reopen
<1>5. CASE PowerFailure
  <2>1. PICK d \in Survivors : Reopen(d)
    BY <1>5 DEF PowerFailure
  <2>2. d \in Disk
    BY DEF Survivors
  <2> QED
    BY <1>3, <1>5, <2>1, <2>2 DEF PowerFailure, Reopen
<1>6. CASE Corrupt
  BY <1>6 DEF Corrupt
<1>7. CASE UNCHANGED vars
  BY <1>7 DEF vars
<1> QED
  BY <1>1, <1>2, <1>4, <1>5, <1>6, <1>7 DEF Next

\* The store's variables keep their types, whatever fails.
THEOREM StoreTypeCorrect == Spec => []TypeOK
<1>1. Init => TypeOK
  BY StoreInvInit DEF StoreInv
<1>2. TypeOK /\ [Next]_vars => TypeOK'
  BY StoreTypeNext
<1> QED
  BY <1>1, <1>2, PTL DEF Spec

\* Steps of the goroutine p other than taking the lock leave it the only
\* writer, or leave the readers alone.
LEMMA StoreInvBegin ==
    ASSUME StoreInv, NEW p \in Procs, BeginUpdate(p) \/ BeginSave(p)
    PROVE  StoreInv'
<1> USE DEF StoreInv, TypeOK, files, ghosts
<1>0. TypeOK'
  BY StoreTypeNext DEF Next
<1>1. Updating = {} /\ Load(disk) = mem /\ UNCHANGED <<disk, durable, tmp, acked>>
  BY DEF BeginUpdate, BeginSave
<1>2. Load(disk)' = mem /\ Load(durable)' = Load(durable)
  BY <1>1
<1>3. mem \in Nat /\ made \in Nat /\ acked \in Nat /\ Load(durable) \in Nat
  BY LoadVersion DEF Versions
<1>4. CASE BeginUpdate(p)
  <2>1. Updating' = {p} /\ before'[p] = mem /\ mem' > mem /\ mem' = made'
        /\ pc'[p] = "changed"
    BY <1>3, <1>4 DEF BeginUpdate, Updating
  <2>2. \A q \in Procs \ {p} : pc'[q] = "idle"
    BY <1>4 DEF BeginUpdate, Updating, Saving
  <2>3. UpdateProgress(p)'
    BY <1>1, <1>2, <1>3, <2>1 DEF UpdateProgress
  <2> QED
    BY <1>0, <1>1, <1>2, <1>3, <2>1, <2>2, <2>3
<1>5. CASE BeginSave(p)
  <2>1. Updating' = {} /\ UNCHANGED <<mem, made>>
    BY <1>1, <1>5 DEF BeginSave, Updating
  <2>2. \A q \in Procs : pc'[q] \in {"written", "copied", "renamed"} =>
            pc'[q] = pc[q]
    BY <1>5 DEF BeginSave
  <2> QED
    BY <1>0, <1>1, <1>2, <2>1, <2>2
<1> QED
  BY <1>4, <1>5

LEMMA StoreInvPrepare ==
    ASSUME StoreInv, NEW p \in Procs, WriteTemp(p) \/ CopyBackup(p)
    PROVE  StoreInv'
<1> USE DEF StoreInv, TypeOK, files, ghosts
<1>0. TypeOK'
  BY StoreTypeNext DEF Next
<1>1. UNCHANGED <<mem, kind, before, durable, made, acked>>
      /\ disk'.primary = disk.primary
  BY DEF WriteTemp, CopyBackup, Disk
<1>2. Load(disk)' = Load(disk) /\ Load(durable)' = Load(durable)
  BY <1>0, <1>1, LoadPrimary
<1>3. Updating' = Updating /\ \A q \in Procs :
          /\ pc'[q] = "idle" <=> pc[q] = "idle"
          /\ pc'[q] = "renamed" <=> pc[q] = "renamed"
  BY <1>1 DEF WriteTemp, CopyBackup, Updating
<1>4. \A q \in Procs : pc'[q] \in {"written", "copied", "renamed"} => tmp'[q] = mem'
  BY <1>1 DEF WriteTemp, CopyBackup
<1>5. \A q \in Updating : UpdateProgress(q)'
  BY <1>1, <1>2, <1>3 DEF UpdateProgress, Updating
<1> QED
  BY <1>0, <1>1, <1>2, <1>3, <1>4, <1>5

\* The rename: an update becomes what a restart loads, a save changes
\* nothing.
LEMMA StoreInvRename ==
    ASSUME StoreInv, NEW p \in Procs, RenameTemp(p)
    PROVE  StoreInv'
<1> USE DEF StoreInv, TypeOK, files, ghosts
<1>0. TypeOK'
  BY StoreTypeNext DEF Next
<1>1. UNCHANGED <<mem, kind, before, tmp, durable, made, acked>>
      /\ disk'.primary = mem
  BY DEF RenameTemp, Disk
<1>2. Load(disk)' = mem /\ Load(durable)' = Load(durable)
  <2>1. disk' \in Disk /\ disk'.primary # Unreadable /\ disk'.primary # Absent
    BY <1>0, <1>1 DEF Versions, Unreadable, Absent
  <2> QED
    BY <1>1, <2>1, LoadPrimary
<1>3. Updating' = Updating /\ pc'[p] = "renamed" /\ \A q \in Procs \ {p} : pc'[q] = pc[q]
  BY <1>1 DEF RenameTemp, Updating
<1>4. \A q \in Procs : pc'[q] \in {"written", "copied", "renamed"} => tmp'[q] = mem'
  BY <1>1, <1>3 DEF RenameTemp
<1>5. \A q \in Updating : q = p
  <2>1. pc[p] # "idle"
    BY DEF RenameTemp
  <2>2. Updating \subseteq Procs
    BY DEF Updating
  <2> QED
    BY <2>1, <2>2
<1>6. Load(durable) <= mem
  <2>1. Load(disk) <= mem
    <3>1. CASE Updating = {}
      BY <3>1, MaxUpdatesAssumption DEF Versions
    <3>2. CASE Updating # {}
      <4>1. p \in Updating /\ UpdateProgress(p)
        BY <1>5, <3>2
      <4>2. Load(disk) = before[p] /\ before[p] < mem
        BY <4>1 DEF UpdateProgress, RenameTemp
      <4> QED
        BY <4>2, MaxUpdatesAssumption DEF Versions
    <3> QED
      BY <3>1, <3>2
  <2> QED
    BY <2>1, LoadVersion, MaxUpdatesAssumption DEF Versions
<1>7. \A q \in Updating : UpdateProgress(q)'
  BY <1>1, <1>2, <1>3, <1>5 DEF UpdateProgress, Updating
<1>8. disk'.primary # Unreadable
  BY <1>1 DEF Versions, Unreadable
<1> QED
  BY <1>0, <1>1, <1>2, <1>3, <1>4, <1>5, <1>6, <1>7, <1>8

\* The end of an update or a save.
LEMMA StoreInvReturn ==
    ASSUME StoreInv, NEW p \in Procs, Return(p)
    PROVE  StoreInv'
<1> USE DEF StoreInv, TypeOK, files, ghosts
<1>0. TypeOK'
  BY StoreTypeNext DEF Next
<1>1. UNCHANGED <<mem, kind, before, tmp, disk, made>>
      /\ durable' \in {disk, durable}
  BY DEF Return
<1>2. Load(disk)' = Load(disk) /\ Load(durable)' \in {Load(disk), Load(durable)}
  BY <1>1
<1>3. pc'[p] = "idle" /\ \A q \in Procs \ {p} : pc'[q] = pc[q]
  BY DEF Return
<1>4. \A q \in Procs : pc'[q] \in {"written", "copied", "renamed"} => tmp'[q] = mem'
  BY <1>1, <1>3
<1>5. Load(disk) \in Nat /\ Load(durable) \in Nat /\ mem \in Nat
  BY LoadVersion DEF Versions
<1>6. CASE p \in Updating
  <2>1. Load(disk) = mem /\ Updating' = {}
    BY <1>3, <1>6 DEF Return, UpdateProgress, Updating
  <2> QED
    BY <1>0, <1>1, <1>2, <1>4, <1>5, <2>1
<1>7. CASE p \notin Updating
  <2>1. Updating = {} /\ Updating' = {}
    BY <1>1, <1>3, <1>7 DEF Return, Updating
  <2> QED
    BY <1>0, <1>1, <1>2, <1>4, <1>5, <2>1
<1> QED
  BY <1>6, <1>7

LEMMA StoreInvFail ==
    ASSUME StoreInv, NEW p \in Procs, Fail(p)
    PROVE  StoreInv'
<1> USE DEF StoreInv, TypeOK, files, ghosts
<1>0. TypeOK'
  BY StoreTypeNext DEF Next
<1>1. UNCHANGED <<kind, before, tmp, disk, durable, made, acked>>
  BY DEF Fail
<1>2. Load(disk)' = Load(disk) /\ Load(durable)' = Load(durable)
  BY <1>1
<1>3. pc'[p] = "idle" /\ \A q \in Procs \ {p} : pc'[q] = pc[q]
  BY DEF Fail
<1>4. CASE p \in Updating
  <2>1. Updating' = {} /\ mem' = before[p] /\ Load(disk) = before[p]
        /\ \A q \in Procs : pc'[q] = "idle"
    BY <1>1, <1>3, <1>4 DEF Fail, UpdateProgress, Updating
  <2>2. mem' <= made
    BY <1>4, <2>1, MaxUpdatesAssumption DEF UpdateProgress, Versions
  <2> QED
    BY <1>0, <1>1, <1>2, <2>1, <2>2
<1>5. CASE p \notin Updating
  <2>1. Updating = {} /\ Updating' = {} /\ mem' = mem
    BY <1>1, <1>3, <1>5 DEF Fail, Updating
  <2> QED
    BY <1>0, <1>1, <1>2, <1>3, <2>1
<1> QED
  BY <1>4, <1>5

\* A restart on what survived: the files hold nothing newer than before, and
\* nobody is in the middle of anything.
LEMMA StoreInvReopen ==
    ASSUME StoreInv, TypeOK', disk'.primary # Unreadable,
           mem' = Load(disk)', pc' = [q \in Procs |-> "idle"],
           UNCHANGED made, Load(disk)' <= Load(disk),
           \/ durable' = disk'
           \/ durable' = durable /\ Load(disk)' = Load(disk)
    PROVE  StoreInv'
<1> USE DEF StoreInv, TypeOK
<1>1. Updating' = {} /\ \A q \in Procs : pc'[q] = "idle"
  BY DEF Updating
<1>5. Load(disk) <= made
  <2>1. CASE Updating = {}
    BY <2>1
  <2>2. CASE Updating # {}
    <3>1. PICK p \in Updating : UpdateProgress(p)
      BY <2>2
    <3>2. Load(disk) <= mem
      BY <3>1, MaxUpdatesAssumption DEF UpdateProgress, Versions, Updating
    <3> QED
      BY <3>2, LoadVersion, MaxUpdatesAssumption DEF Versions
  <2> QED
    BY <2>1, <2>2
<1>6. Load(disk)' <= made
  BY <1>5, LoadVersion, MaxUpdatesAssumption DEF Versions
<1>7. CASE durable' = durable /\ Load(disk)' = Load(disk)
  <2>1. Load(durable)' = Load(durable)
    BY <1>7
  <2> QED
    BY <1>1, <1>6, <1>7, <2>1
<1>8. CASE durable' = disk'
  <2>1. Load(durable)' = Load(disk)'
    BY <1>8
  <2> QED
    BY <1>1, <1>6, <1>8, <2>1, LoadVersion, MaxUpdatesAssumption DEF Versions
<1> QED
  BY <1>7, <1>8

\* What a power failure can leave is readable, and one of two versions.
LEMMA SurvivorsReadable ==
    ASSUME StoreInv, NEW d \in Survivors
    PROVE  /\ d \in Disk /\ d.primary # Unreadable
           /\ Load(d) \in {Load(disk), Load(durable)}
           /\ Load(d) <= Load(disk)
<1>1. d \in Disk /\ d.primary \in {disk.primary, durable.primary}
  BY DEF Survivors, StoreInv, TypeOK, Disk
<1>2. Load(d) \in {Load(disk), Load(durable)} /\ d.primary # Unreadable
  BY <1>1, LoadPrimary DEF StoreInv, TypeOK
<1>3. Load(disk) \in Nat /\ Load(durable) \in Nat
  BY LoadVersion DEF StoreInv, TypeOK, Versions
<1> QED
  BY <1>1, <1>2, <1>3 DEF StoreInv

LEMMA StoreInvNext == ASSUME StaysReadable, StoreInv, [Next]_vars PROVE StoreInv'
<1>0. TypeOK'
  BY StoreTypeNext DEF StoreInv
<1>1. ASSUME NEW d \in Survivors, Reopen(d)
      PROVE  /\ disk' = d /\ disk'.primary # Unreadable
             /\ mem' = Load(disk)' /\ pc' = [q \in Procs |-> "idle"]
             /\ UNCHANGED made /\ Load(disk)' <= Load(disk)
  <2>1. d \in Disk /\ d.primary # Unreadable /\ Load(d) <= Load(disk)
    BY SurvivorsReadable
  <2>2. disk' = d
    BY <1>1, <2>1 DEF Reopen, Quarantined
  <2> QED
    BY <1>1, <2>1, <2>2 DEF Reopen
<1>2. CASE Kill
  <2>1. disk \in Survivors
    BY DEF Survivors, StoreInv, TypeOK, Disk
  <2>2. disk' = disk /\ durable' = durable
    BY <1>1, <1>2, <2>1 DEF Kill
  <2>3. Load(disk)' = Load(disk)
    BY <2>2
  <2> QED
    BY <1>0, <1>1, <1>2, <2>1, <2>2, <2>3, StoreInvReopen DEF Kill
<1>9. CASE PowerFailure
  <2>1. PICK d \in Survivors : Reopen(d)
    BY <1>9 DEF PowerFailure
  <2>2. durable' = disk'
    BY <1>9 DEF PowerFailure
  <2> QED
    BY <1>0, <1>1, <2>1, <2>2, StoreInvReopen
<1>3. CASE UNCHANGED vars
  <2>1. UNCHANGED <<disk, durable, pc, kind, before, mem, acked, tmp, made>>
    BY <1>3 DEF vars
  <2>2. Load(disk)' = Load(disk) /\ Load(durable)' = Load(durable)
        /\ Updating' = Updating
    BY <2>1 DEF Updating
  <2>3. \A p \in Updating : UpdateProgress(p)' <=> UpdateProgress(p)
    BY <2>1, <2>2 DEF UpdateProgress
  <2> QED
    BY <1>0, <2>1, <2>2, <2>3 DEF StoreInv
<1>4. ~Corrupt
  BY DEF Corrupt, StaysReadable, May
<1> QED
  BY <1>2, <1>3, <1>4, <1>9, StoreInvBegin, StoreInvPrepare, StoreInvRename,
     StoreInvReturn, StoreInvFail DEF Next

LEMMA StoreInvAlways == ASSUME StaysReadable PROVE Spec => []StoreInv
<1>1. Init => StoreInv
  BY StoreInvInit
<1>2. StoreInv /\ [Next]_vars => StoreInv'
  BY StoreInvNext
<1> QED
  BY <1>1, <1>2, PTL DEF Spec

\* At rest, the memory is what a restart would load: whatever saves fail or
\* overlap, and whatever a power failure takes back.
THEOREM MemoryMatchesDisk == ASSUME StaysReadable PROVE Spec => []MemoryIsDisk
<1>1. StoreInv => MemoryIsDisk
  BY DEF StoreInv, MemoryIsDisk
<1> QED
  BY StoreInvAlways, <1>1, PTL

-----------------------------------------------------------------------------
(* What was acknowledged *)

\* state.json, and the copy for the rollback, are as new as what was
\* acknowledged; and so is what the machine would find after a power failure,
\* if the directory is synced before anything is acknowledged.
AckInv ==
    /\ acked <= Load(disk)
    /\ \A p \in Updating : acked <= before[p]
    /\ "dirSync" \notin Faults => acked <= Load(durable)

LEMMA AckInvInit == Init => AckInv
<1> SUFFICES ASSUME Init PROVE AckInv
  OBVIOUS
<1>1. Updating = {} /\ Load(disk) = Fresh /\ durable = disk /\ acked = Fresh
  BY StoreInvInit, LoadPrimary DEF Init, Updating, StoreInv, TypeOK, Absent,
     Unreadable
<1> QED
  BY <1>1 DEF AckInv, Fresh

LEMMA AckInvNext ==
    ASSUME RenamesLast, StoreInv, AckInv, [Next]_vars
    PROVE  AckInv'
<1> USE DEF StoreInv, TypeOK, files, ghosts
<1>0. TypeOK' /\ StoreInv'
  BY StoreTypeNext, StoreInvNext DEF RenamesLast
<1>1. /\ acked \in Nat /\ mem \in Nat /\ Load(disk) \in Nat
      /\ Load(durable) \in Nat /\ \A p \in Procs : before[p] \in Nat
  BY LoadVersion DEF Versions
<1>2. acked <= mem
  BY <1>1 DEF AckInv, UpdateProgress, Updating
<1>3. ASSUME NEW p \in Procs, BeginUpdate(p) \/ BeginSave(p)
      PROVE  AckInv'
  <2>1. UNCHANGED <<disk, durable, acked>>
        /\ \A q \in Updating' : before'[q] = mem
    BY <1>3 DEF BeginUpdate, BeginSave, Updating
  <2> QED
    BY <1>2, <2>1 DEF AckInv
<1>4. ASSUME NEW p \in Procs, WriteTemp(p) \/ CopyBackup(p) \/ RenameTemp(p)
      PROVE  AckInv'
  <2>1. UNCHANGED <<mem, before, durable, acked>> /\ Updating' = Updating
    BY <1>4 DEF WriteTemp, CopyBackup, RenameTemp, Updating
  <2>2. Load(disk)' \in {Load(disk), mem}
    <3>1. disk'.primary \in {disk.primary, mem}
      BY <1>4 DEF WriteTemp, CopyBackup, RenameTemp, Disk
    <3> QED
      BY <1>0, <3>1, LoadPrimary DEF Versions, Absent
  <2>3. Load(durable)' = Load(durable)
    BY <2>1
  <2> QED
    BY <1>2, <2>1, <2>2, <2>3 DEF AckInv
<1>5. ASSUME NEW p \in Procs, Return(p)
      PROVE  AckInv'
  <2>1. Load(disk)' = Load(disk) /\ Updating' = Updating \ {p}
        /\ UNCHANGED before
    BY <1>5 DEF Return, Updating
  <2>2. "dirSync" \notin Faults => Load(durable)' = Load(disk)
    BY <1>5 DEF Return, May
  <2>3. CASE p \in Updating
    <3>1. acked' = mem /\ Load(disk) = mem /\ Updating' = {}
      BY <1>5, <2>1, <2>3 DEF Return, Updating, UpdateProgress
    <3> QED
      BY <1>1, <2>1, <2>2, <3>1 DEF AckInv
  <2>4. CASE p \notin Updating
    <3>1. acked' = acked
      BY <1>5, <2>4 DEF Return, Updating
    <3> QED
      BY <2>1, <2>2, <3>1 DEF AckInv
  <2> QED
    BY <2>3, <2>4
<1>6. ASSUME NEW p \in Procs, Fail(p)
      PROVE  AckInv'
  <2>1. UNCHANGED <<disk, durable, before, acked>> /\ Updating' \subseteq Updating
    BY <1>6 DEF Fail, Updating
  <2> QED
    BY <2>1 DEF AckInv
<1>7. CASE Kill \/ PowerFailure
  <2>1. disk \in Survivors
    BY DEF Survivors, Disk
  <2>2. PICK d \in Survivors : Reopen(d) /\ (Kill => d = disk)
    BY <1>7, <2>1 DEF Kill, PowerFailure
  <2>3. d \in Disk /\ d.primary # Unreadable
        /\ Load(d) \in {Load(disk), Load(durable)}
    BY SurvivorsReadable
  <2>4. disk' = d /\ Updating' = {} /\ acked' = acked
    BY <2>2, <2>3 DEF Reopen, Quarantined, Updating
  <2>5. acked <= Load(d)
    <3>1. CASE "dirSync" \in Faults
      BY <1>7, <2>2, <3>1 DEF PowerFailure, May, RenamesLast, AckInv
    <3>2. CASE "dirSync" \notin Faults
      BY <2>3, <3>2 DEF AckInv
    <3> QED
      BY <3>1, <3>2
  <2>6. Load(durable)' \in {Load(d), Load(durable)}
    BY <1>7, <2>2, <2>4 DEF Kill, PowerFailure
  <2> QED
    BY <2>4, <2>5, <2>6 DEF AckInv
<1>8. CASE UNCHANGED vars
  BY <1>8 DEF vars, AckInv, Updating
<1>9. ~Corrupt
  BY DEF Corrupt, RenamesLast, StaysReadable, May
<1> QED
  BY <1>3, <1>4, <1>5, <1>6, <1>7, <1>8, <1>9 DEF Next

LEMMA AckInvAlways ==
    ASSUME RenamesLast PROVE Spec => [](StoreInv /\ AckInv)
<1>1. Init => AckInv
  BY AckInvInit
<1>2. StoreInv /\ AckInv /\ [Next]_vars => AckInv'
  BY AckInvNext
<1>3. Spec => []StoreInv
  BY StoreInvAlways DEF RenamesLast
<1> QED
  BY <1>1, <1>2, <1>3, PTL DEF Spec

\* An acknowledged update survives every failed system call, killed process
\* and power failure, for any number of goroutines and updates.
THEOREM CrashSafety == ASSUME SoundDisk PROVE Spec => []AckedSurvives
<1>1. StoreInv /\ AckInv => AckedSurvives
  <2>1. ASSUME StoreInv, AckInv, NEW d \in Survivors PROVE Load(d) >= acked
    <3>1. acked \in Nat /\ Load(d) \in Nat
      BY <2>1, SurvivorsReadable, LoadVersion DEF StoreInv, TypeOK, Versions
    <3>2. acked <= Load(disk) /\ acked <= Load(durable)
      BY <2>1 DEF AckInv, SoundDisk
    <3> QED
      BY <2>1, <3>1, <3>2, SurvivorsReadable
  <2> QED
    BY <2>1 DEF AckedSurvives
<1>2. Spec => [](StoreInv /\ AckInv)
  BY AckInvAlways DEF SoundDisk, RenamesLast, StaysReadable
<1> QED
  BY <1>1, <1>2, PTL

-----------------------------------------------------------------------------
(* Refinement *)

LEMMA SeenFree == Updating = {} => Seen = mem
  BY DEF Seen

\* Every step of the store is a step of DurableState or leaves it alone.
LEMMA PromiseStep ==
    ASSUME StaysReadable, StoreInv, StoreInv', AckInv', [Next]_vars
    PROVE  [Promise!Next]_<<Load(disk), Seen, acked>>
<1> USE DEF StoreInv, TypeOK, files, ghosts
<1>1. ASSUME NEW p \in Procs, BeginUpdate(p)
      PROVE  UNCHANGED <<Load(disk), Seen, acked>>
  <2>1. Updating = {} /\ p \in Updating' /\ before'[p] = mem
        /\ UNCHANGED <<disk, acked>>
    BY <1>1 DEF BeginUpdate, Updating
  <2>2. Seen' = before'[p]
    <3>1. Updating' = {p}
      BY <2>1, <1>1 DEF Updating, BeginUpdate
    <3> QED
      BY <3>1 DEF Seen
  <2> QED
    BY <2>1, <2>2, SeenFree
<1>2. ASSUME NEW p \in Procs, BeginSave(p)
      PROVE  UNCHANGED <<Load(disk), Seen, acked>>
  <2>1. Updating = {} /\ Updating' = {} /\ UNCHANGED <<mem, disk, acked>>
    BY <1>2 DEF BeginSave, Updating
  <2> QED
    BY <2>1 DEF Seen
<1>3. ASSUME NEW p \in Procs, WriteTemp(p) \/ CopyBackup(p)
      PROVE  UNCHANGED <<Load(disk), Seen, acked>>
  <2>1. UNCHANGED <<mem, before, acked>> /\ disk'.primary = disk.primary
        /\ Updating' = Updating
    BY <1>3 DEF WriteTemp, CopyBackup, Updating, Disk
  <2>2. Load(disk)' = Load(disk)
    BY <2>1, LoadPrimary
  <2> QED
    BY <2>1, <2>2 DEF Seen
<1>4. ASSUME NEW p \in Procs, RenameTemp(p)
      PROVE  [Promise!Next]_<<Load(disk), Seen, acked>>
  <2>1. UNCHANGED <<mem, before, acked>> /\ Updating' = Updating
        /\ pc'[p] = "renamed"
    BY <1>4 DEF RenameTemp, Updating
  <2>2. Seen' = Seen
    BY <2>1 DEF Seen
  <2>3. CASE p \in Updating
    <3>1. Load(disk) = before[p] /\ Load(disk)' = mem /\ before[p] < mem
      BY <1>4, <2>1, <2>3 DEF UpdateProgress, RenameTemp
    <3>2. Seen = before[p] /\ mem \in Nat
      BY <2>3, SeenUnder, MaxUpdatesAssumption DEF Versions
    <3> QED
      BY <2>1, <2>2, <3>1, <3>2 DEF Promise!Next, Promise!Persist
  <2>4. CASE p \notin Updating
    <3>1. Updating = {} /\ Updating' = {}
      BY <1>4, <2>1, <2>4 DEF RenameTemp, Updating
    <3> QED
      BY <2>1, <2>2, <3>1
  <2> QED
    BY <2>3, <2>4
<1>5. ASSUME NEW p \in Procs, Return(p)
      PROVE  [Promise!Next]_<<Load(disk), Seen, acked>>
  <2>1. UNCHANGED <<mem, disk>> /\ Load(disk)' = Load(disk)
    BY <1>5 DEF Return
  <2>2. CASE p \in Updating
    <3>1. Load(disk) = mem /\ acked' = mem /\ Updating' = {}
      BY <1>5, <2>2 DEF Return, UpdateProgress, Updating
    <3>2. Seen' = mem
      BY <2>1, <3>1 DEF Seen
    <3> QED
      BY <2>1, <3>1, <3>2 DEF Promise!Next, Promise!Publish
  <2>3. CASE p \notin Updating
    <3>1. Updating = {} /\ Updating' = {} /\ acked' = acked
      BY <1>5, <2>3 DEF Return, Updating
    <3> QED
      BY <2>1, <3>1 DEF Seen
  <2> QED
    BY <2>2, <2>3
<1>6. ASSUME NEW p \in Procs, Fail(p)
      PROVE  UNCHANGED <<Load(disk), Seen, acked>>
  <2>1. UNCHANGED <<disk, acked>> /\ Load(disk)' = Load(disk)
    BY <1>6 DEF Fail
  <2>2. CASE p \in Updating
    <3>1. Updating' = {} /\ mem' = before[p]
      BY <1>6, <2>2 DEF Fail, Updating
    <3> QED
      BY <2>1, <2>2, <3>1, SeenUnder DEF Seen
  <2>3. CASE p \notin Updating
    <3>1. Updating = {} /\ Updating' = {} /\ mem' = mem
      BY <1>6, <2>3 DEF Fail, Updating
    <3> QED
      BY <2>1, <3>1 DEF Seen
  <2> QED
    BY <2>2, <2>3
<1>7. ASSUME Kill \/ PowerFailure
      PROVE  Promise!Next
  <2>1. disk \in Survivors
    BY DEF Survivors, Disk
  <2>2. PICK d \in Survivors : Reopen(d)
    BY <1>7, <2>1 DEF Kill, PowerFailure
  <2>3. d \in Disk /\ d.primary # Unreadable /\ Load(d) <= Load(disk)
    BY SurvivorsReadable
  <2>4. disk' = d /\ mem' = Load(d) /\ Updating' = {} /\ acked' = acked
    BY <2>2, <2>3 DEF Reopen, Quarantined, Updating
  <2>5. Seen' = Load(d) /\ Load(disk)' = Load(d)
    BY <2>4 DEF Seen
  <2>6. Load(d) \in acked..Load(disk)
    BY <2>3, <2>4, <2>5, LoadVersion DEF Versions, AckInv
  <2> QED
    BY <2>4, <2>5, <2>6 DEF Promise!Next, Promise!Restart
<1>8. CASE UNCHANGED vars
  <2>1. UNCHANGED <<disk, pc, kind, before, mem, acked>>
    BY <1>8 DEF vars
  <2>2. Updating' = Updating
    BY <2>1 DEF Updating
  <2> QED
    BY <2>1, <2>2 DEF Seen
<1>9. ~Corrupt
  BY DEF Corrupt, StaysReadable, May
<1> QED
  BY <1>1, <1>2, <1>3, <1>4, <1>5, <1>6, <1>7, <1>8, <1>9 DEF Next

\* The store implements DurableState: readers see what is on disk, and a
\* restart loses nothing that was acknowledged.
THEOREM StoreKeepsPromise == ASSUME RenamesLast PROVE Spec => KeepsPromise
<1>1. Init => Promise!Init
  <2> SUFFICES ASSUME Init PROVE Promise!Init
    OBVIOUS
  <2>1. Updating = {} /\ disk.primary = Absent /\ acked = Fresh /\ mem = Load(disk)
    BY DEF Init, Updating
  <2>2. Load(disk) = Fresh
    BY <2>1, StoreInvInit, LoadPrimary DEF StoreInv, TypeOK, Absent, Unreadable
  <2> QED
    BY <2>1, <2>2 DEF Promise!Init, Seen
<1>2. StoreInv /\ StoreInv' /\ AckInv' /\ [Next]_vars
          => [Promise!Next]_<<Load(disk), Seen, acked>>
  BY PromiseStep DEF RenamesLast
<1> QED
  BY AckInvAlways, <1>1, <1>2, PTL DEF Spec, KeepsPromise, Promise!Spec

-----------------------------------------------------------------------------
(* What holds under every fault *)

Contents == {disk.primary, disk.backup, durable.primary, durable.backup}

\* A version that failed was in no file and is nowhere else; an update in
\* progress has a version of its own.
FailedInv ==
    /\ failed \subseteq 1..made
    /\ mem <= made
    /\ mem \notin failed
    /\ \A f \in Contents : f <= made /\ f \notin failed
    /\ \A p \in Updating :
        /\ before[p] < mem
        /\ before[p] \notin failed
        /\ pc[p] # "renamed" => mem \notin Contents

\* What the backup may hold besides Absent, when readers see `seen'.
Recent(seen) == {Absent, seen, previous} \cup (IF corrupted THEN {Unreadable} ELSE {})

\* From its copy on, an update has a backup of what it started from.
BackupInv ==
    /\ Unreadable \in Contents => corrupted
    /\ disk.primary # Unreadable =>
        Load(disk) = IF \E p \in Updating : pc[p] = "renamed" THEN mem ELSE Seen
    /\ ~uncopied =>
        /\ disk.backup \in Recent(Seen)
        /\ \A p \in Updating :
            pc[p] \in {"copied", "renamed"} /\ disk.backup # Unreadable =>
                disk.backup = before[p]

\* The write lock, and what is about to be renamed.
LockInv ==
    /\ TypeOK
    /\ \A p, q \in Procs : p \in Updating /\ pc[q] # "idle" => p = q
    /\ \A p \in Procs : pc[p] \in {"written", "copied", "renamed"} => tmp[p] = mem

AnyFaultInv == LockInv /\ FailedInv /\ BackupInv

LEMMA AnyFaultInit == Init => AnyFaultInv
<1> SUFFICES ASSUME Init PROVE AnyFaultInv
  OBVIOUS
<1>1. TypeOK
  BY StoreInvInit DEF StoreInv
<1>2. Updating = {} /\ mem = Fresh /\ Load(disk) = Fresh /\ Contents = {Absent}
  BY <1>1, LoadPrimary
  DEF Init, Updating, TypeOK, Contents, Absent, Unreadable
<1>3. LockInv
  BY <1>1, <1>2 DEF Init, LockInv
<1>4. FailedInv
  BY <1>2 DEF Init, FailedInv, Fresh, Absent
<1>5. BackupInv
  BY <1>2 DEF Init, BackupInv, Seen, Recent, Absent, Unreadable
<1> QED
  BY <1>3, <1>4, <1>5 DEF AnyFaultInv

LEMMA LockNext == ASSUME LockInv, [Next]_vars PROVE LockInv'
<1> USE DEF LockInv, files, ghosts
<1>0. TypeOK'
  BY StoreTypeNext
<1> USE DEF TypeOK
<1>1. ASSUME NEW p \in Procs, BeginUpdate(p) PROVE LockInv'
  BY <1>0, <1>1 DEF BeginUpdate, Updating, Saving
<1>2. ASSUME NEW p \in Procs, BeginSave(p) PROVE LockInv'
  BY <1>0, <1>2 DEF BeginSave, Updating
<1>3. ASSUME NEW p \in Procs, WriteTemp(p) PROVE LockInv'
  BY <1>0, <1>3 DEF WriteTemp, Updating
<1>4. ASSUME NEW p \in Procs, CopyBackup(p) PROVE LockInv'
  BY <1>0, <1>4 DEF CopyBackup, Updating
<1>5. ASSUME NEW p \in Procs, RenameTemp(p) PROVE LockInv'
  BY <1>0, <1>5 DEF RenameTemp, Updating
<1>6. ASSUME NEW p \in Procs, Return(p) PROVE LockInv'
  BY <1>0, <1>6 DEF Return, Updating
<1>7. ASSUME NEW p \in Procs, Fail(p) PROVE LockInv'
  <2>1. pc'[p] = "idle" /\ \A q \in Procs \ {p} : pc'[q] = pc[q]
        /\ UNCHANGED <<tmp, kind>>
    BY <1>7 DEF Fail
  <2>2. CASE p \in Updating
    BY <1>0, <2>1, <2>2 DEF Updating
  <2>3. CASE p \notin Updating
    BY <1>0, <1>7, <2>1, <2>3 DEF Fail, Updating
  <2> QED
    BY <2>2, <2>3
<1>8. CASE Kill \/ PowerFailure
  <2>1. pc' = [p \in Procs |-> "idle"]
    BY <1>8 DEF Kill, PowerFailure, Reopen
  <2> QED
    BY <1>0, <2>1 DEF Updating
<1>9. CASE Corrupt
  BY <1>0, <1>9 DEF Corrupt, Updating
<1>10. CASE UNCHANGED vars
  BY <1>0, <1>10 DEF vars, Updating
<1> QED
  BY <1>1, <1>2, <1>3, <1>4, <1>5, <1>6, <1>7, <1>8, <1>9, <1>10 DEF Next

\* What a restart finds is what was there; Absent and Fresh never failed.
LEMMA ReopenContents ==
    ASSUME TypeOK, NEW d \in Survivors, Reopen(d)
    PROVE  /\ d \in Disk
           /\ {disk'.primary, disk'.backup} \subseteq Contents \cup {Absent}
           /\ mem' \in Contents \cup {Fresh} /\ mem' \in Nat
           /\ Updating' = {}
<1> USE DEF TypeOK
<1>1. d \in Disk /\ {d.primary, d.backup} \subseteq Contents
  BY DEF Survivors, Disk, Contents
<1>2. {disk'.primary, disk'.backup} \subseteq {d.primary, d.backup, Absent}
  BY <1>1 DEF Reopen, Quarantined
<1>3. mem' = Load(d) /\ Load(d) \in Versions
  BY <1>1, LoadVersion DEF Reopen
<1>4. Load(d) \in {d.primary, d.backup, Fresh}
  BY DEF Load
<1>5. Updating' = {}
  BY DEF Reopen, Updating
<1> QED
  BY <1>1, <1>2, <1>3, <1>4, <1>5 DEF Versions

LEMMA FailedNext == ASSUME LockInv, FailedInv, [Next]_vars PROVE FailedInv'
<1> USE DEF LockInv, TypeOK, files, ghosts
<1>0. /\ mem \in Nat /\ made \in Nat /\ failed \subseteq Nat
      /\ \A f \in Contents : f \in Int
      /\ \A p \in Procs : before[p] \in Nat
  BY DEF Versions, Contents, Disk, File, Absent, Unreadable
<1>1. ASSUME NEW p \in Procs, BeginUpdate(p) PROVE FailedInv'
  <2>1. /\ mem' = made + 1 /\ made' = made + 1 /\ before'[p] = mem
        /\ failed' = failed /\ Contents' = Contents
    BY <1>1 DEF BeginUpdate, Contents
  <2>2. Updating' = {p}
    BY <1>1 DEF BeginUpdate, Updating
  <2>3. /\ failed' \subseteq 1..made' /\ mem' <= made' /\ mem' \notin failed'
        /\ \A f \in Contents' : f <= made' /\ f \notin failed' /\ f # mem'
    BY <1>0, <2>1 DEF FailedInv
  <2>4. before'[p] < mem' /\ before'[p] \notin failed'
    BY <1>0, <2>1 DEF FailedInv
  <2> QED
    BY <2>2, <2>3, <2>4 DEF FailedInv
<1>2. ASSUME NEW p \in Procs, BeginSave(p) PROVE FailedInv'
  <2>1. Updating' = {} /\ UNCHANGED <<mem, made, failed>> /\ Contents' = Contents
    BY <1>2 DEF BeginSave, Updating, Contents
  <2> QED
    BY <2>1 DEF FailedInv
<1>3. ASSUME NEW p \in Procs, WriteTemp(p) \/ CopyBackup(p) PROVE FailedInv'
  <2>1. /\ UNCHANGED <<mem, made, failed, before>>
        /\ Updating' = Updating /\ \A q \in Procs : pc'[q] = "renamed" <=> pc[q] = "renamed"
    BY <1>3 DEF WriteTemp, CopyBackup, Updating
  <2>2. Contents' \subseteq Contents
    BY <1>3 DEF WriteTemp, CopyBackup, Contents, Disk
  <2> QED
    BY <2>1, <2>2 DEF FailedInv, Updating
<1>4. ASSUME NEW p \in Procs, RenameTemp(p) PROVE FailedInv'
  <2>1. /\ UNCHANGED <<mem, made, failed, before>> /\ Updating' = Updating
        /\ pc'[p] = "renamed" /\ \A q \in Updating : q = p
    BY <1>4 DEF RenameTemp, Updating
  <2>2. Contents' \subseteq Contents \cup {mem}
    BY <1>4 DEF RenameTemp, Contents, Disk
  <2> QED
    BY <2>1, <2>2 DEF FailedInv
<1>5. ASSUME NEW p \in Procs, Return(p) PROVE FailedInv'
  <2>1. /\ UNCHANGED <<mem, made, failed, before>> /\ Updating' \subseteq Updating
        /\ Contents' \subseteq Contents
        /\ \A q \in Updating' : pc'[q] = pc[q]
    BY <1>5 DEF Return, Updating, Contents
  <2> QED
    BY <2>1 DEF FailedInv
<1>6. ASSUME NEW p \in Procs, Fail(p) PROVE FailedInv'
  <2>1. made' = made /\ before' = before /\ Contents' = Contents
    BY <1>6 DEF Fail, Contents
  <2>2. CASE p \in Updating
    <3>1. /\ Updating' = {} /\ mem' = before[p] /\ failed' = failed \cup {mem}
          /\ pc[p] # "renamed"
      BY <1>6, <2>2 DEF Fail, Updating
    <3>2. before[p] < mem /\ before[p] \notin failed /\ mem \notin Contents
      BY <2>2, <3>1 DEF FailedInv
    <3>3. failed' \subseteq 1..made /\ mem' <= made /\ mem' \notin failed'
      BY <1>0, <3>1, <3>2 DEF FailedInv
    <3> QED
      BY <2>1, <3>1, <3>2, <3>3 DEF FailedInv
  <2>3. CASE p \notin Updating
    <3>1. Updating' = {} /\ UNCHANGED <<mem, failed>>
      BY <1>6, <2>3 DEF Fail, Updating
    <3> QED
      BY <2>1, <3>1 DEF FailedInv
  <2> QED
    BY <2>2, <2>3
<1>7. CASE Kill \/ PowerFailure
  <2>1. PICK d \in Survivors : Reopen(d)
    BY <1>7 DEF Kill, PowerFailure, Survivors, Disk
  <2>2. Contents' \subseteq Contents \cup {Absent}
    BY <1>7, <2>1, ReopenContents DEF Kill, PowerFailure, Contents
  <2>3. UNCHANGED <<made, failed>>
    BY <2>1 DEF Reopen
  <2>4. mem' <= made /\ mem' \notin failed
    BY <1>0, <2>1, ReopenContents DEF FailedInv, Fresh
  <2>5. \A f \in Contents' : f <= made /\ f \notin failed
    BY <1>0, <2>2 DEF FailedInv, Absent
  <2> QED
    BY <2>1, <2>3, <2>4, <2>5, ReopenContents DEF FailedInv
<1>8. CASE Corrupt
  <2>1. UNCHANGED <<mem, made, failed, before, pc>> /\ Updating' = Updating
        /\ Contents' \subseteq Contents \cup {Unreadable}
    BY <1>8 DEF Corrupt, Updating, Contents, Disk
  <2>2. \A f \in Contents' : f <= made /\ f \notin failed /\ (f \in Contents \/ f # mem)
    BY <1>0, <2>1 DEF FailedInv, Unreadable
  <2> QED
    BY <2>1, <2>2 DEF FailedInv
<1>9. CASE UNCHANGED vars
  BY <1>9 DEF vars, FailedInv, Updating, Contents
<1> QED
  BY <1>1, <1>2, <1>3, <1>4, <1>5, <1>6, <1>7, <1>8, <1>9 DEF Next

\* Who is past the rename: nobody, or the one update in progress.
LEMMA SeenNow ==
    ASSUME LockInv
    PROVE  /\ Updating = {} => Seen = mem
           /\ \A p \in Updating : Updating = {p} /\ Seen = before[p]
<1>1. ASSUME NEW p \in Updating PROVE Updating = {p}
  BY DEF LockInv, Updating
<1> QED
  BY <1>1 DEF Seen

LEMMA BackupInvUpdate ==
    ASSUME LockInv, BackupInv, NEW p \in Procs,
           BeginUpdate(p) \/ BeginSave(p) \/ WriteTemp(p)
    PROVE  BackupInv'
<1> USE DEF LockInv, TypeOK, files, ghosts
<1>1. /\ UNCHANGED <<disk, durable, corrupted, previous, uncopied>>
      /\ Load(disk)' = Load(disk) /\ Contents' = Contents
  BY DEF BeginUpdate, BeginSave, WriteTemp, Contents
<1>2. LockInv'
  BY LockNext DEF Next
<1>3. CASE BeginUpdate(p)
  <2>1. Updating = {} /\ Updating' = {p} /\ before'[p] = mem /\ pc'[p] = "changed"
    BY <1>3 DEF BeginUpdate, Updating
  <2>2. Seen' = Seen
    BY <1>2, <2>1, SeenNow DEF Seen
  <2>3. ~ \E q \in Updating' : pc'[q] \in {"copied", "renamed"}
    BY <2>1
  <2>4. Recent(Seen)' = Recent(Seen)
    BY <1>1, <2>2 DEF Recent
  <2>5. disk'.primary # Unreadable => Load(disk)' = Seen'
    BY <1>1, <2>1, <2>2 DEF BackupInv
  <2> QED
    BY <1>1, <2>1, <2>3, <2>4, <2>5 DEF BackupInv
<1>4. CASE BeginSave(p)
  <2>1. Updating = {} /\ Updating' = {} /\ mem' = mem
    BY <1>4 DEF BeginSave, Updating
  <2>2. Seen' = Seen
    BY <2>1 DEF Seen
  <2> QED
    BY <1>1, <2>1, <2>2 DEF BackupInv, Recent
<1>5. CASE WriteTemp(p)
  <2>1. Updating' = Updating /\ UNCHANGED <<mem, before>>
        /\ \A q \in Procs : pc'[q] \in {"copied", "renamed"} => pc'[q] = pc[q]
    BY <1>5 DEF WriteTemp, Updating
  <2>2. Seen' = Seen
    BY <2>1 DEF Seen
  <2>3. (\E q \in Updating' : pc'[q] = "renamed") <=>
            (\E q \in Updating : pc[q] = "renamed")
    <3>1. \A q \in Procs : /\ pc[q] = "renamed" => pc'[q] = "renamed"
                           /\ pc'[q] = "renamed" => pc[q] = "renamed"
      BY <1>5 DEF WriteTemp
    <3>2. \A q \in Updating : q \in Procs
      BY DEF Updating
    <3> QED
      BY <2>1, <3>1, <3>2
  <2>4. Recent(Seen)' = Recent(Seen)
    BY <1>1, <2>2 DEF Recent
  <2>5. disk'.primary # Unreadable =>
            Load(disk)' = IF \E q \in Updating' : pc'[q] = "renamed" THEN mem' ELSE Seen'
    BY <1>1, <2>1, <2>2, <2>3 DEF BackupInv
  <2>6. \A q \in Updating' : pc'[q] \in {"copied", "renamed"} =>
            pc[q] \in {"copied", "renamed"} /\ before'[q] = before[q]
    BY <2>1 DEF Updating
  <2> QED
    BY <1>1, <2>1, <2>4, <2>5, <2>6 DEF BackupInv
<1> QED
  BY <1>3, <1>4, <1>5

\* The copy: state.json holds what readers see, so the backup does.
LEMMA BackupInvCopy ==
    ASSUME LockInv, BackupInv, NEW p \in Procs, CopyBackup(p)
    PROVE  BackupInv'
<1> USE DEF LockInv, TypeOK
<1>1. /\ UNCHANGED <<mem, before, durable, corrupted, previous>>
      /\ Updating' = Updating /\ pc[p] = "written" /\ pc'[p] = "copied"
      /\ \A q \in Procs \ {p} : pc'[q] = pc[q]
      /\ disk'.primary = disk.primary /\ disk' \in Disk
  BY DEF CopyBackup, Updating, Disk
<1>2. Seen' = Seen
  BY <1>1 DEF Seen
<1>3. Contents' \subseteq Contents
  BY DEF CopyBackup, Contents, Disk
<1>4. disk.primary # Unreadable => Load(disk)' = Load(disk)
  BY <1>1, LoadPrimary
<1>5. (\E q \in Updating' : pc'[q] = "renamed") <=> (\E q \in Updating : pc[q] = "renamed")
  BY <1>1 DEF Updating
<1>6. ASSUME ~uncopied'
      PROVE  /\ disk'.backup = disk.primary /\ disk.primary # Absent
             /\ ~ \E q \in Updating : pc[q] = "renamed"
  BY <1>1, <1>6 DEF CopyBackup, Disk, Updating
<1>7. ASSUME ~uncopied', disk.primary # Unreadable PROVE disk'.backup = Seen
  BY <1>6, <1>7, LoadPrimary DEF BackupInv
<1>8. ASSUME ~uncopied' PROVE disk'.backup \in Recent(Seen)'
  <2>1. disk.primary = Unreadable => corrupted
    BY DEF BackupInv, Contents
  <2> QED
    BY <1>1, <1>2, <1>6, <1>7, <1>8, <2>1 DEF Recent
<1>9. ASSUME ~uncopied', NEW q \in Updating, disk'.backup # Unreadable
      PROVE  disk'.backup = before[q]
  BY <1>6, <1>7, <1>9, SeenNow
<1>10. BackupInv!1'
  BY <1>1, <1>3 DEF BackupInv
<1> QED
  BY <1>1, <1>2, <1>4, <1>5, <1>8, <1>9, <1>10 DEF BackupInv

LEMMA BackupInvRename ==
    ASSUME LockInv, BackupInv, NEW p \in Procs, RenameTemp(p)
    PROVE  BackupInv'
<1> USE DEF LockInv, TypeOK, files, ghosts
<1>1. /\ UNCHANGED <<mem, before, durable, corrupted, previous, uncopied>>
      /\ Updating' = Updating /\ pc[p] = "copied" /\ pc'[p] = "renamed"
      /\ \A q \in Procs \ {p} : pc'[q] = pc[q]
      /\ disk'.primary = mem /\ disk'.backup = disk.backup /\ disk' \in Disk
  BY DEF RenameTemp, Updating, Disk, Versions, File
<1>2. Seen' = Seen
  BY <1>1 DEF Seen
<1>3. mem # Unreadable /\ mem # Absent
  BY DEF Versions, Unreadable, Absent
<1>4. Load(disk)' = mem
  BY <1>1, <1>3, LoadPrimary
<1>5. Updating = {} \/ Updating = {p}
  BY <1>1 DEF Updating
<1>6. mem' = IF \E q \in Updating' : pc'[q] = "renamed" THEN mem' ELSE Seen'
  BY <1>1, <1>2, <1>5, SeenNow
<1>7. Unreadable \in Contents' => Unreadable \in Contents
  BY <1>1, <1>3 DEF Contents
<1>8. ~uncopied => disk'.backup \in Recent(Seen)'
  BY <1>1, <1>2 DEF BackupInv, Recent
<1>9. ~uncopied => \A q \in Updating : disk'.backup # Unreadable =>
                       disk'.backup = before[q]
  BY <1>1, <1>5 DEF BackupInv
<1> QED
  BY <1>1, <1>4, <1>6, <1>7, <1>8, <1>9 DEF BackupInv

LEMMA BackupInvEnd ==
    ASSUME LockInv, BackupInv, NEW p \in Procs, Return(p) \/ Fail(p)
    PROVE  BackupInv'
<1> USE DEF LockInv, TypeOK, files, ghosts
<1>1. /\ UNCHANGED <<before, disk, corrupted, uncopied>>
      /\ Load(disk)' = Load(disk)
      /\ Contents' \subseteq Contents
      /\ pc'[p] = "idle" /\ \A q \in Procs \ {p} : pc'[q] = pc[q]
  BY DEF Return, Fail, Contents
<1>2. CASE p \in Updating
  <2>1. Updating' = {} /\ Updating = {p} /\ Seen = before[p] /\ Seen' = mem'
    BY <1>1, <1>2, SeenNow DEF Return, Fail, Updating, Seen
  <2>2. CASE Return(p)
    <3>1. mem' = mem /\ previous' = before[p] /\ pc[p] = "renamed"
      BY <1>2, <2>2 DEF Return, Updating
    <3>2. disk.primary # Unreadable => Load(disk)' = Seen'
      BY <1>1, <1>2, <2>1, <3>1 DEF BackupInv
    <3>3. ASSUME ~uncopied PROVE disk.backup \in Recent(Seen)'
      <4>1. CASE disk.backup = Unreadable
        BY <1>1, <4>1 DEF BackupInv, Contents, Recent
      <4>2. CASE disk.backup # Unreadable
        <5>1. disk.backup = before[p]
          BY <1>2, <3>1, <3>3, <4>2 DEF BackupInv
        <5> QED
          BY <3>1, <5>1 DEF Recent
      <4> QED
        BY <4>1, <4>2
    <3>4. Unreadable \in Contents' => corrupted'
      BY <1>1 DEF BackupInv
    <3> QED
      BY <1>1, <2>1, <3>2, <3>3, <3>4 DEF BackupInv
  <2>3. CASE Fail(p)
    <3>1. mem' = before[p] /\ previous' = previous /\ pc[p] # "renamed"
      BY <1>2, <2>3 DEF Fail, Updating
    <3>2. Seen' = Seen /\ ~ \E q \in Updating : pc[q] = "renamed"
      BY <2>1, <3>1
    <3>3. disk.primary # Unreadable => Load(disk)' = Seen'
      BY <1>1, <3>2 DEF BackupInv
    <3>4. Recent(Seen)' = Recent(Seen)
      BY <1>1, <3>1, <3>2 DEF Recent
    <3> QED
      BY <1>1, <2>1, <3>3, <3>4 DEF BackupInv
  <2> QED
    BY <2>2, <2>3
<1>3. CASE p \notin Updating
  <2>1. Updating = {} /\ Updating' = {} /\ UNCHANGED <<mem, previous>>
    BY <1>1, <1>3 DEF Return, Fail, Updating
  <2>2. Seen' = Seen
    BY <2>1 DEF Seen
  <2> QED
    BY <1>1, <2>1, <2>2 DEF BackupInv, Recent
<1> QED
  BY <1>2, <1>3

\* A new process on what the files held, or on what power failures left of
\* them: it reads state.json if it can.
LEMMA BackupInvReopen ==
    ASSUME LockInv, BackupInv, NEW d \in Survivors, Reopen(d)
    PROVE  /\ Unreadable \in {disk'.primary, disk'.backup} => corrupted
           /\ disk'.primary # Unreadable => Load(disk)' = mem'
           /\ d = disk /\ ~uncopied => disk'.backup \in Recent(mem)'
<1> USE DEF LockInv, TypeOK
<1>1. d \in Disk /\ {d.primary, d.backup} \subseteq Contents /\ Unreadable # Absent
  BY DEF Survivors, Disk, Contents, Unreadable, Absent
<1>2. {disk'.primary, disk'.backup} \subseteq {d.primary, d.backup, Absent}
  BY <1>1 DEF Reopen, Quarantined
<1>3. Unreadable \in {disk'.primary, disk'.backup} => corrupted
  BY <1>1, <1>2 DEF BackupInv
<1>4. mem' = Load(d) /\ UNCHANGED corrupted
      /\ previous' = IF mem' = Seen THEN previous ELSE Seen
  BY DEF Reopen
<1>5. CASE d.primary # Unreadable \/ d.backup \in Versions
  <2>1. disk' = d
    BY <1>5 DEF Reopen, Quarantined
  <2>2. Load(disk)' = mem'
    BY <1>4, <2>1
  <2>3. ASSUME d = disk, ~uncopied PROVE disk.backup \in Recent(mem)'
    <3>1. disk.backup \in Recent(Seen)
      BY <2>3 DEF BackupInv
    <3>2. CASE disk.primary = Unreadable
      <4>1. mem' = disk.backup
        BY <1>4, <1>5, <2>3, <3>2
        DEF Load, Versions, Unreadable, Absent
      <4> QED
        BY <4>1 DEF Recent
    <3>3. CASE disk.primary # Unreadable /\ mem' = Seen
      BY <1>4, <3>1, <3>3 DEF Recent
    <3>4. CASE disk.primary # Unreadable /\ mem' # Seen
      <4>1. PICK p \in Updating : pc[p] = "renamed"
        BY <1>4, <2>3, <3>4 DEF BackupInv
      <4>2. disk.backup = Unreadable \/ disk.backup = Seen
        BY <2>3, <4>1, SeenNow DEF BackupInv
      <4> QED
        BY <1>1, <1>4, <2>3, <3>4, <4>2 DEF Recent, BackupInv
    <3> QED
      BY <3>2, <3>3, <3>4
  <2> QED
    BY <1>3, <2>1, <2>2, <2>3
<1>6. CASE ~ (d.primary # Unreadable \/ d.backup \in Versions)
  <2>1. mem' = Fresh
    BY <1>4, <1>6 DEF Load, Versions, Unreadable, Absent
  <2>2. disk'.primary \in {Absent, Unreadable} /\ disk'.backup \in {Absent, Unreadable}
    BY <1>1, <1>2, <1>6 DEF Disk, File
  <2>3. disk' \in Disk
    BY <1>1 DEF Reopen, Quarantined, Disk, File
  <2>4. disk'.primary # Unreadable => Load(disk)' = mem'
    BY <2>1, <2>2, <2>3, LoadPrimary
  <2>5. disk'.backup \in Recent(mem)'
    BY <1>3, <1>4, <2>2 DEF Recent
  <2> QED
    BY <1>3, <2>4, <2>5
<1> QED
  BY <1>5, <1>6

LEMMA BackupInvRestart ==
    ASSUME LockInv, BackupInv, Kill \/ PowerFailure
    PROVE  BackupInv'
<1> USE DEF LockInv, TypeOK
<1>1. disk \in Survivors
  BY DEF Survivors, Disk
<1>2. PICK d \in Survivors : Reopen(d) /\ (~uncopied' => d = disk /\ ~uncopied)
  BY <1>1 DEF Kill, PowerFailure
<1>3. Updating' = {} /\ corrupted' = corrupted
  BY <1>2 DEF Reopen, Updating
<1>4. Seen' = mem'
  BY <1>3 DEF Seen
<1>5. durable' \in {durable, disk'}
  BY DEF Kill, PowerFailure
<1>6. Unreadable \in Contents' => corrupted
  BY <1>2, <1>5, BackupInvReopen DEF Contents, BackupInv
<1>7. disk'.primary # Unreadable => Load(disk)' = Seen'
  BY <1>2, <1>4, BackupInvReopen
<1>8. ~uncopied' => disk'.backup \in Recent(Seen)'
  <2>1. Recent(Seen)' = Recent(mem)'
    BY <1>4 DEF Recent
  <2> QED
    BY <1>2, <2>1, BackupInvReopen
<1> QED
  BY <1>3, <1>6, <1>7, <1>8 DEF BackupInv

LEMMA BackupNext == ASSUME LockInv, BackupInv, [Next]_vars PROVE BackupInv'
<1>1. CASE Corrupt
  <2>1. /\ UNCHANGED <<mem, pc, kind, before, previous, uncopied>>
        /\ corrupted' /\ ~corrupted
        /\ disk'.primary = Unreadable /\ disk'.backup = disk.backup
        /\ Updating' = Updating
    BY <1>1 DEF Corrupt, ghosts, Updating, LockInv, TypeOK, Disk
  <2>2. Seen' = Seen
    BY <2>1 DEF Seen
  <2>3. Recent(Seen) \subseteq Recent(Seen)'
    BY <2>1, <2>2 DEF Recent
  <2> QED
    BY <2>1, <2>2, <2>3 DEF BackupInv
<1>2. CASE UNCHANGED vars
  <2>1. UNCHANGED <<mem, pc, kind, before, previous, uncopied, corrupted, disk, durable>>
    BY <1>2 DEF vars
  <2>2. Updating' = Updating /\ Contents' = Contents /\ Load(disk)' = Load(disk)
    BY <2>1 DEF Updating, Contents
  <2>3. Seen' = Seen
    BY <2>1, <2>2 DEF Seen
  <2>4. Recent(Seen)' = Recent(Seen)
    BY <2>1, <2>3 DEF Recent
  <2> QED
    BY <2>1, <2>2, <2>3, <2>4 DEF BackupInv
<1> QED
  BY <1>1, <1>2, BackupInvUpdate, BackupInvCopy, BackupInvRename, BackupInvEnd,
     BackupInvRestart DEF Next

LEMMA AnyFaultAlways == Spec => []AnyFaultInv
<1>1. AnyFaultInv /\ [Next]_vars => AnyFaultInv'
  BY LockNext, FailedNext, BackupNext DEF AnyFaultInv
<1> QED
  BY AnyFaultInit, <1>1, PTL DEF Spec

\* Under every fault, storage that turns unreadable and directories that
\* cannot be synced included: a failed update is not shown and does not come
\* back.
THEOREM FailuresStayGone == Spec => []FailedStaysGone
<1>1. AnyFaultInv => FailedStaysGone
  <2> SUFFICES ASSUME AnyFaultInv PROVE FailedStaysGone
    OBVIOUS
  <2>1. Seen \notin failed
    BY SeenNow DEF AnyFaultInv, FailedInv
  <2>2. ASSUME NEW d \in Survivors PROVE Load(d) \notin failed
    <3>1. Load(d) \in Contents \cup {Fresh}
      BY DEF Load, Survivors, Contents
    <3> QED
      BY <3>1 DEF AnyFaultInv, FailedInv, LockInv, TypeOK, Versions, Fresh
  <2> QED
    BY <2>1, <2>2 DEF FailedStaysGone
<1> QED
  BY <1>1, AnyFaultAlways, PTL

\* Under every fault, the backup is at rest at most one update behind.
THEOREM BackupStaysClose == Spec => []BackupLagsByOne
<1>1. AnyFaultInv => BackupLagsByOne
  BY SeenNow DEF AnyFaultInv, BackupInv, BackupLagsByOne, Recent
<1> QED
  BY <1>1, AnyFaultAlways, PTL

=============================================================================
