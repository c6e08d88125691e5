---------------------------- MODULE ShortcutIcons ----------------------------
(***************************************************************************)
(* Quick Access shortcuts and the icon files they name.                    *)
(*                                                                         *)
(* A shortcut lies in state.json, its icon in a file of its own.  An icon  *)
(* that is not given is fetched from the site: before the lock of the      *)
(* store for a new shortcut, inside it for a refresh, so that one slow     *)
(* site holds up every reader of the state.  A request that waits for the  *)
(* lock carries nothing here, because nothing looks at it before then.     *)
(* URLs and the bytes of icons are left out, and what is refused for them  *)
(* changes nothing.  An update of the store is one step, and a load from   *)
(* the backup undoes the last one, or more where the copy failed.          *)
(***************************************************************************)
EXTENDS Naturals

CONSTANTS
    Handlers,   \* goroutines serving requests
    Shortcuts,  \* what state.NewID draws for a shortcut
    Icons,      \* what it draws for an icon
    Names,
    Default,    \* the empty icon_id: the embedded icon
    None

Gone == <<>>
Entry == [name : Names, icon : Icons \cup {Default}]

ASSUME DistinctAssumption ==
    /\ None \notin Handlers \cup Names \cup Entry \cup {Gone}
    /\ Gone \notin Names
    /\ Default \notin Icons

VARIABLES
    shortcuts,  \* State.Shortcuts: [name, icon], None when there is none
    backup,     \* the one state.json.bak holds, none if it cannot be read
    stored,     \* state.json holds them too: since the start it was read or
                \* written
    disk,       \* each icon file: none, renamed, settled (the directory is
                \* written back too) or lost in a power failure
    lock,       \* who holds the store's mutex across a step
    pc,         \* where each handler is
    icon,       \* the icon it resolved for a new shortcut
    draft,      \* the sc of a refresh, a copy of the shortcut
    told        \* ghost: the name last answered for a shortcut, Gone when its
                \* deletion was; a load of older state puts its own instead

state == <<shortcuts, backup, stored>>
vars == <<shortcuts, backup, stored, disk, lock, pc, icon, draft, told>>

Waiting == {"adding", "waiting"}
Fetching == {"resolving", "refreshing"}
Refreshing == {"refreshing", "replacing"}
Draft == [id : Shortcuts, asked : Names \cup {None}, name : Names,
          icon : Icons \cup {Default}]

Tables == [Shortcuts -> Entry \cup {None}]
NoShortcuts == [s \in Shortcuts |-> None]

TypeOK ==
    /\ shortcuts \in Tables
    /\ backup \in SUBSET Tables
    /\ stored \in BOOLEAN
    /\ disk \in [Icons -> {"none", "renamed", "settled", "lost"}]
    /\ lock \in Handlers \cup {None}
    /\ pc \in [Handlers -> Waiting \cup Fetching \cup {"idle", "replacing"}]
    /\ icon \in [Handlers -> Icons \cup {Default}]
    /\ draft \in [Handlers -> Draft \cup {None}]
    /\ told \in [Shortcuts -> Names \cup {Gone, None}]

Init ==
    /\ shortcuts = NoShortcuts
    /\ backup = {} /\ stored = FALSE
    /\ disk = [i \in Icons |-> "none"]
    /\ lock = None
    /\ pc = [h \in Handlers |-> "idle"]
    /\ icon = [h \in Handlers |-> Default]
    /\ draft = [h \in Handlers |-> None]
    /\ told = [s \in Shortcuts |-> None]

Go(h, from, to) == pc[h] = from /\ pc' = [pc EXCEPT ![h] = to]

\* locate: the id has the shape of one, and the file is there.
Exists(i) == i \in Icons /\ disk[i] \in {"renamed", "settled"}

\* writeFileAtomic: synced before it is renamed, but its directory never is.
WriteIcon(i) == disk[i] = "none" /\ disk' = [disk EXCEPT ![i] = "renamed"]

\* The store's Update or Snapshot begins.  Its lock is free again after this
\* step, unless the step is Lookup.
Locked(h, from, to) == lock = None /\ Go(h, from, to)

\* Update that succeeds.  The backup gets what state.json held, unless the
\* copy fails, which only the log tells.
Save(table) ==
    /\ shortcuts' = table
    /\ \/ backup' = IF stored THEN {shortcuts} ELSE {}
       \/ UNCHANGED backup
    /\ stored' = TRUE

-----------------------------------------------------------------------------
(* Icons *)

\* Save, for an upload.
Upload(i) ==
    /\ WriteIcon(i)
    /\ UNCHANGED <<state, lock, pc, icon, draft, told>>

\* What a fetch or an upload has left as the icon of the request.
Resolve(h, i) ==
    \/ /\ Go(h, "resolving", "adding")
       /\ icon' = [icon EXCEPT ![h] = i]
       /\ UNCHANGED draft
    \/ /\ Go(h, "refreshing", "replacing")
       /\ draft' = [draft EXCEPT ![h].icon = i]
       /\ UNCHANGED icon

\* FetchFavicon: the icon is stored before its id is returned.
FetchSucceeds(h, i) ==
    /\ WriteIcon(i)
    /\ Resolve(h, i)
    /\ UNCHANGED <<state, lock, told>>

\* Altered: the client has no deadline, and the site does not answer.
FetchHangs(h) ==
    /\ pc[h] = "resolving"
    /\ Resolve(h, Default)
    /\ UNCHANGED <<state, disk, lock, told>>

\* A blocked address, no answer in three seconds, no image, no room on disk:
\* a soft failure.
FetchFails(h) ==
    /\ Resolve(h, Default)
    /\ UNCHANGED <<state, disk, lock, told>>

-----------------------------------------------------------------------------
(* Shortcuts *)

\* Create without an icon_id fetches one, and holds no lock meanwhile.
Create(h) ==
    /\ Go(h, "idle", "resolving")
    /\ UNCHANGED <<state, disk, lock, icon, draft, told>>

\* Create with an icon_id asks now whether it exists, and saves later.
CreateWith(h, i) ==
    /\ Exists(i)
    /\ Go(h, "idle", "adding")
    /\ icon' = [icon EXCEPT ![h] = i]
    /\ UNCHANGED <<state, disk, lock, draft, told>>

Add(h, s, n) ==
    /\ Locked(h, "adding", "idle")
    /\ told[s] = None
    /\ Save([shortcuts EXCEPT ![s] = [name |-> n, icon |-> icon[h]]])
    /\ told' = [told EXCEPT ![s] = n]
    /\ icon' = [icon EXCEPT ![h] = Default]
    /\ UNCHANGED <<disk, lock, draft>>

\* Update, Delete, List and Get wait for the lock first.
Arrive(h) ==
    /\ Go(h, "idle", "waiting")
    /\ UNCHANGED <<state, disk, lock, icon, draft, told>>

\* Update without a fetch: a new name or none, a new icon, the default one or
\* the one it has.
Change(h, s, n, i) ==
    /\ Locked(h, "waiting", "idle")
    /\ shortcuts[s] # None
    /\ i \in {Default, shortcuts[s].icon} \/ Exists(i)
    /\ Save([shortcuts EXCEPT ![s] =
                [name |-> IF n = None THEN @.name ELSE n, icon |-> i]])
    /\ told' = [told EXCEPT ![s] = IF n = None THEN @ ELSE n]
    /\ UNCHANGED <<disk, lock, icon, draft>>

\* Altered: the site is asked before the lock, as in Create.
LookupUnlocked(h, s, n) ==
    /\ Locked(h, "waiting", "refreshing")
    /\ shortcuts[s] # None
    /\ draft' = [draft EXCEPT ![h] =
                    [id |-> s, asked |-> n, icon |-> shortcuts[s].icon,
                     name |-> IF n = None THEN shortcuts[s].name ELSE n]]
    /\ UNCHANGED <<state, disk, lock, icon, told>>

\* Update with refresh_icon copies the shortcut and fetches under the lock.
Lookup(h, s, n) ==
    /\ Locked(h, "waiting", "refreshing")
    /\ lock' = h
    /\ shortcuts[s] # None
    /\ draft' = [draft EXCEPT ![h] =
                    [id |-> s, asked |-> n, icon |-> shortcuts[s].icon,
                     name |-> IF n = None THEN shortcuts[s].name ELSE n]]
    /\ UNCHANGED <<state, disk, icon, told>>

\* The closure ends and the copy is saved.
Replace(h) ==
    /\ Go(h, "replacing", "idle")
    /\ lock' = None
    /\ LET d == draft[h] IN
        /\ Save([shortcuts EXCEPT ![d.id] = [name |-> d.name, icon |-> d.icon]])
        /\ told' = [told EXCEPT ![d.id] = IF d.asked = None THEN @ ELSE d.asked]
    /\ draft' = [draft EXCEPT ![h] = None]
    /\ UNCHANGED <<disk, icon>>

\* The save fails, Update rolls back, and the fetched icon stays on disk.
ReplaceFails(h) ==
    /\ Go(h, "replacing", "idle")
    /\ lock' = None
    /\ draft' = [draft EXCEPT ![h] = None]
    /\ UNCHANGED <<state, disk, icon, told>>

\* Altered: the icon of a deleted shortcut is deleted too.
DeleteBoth(h, s) ==
    /\ Locked(h, "waiting", "idle")
    /\ shortcuts[s] # None
    /\ Save([shortcuts EXCEPT ![s] = None])
    /\ disk' = [i \in Icons |->
                    IF i = shortcuts[s].icon THEN "none" ELSE disk[i]]
    /\ told' = [told EXCEPT ![s] = Gone]
    /\ UNCHANGED <<lock, icon, draft>>

\* The icon file stays, because others may name it.
Delete(h, s) ==
    /\ Locked(h, "waiting", "idle")
    /\ shortcuts[s] # None
    /\ Save([shortcuts EXCEPT ![s] = None])
    /\ told' = [told EXCEPT ![s] = Gone]
    /\ UNCHANGED <<disk, lock, icon, draft>>

\* List and Get; and the requests that find no shortcut, are refused, or
\* whose save fails.
LeaveAsIs(h) ==
    /\ \E from \in Waiting : Locked(h, from, "idle")
    /\ icon' = [icon EXCEPT ![h] = Default]
    /\ UNCHANGED <<state, disk, lock, draft, told>>

-----------------------------------------------------------------------------
(* Faults *)

\* Another part of the appliance saves its own part of the state.
SaveOther ==
    /\ lock = None
    /\ Save(shortcuts)
    /\ UNCHANGED <<disk, lock, pc, icon, draft, told>>

\* The file system writes the directory of an icon back (external).
Settle(i) ==
    /\ disk[i] = "renamed"
    /\ disk' = [disk EXCEPT ![i] = "settled"]
    /\ UNCHANGED <<state, lock, pc, icon, draft, told>>

\* The daemon dies.  With the power, renames go that no directory sync has
\* made safe.
Dies ==
    /\ lock' = None
    /\ pc' = [h \in Handlers |-> "idle"]
    /\ icon' = [h \in Handlers |-> Default]
    /\ draft' = [h \in Handlers |-> None]
    /\ \E away \in SUBSET {i \in Icons : disk[i] = "renamed"} :
        disk' = [i \in Icons |-> IF i \in away THEN "lost" ELSE disk[i]]

\* The next process reads what the last one had stored, or, where state.json
\* could not be read before, what that one had read.
Restart == UNCHANGED <<state, told>>

\* Older shortcuts come instead; those they do not have are gone.
LoadOlder(old) ==
    /\ shortcuts' = old
    /\ stored' = FALSE
    /\ told' = [s \in Shortcuts |-> IF old[s] # None THEN old[s].name
                                   ELSE IF told[s] = None THEN None ELSE Gone]

\* state.json has become unreadable: load takes the backup, and leaves both
\* files as they are.
Recover ==
    /\ \E old \in backup : LoadOlder(old)
    /\ UNCHANGED backup

\* Both files are unreadable: they are set aside, and the state is fresh.
StartFresh ==
    /\ LoadOlder(NoShortcuts)
    /\ backup' = {}

Reopen == Dies /\ (Restart \/ Recover \/ StartFresh)

-----------------------------------------------------------------------------

FetchEnds(h) == FetchFails(h) \/ \E i \in Icons : FetchSucceeds(h, i)

\* What a request does once it has the lock.
Enter(h) ==
    /\ lock = None
    /\ pc[h] \in Waiting
    /\ \/ \E s \in Shortcuts, n \in Names : Add(h, s, n)
       \/ \E s \in Shortcuts, n \in Names \cup {None} :
           Lookup(h, s, n) \/ \E i \in Icons \cup {Default} : Change(h, s, n, i)
       \/ \E s \in Shortcuts : Delete(h, s)
       \/ LeaveAsIs(h)

Commit(h) == Replace(h) \/ ReplaceFails(h)

Steps(h) ==
    \/ Create(h) \/ \E i \in Icons : CreateWith(h, i)
    \/ Arrive(h) \/ FetchEnds(h) \/ Enter(h) \/ Commit(h)

Next ==
    \/ \E h \in Handlers : Steps(h)
    \/ \E i \in Icons : Upload(i) \/ Settle(i)
    \/ SaveOther
    \/ Reopen

\* A fetch has a deadline, a runnable goroutine runs, and the mutex is handed
\* to whoever waits for it.
Fairness ==
    \A h \in Handlers :
        WF_vars(FetchEnds(h)) /\ WF_vars(Commit(h)) /\ SF_vars(Enter(h))

Spec == Init /\ [][Next]_vars /\ Fairness

-----------------------------------------------------------------------------
(* Properties *)

\* The icon of a shortcut was stored before the shortcut names it and is never
\* removed under it, although several may share it and their saves may fail;
\* only a power failure takes one whose directory was not written back.
IconsExist ==
    \A s \in Shortcuts :
        shortcuts[s] # None /\ shortcuts[s].icon # Default =>
            disk[shortcuts[s].icon] # "none"

\* An answered rename or deletion holds although a refresh writes a whole
\* copy of the shortcut back up to three seconds after it was made.  Only a
\* start that loads older state takes answers back, and then what it loaded
\* holds as if it had been answered.
UpdatesHold ==
    \A s \in Shortcuts :
        IF told[s] \in {Gone, None}
        THEN shortcuts[s] = None
        ELSE shortcuts[s] # None /\ shortcuts[s].name = told[s]

\* Every request ends, those that only read the state too, whatever site a
\* refresh waits for with the lock in its hands.
RequestsEnd == \A h \in Handlers : pc[h] # "idle" ~> pc[h] = "idle"
===============================================================================
