-------------------------- MODULE ShortcutIconsProofs --------------------------
(***************************************************************************)
(* What is proved of ShortcutIcons for any number of handlers, shortcuts,  *)
(* icons and names. IconsExist and UpdatesHold are not inductive: a        *)
(* handler brings an icon it resolved earlier, and a refresh a whole copy  *)
(* of its shortcut. The invariant says what both have in common with the   *)
(* state at any time: the icon was written, and who holds a copy holds the *)
(* lock, so that the copy is not older than the shortcut. That nobody      *)
(* keeps the lock, and that only a load from the backup takes a deletion   *)
(* back, follows with it.                                                  *)
(***************************************************************************)
EXTENDS ShortcutIcons, TLAPS

USE DEF state

Stored(i) == i # Default => disk[i] # "none"

\* A copy is of a shortcut that is there, with its name or the one asked for.
Fresh(d) ==
    /\ shortcuts[d.id] # None
    /\ d.name = (IF d.asked = None THEN told[d.id] ELSE d.asked)
    /\ Stored(d.icon)

Holds(h) ==
    /\ Stored(icon[h])
    /\ pc[h] \in Refreshing => lock = h /\ draft[h] \in Draft /\ Fresh(draft[h])

\* What a load would bring back has its icons too.
BackupsHaveIcons ==
    \A old \in backup, s \in Shortcuts :
        old[s] # None => Stored(old[s].icon)

IInv ==
    /\ TypeOK
    /\ IconsExist
    /\ BackupsHaveIcons
    /\ UpdatesHold
    /\ \A h \in Handlers : Holds(h)

LEMMA InitIInv == Init => IInv
    BY DistinctAssumption
    DEF Init, IInv, TypeOK, Tables, NoShortcuts, IconsExist, BackupsHaveIcons,
        UpdatesHold, Holds, Stored, Refreshing

-----------------------------------------------------------------------------
(* Types *)

LEMMA SaveTypes ==
    ASSUME TypeOK, NEW table \in Tables, Save(table)
    PROVE /\ shortcuts' = table /\ shortcuts' \in Tables
          /\ backup' \in SUBSET Tables /\ stored' \in BOOLEAN
          /\ backup' \subseteq backup \cup {shortcuts}
  BY DEF Save, TypeOK

LEMMA TypeSteps == ASSUME IInv, NEW h \in Handlers, Steps(h) PROVE TypeOK'
  <1> USE DEF TypeOK
  <1>1. TypeOK /\ Holds(h)  BY DEF IInv
  <1>2. CASE Create(h)  BY <1>1, <1>2 DEF Create, Go, Fetching
  <1>3. ASSUME NEW i \in Icons, CreateWith(h, i) PROVE TypeOK'
    BY <1>1, <1>3 DEF CreateWith, Go, Waiting
  <1>4. CASE Arrive(h)  BY <1>1, <1>4 DEF Arrive, Go, Waiting
  <1>5. ASSUME NEW i \in Icons \cup {Default}, Resolve(h, i)
        PROVE /\ pc' \in [Handlers -> Waiting \cup Fetching \cup {"idle", "replacing"}]
              /\ icon' \in [Handlers -> Icons \cup {Default}]
              /\ draft' \in [Handlers -> Draft \cup {None}]
    <2>1. CASE Go(h, "resolving", "adding") /\ icon' = [icon EXCEPT ![h] = i]
               /\ UNCHANGED draft
      BY <1>1, <2>1 DEF Go, Waiting
    <2>2. CASE Go(h, "refreshing", "replacing")
               /\ draft' = [draft EXCEPT ![h].icon = i] /\ UNCHANGED icon
      <3>1. draft[h] \in Draft  BY <1>1, <2>2 DEF Go, Holds, Refreshing
      <3>2. [draft[h] EXCEPT !.icon = i] \in Draft  BY <3>1 DEF Draft
      <3>3. QED  BY <1>1, <2>2, <3>2 DEF Go
    <2>3. QED  BY <1>5, <2>1, <2>2 DEF Resolve
  <1>6. CASE FetchFails(h)  BY <1>1, <1>5, <1>6 DEF FetchFails
  <1>7. ASSUME NEW i \in Icons, FetchSucceeds(h, i) PROVE TypeOK'
    BY <1>1, <1>5, <1>7 DEF FetchSucceeds, WriteIcon
  <1>8. ASSUME NEW s \in Shortcuts, NEW n \in Names, Add(h, s, n) PROVE TypeOK'
    <2>1. [name |-> n, icon |-> icon[h]] \in Entry  BY <1>1 DEF Entry
    <2>2. [shortcuts EXCEPT ![s] = [name |-> n, icon |-> icon[h]]] \in Tables
      BY <1>1, <2>1 DEF Tables
    <2>3. /\ shortcuts' \in Tables
          /\ backup' \in SUBSET Tables /\ stored' \in BOOLEAN
      BY <1>1, <1>8, <2>2, SaveTypes DEF Add
    <2>4. QED  BY <1>1, <1>8, <2>3 DEF Add, Locked, Go
  <1>9. ASSUME NEW s \in Shortcuts, NEW n \in Names \cup {None}, Lookup(h, s, n)
        PROVE TypeOK'
    <2>1. shortcuts[s] \in Entry  BY <1>1, <1>9 DEF Lookup, Tables
    <2>2. [id |-> s, asked |-> n, icon |-> shortcuts[s].icon,
           name |-> IF n = None THEN shortcuts[s].name ELSE n] \in Draft
      BY <2>1 DEF Draft, Entry
    <2>3. draft' \in [Handlers -> Draft \cup {None}]  BY <1>1, <1>9, <2>2 DEF Lookup
    <2>4. QED  BY <1>1, <1>9, <2>3 DEF Lookup, Locked, Go, Fetching
  <1>10. ASSUME NEW s \in Shortcuts, NEW n \in Names \cup {None},
                NEW i \in Icons \cup {Default}, Change(h, s, n, i)
         PROVE TypeOK'
    <2>1. shortcuts[s] \in Entry  BY <1>1, <1>10 DEF Change, Tables
    <2>2. [name |-> IF n = None THEN shortcuts[s].name ELSE n, icon |-> i] \in Entry
      BY <2>1 DEF Entry
    <2> DEFINE new == [shortcuts EXCEPT ![s] =
                          [name |-> IF n = None THEN @.name ELSE n, icon |-> i]]
    <2>3. /\ shortcuts' \in Tables
          /\ backup' \in SUBSET Tables /\ stored' \in BOOLEAN
      <3>1. new \in Tables  BY <1>1, <2>2 DEF Tables
      <3>2. Save(new)  BY <1>10 DEF Change
      <3>3. QED  BY <1>1, <3>1, <3>2, SaveTypes
    <2>4. told' \in [Shortcuts -> Names \cup {Gone, None}]  BY <1>1, <1>10 DEF Change
    <2>5. QED  BY <1>1, <1>10, <2>3, <2>4 DEF Change, Locked, Go
  <1>11. ASSUME NEW s \in Shortcuts, Delete(h, s) PROVE TypeOK'
    <2>1. [shortcuts EXCEPT ![s] = None] \in Tables  BY <1>1 DEF Tables
    <2>2. /\ shortcuts' \in Tables
          /\ backup' \in SUBSET Tables /\ stored' \in BOOLEAN
      BY <1>1, <1>11, <2>1, SaveTypes DEF Delete
    <2>3. QED  BY <1>1, <1>11, <2>2 DEF Delete, Locked, Go
  <1>12. CASE LeaveAsIs(h)  BY <1>1, <1>12 DEF LeaveAsIs, Locked, Go
  <1>13. CASE Replace(h)
    <2>1. draft[h] \in Draft  BY <1>1, <1>13 DEF Replace, Go, Holds, Refreshing
    <2>2. [name |-> draft[h].name, icon |-> draft[h].icon] \in Entry
      BY <2>1 DEF Draft, Entry
    <2>3. draft[h].asked \in Names \cup {None}  BY <2>1 DEF Draft
    <2> DEFINE d == draft[h]
               new == [shortcuts EXCEPT ![d.id] =
                          [name |-> d.name, icon |-> d.icon]]
    <2>4. /\ shortcuts' \in Tables
          /\ backup' \in SUBSET Tables /\ stored' \in BOOLEAN
      <3>1. new \in Tables  BY <1>1, <2>2 DEF Tables
      <3>2. Save(new)  BY <1>13 DEF Replace
      <3>3. QED  BY <1>1, <3>1, <3>2, SaveTypes
    <2>5. told' \in [Shortcuts -> Names \cup {Gone, None}]
      BY <1>1, <1>13, <2>3 DEF Replace
    <2>6. QED  BY <1>1, <1>13, <2>4, <2>5 DEF Replace, Go
  <1>14. CASE ReplaceFails(h)  BY <1>1, <1>14 DEF ReplaceFails, Go
  <1>15. QED
    BY <1>2, <1>3, <1>4, <1>6, <1>7, <1>8, <1>9, <1>10, <1>11, <1>12, <1>13, <1>14
    DEF Steps, FetchEnds, Enter, Commit

LEMMA TypeNext == IInv /\ [Next]_vars => TypeOK'
  <1> SUFFICES ASSUME IInv, [Next]_vars PROVE TypeOK'
    OBVIOUS
  <1>1. TypeOK  BY DEF IInv
  <1>2. ASSUME NEW i \in Icons, Upload(i) PROVE TypeOK'
    BY <1>1, <1>2 DEF TypeOK, Upload, WriteIcon
  <1>3. ASSUME NEW i \in Icons, Settle(i) PROVE TypeOK'
    BY <1>1, <1>3 DEF TypeOK, Settle
  <1>4. CASE Reopen
    <2>1. /\ lock' \in Handlers \cup {None}
          /\ pc' \in [Handlers -> Waiting \cup Fetching \cup {"idle", "replacing"}]
          /\ icon' \in [Handlers -> Icons \cup {Default}]
          /\ draft' \in [Handlers -> Draft \cup {None}]
          /\ disk' \in [Icons -> {"none", "renamed", "settled", "lost"}]
      BY <1>1, <1>4 DEF TypeOK, Reopen, Dies
    <2>2. ASSUME NEW old \in Tables, LoadOlder(old)
          PROVE /\ shortcuts' \in Tables /\ stored' \in BOOLEAN
                /\ told' \in [Shortcuts -> Names \cup {Gone, None}]
      BY <2>2 DEF LoadOlder, Tables, Entry
    <2>3. NoShortcuts \in Tables  BY DEF NoShortcuts, Tables
    <2>4. CASE Restart  BY <1>1, <2>1, <2>4 DEF TypeOK, Restart
    <2>5. CASE Recover  BY <1>1, <2>1, <2>2, <2>5 DEF TypeOK, Recover
    <2>6. CASE StartFresh
      BY <1>1, <2>1, <2>2, <2>3, <2>6 DEF TypeOK, StartFresh
    <2>7. QED  BY <1>4, <2>4, <2>5, <2>6 DEF Reopen
  <1>5. CASE SaveOther
    BY <1>1, <1>5, SaveTypes DEF TypeOK, SaveOther
  <1>6. CASE UNCHANGED vars  BY <1>1, <1>6 DEF TypeOK, vars
  <1>7. QED  BY TypeSteps, <1>2, <1>3, <1>4, <1>5, <1>6 DEF Next

-----------------------------------------------------------------------------
(* The icons *)

\* No step takes an icon file away: a power failure leaves its id used.
LEMMA DiskGrows ==
    ASSUME TypeOK, [Next]_vars, NEW i \in Icons, disk[i] # "none"
    PROVE disk'[i] # "none"
  <1> USE DEF TypeOK, WriteIcon
  <1>1. ASSUME NEW h \in Handlers, Steps(h) PROVE disk'[i] # "none"
    <2>1. CASE UNCHANGED disk  BY <2>1
    <2>2. ASSUME NEW j \in Icons, FetchSucceeds(h, j) PROVE disk'[i] # "none"
      BY <2>2 DEF FetchSucceeds
    <2>3. QED
      BY <1>1, <2>1, <2>2
      DEF Steps, Create, CreateWith, Arrive, FetchEnds, FetchFails, Enter, Add,
          Lookup, Change, Delete, LeaveAsIs, Commit, Replace, ReplaceFails
  <1>2. ASSUME NEW j \in Icons, Upload(j) \/ Settle(j) PROVE disk'[i] # "none"
    BY <1>2 DEF Upload, Settle
  <1>3. CASE Reopen  BY <1>3 DEF Reopen, Dies
  <1>4. CASE SaveOther \/ UNCHANGED vars  BY <1>4 DEF SaveOther, vars
  <1>5. QED  BY <1>1, <1>2, <1>3, <1>4 DEF Next

\* No step makes up a backup: it is what was in state.json before.
LEMMA BackupGrows ==
    ASSUME TypeOK, [Next]_vars PROVE backup' \subseteq backup \cup {shortcuts}
  <1>1. ASSUME NEW h \in Handlers, Steps(h)
        PROVE backup' \subseteq backup \cup {shortcuts}
    <2>1. CASE UNCHANGED backup  BY <2>1
    <2>2. CASE \E table : Save(table)  BY <2>2 DEF Save
    <2>3. CASE Enter(h) \/ Commit(h)
      BY <2>1, <2>2, <2>3
      DEF Enter, Commit, Add, Lookup, Change, Delete, LeaveAsIs, Replace,
          ReplaceFails
    <2>4. QED
      BY <1>1, <2>1, <2>3
      DEF Steps, Create, CreateWith, Arrive, FetchEnds, FetchFails,
          FetchSucceeds
  <1>2. ASSUME NEW i \in Icons, Upload(i) \/ Settle(i) PROVE UNCHANGED backup
    BY <1>2 DEF Upload, Settle
  <1>3. CASE Reopen
    BY <1>3 DEF Reopen, Restart, Recover, StartFresh
  <1>4. CASE SaveOther  BY <1>4 DEF SaveOther, Save
  <1>5. CASE UNCHANGED vars  BY <1>5 DEF vars
  <1>6. QED  BY <1>1, <1>2, <1>3, <1>4, <1>5 DEF Next

LEMMA BackupNext == IInv /\ [Next]_vars => BackupsHaveIcons'
  <1> SUFFICES ASSUME IInv, [Next]_vars,
                      NEW old \in backup', NEW s \in Shortcuts, old[s] # None
               PROVE Stored(old[s].icon)'
    BY DEF BackupsHaveIcons
  <1>1. TypeOK  BY DEF IInv
  <1>2. old \in backup \cup {shortcuts}  BY <1>1, BackupGrows
  <1>3. old \in Tables  BY <1>1, <1>2 DEF TypeOK
  <1>4. old[s].icon \in Icons \cup {Default}  BY <1>3 DEF Tables, Entry
  <1>5. Stored(old[s].icon)
    BY <1>2 DEF IInv, BackupsHaveIcons, IconsExist, Stored
  <1>6. QED  BY <1>1, <1>4, <1>5, DiskGrows DEF Stored

\* Who does not hold the lock has no copy.
LEMMA OneRefresh ==
    ASSUME IInv, NEW g \in Handlers, lock # g
    PROVE pc[g] \notin Refreshing
  BY DEF IInv, Holds

-----------------------------------------------------------------------------
(* A step keeps the invariant *)

Rest == IconsExist /\ UpdatesHold /\ \A h \in Handlers : Holds(h)

\* Steps that leave the shortcuts, the lock and the copies alone, and give a
\* handler only an icon that is there.
LEMMA QuietStep ==
    ASSUME IInv, TypeOK', [Next]_vars,
           UNCHANGED <<shortcuts, lock, draft, told>>,
           \A g \in Handlers : pc'[g] \in Refreshing => pc[g] \in Refreshing,
           \A g \in Handlers : icon'[g] = icon[g] \/ Stored(icon[g])'
    PROVE Rest'
  <1>1. TypeOK /\ IconsExist /\ UpdatesHold  BY DEF IInv
  <1>2. ASSUME NEW i \in Icons \cup {Default}, Stored(i) PROVE Stored(i)'
    BY <1>1, <1>2, DiskGrows DEF Stored
  <1>3. IconsExist'
    <2> SUFFICES ASSUME NEW s \in Shortcuts, shortcuts[s] # None
                 PROVE Stored(shortcuts[s].icon)'
      BY DEF IconsExist, Stored
    <2>1. shortcuts[s] \in Entry  BY <1>1 DEF TypeOK, Tables
    <2>2. shortcuts[s].icon \in Icons \cup {Default}  BY <2>1 DEF Entry
    <2>3. Stored(shortcuts[s].icon)  BY <1>1 DEF IconsExist, Stored
    <2>4. QED  BY <1>2, <2>2, <2>3
  <1>4. UpdatesHold'  BY <1>1 DEF UpdatesHold
  <1>5. ASSUME NEW g \in Handlers PROVE Holds(g)'
    <2>1. Holds(g)  BY DEF IInv
    <2>2. ASSUME pc'[g] \in Refreshing
          PROVE lock' = g /\ draft'[g] \in Draft /\ Fresh(draft[g])'
      <3>1. lock = g /\ draft[g] \in Draft /\ Fresh(draft[g])
        BY <2>1, <2>2 DEF Holds
      <3>2. draft[g].icon \in Icons \cup {Default}  BY <3>1 DEF Draft
      <3>3. Stored(draft[g].icon)'  BY <1>2, <3>1, <3>2 DEF Fresh
      <3>4. QED  BY <3>1, <3>3 DEF Fresh
    <2>3. Stored(icon[g])'
      <3>1. icon[g] \in Icons \cup {Default}  BY <1>1 DEF TypeOK
      <3>2. Stored(icon[g])  BY <2>1 DEF Holds
      <3>3. CASE icon'[g] = icon[g]  BY <1>2, <3>1, <3>2, <3>3 DEF Stored
      <3>4. QED  BY <3>3
    <2>4. QED  BY <2>2, <2>3 DEF Holds
  <1>6. QED  BY <1>3, <1>4, <1>5 DEF Rest

\* Steps under the lock that write one shortcut, or none, and end.
LEMMA WriteStep ==
    ASSUME IInv, TypeOK', [Next]_vars, NEW h \in Handlers, NEW s \in Shortcuts,
           lock \in {h, None}, pc'[h] = "idle", UNCHANGED disk,
           \A g \in Handlers \ {h} : pc'[g] = pc[g] /\ icon'[g] = icon[g],
           icon'[h] \in {icon[h], Default},
           \A r \in Shortcuts \ {s} :
                shortcuts'[r] = shortcuts[r] /\ told'[r] = told[r],
           \/ shortcuts'[s] = None /\ told'[s] \in {None, Gone}
           \/ /\ shortcuts'[s] # None /\ told'[s] \notin {None, Gone}
              /\ shortcuts'[s].name = told'[s]
              /\ Stored(shortcuts'[s].icon)
    PROVE Rest'
  <1>1. TypeOK /\ IconsExist /\ UpdatesHold  BY DEF IInv
  <1>2. IconsExist'  BY <1>1 DEF IconsExist, Stored
  <1>3. UpdatesHold'  BY <1>1 DEF UpdatesHold
  <1>4. ASSUME NEW g \in Handlers PROVE Holds(g)'
    <2>1. Holds(g) /\ Holds(h)  BY DEF IInv
    <2>2. Stored(icon[g])'  BY <2>1 DEF Holds, Stored
    <2>3. pc'[g] \notin Refreshing
      <3>1. CASE g = h  BY <3>1 DEF Refreshing
      <3>2. CASE g # h  BY <3>2, OneRefresh, DistinctAssumption
      <3>3. QED  BY <3>1, <3>2
    <2>4. QED  BY <2>2, <2>3 DEF Holds
  <1>5. QED  BY <1>2, <1>3, <1>4 DEF Rest

\* Replace writes the copy: it has the name that was last answered.
LEMMA ReplaceWrites ==
    ASSUME IInv, NEW h \in Handlers, Replace(h)
    PROVE LET d == draft[h] IN
          /\ lock = h /\ d.id \in Shortcuts
          /\ shortcuts'[d.id] # None /\ told'[d.id] \notin {None, Gone}
          /\ shortcuts'[d.id].name = told'[d.id]
          /\ Stored(shortcuts'[d.id].icon)
  <1> DEFINE d == draft[h]
  <1>1. TypeOK /\ UpdatesHold /\ Holds(h)  BY DEF IInv
  <1>2. lock = h /\ d \in Draft /\ Fresh(d)
    BY <1>1 DEF Replace, Go, Holds, Refreshing
  <1>3. /\ d.id \in Shortcuts /\ d.name \in Names
        /\ d.asked \in Names \cup {None} /\ d.icon \in Icons \cup {Default}
    BY <1>2 DEF Draft
  <1>4. /\ shortcuts'[d.id] = [name |-> d.name, icon |-> d.icon]
        /\ told'[d.id] = IF d.asked = None THEN told[d.id] ELSE d.asked
    BY <1>1, <1>3 DEF Replace, Save, TypeOK, Tables
  <1>5. [name |-> d.name, icon |-> d.icon] \in Entry  BY <1>3 DEF Entry
  <1>6. shortcuts'[d.id] # None  BY <1>4, <1>5, DistinctAssumption
  <1>7. told'[d.id] = d.name  BY <1>2, <1>4 DEF Fresh
  <1>8. told'[d.id] \notin {None, Gone}  BY <1>3, <1>7, DistinctAssumption
  <1>9. QED  BY <1>2, <1>3, <1>4, <1>6, <1>7, <1>8 DEF Fresh

\* An Update that stands alone in its lock: the icon it writes is there.
LEMMA UpdateSteps ==
    ASSUME IInv, TypeOK', [Next]_vars, NEW h \in Handlers, Enter(h) \/ Commit(h)
    PROVE Rest' \/ \E s \in Shortcuts, n \in Names \cup {None} : Lookup(h, s, n)
  <1>1. TypeOK /\ IconsExist /\ UpdatesHold /\ Holds(h)  BY DEF IInv
  <1>2. ASSUME NEW s \in Shortcuts, NEW n \in Names, Add(h, s, n) PROVE Rest'
    <2>1. shortcuts'[s] = [name |-> n, icon |-> icon[h]] /\ told'[s] = n
      BY <1>1, <1>2 DEF Add, Save, TypeOK, Tables
    <2>2. [name |-> n, icon |-> icon[h]] \in Entry  BY <1>1 DEF TypeOK, Tables, Entry
    <2>3. /\ shortcuts'[s] # None /\ told'[s] \notin {None, Gone}
          /\ shortcuts'[s].name = told'[s] /\ Stored(shortcuts'[s].icon)
      BY <1>1, <2>1, <2>2, DistinctAssumption DEF Holds
    <2>4. /\ pc'[h] = "idle" /\ lock = None
          /\ \A g \in Handlers \ {h} : pc'[g] = pc[g] /\ icon'[g] = icon[g]
          /\ icon'[h] \in {icon[h], Default}
          /\ \A r \in Shortcuts \ {s} :
                shortcuts'[r] = shortcuts[r] /\ told'[r] = told[r]
          /\ UNCHANGED disk
      BY <1>1, <1>2 DEF Add, Save, Locked, Go, TypeOK, Tables
    <2>5. QED  BY <2>3, <2>4, WriteStep
  <1>3. ASSUME NEW s \in Shortcuts, NEW n \in Names \cup {None},
               NEW i \in Icons \cup {Default}, Change(h, s, n, i)
        PROVE Rest'
    <2>1. shortcuts[s] \in Entry /\ told[s] \in Names
      BY <1>1, <1>3 DEF Change, TypeOK, Tables, UpdatesHold
    <2>2. shortcuts[s].name \in Names /\ shortcuts[s].name = told[s]
      BY <1>1, <2>1, DistinctAssumption DEF Entry, UpdatesHold
    <2>3. /\ shortcuts'[s] = [name |-> IF n = None THEN shortcuts[s].name ELSE n,
                             icon |-> i]
          /\ told'[s] = IF n = None THEN told[s] ELSE n
      BY <1>1, <1>3 DEF Change, Save, TypeOK, Tables
    <2>4. Stored(i)  BY <1>1, <1>3 DEF Change, IconsExist, Stored, Exists
    <2>5. [name |-> IF n = None THEN shortcuts[s].name ELSE n, icon |-> i] \in Entry
      BY <2>2 DEF Entry
    <2>6. shortcuts'[s] # None  BY <2>3, <2>5, DistinctAssumption
    <2>7. told'[s] \notin {None, Gone} /\ shortcuts'[s].name = told'[s]
      BY <2>1, <2>2, <2>3, DistinctAssumption
    <2>8. /\ pc'[h] = "idle" /\ lock = None
          /\ \A g \in Handlers \ {h} : pc'[g] = pc[g] /\ icon'[g] = icon[g]
          /\ icon'[h] \in {icon[h], Default}
          /\ \A r \in Shortcuts \ {s} :
                shortcuts'[r] = shortcuts[r] /\ told'[r] = told[r]
          /\ UNCHANGED disk
      BY <1>1, <1>3 DEF Change, Save, Locked, Go, TypeOK, Tables
    <2>9. QED  BY <2>3, <2>4, <2>6, <2>7, <2>8, WriteStep
  <1>4. ASSUME NEW s \in Shortcuts, Delete(h, s) PROVE Rest'
    <2>1. /\ shortcuts'[s] = None /\ told'[s] = Gone
          /\ pc'[h] = "idle" /\ lock = None
          /\ \A g \in Handlers \ {h} : pc'[g] = pc[g] /\ icon'[g] = icon[g]
          /\ icon'[h] \in {icon[h], Default}
          /\ \A r \in Shortcuts \ {s} :
                shortcuts'[r] = shortcuts[r] /\ told'[r] = told[r]
          /\ UNCHANGED disk
      BY <1>1, <1>4 DEF Delete, Save, Locked, Go, TypeOK, Tables
    <2>2. QED  BY <2>1, WriteStep
  <1>5. CASE LeaveAsIs(h)
    <2>1. /\ UNCHANGED <<shortcuts, lock, draft, told>>
          /\ \A g \in Handlers : pc'[g] \in Refreshing => pc[g] \in Refreshing
          /\ \A g \in Handlers : icon'[g] = icon[g] \/ Stored(icon[g])'
      BY <1>1, <1>5 DEF LeaveAsIs, Locked, Go, TypeOK, Refreshing, Stored
    <2>2. QED  BY <2>1, QuietStep
  <1>6. CASE Replace(h)
    <2> DEFINE s == draft[h].id
    <2>1. /\ lock = h /\ s \in Shortcuts
          /\ shortcuts'[s] # None /\ told'[s] \notin {None, Gone}
          /\ shortcuts'[s].name = told'[s] /\ Stored(shortcuts'[s].icon)
      BY <1>6, ReplaceWrites
    <2>2. /\ pc'[h] = "idle"
          /\ \A g \in Handlers \ {h} : pc'[g] = pc[g] /\ icon'[g] = icon[g]
          /\ icon'[h] \in {icon[h], Default}
          /\ \A r \in Shortcuts \ {s} :
                shortcuts'[r] = shortcuts[r] /\ told'[r] = told[r]
          /\ UNCHANGED disk
      BY <1>1, <1>6 DEF Replace, Save, Go, TypeOK, Tables
    <2>3. QED  BY <2>1, <2>2, WriteStep
  <1>7. CASE ReplaceFails(h)
    <2>1. /\ lock = h
          /\ \A g \in Handlers \ {h} : pc'[g] = pc[g]
          /\ pc'[h] = "idle" /\ UNCHANGED <<shortcuts, disk, icon, told>>
      BY <1>1, <1>7 DEF ReplaceFails, Go, TypeOK, Holds, Refreshing
    <2>2. IconsExist' /\ UpdatesHold'  BY <1>1, <2>1 DEF IconsExist, UpdatesHold
    <2>3. ASSUME NEW g \in Handlers PROVE Holds(g)'
      <3>1. Holds(g)  BY DEF IInv
      <3>2. pc'[g] \notin Refreshing
        <4>1. CASE g = h  BY <2>1, <4>1 DEF Refreshing
        <4>2. CASE g # h  BY <2>1, <4>2, OneRefresh
        <4>3. QED  BY <4>1, <4>2
      <3>3. QED  BY <2>1, <3>1, <3>2 DEF Holds, Stored
    <2>4. QED  BY <2>2, <2>3 DEF Rest
  <1>8. QED
    BY <1>2, <1>3, <1>4, <1>5, <1>6, <1>7 DEF Enter, Commit

\* A refresh begins with a copy that is as new as the shortcut.
LEMMA LookupStep ==
    ASSUME IInv, NEW h \in Handlers, NEW s \in Shortcuts,
           NEW n \in Names \cup {None}, Lookup(h, s, n)
    PROVE Rest'
  <1> DEFINE d == [id |-> s, asked |-> n, icon |-> shortcuts[s].icon,
                   name |-> IF n = None THEN shortcuts[s].name ELSE n]
  <1>1. TypeOK /\ IconsExist /\ UpdatesHold  BY DEF IInv
  <1>2. shortcuts[s] # None /\ shortcuts[s] \in Entry
    BY <1>1 DEF Lookup, TypeOK, Tables
  <1>3. shortcuts[s].name \in Names /\ shortcuts[s].icon \in Icons \cup {Default}
    BY <1>2 DEF Entry
  <1>4. d \in Draft  BY <1>3 DEF Draft
  <1>5. shortcuts[s].name = told[s]  BY <1>1, <1>2 DEF UpdatesHold
  <1>6. Stored(shortcuts[s].icon)  BY <1>1, <1>2 DEF IconsExist, Stored
  <1>7. UNCHANGED <<shortcuts, disk, icon, told>>  BY DEF Lookup
  <1>8. Fresh(d)'
    <2>1. d.name = IF d.asked = None THEN told[d.id] ELSE d.asked  BY <1>5
    <2>2. d' = d  BY <1>7
    <2>3. QED  BY <1>2, <1>6, <1>7, <2>1, <2>2 DEF Fresh, Stored
  <1>9. draft'[h] = d /\ lock' = h  BY <1>1 DEF Lookup, TypeOK
  <1>10. ASSUME NEW g \in Handlers PROVE Holds(g)'
    <2>1. Stored(icon[g])'  BY <1>7 DEF IInv, Holds, Stored
    <2>2. CASE g = h
      <3>1. draft'[g] \in Draft /\ Fresh(draft[g])'
        BY <1>4, <1>7, <1>8, <1>9, <2>2 DEF Fresh, Stored
      <3>2. QED  BY <1>9, <2>1, <2>2, <3>1 DEF Holds
    <2>3. CASE g # h
      <3>1. pc'[g] = pc[g] /\ lock = None
        BY <1>1, <2>3 DEF Lookup, Locked, Go, TypeOK
      <3>2. pc'[g] \notin Refreshing  BY <3>1, OneRefresh, DistinctAssumption
      <3>3. QED  BY <2>1, <3>2 DEF Holds
    <2>4. QED  BY <2>2, <2>3
  <1>11. QED  BY <1>1, <1>7, <1>10 DEF Rest, IconsExist, UpdatesHold

\* A fetch ends: its icon is on disk, or it is the default one.
LEMMA ResolveStep ==
    ASSUME IInv, TypeOK', [Next]_vars, NEW h \in Handlers,
           NEW i \in Icons \cup {Default}, Resolve(h, i), Stored(i)',
           UNCHANGED <<shortcuts, lock, told>>
    PROVE Rest'
  <1>1. TypeOK /\ Holds(h)  BY DEF IInv
  <1>2. CASE Go(h, "resolving", "adding") /\ icon' = [icon EXCEPT ![h] = i]
             /\ UNCHANGED draft
    <2>1. /\ UNCHANGED <<shortcuts, lock, draft, told>>
          /\ \A g \in Handlers : pc'[g] \in Refreshing => pc[g] \in Refreshing
          /\ \A g \in Handlers : icon'[g] = icon[g] \/ Stored(icon[g])'
      BY <1>1, <1>2 DEF Go, TypeOK, Refreshing, Stored
    <2>2. QED  BY <2>1, QuietStep
  <1>3. CASE Go(h, "refreshing", "replacing")
             /\ draft' = [draft EXCEPT ![h].icon = i] /\ UNCHANGED icon
    <2>1. lock = h /\ draft[h] \in Draft /\ Fresh(draft[h])
      BY <1>1, <1>3 DEF Go, Holds, Refreshing
    <2>2. draft'[h] = [draft[h] EXCEPT !.icon = i]  BY <1>1, <1>3 DEF TypeOK
    <2>3. /\ draft'[h] \in Draft
          /\ draft'[h].id = draft[h].id /\ draft'[h].asked = draft[h].asked
          /\ draft'[h].name = draft[h].name /\ draft'[h].icon = i
      BY <2>1, <2>2 DEF Draft
    <2>4. Fresh(draft[h])'
      BY <2>1, <2>3 DEF Fresh
    <2>5. ASSUME NEW j \in Icons \cup {Default}, Stored(j) PROVE Stored(j)'
      BY <1>1, <2>5, DiskGrows DEF Stored
    <2>6. IconsExist'
      <3> SUFFICES ASSUME NEW s \in Shortcuts, shortcuts[s] # None
                   PROVE Stored(shortcuts[s].icon)'
        BY DEF IconsExist, Stored
      <3>1. shortcuts[s].icon \in Icons \cup {Default}  BY <1>1 DEF TypeOK, Tables, Entry
      <3>2. Stored(shortcuts[s].icon)  BY DEF IInv, IconsExist, Stored
      <3>3. QED  BY <2>5, <3>1, <3>2
    <2>7. UpdatesHold'  BY DEF IInv, UpdatesHold
    <2>8. ASSUME NEW g \in Handlers PROVE Holds(g)'
      <3>1. icon[g] \in Icons \cup {Default} /\ Stored(icon[g])
        BY <1>1 DEF IInv, TypeOK, Holds
      <3>2. Stored(icon[g])'  BY <1>3, <2>5, <3>1
      <3>3. CASE g = h  BY <2>1, <2>3, <2>4, <3>2, <3>3 DEF Holds
      <3>4. CASE g # h
        <4>1. pc[g] \notin Refreshing  BY <2>1, <3>4, OneRefresh
        <4>2. pc'[g] = pc[g]  BY <1>1, <1>3, <3>4 DEF Go, TypeOK
        <4>3. QED  BY <3>2, <4>1, <4>2 DEF Holds
      <3>5. QED  BY <3>3, <3>4
    <2>9. QED  BY <2>6, <2>7, <2>8 DEF Rest
  <1>4. QED  BY <1>2, <1>3 DEF Resolve

LEMMA RestNext == IInv /\ [Next]_vars => Rest'
  <1> SUFFICES ASSUME IInv, [Next]_vars PROVE Rest'
    OBVIOUS
  <1>1. TypeOK' /\ TypeOK  BY TypeNext DEF IInv
  <1>2. ASSUME NEW h \in Handlers,
               Create(h) \/ Arrive(h) \/ \E i \in Icons : CreateWith(h, i)
        PROVE Rest'
    <2>1. UNCHANGED <<shortcuts, disk, lock, draft, told>>
      BY <1>2 DEF Create, Arrive, CreateWith
    <2>2. \A g \in Handlers : pc'[g] \in Refreshing => pc[g] \in Refreshing
      BY <1>1, <1>2 DEF Create, Arrive, CreateWith, Go, TypeOK, Refreshing
    <2>3. \A g \in Handlers : icon'[g] = icon[g] \/ Stored(icon[g])'
      BY <1>1, <1>2 DEF Create, Arrive, CreateWith, Exists, TypeOK, Stored
    <2>4. QED  BY <1>1, <2>1, <2>2, <2>3, QuietStep
  <1>3. ASSUME NEW h \in Handlers, FetchFails(h) PROVE Rest'
    <2>1. Resolve(h, Default) /\ UNCHANGED <<shortcuts, lock, told>>
      BY <1>3 DEF FetchFails
    <2>2. Stored(Default)'  BY DEF Stored
    <2>3. QED  BY <1>1, <2>1, <2>2, ResolveStep
  <1>4. ASSUME NEW h \in Handlers, NEW i \in Icons, FetchSucceeds(h, i)
        PROVE Rest'
    <2>1. Resolve(h, i) /\ UNCHANGED <<shortcuts, lock, told>>
      BY <1>4 DEF FetchSucceeds
    <2>2. Stored(i)'  BY <1>1, <1>4 DEF FetchSucceeds, WriteIcon, Stored, TypeOK
    <2>3. QED  BY <1>1, <2>1, <2>2, ResolveStep
  <1>5. ASSUME NEW h \in Handlers, Enter(h) \/ Commit(h) PROVE Rest'
    BY <1>1, <1>5, UpdateSteps, LookupStep
  <1>6. ASSUME NEW i \in Icons, Upload(i) \/ Settle(i) PROVE Rest'
    BY <1>1, <1>6, QuietStep DEF Upload, Settle
  <1>7. CASE Reopen
    <2>1. \A h \in Handlers : Holds(h)'
      BY <1>7 DEF Reopen, Dies, Holds, Stored, Refreshing
    <2>2. ASSUME NEW i \in Icons \cup {Default}, Stored(i) PROVE Stored(i)'
      BY <1>1, <2>2, DiskGrows DEF Stored
    <2>3. ASSUME NEW table \in Tables, shortcuts' = table,
                 \A s \in Shortcuts : table[s] # None => Stored(table[s].icon)
          PROVE IconsExist'
      <3> SUFFICES ASSUME NEW s \in Shortcuts, table[s] # None
                   PROVE Stored(table[s].icon)'
        BY <2>3 DEF IconsExist, Stored
      <3>1. table[s].icon \in Icons \cup {Default}  BY DEF Tables, Entry
      <3>2. QED  BY <2>2, <2>3, <3>1
    <2>4. ASSUME NEW old \in Tables, LoadOlder(old) PROVE UpdatesHold'
      <3> SUFFICES ASSUME NEW s \in Shortcuts
                   PROVE IF told'[s] \in {Gone, None}
                         THEN shortcuts'[s] = None
                         ELSE /\ shortcuts'[s] # None
                              /\ shortcuts'[s].name = told'[s]
        BY DEF UpdatesHold
      <3>1. /\ shortcuts'[s] = old[s]
            /\ told'[s] = IF old[s] # None THEN old[s].name
                          ELSE IF told[s] = None THEN None ELSE Gone
        BY <2>4 DEF LoadOlder
      <3>2. CASE old[s] = None  BY <3>1, <3>2
      <3>3. CASE old[s] # None
        <4>1. old[s].name \in Names  BY <3>3 DEF Tables, Entry
        <4>2. QED  BY <3>1, <3>3, <4>1, DistinctAssumption
      <3>4. QED  BY <3>2, <3>3
    <2>5. CASE Restart
      <3>1. shortcuts \in Tables /\ shortcuts' = shortcuts /\ told' = told
        BY <1>1, <2>5 DEF TypeOK, Restart
      <3>2. \A s \in Shortcuts : shortcuts[s] # None => Stored(shortcuts[s].icon)
        BY DEF IInv, IconsExist, Stored
      <3>3. IconsExist'  BY <2>3, <3>1, <3>2
      <3>4. UpdatesHold'  BY <3>1 DEF IInv, UpdatesHold
      <3>5. QED  BY <2>1, <3>3, <3>4 DEF Rest
    <2>6. CASE Recover
      <3>1. PICK old \in backup : LoadOlder(old)  BY <2>6 DEF Recover
      <3>2. old \in Tables  BY <1>1 DEF TypeOK
      <3>3. IconsExist'
        BY <2>3, <3>1, <3>2 DEF LoadOlder, IInv, BackupsHaveIcons
      <3>4. UpdatesHold'  BY <2>4, <3>1, <3>2
      <3>5. QED  BY <2>1, <3>3, <3>4 DEF Rest
    <2>7. CASE StartFresh
      <3>1. NoShortcuts \in Tables /\ LoadOlder(NoShortcuts)
        BY <2>7 DEF StartFresh, NoShortcuts, Tables
      <3>2. \A s \in Shortcuts : NoShortcuts[s] = None  BY DEF NoShortcuts
      <3>3. IconsExist'  BY <2>3, <3>1, <3>2 DEF LoadOlder
      <3>4. UpdatesHold'  BY <2>4, <3>1
      <3>5. QED  BY <2>1, <3>3, <3>4 DEF Rest
    <2>8. QED  BY <1>7, <2>5, <2>6, <2>7 DEF Reopen
  <1>8. CASE SaveOther \/ UNCHANGED vars
    BY <1>1, <1>8, QuietStep DEF SaveOther, Save, vars
  <1>9. QED
    BY <1>2, <1>3, <1>4, <1>5, <1>6, <1>7, <1>8
    DEF Next, Steps, FetchEnds

LEMMA IInvHolds == Spec => []IInv
  <1>1. IInv /\ [Next]_vars => IInv'  BY TypeNext, BackupNext, RestNext DEF IInv, Rest
  <1>2. QED  BY InitIInv, <1>1, PTL DEF Spec

-----------------------------------------------------------------------------

\* The shortcuts, the icon files, the lock and what handlers hold keep their
\* types (shortcuts.go, icons.go).
THEOREM ShortcutTypeCorrect == Spec => []TypeOK
  <1>1. IInv => TypeOK  BY DEF IInv
  <1>2. QED  BY IInvHolds, <1>1, PTL

\* Shortcuts name icons that were stored before, and nobody removes them
\* (resolveIcon, Update, Delete).
THEOREM ShortcutIconsExist == Spec => []IconsExist
  <1>1. IInv => IconsExist  BY DEF IInv
  <1>2. QED  BY IInvHolds, <1>1, PTL

\* A refresh undoes no rename and revives no deleted shortcut (Update).
THEOREM ShortcutUpdatesHold == Spec => []UpdatesHold
  <1>1. IInv => UpdatesHold  BY DEF IInv
  <1>2. QED  BY IInvHolds, <1>1, PTL

-----------------------------------------------------------------------------
(* The lock, and deletions *)

\* The safety half of RequestsEnd: the store's lock outlasts a step only while
\* its holder refreshes an icon, and comes back however that ends.
RefreshesHoldTheLock ==
    \A h \in Handlers : pc[h] \in Refreshing <=> lock = h

LEMMA LockStep ==
    IInv /\ RefreshesHoldTheLock /\ [Next]_vars => RefreshesHoldTheLock'
  <1> SUFFICES ASSUME IInv, RefreshesHoldTheLock, [Next]_vars
               PROVE RefreshesHoldTheLock'
    OBVIOUS
  <1> USE DEF RefreshesHoldTheLock, Refreshing, Go, Locked
  <1>1. TypeOK  BY DEF IInv
  <1>2. ASSUME NEW h \in Handlers, Steps(h) PROVE RefreshesHoldTheLock'
    <2>1. CASE /\ lock' = lock
               /\ \A g \in Handlers : pc'[g] \in Refreshing <=> pc[g] \in Refreshing
      BY <2>1
    <2>2. CASE Create(h) \/ Arrive(h) \/ \E i \in Icons : CreateWith(h, i)
      BY <1>1, <2>1, <2>2 DEF Create, Arrive, CreateWith, TypeOK
    <2>3. ASSUME NEW i \in Icons \cup {Default}, Resolve(h, i)
          PROVE \A g \in Handlers : pc'[g] \in Refreshing <=> pc[g] \in Refreshing
      BY <1>1, <2>3 DEF Resolve, TypeOK
    <2>4. CASE FetchEnds(h)
      BY <2>1, <2>3, <2>4 DEF FetchEnds, FetchFails, FetchSucceeds
    <2>5. ASSUME NEW s \in Shortcuts, NEW n \in Names \cup {None}, Lookup(h, s, n)
          PROVE RefreshesHoldTheLock'
      BY <1>1, <2>5, DistinctAssumption DEF Lookup, TypeOK
    <2>6. CASE \/ \E s \in Shortcuts, n \in Names : Add(h, s, n)
               \/ \E s \in Shortcuts, n \in Names \cup {None},
                     i \in Icons \cup {Default} : Change(h, s, n, i)
               \/ \E s \in Shortcuts : Delete(h, s)
               \/ LeaveAsIs(h)
      <3>1. lock' = lock /\ lock = None
        BY <2>6 DEF Add, Change, Delete, LeaveAsIs
      <3>2. pc'[h] = "idle" /\ \A g \in Handlers \ {h} : pc'[g] = pc[g]
        BY <1>1, <2>6 DEF Add, Change, Delete, LeaveAsIs, TypeOK
      <3>3. QED  BY <3>1, <3>2, DistinctAssumption
    <2>7. CASE Commit(h)
      <3>1. /\ lock' = None /\ pc[h] = "replacing" /\ pc'[h] = "idle"
            /\ \A g \in Handlers \ {h} : pc'[g] = pc[g]
        BY <1>1, <2>7 DEF Commit, Replace, ReplaceFails, TypeOK
      <3>2. QED  BY <3>1, DistinctAssumption
    <2>8. QED  BY <1>2, <2>2, <2>4, <2>5, <2>6, <2>7 DEF Steps, Enter
  <1>3. ASSUME NEW i \in Icons, Upload(i) \/ Settle(i) PROVE RefreshesHoldTheLock'
    BY <1>3 DEF Upload, Settle
  <1>4. CASE Reopen
    BY <1>4, DistinctAssumption DEF Reopen, Dies
  <1>5. CASE SaveOther \/ UNCHANGED vars  BY <1>5 DEF SaveOther, vars
  <1>6. QED  BY <1>2, <1>3, <1>4, <1>5 DEF Next

\* No end of a request leaves the store locked: not a failed fetch, not a
\* failed save, not a restart (Update).
THEOREM ShortcutLockComesBack == Spec => []RefreshesHoldTheLock
  <1>1. Init => RefreshesHoldTheLock
    BY DistinctAssumption DEF Init, RefreshesHoldTheLock, Refreshing
  <1>2. QED  BY <1>1, IInvHolds, LockStep, PTL DEF Spec

\* What was answered as deleted stays deleted, and its id is not used again,
\* but for one way back: a start that loads a backup which still has it.
Returns(s) == Recover /\ \E old \in backup : old[s] # None

DeletionsAreFinal ==
    [][\A s \in Shortcuts :
        told[s] = Gone =>
            Returns(s) \/ (told'[s] = Gone /\ shortcuts'[s] = None)]_vars

LEMMA DeletionStep ==
    ASSUME IInv, [Next]_vars, NEW s \in Shortcuts, told[s] = Gone
    PROVE Returns(s) \/ told'[s] = Gone
  <1>1. TypeOK /\ shortcuts[s] = None  BY DEF IInv, UpdatesHold
  <1>2. ASSUME NEW h \in Handlers, NEW r \in Shortcuts, NEW n \in Names, Add(h, r, n)
        PROVE told'[s] = Gone
    <2>1. told[r] = None /\ told' = [told EXCEPT ![r] = n]  BY <1>2 DEF Add
    <2>2. r # s  BY <2>1, DistinctAssumption
    <2>3. QED  BY <1>1, <2>1, <2>2 DEF TypeOK
  <1>3. ASSUME NEW h \in Handlers, NEW r \in Shortcuts,
               NEW n \in Names \cup {None}, NEW i \in Icons \cup {Default},
               Change(h, r, n, i)
        PROVE told'[s] = Gone
    <2>1. r # s  BY <1>1, <1>3 DEF Change
    <2>2. QED  BY <1>1, <1>3, <2>1 DEF Change, TypeOK
  <1>4. ASSUME NEW h \in Handlers, Replace(h) PROVE told'[s] = Gone
    <2>1. Fresh(draft[h])
      BY <1>4 DEF IInv, Holds, Replace, Go, Refreshing
    <2>2. draft[h].id # s  BY <1>1, <2>1 DEF Fresh
    <2>3. QED  BY <1>1, <1>4, <2>2 DEF Replace, TypeOK
  <1>5. ASSUME NEW h \in Handlers, NEW r \in Shortcuts, Delete(h, r)
        PROVE told'[s] = Gone
    BY <1>1, <1>5 DEF Delete, TypeOK
  <1>6. ASSUME NEW old, LoadOlder(old), old[s] = None PROVE told'[s] = Gone
    BY <1>6, DistinctAssumption DEF LoadOlder
  <1>7. CASE Reopen
    <2>1. CASE Restart  BY <2>1 DEF Restart
    <2>2. CASE Recover  BY <1>6, <2>2 DEF Recover, Returns
    <2>3. CASE StartFresh  BY <1>6, <2>3 DEF StartFresh, NoShortcuts
    <2>4. QED  BY <1>7, <2>1, <2>2, <2>3 DEF Reopen
  <1>8. CASE UNCHANGED told  BY <1>8
  <1>9. QED
    BY <1>2, <1>3, <1>4, <1>5, <1>7, <1>8
    DEF Next, Steps, Create, CreateWith, Arrive, FetchEnds, FetchFails,
        FetchSucceeds, Enter, Lookup, LeaveAsIs, Commit, ReplaceFails, Upload,
        Settle, SaveOther, vars

\* Neither a late refresh nor a new shortcut revives one that was deleted
\* (Update, Delete, Create), nor a start that can read state.json: only load
\* can, from a backup that is older than the deletion (state.go:239).
THEOREM ShortcutDeletionsAreFinal == Spec => DeletionsAreFinal
  <1>1. ASSUME IInv, IInv', [Next]_vars
        PROVE [\A s \in Shortcuts :
                  told[s] = Gone =>
                    Returns(s) \/ (told'[s] = Gone /\ shortcuts'[s] = None)]_vars
    <2>1. ASSUME NEW s \in Shortcuts, told[s] = Gone
          PROVE Returns(s) \/ (told'[s] = Gone /\ shortcuts'[s] = None)
      <3>1. Returns(s) \/ told'[s] = Gone  BY <1>1, <2>1, DeletionStep
      <3>2. told'[s] = Gone => shortcuts'[s] = None
        BY <1>1 DEF IInv, UpdatesHold
      <3>3. QED  BY <3>1, <3>2
    <2>2. QED  BY <2>1
  <1>2. QED  BY IInvHolds, <1>1, PTL DEF Spec, DeletionsAreFinal
=============================================================================
