# A6 Core: specification and verification

A6 Core is the daemon of a living-room appliance. It is one Go process that
serves an HTTP and WebSocket API on the local network. Phones pair with it,
switch its mode, launch apps and games, send keyboard and pointer input, start
and stop a Minecraft server, and keep files in a small cloud store. Everything
persistent is one JSON document, `state.json`, plus icon and cloud files.

This directory holds TLA+ modules of the parts where concurrency, failure and
ordering matter, TLC configurations that check them on small instances, and
TLAPS proofs of the most important results for all instances. `PROJECT.json`
maps every definition to the lines it models.

## Inventory

| Component | State | Operations | What is hard | What makes it correct |
|---|---|---|---|---|
| `internal/servers` with `server_handlers.go`, `dbusctl`, `main.go` wiring | status, stop guard, player count per server; the systemd unit | Start (synchronous), Stop and forced stop (background sequence: broadcast, grace, stop, poll, escalate), player poller, startup sync | unit calls and notifications outside the lock, forced sequences that overlap, lost D-Bus replies, restart between unit states | "stopped" is never shown for a live server, starts and stops exclude each other, the guard is always released |
| `internal/state` | memory image, `state.json`, `state.json.bak`, temp files | Open/load, Update, Save, Snapshot | crash at any step of a save, an I/O error half way, a corrupt primary, rollback | an acknowledged update survives a crash; memory and disk agree after an error |
| `internal/auth`, pairing and device handlers | token map, rate windows, devices in the state | generate, redeem, pair, promote, delete, validate | a request that passed its gate while its device is deleted, token consumed before the save fails, first device is primary | a token pairs one device; there is always somebody who may shut down the appliance |
| `internal/input` | the current controller and its send queue | connect (pre-empting), read, write, close | pre-emption while the old connection still reads, notices in a bounded queue, write errors | one owner at a time; the pre-empted client is told |
| `internal/events` | set of clients, send queue and last pong of each | connect, publish, heartbeat, read, write, close | slow clients, close against enqueue, registration before the greeting | publishing never blocks, dead clients leave |
| `internal/apps`, `app_handlers.go` | the one app session | launch, close, blocking | close against launch, events published after the lock | at most one session, as far as the executors report truthfully; events tell what happened |
| `internal/modes`, `mode_handlers.go` | the mode in the state | switch, forced switch | check, act and store are separate steps | a blocked switch does not happen |
| `internal/shortcuts`, `internal/icons`, their handlers | shortcuts in the state, icon files | create, update, refresh, delete, icon upload, favicon fetch | network fetch inside the store lock, a copy written back seconds later, icons that several shortcuts share | a shortcut's icon exists; a refresh undoes no other update |
| `internal/cloud`, cloud handlers | accounts, sessions, file metadata in the state; blobs on disk | register, login, logout, upload, download, delete | two stores updated one after the other, crash in between, lookup and open apart | metadata never names a missing blob; what was answered holds |
| `internal/system` | none | reboot, shutdown | no check of what is blocking, `force` is ignored | only primary devices shut down |
| `internal/selfpair` | a key file on disk | ensure key | crash between pairing and saving the key, answers that do not arrive | the stored key works until it is revoked |
| `internal/applaunch` | pid per app | launch, close, reap | pid reuse | the right process is signalled |
| `bedrockping`, `telemetry`, `inputbridge`, `retro`, `xsession`, icon decoding, `config` | none to speak of | parsing, device and file I/O | | |

The HTTP handlers call the managers; the managers share `state.Store` and do
not know the event hub. `main.go` connects them: the server manager's callback
publishes on the hub, the mode manager asks the app and server managers what
is blocking, the poller stores player counts.

## How a component is modelled

Each component has one module with its state as variables, `Init`, one action
per operation or step, `Next` and `Spec`. A critical section is one action.
Whatever the code does between two of them (a call to an executor, a system
call, a publication) is an action of its own, so that goroutines interleave
exactly where the code lets go of a lock. A program counter per goroutine
carries the control. The constants are sets of goroutines and bounds on what
would grow without limit.

An `MC...` module gives the constants small values, a `.cfg` file is one run,
and a `...Proofs` module holds the theorems. An operator whose comment begins
with "Altered" is a version of the action below it with a plausible mistake in
it; `PROJECT.json` says which property it breaks. It takes no part in the
specification.

| Module | Abstract specification | Model of |
|---|---|---|
| `ServerLifecycle` | `ServerCycle` | `servers.Manager`, its handlers, the poller, the startup query, the systemd unit |
| `StateStore` | `DurableState` | `state.Store` down to its system calls |
| `DevicePairing` | | tokens, device list, authentication, promotion, revocation |
| `SelfPairing` | `DevicePairing` | `selfpair.EnsureDeviceKey`, composed with `DevicePairing` |
| `InputControl` | | `input.Manager`, both goroutines of a connection, the queue between them |
| `Foreground` | `SessionSlot` | `apps.Manager`, `modes.Manager`, the handlers that use them |
| `EventHub` | | `events.Hub`, its heartbeat, both loops of a connection |
| `CloudFiles` | | `cloud.Store`, its handlers and session gate, the bytes on disk |
| `ShortcutIcons` | | `shortcuts.Store`, `icons.Store` with its fetcher, their handlers, the lock of the state |

### ServerLifecycle

`status`, `stopRunning` and `players` are the fields of `runtimeState`;
`caller` and `seqPc` are the HTTP goroutines and the `runStopSequence`
goroutines; `view` is what the event stream was told last; `unit` and `job` are
systemd's side. `ahead` remembers the Start calls that a stop sequence found in
flight, because the 30 s of grace outlast every unit call: without it the model
would allow a Start to be slower than a whole stop sequence, which the timeouts
of Start's unit calls rule out. A stop sequence has no such bound: the read of
the unit's state that follows `GetUnit` takes no context (`dbusctl.go:177`), and
a sequence whose read is never answered stays in `hung`. What the surroundings may do is chosen per run from `Events`: forced
stops, failing calls, calls that are reported failed although systemd queued
them, failing queries, a read that hangs, a crash of the server, a start from outside, a restart
of the daemon. The catalogue has one server and servers are independent, so
there is one. `ServerCycle` is what a client may rely on: a server is claimed
when it is down, launched once for each claim, and counts as stopped only when
it is down again. Its phase is `status`, except while a stop sequence runs: a
Start that reports late writes "running" over "stopping", and to the cycle the
server is stopping until that sequence is over.

### StateStore

A state is a version number. `mem` is `Store.state`, `before` the deep copy
for the rollback, `disk` the content of `state.json` and its backup as
processes see it, `durable` what would survive a power failure (renames since
the last directory sync may be undone, one file at a time). An `Update` is five
steps: change in memory, temporary file, backup copy, rename, return; each can
fail or be the last one before a crash. `DurableState` is what the store
promises: an update reaches the disk in one step and readers in another, and a
restart never goes behind what was acknowledged.

### DevicePairing

A token and a device record are numbers in the order in which they were made.
`store.Update` is one step, which StateStore justifies. The gate of a request
(`ValidateDeviceKey`), the touch of `last_seen` and the handler are separate
steps, with the copies that the code carries across them (`self`, `rank`).
Every start loses tokens and requests and runs the migration that gives a
primary-less appliance a primary. It reads `state.json` (`Restart`), the backup
when that file is unreadable (`Recover`), or nothing when both are
(`StartFresh`). `backup` is the list that `state.json.bak` holds: what
`state.json` held before the last update, or older where the copy failed, or
nothing where the copy was one of an unreadable file. So a load from it may
bring a revoked device back and drop a paired one; `undone` is a ghost with
the devices this has happened to.

### SelfPairing

It extends `DevicePairing` with a second program, the TV shell: `shell` is where
`EnsureDeviceKey` is, `exists` and `file` are the key file, which `os.WriteFile`
creates in one step and fills in another. A step of the shell that reaches Core
is joined with the step of Core it causes: `RequestToken` with `Generate`,
`PostPair` with `Redeem`, `Answered` with the `Finish` of the request in
`serving`. Between them Core goes on by itself, phones and another `Generate`
included, and the shell may give up (`Leave`) while Core still serves it. Nobody
syncs the key file, so a loss of power at any time may leave it empty or away.
Core may come back from its backup or from nothing and not know the key. One
shell runs at a time.

### InputControl

`current` is the Manager's, `evicted` what `takeControl` returned, `send` the
bounded queue of each controller, `closed` its channel. The handler's steps are
in the order of the code: take control, tell the evicted one, start the write
loop, close the evicted one, greet, read. The write loop may take either of two
channels that are ready, as Go's `select` does. An input that is refused queues
an error, as often as the peer likes. A peer in `Stalled` may stop
reading while its connection stays open, and `conn.Write` then never returns.

### Foreground

`lock` is `apps.Manager.mu`, held across both executors; `running` is what is
alive on the screen, which only the executors change. An executor that fails may
have done its work or not: a close that fails may have stopped the session, and
a launch that fails may have started it. The Manager forgets the latter
(`apps.go:212`); the ghost `strays` remembers it, and a later close, which is
not told what to stop, may end it or not. A mode switch has no lock of its own: reading
the mode, asking the apps, asking the servers, executing and storing are
separate steps, and asking the apps waits for the lock. `SessionSlot` is the
promise of the comments in `apps.go`: close first, then launch; nothing is
resurrected. `main.go` passes no executors, so today they do nothing and cannot
fail, and those of `internal/applaunch` start nothing when they fail; the model
keeps the failures that the Manager handles, its tests exercise, and its type
allows.

### EventHub

`clients`, `send` and `closed` are the fields of `Hub` and `Client`; `todo` is
what a `Publish` has still to reach in its round, `asking` the same for the
heartbeat, and the read lock is held as long as one of them is not empty.
Registering and unregistering wait for that; the queues are shared with the
write loops without a lock, so every `enqueue` is a step. An event is its
publisher and a number, greetings and pings are one message that is not
followed. `closeOnce` closes the channel in one step and the connection in a
later one, and whoever called it waits for the second. A peer in `Silent` may
vanish unnoticed: it does not read, so that a write to it does not end, and
sends no pong until it is overdue; the connection of one in `Breaking` may
break, so that reads and writes fail. The proofs allow both for every client.
`pending` and `last` are ghosts: what a client has still to get, and what its
peer got last from each publisher.

### CloudFiles

`db` is what `state.json` holds of accounts, sessions and files, `backup` the
same one update earlier; `store.Update` is one step, which StateStore
justifies, and `Recover`, once in a behaviour, is its load from the backup. `blob` is the bytes of
each file: an upload creates them, copies, and then records them, a deletion
removes the record and then the bytes, a download looks the record up and then
opens the bytes. A handler passes the gate once, with the session in `tok`, and
whatever happens to that session later does not stop it. The bytes of an upload
are never synced while their record is, so a power failure may hurt those that
the kernel has not written back (`flushed`). `kept` and `gone` are ghosts: what
the responses said. `lost` is what a power failure or the backup has taken
back. IDs and tokens are drawn from `Files` and `Tokens` once each.

### ShortcutIcons

`shortcuts` is the list in the state, `disk` the icon files. `lock` is the
store's mutex, held across a step only by a refresh, which fetches from a site
inside the closure of `Update` (`Lookup`, then the fetch, then `Replace`); every
other critical section is one step that waits for it to be free. A create
fetches before the lock. `draft` is the whole copy of a shortcut that a refresh
writes back. An icon file is synced and renamed into a directory that nobody
syncs, so a power failure may take it. `backup`, `stored` and the three ways to
start are those of `DevicePairing`. `told` is a ghost: the last answer about
each shortcut, which a load of older state replaces by what it loaded.

## What the runs check

| Run | Environment and bounds | Shows |
|---|---|---|
| `lifecycle_live` | two callers, two sequences, the server may crash | `OneStopSequence`, `StopDiscipline`, `HonestStopped`: one exact stop guard, starts and stops never meet at the unit, honest "stopped"; `FollowsCycle`: `ServerCycle` is implemented; `StoppingResolves`: "stopping" ends for a client that keeps asking; `StalePlayersCleared`: stale player counts go |
| `lifecycle_hostile` | one caller, two sequences, every event | `GuardHeldOnlyInFlight`, `GuardReleased`: the guard is raised only for a sequence that will lower it, and it is lowered, unless every sequence in flight is caught in a read that is never answered |
| `lifecycle_status` | one caller, two sequences, nothing goes wrong | `StoppingUntilOver` is violated: "stopping" does not last until the sequence completes |
| `store_crashes` | two goroutines, three updates, I/O errors, kills, power failures | `AckedSurvives`, `MemoryIsDisk`: no acknowledged update is lost, memory and disk agree; `KeepsPromise`: `DurableState` is implemented |
| `store_hostile` | the same with failing directory syncs and a corruption | `FailedStaysGone`, `BackupLagsByOne`: a failed update never returns, the backup is at most one update behind |
| `pairing` | phones and the shell: two requests, three tokens, three devices, power failures, starts from `state.json`, its backup or nothing | `OneDevicePerToken`, `TokenDiscipline`: a token pairs one device, the newest token only; `OneFirstPrimary`, `OnlyRevocationOrphans`: one device is primary unasked, and one of those paired is until it is revoked; `RevokedStaysRevoked`, `StaysPaired`: revoked devices stay out, the last one stays in, but for what a load of older state undoes; `AnnouncedWasStored`: no phantom pairings; `StoredKeyWorks`: the shell never keeps a key that Core has not known |
| `input` | two connections, the second may stall, a queue of one, bad inputs without limit | `OneOwner`; `ClosedWasTold`, `TakenIsTrue`: the evicted one is told before it is closed, and nobody else is; `EvictedStops`, `OwnerIsTold`: it stops, unless it sends bad inputs for ever, and a stalled peer delays nobody |
| `foreground` | two handlers, two sessions, two modes and a nonexistent one, every failure | `RunningIsKnown`: but for what a failed launch left behind, at most one app and Core knows which; `FillsSlot`: `SessionSlot` is implemented; `ModeEventsTrue`: a published mode was in effect; `RequestsEnd` |
| `hub` | two clients, of which one may fall silent and one may break, one publisher of two events, a queue of two | `InOrder`, `NothingLost`: no event comes out of order or twice, or is missed but for a full queue |
| `hub_live` | the same with one event and a queue of one | `PublishReturns`, `DeadClientsLeave`: no peer holds up `Publish`; silent and broken clients leave |
| `cloud` | two handlers, users, tokens and files; failing writes, kills, power failures, one load from the backup | `RecordsHaveBytes`: metadata names whole files; `AnswersHold`: what was answered as stored, deleted or logged out stays so; `DownloadsWhole`: a download opens a whole file of its own user |
| `shortcuts` | two handlers, shortcuts and names, one icon; silent sites, failing saves, power failures, starts from `state.json`, its backup or nothing | `IconsExist`: a shortcut's icon is there; `UpdatesHold`: a refresh undoes no rename and no deletion, only a load of older state does; `RequestsEnd`: every request ends although a refresh waits for a site with the lock held |

Every property of a passing run has a mutant in `PROJECT.json` that violates it under the
configuration of its run. Types are not checked in the runs: they are proved.

### Bounds

Every bound is a constant. Two goroutines of a kind are enough for a race
between any two steps, and the theorems remove that bound for safety. Two stop
sequences let one outlive the other. Three updates put a failed one between two
that succeed. Three devices let two revoke each other while a third pairs; three
tokens let one expire, one be replaced and one be used. A queue of one is full
as soon as one message waits, which in the code takes sixteen. Two sessions let
one replace the other. Two events of one publisher are enough for order, and
two clients for one to harm the other; that publishers overlap is covered by
the heartbeat, which goes through the clients at the same time, and by the
proofs. In `CloudFiles` two handlers race for one file while the second file
belongs to another user, and a second token survives the logout of the first.
In `ShortcutIcons` two shortcuts share the one icon, and two names tell an
update from the one before. Deadlock is checked except in the runs of `InputControl`,
where every connection is made once and the system is at rest when all are gone.

### Fairness

Weak fairness of every step that a goroutine can take by itself: Go's scheduler
is preemptive, and starting, stopping and looking up a unit have a timeout. The
read of its state has none (`dbusctl.go:177`): in `lifecycle_hostile` it may hang
(`ReadHangs`), and `GuardReleased` then says only that the guard is lowered
unless every sequence in flight hangs, which is the case in which the code never
lowers it. `lifecycle_live` is a run without faults of the bus. In
`Foreground` this includes the executors, which the model lets fail but not
hang. Strong fairness where it is needed and given: a `select` with a closed
channel that stays ready is chosen with probability one (`SeeClosed`), and
`sync.RWMutex` serves a waiting goroutine even if others keep coming
(`Waiting`, `Unregister`; `Enter` in `ShortcutIcons`, where a refresh that ends
may be followed by another). A favicon fetch ends, because the HTTP client and
the context of `favicon.go` give it three seconds (`FetchEnds`). The write loop
of a peer in `Stalled` or `Silent` gets no fairness while it writes, since
`conn.Write` has no deadline; that `conn.Close` ends is fair, since it bounds
its handshake. Nothing is assumed of clients, users, systemd starting things on
its own or the network, except in `PersistentSpec`, which says what it assumes:
a client that repeats its stop. `StoppingResolves` needs it, because the
sequence gives up after its escalation and leaves "stopping" behind.

`EvictedStops` excepts a connection whose peer sends bad inputs for ever
(`KeepsErring`): the drain before the close ends only on an empty queue
(`input.go:215`), and each bad input may put an error there first, so such a
peer can keep an evicted connection open and injecting. TLC finds that behaviour
as soon as the exception is dropped.

## What is proved

The proofs hold for every value of the constants: any number of goroutines,
connections, tokens, devices, sessions, updates, publishers, events, files and
shortcuts, and every queue size.

| Theorem | Assumes | States |
|---|---|---|
| `TypeCorrect`, `GuardSound`, `GraceWaitsForTheLiving` | nothing | types; the stop guard is up only while a sequence has still to lower it; a grace period waits only for Starts that will report |
| `StopsAreSingle` | `Unforced` | `OneStopSequence` |
| `StartsExclude` | `StartsAnswered` | `StartExclusive`: one Start at a time |
| `StartsAndStopsApart`, `MarkedWhenDown` | `QueriesTrue` | `StopDiscipline`; a sequence writes "stopped" only while the unit is down and stays down, even after a restart |
| `StopsAreHonest`, `LifecycleFollowsCycle` | `Undisturbed` | `HonestStopped`; the Manager and the unit implement `ServerCycle` |
| `StoreTypeCorrect`, `FailuresStayGone`, `BackupStaysClose` | nothing: every fault of the model | types; `FailedStaysGone`, `BackupLagsByOne` |
| `MemoryMatchesDisk` | `StaysReadable` | `MemoryIsDisk` |
| `StoreKeepsPromise` | `RenamesLast` | the store implements `DurableState` |
| `CrashSafety` | `SoundDisk` | `AckedSurvives` |
| `PairingTypeCorrect`, `TokensAreSingleUse`, `TokensAreFresh`, `FirstPrimaryIsUnique`, `OrphansAreRevoked`, `RevocationIsFinal`, `AnnouncedPairingsExist`, `NeverUnpaired` (the list's in one: `ListRules`) | nothing | types and every property of the run `pairing` but `StoredKeyWorks`; `RevocationIsFinal` also that a revoked device returns in one way only, by a load from a backup that still has it |
| `RanksAreEarned` | nothing | a device becomes primary as the first one, by the migration, or by a promotion from a primary (or one revoked since it was authenticated), and stays primary until revoked; loads of older state excepted |
| `ShellIsAClient`, `ShellTypeCorrect`, `StoredKeysWork`, `RulesWithTheShell` | nothing | `SelfPairing` implements `DevicePairing`; its types; `StoredKeyWorks`; all rules above hold of the composition |
| `InputTypeCorrect`, `ControlHasOneOwner`, `ClosedConnectionsWereTold`, `NotificationsAreTrue` | nothing | types and queue limit; `OneOwner`, `OwnerPresent`, `ClosedWasTold`, `TakenIsTrue` |
| `ControlIsHandedOver`, `LoopsEndTogether`, `EvictionIsToldOnce` | nothing | one successor evicts, and nothing but a successor or its own end takes control from a connection; no loop stops beside an open connection; `control_taken` is sent once |
| `HubTypeCorrect`, `EventsInOrder`, `NoEventIsLost` | nothing | types and queue limit; `InOrder`, `NothingLost` |
| `HubKnowsItsClients`, `ConnectionsEndClosed`, `NobodyElseDrops` | nothing | who is registered and whom a round meets; no loop ends beside a connection that nobody closes; an event is lost only for the client's own queue or end |
| `ForegroundTypeCorrect`, `NothingRunsUnknown`, `ModeEventsAreTrue`, `ForegroundFillsSlot` | nothing | types and every safety property of the run `foreground`, `SessionSlot` included; `NothingRunsUnknown` also that a session whose launch reported a failure is never current |
| `LockIsGivenBack`, `SessionEventsAreTrue` | nothing | the lock is held exactly inside Launch and Close; `app.closed` names only sessions that have ended, and each launch is published once |
| `CloudTypeCorrect`, `CloudRecordsHaveBytes`, `CloudAnswersHold`, `CloudDownloadsWhole` | the names of constants differ | types and every property of the run `cloud` |
| `CloudAnswersHoldTillRecovery`, `CloudOwnersDecide` | the same | only a load from the backup takes an answer back; nobody but the owner removes a record or ends a session |
| `ShortcutTypeCorrect`, `ShortcutIconsExist`, `ShortcutUpdatesHold` | the same | types, `IconsExist`, `UpdatesHold` |
| `ShortcutLockComesBack`, `ShortcutDeletionsAreFinal` | the same | the store's lock is held exactly during a refresh; a deleted shortcut returns in one way only, by a load from a backup that still has it |

"Nothing" leaves the assumptions on the constants, which each module names: a
bound is a number, a queue holds a message, a set is not its own element.

The other assumptions say what the surroundings may do, and each theorem has the
weakest one for what it states: with any single event, or pair of faults, that
is ruled out, TLC finds the property violated on a small instance.

| Assumption | Rules out | Because |
|---|---|---|
| `Unforced` | forced stops | the first of two sequences to end lowers the guard of both (`servers.go:308`) |
| `StartsAnswered` | also starts that fail, and those reported failed after systemd queued them | a Start that fails writes "stopped" over whatever the status has become (`servers.go:245`), and a second one gets in |
| `QueriesTrue` | also `GetUnit` failing, and the unit started from outside | a failed query reads as "inactive" (`dbusctl.go:167`), and what was confirmed need not last |
| `Undisturbed` | also a failing query at startup, and a restart | the daemon reads "activating" as "stopped" (`main.go:167`) |
| `StaysReadable` | an unreadable `state.json` | the load takes the backup, one update behind |
| `RenamesLast` | also a power failure together with directories that cannot be synced | a rename that was answered is undone |
| `SoundDisk` | also directories that cannot be synced at all | the rename was not made safe when the update was acknowledged |

Each proof goes through an inductive invariant, stated at the head of its
module or section, and one lemma per group of actions.

- `ServerLifecycle` is proved in layers, each with the environment it needs.
  `SingleInv`: nobody is in the forced path, so the guard and the sequence go
  together. `ApartInv`: no start is in its failure branch. `UnitDiscipline` is
  what makes it inductive: a sequence that has not asked systemd yet knows every
  Start in flight, one that has asked finds none. `ConfirmedIsDown` and
  `HonestStopped` follow step by step. `CycleInv` adds for the refinement that
  "starting" stands for a Start in flight unless a sequence waits for it, and
  that what is claimed and not launched is down.
- `StoreInv` says how far an update has come (`UpdateProgress`): the file holds
  the copy kept for the rollback until the rename and memory's version after
  it. `KeepsPromise` follows step by step from it. `AckInv` adds that what is
  durable lies between what was acknowledged and what is on disk.
- `AnyFaultInv` needs no sound disk. `FailedInv`: an update in progress has a
  version that no file holds before its rename, so a rollback leaves no trace.
  `BackupInv`: from its copy on, an update has a backup of what it started
  from, and whatever restarts, readers see what `state.json` holds if it is
  readable.
- `PairInv` records that every device's token is gone from the map and that a
  record waiting to be added was never in the list. Without the first a token
  could make two devices, without the second a revoked device could return. Its
  part on the backup says that what it holds was in the list once, so that a
  load brings nothing new. The list's other rules follow from it. `RankInv` is about the copies that requests
  decide by: one that says primary is of a primary or of a revoked device. The
  shell adds `KeyInv`: the key it has in memory or in its file is of a device
  that is in the list, was revoked, or was undone by a load of older state.
- `OneOwner` and `OwnerPresent` are inductive together with the types.
  `ToldInv` follows `control_taken` from `enqueue` to the peer: as long as the
  connection is up, its channel is closed only after the message was queued,
  and nothing takes it off the queue without delivering it. `LostInv` says the
  converse: nobody the message was made for is in control or will be again.
  `HandInv` follows control from one connection to the next, and `SaidInv` the
  message from `takeControl` to its one place in a queue.
- `OrderInv` of `EventHub` adds to the order of a line (last event got, message
  being written, queue) that its numbers have been counted, and that they are
  smaller than the one a `Publish` has still to queue there: without that a
  publisher could append an event that is not the newest. The lemmas on lines
  are about values only and are cited by every step. `ConnectionInv` relates
  the goroutines of a connection to each other; its parts are what the fairness
  of `hub_live` takes for granted, since a goroutine that has ended can take no
  step.
- `IInv` of `Foreground` says what is current and what is running at each step
  under the lock, apart from what failed launches left behind, and that the
  program counters name the holder. `Past` adds,
  for what is published later, that a session being closed is none that is
  still being launched.
- `CloudFiles`: names are drawn once (`Drawn`), which leaves a file with one
  upload and no deletion before its record (`Line`), and a deletion and a
  record of the same file apart (`Apart`). `DeletesOwn` says that what a handler
  deletes is its user's.
- `ShortcutIcons`: whoever is past the lookup of a refresh holds the lock, and
  its draft is what the list still says (`Holds`); an icon that was resolved is
  on disk and stays (`Fresh`), and so does one that only the backup names
  (`BackupsHaveIcons`).

Only model-checked: everything under fairness (`StoppingResolves`,
`StalePlayersCleared`, `GuardReleased`, `EvictedStops`, `OwnerIsTold`,
`PublishReturns`, `DeadClientsLeave`, and `RequestsEnd` of `Foreground` and of
`ShortcutIcons`), because the prover has no rules for `ENABLED`. Of several the
safety half is proved: whoever has to act is still there and can
(`GraceWaitsForTheLiving`, `GuardSound`, `LoopsEndTogether`,
`ConnectionsEndClosed`, `LockIsGivenBack`, `ShortcutLockComesBack`). Every other
property of a passing run is proved. `WaitsForStarters`, `RanksMoveByRule`,
`ClosedHasEnded` and the other invariants that only the proof modules define
were checked with TLC on the instances of the runs before they were proved.

## Where the code and its own text disagree

The run `lifecycle_status` ends in a violation of a sentence in the repository
(`findings` in `PROJECT.json` quotes it): a Start whose unit call returns after
a Stop was accepted writes "running" over "stopping" while the stop sequence
goes on (`servers.go:249`), although `DECISIONS.md:132` has "stopping" until the
sequence completes; a Start that fails then writes "stopped". The models show
more of the kind, for which no run is kept:

- After forced stops, the first sequence that ends lowers the guard of the
  others (`servers.go:308`), and a plain stop is accepted beside them, although
  `DECISIONS.md:147` has it refused while one is in flight.
- An input connection evicted before its handler greets it hears
  `control_taken` first and `control_granted` last (`input.go:180`), against
  the order of `input_test.go:152`, and takes itself for the owner. The event
  stream registers before it greets too, so that an event may come before
  "connected".
- Stale clients of the event stream are closed one by one by the goroutine that
  pings, each close taking up to some seconds: with enough of them a client
  that answers every ping becomes stale as well.
- `state.json` is copied over the backup unread (`state.go:208`). After a load
  from the backup the first save replaces the good copy by the unreadable file,
  and until the rename the good state is in memory only.
- A stop sequence may never end: `maxWait` is looked at between two polls, and
  the read in a poll has no deadline (`dbusctl.go:177`). The guard is then up
  until a restart.
- A start reported failed after systemd queued it, a query that fails, and a
  restart while the unit is "activating" each leave "stopped" beside a live
  server. `HonestStopped` is stated without them.
- `server.status_changed` is published outside the lock, so the last event may
  name a status that is no longer the last.
- `POST /v1/pair` spends its token before it saves; when the save fails the
  answer says to retry, and the token is gone.
- `selfpair.go:30` explains `ErrStoredKeyRejected` by a revoked device or a
  rebuilt state, but `validateKey` returns the same when Core does not answer
  within five seconds, for example because it starts later than the shell
  (`ValidateKey` goes to "refused" then). A key file that was created and not
  filled is an error at every later start. A crash before that leaves a device
  whose key nobody has, perhaps the only primary, and the next start of the
  shell pairs another one.
- `RequirePrimary` decides by a copy: a device revoked since still promotes.
- An evicted input connection whose peer does not read, or sends bad inputs
  for ever (`input.go:215`), keeps injecting, and a key that was down when a
  connection ended stays down.
- The only primary can be revoked (`device_handlers.go:136`), and nobody is left
  who may promote one, until a restart runs the migration that is to keep a
  primary among the devices (`state.go:284`). `OnlyRevocationOrphans` says that
  this is the only way.
- `app.closed` names the session that was read before `Close`
  (`app_handlers.go:106`): it may be published without a close, although the
  comment at `app_handlers.go:102` rules phantom closes out, and a session that
  is launched in between is closed without being named.
- An upload or a deletion that passed the gate goes on after its session logged
  out, although `cloud.go:149` has the token stop working immediately. After a
  load from the backup, a session that logged out last is valid again.
- A switch to the present mode publishes `mode.changed` although nothing
  changed (`mode_handlers.go:91`). An app launched after the check runs into an
  unforced switch, and the apps and the servers are never checked in one
  moment.
- `DECISIONS.md:123` says the combined checker is passed to modes and system;
  `system.NewManager` takes none, and a reboot goes ahead whatever is blocking.

## What is not modelled

- The contents of states, messages, sessions and files, and everything about
  formats: JSON, image decoding, the ping packet, telemetry, `xrandr`.
- Validation that refuses a request without changing anything, passwords and
  quotas included.
- The rate limiter of pairing: `Allow` is a pure function of the times of the
  attempts, computed under one lock. A clock that makes it interesting would
  multiply the states of the run `pairing`, where nothing depends on it.
- What is injected into the input device.
- `internal/system`: a reboot is one D-Bus call behind two role checks, with no
  state of its own.
- `internal/applaunch`: `main.go` passes no executors, so nothing runs it.
  `Foreground` models any executor that returns.
- An app that ends by itself: the Manager does not notice, and its session stays
  current until somebody closes or replaces it.
- The final `store.Save` of a graceful shutdown is a `Save` of `StateStore`;
  the order in which `main.go` stops the other goroutines is not modelled. It
  cancels them before `Shutdown`, so that requests may still come in meanwhile.
- The heartbeat with a clock that counts, for the pings that come late.

`PROJECT.json` lists every component with the reason.

## Plan

The order is that of the damage a mistake does. All nine are done.

1. `ServerLifecycle`: a world that is damaged by a wrong "stopped".
2. `StateStore` and `DurableState`: everything else relies on it.
3. `DevicePairing`: who may do what.
4. `InputControl`: two goroutines and a bounded queue.
5. `Foreground` and `SessionSlot`: apps and modes.
6. `EventHub`: publication, heartbeat and connections.
7. `CloudFiles`: bytes and metadata, and the sessions in front of them.
8. `ShortcutIcons`: the fetch inside the lock of the store.
9. `SelfPairing`: two programs and a key file that outlives both.

What would come next is composition: `ServerLifecycle` and `Foreground` through
the blocking check, and both with `EventHub`, for what a client believes in the
end.
