---------------------------- MODULE DevicePairing ----------------------------
(***************************************************************************)
(* How devices come to be paired, promoted and revoked: the one-time       *)
(* tokens of auth.PairingManager, the HTTP handlers in internal/server,    *)
(* and the device list they keep in the state store.                       *)
(*                                                                         *)
(* store.Update is one step that either happens or fails, and a load from  *)
(* the backup undoes the last one, or more where the copy failed           *)
(* (StateStore says why); everything a handler does before and after it is *)
(* a step of its own.  A device is numbered by the moment its record was   *)
(* made, which is the order of PairedAt and need not be the order of the   *)
(* list.                                                                   *)
(***************************************************************************)
EXTENDS Naturals, FiniteSets, FiniteSetsExt

CONSTANTS
    Requests,    \* goroutines serving HTTP requests
    MaxTokens,   \* bound on the tokens issued
    MaxDevices   \* bound on the device records made

ASSUME BoundsAssumption == MaxTokens \in Nat /\ MaxDevices \in Nat

VARIABLES
    tokens,     \* PairingManager.tokens
    expired,    \* those of them older than pairingTokenTTL
    issued,     \* tokens generated so far
    devices,    \* State.Devices
    primaries,  \* those with IsPrimary
    stored,     \* whether state.json can be read
    backup,     \* the list state.json.bak holds, {} if it cannot be read
    made,       \* device records made so far
    pc,         \* where each request is
    self,       \* the device it makes, or is authenticated as
    rank,       \* IsPrimary in the copy of it that the context holds
    source,     \* the token each device was paired with
    firsts,     \* how many became primary by being the first
    orphaned,   \* a primary was revoked since the daemon started
    revoked,    \* devices that were revoked
    undone      \* those a load of older state has dropped or brought back

pairing == <<tokens, expired, issued>>
list == <<devices, primaries, stored, backup>>
request == <<pc, self, rank>>
ghosts == <<source, firsts, orphaned, revoked, undone>>
vars == <<tokens, expired, issued, devices, primaries, stored, backup, made,
          pc, self, rank, source, firsts, orphaned, revoked, undone>>

Tokens == 1..MaxTokens
Devices == 1..MaxDevices
Lists == [devices : SUBSET Devices, primaries : SUBSET Devices]
Steps == {"idle", "redeemed", "paired", "matched", "authorized", "done"}

TypeOK ==
    /\ tokens \subseteq Tokens
    /\ expired \subseteq Tokens
    /\ issued \in 0..MaxTokens
    /\ devices \subseteq Devices
    /\ primaries \subseteq devices
    /\ stored \in BOOLEAN
    /\ backup \subseteq Lists
    /\ made \in 0..MaxDevices
    /\ pc \in [Requests -> Steps]
    /\ self \in [Requests -> 0..MaxDevices]
    /\ rank \in [Requests -> BOOLEAN]
    /\ source \in [Devices -> 0..MaxTokens]
    /\ firsts \in Nat
    /\ orphaned \in BOOLEAN
    /\ revoked \subseteq Devices
    /\ undone \subseteq Devices

Init ==
    /\ tokens = {} /\ expired = {} /\ issued = 0
    /\ devices = {} /\ primaries = {} /\ made = 0
    /\ stored = FALSE /\ backup = {}
    /\ pc = [p \in Requests |-> "idle"]
    /\ self = [p \in Requests |-> 0]
    /\ rank = [p \in Requests |-> FALSE]
    /\ source = [d \in Devices |-> 0]
    /\ firsts = 0 /\ orphaned = FALSE
    /\ revoked = {} /\ undone = {}

Move(p, from, to) ==
    /\ pc[p] = from
    /\ pc' = [pc EXCEPT ![p] = to]

\* The response is written, and the context of the request is gone.
End(p, from) ==
    /\ pc[p] \in from
    /\ pc' = [pc EXCEPT ![p] = "idle"]
    /\ self' = [self EXCEPT ![p] = 0]
    /\ rank' = [rank EXCEPT ![p] = FALSE]

\* state.Store.Update that succeeds.  The backup gets what state.json held,
\* unless the copy fails, which only the log tells.
Update(newDevices, newPrimaries) ==
    /\ devices' = newDevices
    /\ primaries' = newPrimaries
    /\ \/ backup' = IF stored
                    THEN {[devices |-> devices, primaries |-> primaries]}
                    ELSE {}
       \/ UNCHANGED backup
    /\ stored' = TRUE

-----------------------------------------------------------------------------
(* Tokens *)

\* Altered: earlier tokens stay in the map.
GenerateBeside ==
    /\ issued < MaxTokens
    /\ issued' = issued + 1
    /\ tokens' = tokens \cup {issued'}
    /\ UNCHANGED <<expired, list, made, request, ghosts>>

\* Generate replaces the whole map: the new token withdraws the last one.
Generate ==
    /\ issued < MaxTokens
    /\ issued' = issued + 1
    /\ tokens' = {issued'}
    /\ expired' = {}
    /\ UNCHANGED <<list, made, request, ghosts>>

\* Fifteen minutes after its generation.
Expire(t) ==
    /\ t \in tokens
    /\ expired' = expired \cup {t}
    /\ UNCHANGED <<tokens, issued, list, made, request, ghosts>>

\* What handlePair makes of a good token: the record, not yet in the list.
MakeRecord(p, t) ==
    /\ made < MaxDevices
    /\ made' = made + 1
    /\ self' = [self EXCEPT ![p] = made']
    /\ source' = [source EXCEPT ![made'] = t]
    /\ Move(p, "idle", "redeemed")
    /\ UNCHANGED <<rank, firsts, orphaned, revoked, undone>>

\* Altered: the token is looked up and not deleted.
RedeemLookup(p, t) ==
    /\ t \in tokens \ expired
    /\ MakeRecord(p, t)
    /\ UNCHANGED <<pairing, list>>

\* handlePair up to its update.  A request refused by the rate limit, with
\* no token or with one that is not in the map changes nothing.
Redeem(p, t) ==
    /\ t \in tokens \ expired
    /\ tokens' = tokens \ {t}
    /\ MakeRecord(p, t)
    /\ UNCHANGED <<expired, issued, list>>

\* An expired token is deleted and refused.
RedeemExpired(t) ==
    /\ t \in tokens \cap expired
    /\ tokens' = tokens \ {t}
    /\ expired' = expired \ {t}
    /\ UNCHANGED <<issued, list, made, request, ghosts>>

-----------------------------------------------------------------------------
(* Pairing *)

\* Altered: a device becomes primary whenever there is no other.
AddDeviceVacant(p) ==
    /\ Move(p, "redeemed", "paired")
    /\ Update(devices \cup {self[p]},
              IF primaries = {} THEN {self[p]} ELSE primaries)
    /\ firsts' = IF primaries = {} THEN firsts + 1 ELSE firsts
    /\ UNCHANGED <<pairing, made, self, rank, source, orphaned, revoked,
                   undone>>

\* The update of handlePair: the first device of all becomes primary.
AddDevice(p) ==
    /\ Move(p, "redeemed", "paired")
    /\ Update(devices \cup {self[p]},
              IF devices = {} THEN {self[p]} ELSE primaries)
    /\ firsts' = IF devices = {} THEN firsts + 1 ELSE firsts
    /\ UNCHANGED <<pairing, made, self, rank, source, orphaned, revoked,
                   undone>>

\* Altered: the device is announced although it was not saved.
AddDeviceFailsLoud(p) ==
    /\ Move(p, "redeemed", "paired")
    /\ UNCHANGED <<pairing, list, made, self, rank, ghosts>>

\* The save fails: nothing is undone, the token stays spent.
AddDeviceFails(p) ==
    /\ End(p, {"redeemed"})
    /\ UNCHANGED <<pairing, list, made, ghosts>>

\* device.paired, published after the store's lock is released.
AnnouncePaired(p) ==
    /\ Move(p, "paired", "done")
    /\ UNCHANGED <<pairing, list, made, self, rank, ghosts>>

-----------------------------------------------------------------------------
(* Requests of paired devices *)

\* ValidateDeviceKey finds the key in a snapshot and keeps a copy of the
\* device; last_seen is written only when it is old enough.
Authenticate(p, d) ==
    /\ d \in devices
    /\ \E to \in {"matched", "authorized"} : Move(p, "idle", to)
    /\ self' = [self EXCEPT ![p] = d]
    /\ rank' = [rank EXCEPT ![p] = d \in primaries]
    /\ UNCHANGED <<pairing, list, made, ghosts>>

\* Altered: the copy is written back.
TouchStale(p) ==
    /\ Move(p, "matched", "authorized")
    /\ Update(devices \cup {self[p]}, primaries)
    /\ UNCHANGED <<pairing, made, self, rank, ghosts>>

\* The update of last_seen looks the device up again by its id, finds it or
\* not, and the request goes on either way, also when the save fails.
Touch(p) ==
    /\ Move(p, "matched", "authorized")
    /\ Update(devices, primaries) \/ UNCHANGED list
    /\ UNCHANGED <<pairing, made, self, rank, ghosts>>

\* Decided by the copy in the context.
RequirePrimary(p) == rank[p]

\* handleDevicePromote: the rank of d is looked up under the store's lock.
Promote(p, d) ==
    /\ RequirePrimary(p)
    /\ d \in devices
    /\ End(p, {"authorized"})
    /\ Update(devices, primaries \cup {d})
    /\ UNCHANGED <<pairing, made, ghosts>>

\* The entry of d leaves the list, and with it the mark it may have had.
Remove(p, d) ==
    /\ d \in devices
    /\ End(p, {"authorized"})
    /\ Update(devices \ {d}, primaries \ {d})
    /\ orphaned' = (orphaned \/ d \in primaries)
    /\ revoked' = revoked \cup {d}
    /\ undone' = undone \ {d}
    /\ UNCHANGED <<pairing, made, source, firsts>>

\* Altered: a device may not revoke itself, any other it may.
DeleteOther(p, d) == d # self[p] /\ Remove(p, d)

\* handleDeviceDelete, open to every paired device: the last entry stays.
Delete(p, d) == Cardinality(devices) > 1 /\ Remove(p, d)

\* Every other way a request ends: a handler that only reads, an unknown id,
\* errLastDevice, a save that fails; or the response to a pairing.
Finish(p) ==
    /\ End(p, {"authorized", "done"})
    /\ UNCHANGED <<pairing, list, made, ghosts>>

\* A save that leaves the list as it is: store.Save of POST /v1/state and of
\* the shutdown, or an update of something else.
SaveOther ==
    /\ Update(devices, primaries)
    /\ UNCHANGED <<pairing, made, request, ghosts>>

-----------------------------------------------------------------------------
(* Restart *)

\* Altered: the devices are taken as they are.
MigratedUnchecked(ds, ps) == ps

\* readStateFile: of devices without a primary the earliest becomes one.
Migrated(ds, ps) == IF ds # {} /\ ps = {} THEN {Min(ds)} ELSE ps

\* A new process, which has read this list.  Tokens and requests are lost.
Load(ds, ps) ==
    /\ tokens' = {} /\ expired' = {}
    /\ devices' = ds
    /\ primaries' = Migrated(ds, ps)
    /\ orphaned' = FALSE
    /\ pc' = [p \in Requests |-> "idle"]
    /\ self' = [p \in Requests |-> 0]
    /\ rank' = [p \in Requests |-> FALSE]
    /\ UNCHANGED <<issued, made, source, revoked>>

\* It reads what the last one had stored, or, where state.json could not be
\* read before, what that one had read.
Restart ==
    /\ Load(devices, primaries)
    /\ UNCHANGED <<stored, backup, firsts, undone>>

\* state.json has become unreadable: load takes the backup, and leaves both
\* files as they are.  A list that is empty again has its first device before
\* it.
Recover ==
    /\ \E old \in backup :
        /\ Load(old.devices, old.primaries)
        /\ undone' = undone \cup (devices \ old.devices)
                             \cup (old.devices \ devices)
        /\ firsts' = IF old.devices = {} THEN 0 ELSE firsts
    /\ stored' = FALSE
    /\ UNCHANGED backup

\* Both files are unreadable: they are set aside, and the state is fresh.
StartFresh ==
    /\ Load({}, {})
    /\ undone' = undone \cup devices
    /\ firsts' = 0
    /\ stored' = FALSE
    /\ backup' = {}

\* Every way for the daemon to start again.
Reopen == Restart \/ Recover \/ StartFresh

-----------------------------------------------------------------------------

TokenSteps ==
    Generate \/ \E t \in 1..issued : Expire(t) \/ RedeemExpired(t)

PairSteps(p) ==
    \/ \E t \in Tokens : Redeem(p, t)
    \/ AddDevice(p) \/ AddDeviceFails(p) \/ AnnouncePaired(p)

DeviceSteps(p) ==
    \/ \E d \in Devices : Authenticate(p, d) \/ Promote(p, d) \/ Delete(p, d)
    \/ Touch(p) \/ Finish(p)

Next ==
    \/ TokenSteps
    \/ \E p \in Requests : PairSteps(p) \/ DeviceSteps(p)
    \/ SaveOther
    \/ Reopen

Spec == Init /\ [][Next]_vars

-----------------------------------------------------------------------------
(* Properties *)

\* However requests to redeem and generate interleave, a token makes at most
\* one device, and a device is made from the newest token, before it expires.
OneDevicePerToken ==
    \A d, e \in 1..made : source[d] = source[e] => d = e

TokenDiscipline ==
    [][made' # made => source'[made'] = issued /\ issued \notin expired]_vars

\* Once an appliance is paired it stays paired: devices that revoke each
\* other at the same time never leave it without any.  Only older state can,
\* loaded because state.json is unreadable.
StaysPaired == [][devices # {} /\ devices' = {} => devices \subseteq undone']_vars

\* Only one device in the life of the list becomes primary without being
\* promoted or migrated, however many pair at once and whoever is revoked.  A
\* list that was lost begins a new life.
OneFirstPrimary == firsts <= 1

\* The only way for paired devices to be without a primary is that one was
\* revoked since the daemon started.
OnlyRevocationOrphans == devices # {} /\ primaries = {} => orphaned

\* A revoked device does not come back by a request of its own that was
\* authenticated before, nor by a restart that can read state.json.  Only a
\* load from the backup can undo a revocation.
RevokedStaysRevoked == devices \cap revoked \subseteq undone

\* Devices that are in the list or were.
Known == devices \cup revoked \cup undone

\* No phantom pairings: what device.paired announces is, or was, in the list.
AnnouncedWasStored ==
    [][\A p \in Requests :
        pc[p] = "paired" /\ pc'[p] = "done" => self[p] \in Known]_vars
=============================================================================
