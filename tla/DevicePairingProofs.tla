------------------------- MODULE DevicePairingProofs -------------------------
(***************************************************************************)
(* Proofs about DevicePairing and SelfPairing, for any number of requests, *)
(* tokens and devices.  The inductive invariant says what each step may    *)
(* rely on: the tokens already spent, the records not yet in the list,     *)
(* what the backup may bring back, and that the list is not empty once it  *)
(* had a first device.  Ranks need one fact more, about the copies that    *)
(* requests decide by.  The shell takes part like any other client, and    *)
(* needs only that a device once in the list stays known.                  *)
(***************************************************************************)
EXTENDS SelfPairing, TLAPS, FiniteSetTheorems, WellFoundedInduction

\* Every record came from a token of its own, now gone from the map, which
\* holds at most the newest one.
TokenInv ==
    /\ tokens \subseteq {issued}
    /\ \A d \in 1..made : source[d] \in 1..issued /\ source[d] \notin tokens
    /\ OneDevicePerToken

\* A backup holds devices that were in the list.
BackupInv ==
    \A old \in backup : /\ old.devices \subseteq Known
                        /\ old.primaries \subseteq old.devices

\* A record waiting to be added has never been in the list, and no other
\* request waits with the same one; what a request is further on about was.
RecordInv ==
    /\ Known \subseteq 1..made
    /\ \A p \in Requests :
        /\ pc[p] = "redeemed" => self[p] \in 1..made \ Known
        /\ pc[p] \notin {"idle", "redeemed"} => self[p] \in Known
    /\ \A p, q \in Requests :
        pc[p] = "redeemed" /\ pc[q] = "redeemed" /\ self[p] = self[q] => p = q

ListInv ==
    /\ firsts # 0 => devices # {}
    /\ OneFirstPrimary
    /\ OnlyRevocationOrphans
    /\ RevokedStaysRevoked

PairInv == TypeOK /\ TokenInv /\ BackupInv /\ RecordInv /\ ListInv

-----------------------------------------------------------------------------

\* The smallest number of a set that has any is in it.
LEMMA MinIsMember ==
    ASSUME NEW S \in SUBSET Nat, S # {}
    PROVE  Min(S) \in S
<1>1. PICK x \in S : \A y \in S : ~ (<<y, x>> \in OpToRel(<, Nat))
  BY NatLessThanWellFounded, WFMin
<1>2. ASSUME NEW y \in S PROVE x =< y
  <2>1. <<y, x>> \in Nat \X Nat /\ <<y, x>>[1] = y /\ <<y, x>>[2] = x
    OBVIOUS
  <2>2. ~ (y < x)
    BY <1>1, <2>1 DEF OpToRel
  <2> QED
    BY <2>2
<1> QED
  BY <1>2 DEF Min

\* The migration at a start marks devices of the list only, and leaves a list
\* that is not empty with a primary.
LEMMA MigrationSound ==
    ASSUME NEW ds \in SUBSET Devices, NEW ps \in SUBSET ds
    PROVE  /\ Migrated(ds, ps) \subseteq ds
           /\ ds # {} => Migrated(ds, ps) # {}
<1>1. ds \in SUBSET Nat
  BY BoundsAssumption DEF Devices
<1>2. ds # {} => Min(ds) \in ds
  BY <1>1, MinIsMember
<1> QED
  BY <1>2 DEF Migrated

\* A list of more than one entry is not emptied by taking one away.
LEMMA OneOfManyStays ==
    ASSUME NEW S, NEW d \in S, Cardinality(S) > 1
    PROVE  S \ {d} # {}
<1>1. S = {d} => Cardinality(S) = 1
  BY FS_Singleton
<1> QED
  BY <1>1

\* An update leaves a backup of what was stored, the one before or none.
LEMMA UpdateSound ==
    ASSUME TypeOK, NEW nd \in SUBSET Devices, NEW np \in SUBSET nd,
           Update(nd, np)
    PROVE  /\ devices' \subseteq Devices
           /\ primaries' \subseteq devices'
           /\ stored' \in BOOLEAN
           /\ backup' \subseteq Lists
           /\ \A old \in backup' : old \in backup \/ /\ old.devices = devices
                                                     /\ old.primaries = primaries
<1> DEFINE saved == [devices |-> devices, primaries |-> primaries]
<1>1. saved \in Lists /\ saved.devices = devices
      /\ saved.primaries = primaries
  BY DEF TypeOK, Lists
<1>2. backup' = {saved} \/ backup' = {} \/ backup' = backup
  BY DEF Update
<1>3. devices' = nd /\ primaries' = np /\ stored' = TRUE
  BY DEF Update
<1> HIDE DEF saved
<1> QED
  BY <1>1, <1>2, <1>3 DEF TypeOK

\* What every start leaves: no tokens and no requests, a list in order that
\* holds known devices only, and the record of what older state has changed.
LEMMA ReopenSound ==
    ASSUME TypeOK, BackupInv, Reopen
    PROVE  /\ tokens' = {} /\ expired' = {} /\ orphaned' = FALSE
           /\ pc' = [p \in Requests |-> "idle"]
           /\ self' = [p \in Requests |-> 0]
           /\ rank' = [p \in Requests |-> FALSE]
           /\ UNCHANGED <<issued, made, source, revoked>>
           /\ devices' \subseteq Devices
           /\ primaries' \subseteq devices'
           /\ devices' # {} => primaries' # {}
           /\ stored' \in BOOLEAN
           /\ backup' \subseteq backup
           /\ undone \subseteq undone' /\ undone' \subseteq Devices
           /\ devices \subseteq devices' \cup undone'
           /\ devices' \subseteq devices \cup undone'
           /\ Known' = Known
           /\ firsts' # 0 => /\ firsts' = firsts
                             /\ devices' = devices \/ devices' # {}
<1> USE DEF Load
<1>1. ASSUME NEW ds \in SUBSET Devices, NEW ps \in SUBSET ds, Load(ds, ps)
      PROVE  devices' = ds /\ primaries' \subseteq devices'
             /\ (devices' # {} => primaries' # {})
  BY <1>1, MigrationSound
<1>2. CASE Restart
  <2>1. devices' = devices /\ primaries' \subseteq devices'
        /\ (devices' # {} => primaries' # {})
    BY <1>1, <1>2 DEF Restart, TypeOK
  <2>2. UNCHANGED <<stored, backup, firsts, undone, revoked>>
    BY <1>2 DEF Restart
  <2>3. Known' = Known
    BY <2>1, <2>2 DEF Known
  <2> QED
    BY <1>2, <2>1, <2>2, <2>3 DEF Restart, TypeOK
<1>3. CASE Recover
  <2>1. PICK old \in backup :
            /\ Load(old.devices, old.primaries)
            /\ undone' = undone \cup (devices \ old.devices)
                                \cup (old.devices \ devices)
            /\ firsts' = IF old.devices = {} THEN 0 ELSE firsts
    BY <1>3 DEF Recover
  <2>2. /\ old.devices \in SUBSET Devices
        /\ old.primaries \in SUBSET old.devices
        /\ old.devices \subseteq Known
    BY DEF TypeOK, Lists, BackupInv
  <2>3. devices' = old.devices /\ primaries' \subseteq devices'
        /\ (devices' # {} => primaries' # {})
    BY <1>1, <2>1, <2>2
  <2>4. stored' = FALSE /\ backup' = backup
    BY <1>3 DEF Recover
  <2>5. undone' \subseteq Devices
    BY <2>1, <2>2 DEF TypeOK
  <2>6. Known' = Known
    BY <2>1, <2>2, <2>3 DEF Known
  <2> QED
    BY <2>1, <2>2, <2>3, <2>4, <2>5, <2>6
<1>4. CASE StartFresh
  <2>1. devices' = {} /\ primaries' = {}
    BY <1>4 DEF StartFresh, Migrated
  <2>2. /\ undone' = undone \cup devices /\ revoked' = revoked
        /\ firsts' = 0 /\ stored' = FALSE /\ backup' = {}
    BY <1>4 DEF StartFresh
  <2>3. Known' = Known
    BY <2>1, <2>2 DEF Known
  <2> QED
    BY <1>4, <2>1, <2>2, <2>3 DEF StartFresh, TypeOK
<1> QED
  BY <1>2, <1>3, <1>4 DEF Reopen

-----------------------------------------------------------------------------

LEMMA PairInvInit == Init => PairInv
<1> SUFFICES ASSUME Init PROVE PairInv
  OBVIOUS
<1> USE BoundsAssumption DEF Init
<1>1. TypeOK
  <2>1. 0 \in 0..MaxTokens /\ 0 \in 0..MaxDevices
    OBVIOUS
  <2>2. /\ pc \in [Requests -> Steps]
        /\ self \in [Requests -> 0..MaxDevices]
        /\ rank \in [Requests -> BOOLEAN]
        /\ source \in [Devices -> 0..MaxTokens]
    BY <2>1 DEF Steps
  <2> QED
    BY <2>1, <2>2 DEF TypeOK
<1>2. TokenInv
  BY DEF TokenInv, OneDevicePerToken
<1>3. RecordInv /\ BackupInv
  BY DEF RecordInv, BackupInv, Known
<1>4. ListInv
  BY DEF ListInv, OneFirstPrimary, OnlyRevocationOrphans, RevokedStaysRevoked
<1> QED
  BY <1>1, <1>2, <1>3, <1>4 DEF PairInv

LEMMA TypeNext == ASSUME PairInv, Next PROVE TypeOK'
<1> USE BoundsAssumption DEF TypeOK, Tokens, Devices, Steps, pairing, list,
                             request, ghosts, Move, End
<1>0. TypeOK /\ BackupInv /\ 0 \in 0..MaxDevices
  BY DEF PairInv
<1>1. CASE Generate
  BY <1>0, <1>1 DEF Generate
<1>2. ASSUME NEW t \in 1..issued, Expire(t) \/ RedeemExpired(t) PROVE TypeOK'
  <2>1. t \in Tokens
    BY <1>0
  <2>2. expired' \subseteq Tokens /\ tokens' \subseteq Tokens
    BY <1>0, <1>2, <2>1 DEF Expire, RedeemExpired
  <2> QED
    BY <1>0, <1>2, <2>2 DEF Expire, RedeemExpired
<1>3. ASSUME NEW p \in Requests, NEW t \in Tokens, Redeem(p, t) PROVE TypeOK'
  BY <1>0, <1>3 DEF Redeem, MakeRecord
<1>4. ASSUME NEW p \in Requests, AddDevice(p) PROVE TypeOK'
  <2>1. self[p] \in Devices
    BY <1>0, <1>4 DEF AddDevice, PairInv, RecordInv
  <2>2. /\ devices \cup {self[p]} \in SUBSET Devices
        /\ (IF devices = {} THEN {self[p]} ELSE primaries)
               \in SUBSET (devices \cup {self[p]})
    BY <1>0, <2>1
  <2>3. /\ devices' \subseteq Devices /\ primaries' \subseteq devices'
        /\ stored' \in BOOLEAN /\ backup' \subseteq Lists
    BY <1>0, <1>4, <2>2, UpdateSound DEF AddDevice
  <2>4. firsts' \in Nat
    BY <1>0, <1>4 DEF AddDevice
  <2> QED
    BY <1>0, <1>4, <2>3, <2>4 DEF AddDevice
<1>5. ASSUME NEW p \in Requests,
             AddDeviceFails(p) \/ AnnouncePaired(p) \/ Finish(p)
      PROVE  TypeOK'
  <2>1. CASE AddDeviceFails(p) \/ Finish(p)
    BY <1>0, <2>1 DEF AddDeviceFails, Finish
  <2>2. CASE AnnouncePaired(p)
    BY <1>0, <2>2 DEF AnnouncePaired
  <2> QED
    BY <1>5, <2>1, <2>2
<1>6. ASSUME Update(devices, primaries) \/ UNCHANGED list
      PROVE  /\ devices' \subseteq Devices /\ primaries' \subseteq devices'
             /\ stored' \in BOOLEAN /\ backup' \subseteq Lists
  BY <1>0, <1>6, UpdateSound
<1>7. ASSUME NEW p \in Requests, Touch(p) PROVE TypeOK'
  BY <1>0, <1>6, <1>7 DEF Touch
<1>8. CASE SaveOther
  BY <1>0, <1>6, <1>8 DEF SaveOther
<1>9. ASSUME NEW p \in Requests, NEW d \in Devices, Authenticate(p, d)
      PROVE  TypeOK'
  BY <1>0, <1>9 DEF Authenticate
<1>10. ASSUME NEW p \in Requests, NEW d \in Devices, Promote(p, d)
       PROVE  TypeOK'
  <2>1. /\ devices' \subseteq Devices /\ primaries' \subseteq devices'
        /\ stored' \in BOOLEAN /\ backup' \subseteq Lists
    BY <1>0, <1>10, UpdateSound DEF Promote
  <2> QED
    BY <1>0, <1>10, <2>1 DEF Promote
<1>11. ASSUME NEW p \in Requests, NEW d \in Devices, Delete(p, d) PROVE TypeOK'
  <2>1. /\ devices' \subseteq Devices /\ primaries' \subseteq devices'
        /\ stored' \in BOOLEAN /\ backup' \subseteq Lists
    <3>1. devices \ {d} \in SUBSET Devices
          /\ primaries \ {d} \in SUBSET (devices \ {d})
      BY <1>0
    <3> QED
      BY <1>0, <1>11, <3>1, UpdateSound DEF Delete, Remove
  <2> QED
    BY <1>0, <1>11, <2>1 DEF Delete, Remove
<1>12. CASE Reopen
  <2>1. /\ pc' \in [Requests -> Steps]
        /\ self' \in [Requests -> 0..MaxDevices]
        /\ rank' \in [Requests -> BOOLEAN]
    BY <1>0, <1>12, ReopenSound
  <2>2. firsts' \in Nat /\ orphaned' \in BOOLEAN
    <3>1. firsts' # 0 => firsts' = firsts
      BY <1>0, <1>12, ReopenSound
    <3>2. orphaned' = FALSE
      BY <1>0, <1>12, ReopenSound
    <3>3. firsts' \in Nat
      BY <1>0, <3>1
    <3>4. orphaned' \in BOOLEAN
      BY <3>2, Zenon
    <3> QED
      BY <3>3, <3>4
  <2>3. /\ tokens' \subseteq Tokens /\ expired' \subseteq Tokens
        /\ UNCHANGED <<issued, made, source, revoked>>
        /\ devices' \subseteq Devices /\ primaries' \subseteq devices'
        /\ stored' \in BOOLEAN /\ backup' \subseteq Lists
        /\ undone' \subseteq Devices
    BY <1>0, <1>12, ReopenSound
  <2> QED
    BY <1>0, <2>1, <2>2, <2>3
<1> QED
  BY <1>1, <1>2, <1>3, <1>4, <1>5, <1>7, <1>8, <1>9, <1>10, <1>11, <1>12
  DEF Next, TokenSteps, PairSteps, DeviceSteps

LEMMA TokenNext == ASSUME PairInv, Next PROVE TokenInv'
<1> USE DEF PairInv, TokenInv, OneDevicePerToken, pairing, list, request, ghosts
<1>0. issued \in Nat /\ made \in Nat
  BY BoundsAssumption DEF TypeOK
<1>1. CASE Generate
  BY <1>0, <1>1 DEF Generate
<1>2. ASSUME NEW t \in 1..issued, Expire(t) \/ RedeemExpired(t) PROVE TokenInv'
  BY <1>2 DEF Expire, RedeemExpired
<1>3. ASSUME NEW p \in Requests, NEW t \in Tokens, Redeem(p, t) PROVE TokenInv'
  <2>1. t = issued /\ tokens' = {} /\ issued' = issued
    BY <1>3 DEF Redeem
  <2>2. made' = made + 1 /\ made' \in Devices
    BY <1>0, <1>3, BoundsAssumption DEF Redeem, MakeRecord, Devices
  <2>3. source' = [source EXCEPT ![made'] = t]
    BY <1>3 DEF Redeem, MakeRecord
  <2>4. source'[made'] = t /\ \A d \in 1..made : source'[d] = source[d]
    BY <1>0, <2>2, <2>3, BoundsAssumption DEF TypeOK, Devices
  <2>5. \A d \in 1..made : source[d] # t
    BY <1>3 DEF Redeem
  <2>6. 1..made' = 1..made \cup {made'}
    BY <1>0, <2>2
  <2>7. t \in 1..issued
    BY <1>0, <1>3, <2>1 DEF Tokens
  <2> QED
    BY <2>1, <2>4, <2>5, <2>6, <2>7
<1>4. CASE UNCHANGED <<issued, made, source>> /\ tokens' \subseteq tokens
  BY <1>4
<1>5. CASE Reopen \/ SaveOther
  BY <1>4, <1>5, ReopenSound DEF SaveOther
<1>6. ASSUME NEW p \in Requests,
             AddDevice(p) \/ AddDeviceFails(p) \/ AnnouncePaired(p)
             \/ Touch(p) \/ Finish(p)
      PROVE  TokenInv'
  BY <1>4, <1>6 DEF AddDevice, AddDeviceFails, AnnouncePaired, Touch, Finish
<1>7. ASSUME NEW p \in Requests, NEW d \in Devices,
             Authenticate(p, d) \/ Promote(p, d) \/ Delete(p, d)
      PROVE  TokenInv'
  BY <1>4, <1>7 DEF Authenticate, Promote, Delete, Remove
<1> QED
  BY <1>1, <1>2, <1>3, <1>5, <1>6, <1>7
  DEF Next, TokenSteps, PairSteps, DeviceSteps

-----------------------------------------------------------------------------

\* No step forgets a device.
LEMMA KnownStays ==
    ASSUME TypeOK, BackupInv, Next \/ UNCHANGED vars
    PROVE  Known \subseteq Known'
<1> USE DEF Known, list, ghosts, Update
<1>1. CASE UNCHANGED <<devices, revoked, undone>>
  BY <1>1
<1>2. CASE TokenSteps \/ SaveOther \/ UNCHANGED vars
  BY <1>1, <1>2 DEF TokenSteps, Generate, Expire, RedeemExpired, SaveOther, vars
<1>3. ASSUME NEW p \in Requests, PairSteps(p) PROVE Known \subseteq Known'
  BY <1>3 DEF PairSteps, Redeem, MakeRecord, AddDevice, AddDeviceFails,
              AnnouncePaired
<1>4. ASSUME NEW p \in Requests, DeviceSteps(p) PROVE Known \subseteq Known'
  BY <1>4 DEF DeviceSteps, Authenticate, Promote, Delete, Remove, Touch, Finish
<1>5. CASE Reopen
  BY <1>5, ReopenSound
<1> QED
  BY <1>2, <1>3, <1>4, <1>5 DEF Next

LEMMA BackupNext == ASSUME PairInv, Next PROVE BackupInv'
<1> USE DEF pairing, list, request, ghosts
<1>0. TypeOK /\ BackupInv /\ Known \subseteq Known'
  BY KnownStays DEF PairInv
<1>1. CASE UNCHANGED backup
  BY <1>0, <1>1 DEF BackupInv
<1>2. ASSUME NEW nd \in SUBSET Devices, NEW np \in SUBSET nd, Update(nd, np)
      PROVE  BackupInv'
  <2>1. \A old \in backup' : old \in backup \/ /\ old.devices = devices
                                               /\ old.primaries = primaries
    BY <1>0, <1>2, UpdateSound
  <2>2. devices \subseteq Known'
    BY <1>0 DEF Known
  <2> QED
    BY <1>0, <2>1, <2>2 DEF BackupInv, TypeOK
<1>3. ASSUME NEW p \in Requests, AddDevice(p) PROVE BackupInv'
  <2>1. self[p] \in Devices
    BY <1>3, BoundsAssumption DEF PairInv, RecordInv, TypeOK, Devices, AddDevice,
                                  Move
  <2>2. /\ devices \cup {self[p]} \in SUBSET Devices
        /\ (IF devices = {} THEN {self[p]} ELSE primaries)
               \in SUBSET (devices \cup {self[p]})
    BY <1>0, <2>1 DEF TypeOK
  <2> QED
    BY <1>2, <1>3, <2>2 DEF AddDevice
<1>4. CASE TokenSteps \/ SaveOther
  BY <1>0, <1>1, <1>2, <1>4
  DEF TokenSteps, Generate, Expire, RedeemExpired, SaveOther, TypeOK
<1>5. ASSUME NEW p \in Requests, PairSteps(p) PROVE BackupInv'
  BY <1>1, <1>3, <1>5
  DEF PairSteps, Redeem, MakeRecord, AddDeviceFails, AnnouncePaired
<1>6. ASSUME NEW p \in Requests, NEW d \in Devices, Promote(p, d)
      PROVE  BackupInv'
  <2>1. devices \in SUBSET Devices /\ primaries \cup {d} \in SUBSET devices
    BY <1>0, <1>6 DEF Promote, TypeOK
  <2> QED
    BY <1>2, <1>6, <2>1 DEF Promote
<1>7. ASSUME NEW p \in Requests, NEW d \in Devices, Delete(p, d)
      PROVE  BackupInv'
  <2>1. devices \ {d} \in SUBSET Devices
        /\ primaries \ {d} \in SUBSET (devices \ {d})
    BY <1>0 DEF TypeOK
  <2> QED
    BY <1>2, <1>7, <2>1 DEF Delete, Remove
<1>8. ASSUME NEW p \in Requests, Touch(p) PROVE BackupInv'
  BY <1>0, <1>1, <1>2, <1>8 DEF Touch, TypeOK
<1>9. ASSUME NEW p \in Requests,
             Finish(p) \/ \E d \in Devices : Authenticate(p, d)
      PROVE  BackupInv'
  BY <1>1, <1>9 DEF Finish, Authenticate
<1>10. CASE Reopen
  BY <1>0, <1>10, ReopenSound DEF BackupInv
<1> QED
  BY <1>4, <1>5, <1>6, <1>7, <1>8, <1>9, <1>10 DEF Next, DeviceSteps

\* Nothing new is known, and each request goes on about the same device or
\* has ended.
LEMMA RecordKept ==
    ASSUME RecordInv, made' = made, Known' = Known,
           \A p \in Requests :
               \/ pc'[p] = "idle"
               \/ /\ self'[p] = self[p]
                  /\ pc'[p] = "redeemed" <=> pc[p] = "redeemed"
                  /\ pc[p] # "idle"
    PROVE  RecordInv'
BY DEF RecordInv

LEMMA RecordNext == ASSUME PairInv, Next PROVE RecordInv'
<1> USE DEF pairing, list, request, ghosts, Move, End, Update
<1>0. TypeOK /\ BackupInv /\ RecordInv /\ made \in Nat
      /\ pc \in [Requests -> Steps] /\ self \in [Requests -> 0..MaxDevices]
  BY BoundsAssumption DEF PairInv, TypeOK
<1>1. CASE UNCHANGED <<devices, revoked, undone, made, pc, self>>
  BY <1>0, <1>1 DEF RecordInv, Known
<1>2. CASE TokenSteps \/ SaveOther
  BY <1>1, <1>2 DEF TokenSteps, Generate, Expire, RedeemExpired, SaveOther
<1>3. ASSUME NEW p \in Requests, NEW t \in Tokens, Redeem(p, t)
      PROVE  RecordInv'
  <2>1. made' = made + 1 /\ self' = [self EXCEPT ![p] = made']
        /\ pc' = [pc EXCEPT ![p] = "redeemed"] /\ Known' = Known
    BY <1>3 DEF Redeem, MakeRecord, Known
  <2>2. self'[p] = made' /\ pc'[p] = "redeemed"
        /\ \A q \in Requests \ {p} : self'[q] = self[q] /\ pc'[q] = pc[q]
    BY <1>0, <2>1
  <2>3. made' \notin 1..made /\ made' \in 1..made' /\ 1..made \subseteq 1..made'
    BY <1>0, <2>1
  <2> QED
    BY <1>0, <2>1, <2>2, <2>3 DEF RecordInv
<1>4. ASSUME NEW p \in Requests, AddDevice(p) PROVE RecordInv'
  <2>1. pc[p] = "redeemed" /\ pc' = [pc EXCEPT ![p] = "paired"]
        /\ Known' = Known \cup {self[p]} /\ UNCHANGED <<made, self>>
    BY <1>4 DEF AddDevice, Known
  <2>2. pc'[p] = "paired" /\ \A q \in Requests \ {p} : pc'[q] = pc[q]
    BY <1>0, <2>1
  <2> QED
    BY <1>0, <2>1, <2>2 DEF RecordInv
<1>5. ASSUME NEW p \in Requests, NEW from, End(p, from), made' = made,
             Known' = Known
      PROVE  RecordInv'
  <2>1. pc'[p] = "idle" /\ \A q \in Requests \ {p} :
                               pc'[q] = pc[q] /\ self'[q] = self[q]
    BY <1>0, <1>5
  <2> QED
    BY <1>0, <1>5, <2>1 DEF RecordInv
<1>6. ASSUME NEW p \in Requests, AddDeviceFails(p) \/ Finish(p)
      PROVE  RecordInv'
  BY <1>5, <1>6 DEF AddDeviceFails, Finish, Known
<1>7. ASSUME NEW p \in Requests, AnnouncePaired(p) \/ Touch(p)
      PROVE  RecordInv'
  <2>1. made' = made /\ self' = self /\ Known' = Known
    BY <1>7 DEF AnnouncePaired, Touch, Known
  <2>2. /\ pc[p] \in {"paired", "matched"} /\ pc'[p] \in {"done", "authorized"}
        /\ \A q \in Requests \ {p} : pc'[q] = pc[q]
    BY <1>0, <1>7 DEF AnnouncePaired, Touch
  <2> QED
    BY <1>0, <2>1, <2>2 DEF RecordInv
<1>8. ASSUME NEW p \in Requests, NEW d \in Devices, Authenticate(p, d)
      PROVE  RecordInv'
  <2>1. /\ pc'[p] \in {"matched", "authorized"} /\ self'[p] \in Known
        /\ \A q \in Requests \ {p} : pc'[q] = pc[q] /\ self'[q] = self[q]
        /\ Known' = Known /\ made' = made
    BY <1>0, <1>8 DEF Authenticate, Known
  <2> QED
    BY <1>0, <2>1 DEF RecordInv
<1>9. ASSUME NEW p \in Requests, NEW d \in Devices, Promote(p, d) \/ Delete(p, d)
      PROVE  RecordInv'
  <2>1. End(p, {"authorized"}) /\ made' = made /\ Known' = Known
    BY <1>9 DEF Promote, Delete, Remove, Known
  <2> QED
    BY <1>5, <2>1
<1>10. CASE Reopen
  <2>1. made' = made /\ Known' = Known
        /\ \A p \in Requests : pc'[p] = "idle"
    BY <1>0, <1>10, ReopenSound
  <2> QED
    BY <1>0, <2>1 DEF RecordInv
<1> QED
  BY <1>2, <1>3, <1>4, <1>6, <1>7, <1>8, <1>9, <1>10
  DEF Next, PairSteps, DeviceSteps

-----------------------------------------------------------------------------

\* What the parts of ListInv look at stays the same, or the list is saved as
\* it is.
LEMMA ListKept ==
    ASSUME ListInv, UNCHANGED <<firsts, orphaned, revoked, undone>>,
           UNCHANGED list \/ Update(devices, primaries)
    PROVE  ListInv'
<1>1. UNCHANGED <<devices, primaries>>
  BY DEF list, Update
<1> QED
  BY <1>1 DEF ListInv, OneFirstPrimary, OnlyRevocationOrphans,
              RevokedStaysRevoked

LEMMA ListNext == ASSUME PairInv, Next PROVE ListInv'
<1> USE DEF pairing, list, request, ghosts
<1>0. TypeOK /\ BackupInv /\ RecordInv /\ ListInv
  BY DEF PairInv
<1>1. CASE TokenSteps
  BY <1>0, <1>1, ListKept DEF TokenSteps, Generate, Expire, RedeemExpired
<1>2. ASSUME NEW p \in Requests, NEW t \in Tokens, Redeem(p, t) PROVE ListInv'
  BY <1>0, <1>2, ListKept DEF Redeem, MakeRecord
<1>3. ASSUME NEW p \in Requests, AddDevice(p) PROVE ListInv'
  <2>1. self[p] \notin Known
    BY <1>0, <1>3 DEF AddDevice, Move, RecordInv
  <2>2. devices' = devices \cup {self[p]}
    BY <1>3 DEF AddDevice, Update
  <2>3. RevokedStaysRevoked'
    BY <1>0, <1>3, <2>1, <2>2 DEF AddDevice, ListInv, RevokedStaysRevoked, Known
  <2>4. CASE devices = {}
    <3>1. firsts = 0
      BY <1>0, <2>4 DEF ListInv, TypeOK
    <3>2. firsts' = 1 /\ primaries' = {self[p]} /\ devices' # {}
      BY <1>3, <2>2, <2>4, <3>1 DEF AddDevice, Update
    <3> QED
      BY <2>3, <3>2 DEF ListInv, OneFirstPrimary, OnlyRevocationOrphans
  <2>5. CASE devices # {}
    <3>1. UNCHANGED <<firsts, primaries, orphaned>> /\ devices' # {}
      BY <1>3, <2>5 DEF AddDevice, Update
    <3> QED
      BY <1>0, <2>3, <2>5, <3>1
      DEF ListInv, OneFirstPrimary, OnlyRevocationOrphans
  <2> QED
    BY <2>4, <2>5
<1>4. ASSUME NEW p \in Requests,
             AddDeviceFails(p) \/ AnnouncePaired(p) \/ Touch(p) \/ Finish(p)
      PROVE  ListInv'
  BY <1>0, <1>4, ListKept DEF AddDeviceFails, AnnouncePaired, Touch, Finish
<1>5. ASSUME NEW p \in Requests, NEW d \in Devices, Authenticate(p, d)
      PROVE  ListInv'
  BY <1>0, <1>5, ListKept DEF Authenticate
<1>6. ASSUME NEW p \in Requests, NEW d \in Devices, Promote(p, d) PROVE ListInv'
  <2>1. /\ UNCHANGED <<devices, firsts, orphaned, revoked, undone>>
        /\ primaries' = primaries \cup {d} /\ primaries' \subseteq devices
    BY <1>0, <1>6 DEF Promote, Update, TypeOK
  <2> QED
    BY <1>0, <2>1 DEF ListInv, OneFirstPrimary, OnlyRevocationOrphans,
                      RevokedStaysRevoked
<1>7. ASSUME NEW p \in Requests, NEW d \in Devices, Delete(p, d) PROVE ListInv'
  <2>1. d \in devices /\ devices' = devices \ {d}
        /\ primaries' = primaries \ {d} /\ revoked' = revoked \cup {d}
        /\ orphaned' = (orphaned \/ d \in primaries)
        /\ undone' = undone \ {d} /\ firsts' = firsts
    BY <1>7 DEF Delete, Remove, Update
  <2>2. devices' # {}
    BY <1>7, <2>1, OneOfManyStays DEF Delete
  <2>3. OnlyRevocationOrphans'
    <3>1. primaries' = {} => d \in primaries \/ primaries = {}
      BY <2>1
    <3> QED
      BY <1>0, <2>1, <3>1 DEF ListInv, OnlyRevocationOrphans
  <2>4. RevokedStaysRevoked'
    BY <1>0, <2>1 DEF ListInv, RevokedStaysRevoked
  <2> QED
    BY <1>0, <2>1, <2>2, <2>3, <2>4 DEF ListInv, OneFirstPrimary
<1>8. CASE SaveOther
  BY <1>0, <1>8, ListKept DEF SaveOther
<1>9. CASE Reopen
  <2>1. OnlyRevocationOrphans'
    BY <1>0, <1>9, ReopenSound DEF OnlyRevocationOrphans
  <2>2. OneFirstPrimary' /\ (firsts' # 0 => devices' # {})
    BY <1>0, <1>9, ReopenSound DEF ListInv, OneFirstPrimary
  <2>3. RevokedStaysRevoked'
    BY <1>0, <1>9, ReopenSound DEF ListInv, RevokedStaysRevoked
  <2> QED
    BY <2>1, <2>2, <2>3 DEF ListInv
<1> QED
  BY <1>1, <1>2, <1>3, <1>4, <1>5, <1>6, <1>7, <1>8, <1>9
  DEF Next, PairSteps, DeviceSteps

LEMMA PairInvStutter == ASSUME PairInv, UNCHANGED vars PROVE PairInv'
<1> USE DEF PairInv, vars
<1>1. TypeOK'
  BY DEF TypeOK
<1>2. TokenInv'
  BY DEF TokenInv, OneDevicePerToken
<1>3. RecordInv' /\ BackupInv'
  BY DEF RecordInv, BackupInv, Known
<1>4. ListInv'
  BY ListKept DEF list
<1> QED
  BY <1>1, <1>2, <1>3, <1>4

LEMMA PairInvAlways == Spec => []PairInv
<1>1. PairInv /\ [Next]_vars => PairInv'
  BY TypeNext, TokenNext, BackupNext, RecordNext, ListNext, PairInvStutter
  DEF PairInv
<1> QED
  BY PairInvInit, <1>1, PTL DEF Spec

-----------------------------------------------------------------------------

\* The pairing manager, the device list and the requests keep their types,
\* and a primary is always one of the paired devices.
THEOREM PairingTypeCorrect == Spec => []TypeOK
<1>1. PairInv => TypeOK
  BY DEF PairInv
<1> QED
  BY PairInvAlways, <1>1, PTL

\* However many requests redeem, generate and pair at once, a token makes at
\* most one device.
THEOREM TokensAreSingleUse == Spec => []OneDevicePerToken
<1>1. PairInv => OneDevicePerToken
  BY DEF PairInv, TokenInv
<1> QED
  BY PairInvAlways, <1>1, PTL

\* The rules of the device list, through starts from the state as it was, from
\* the backup and from nothing: one first primary in the life of a list, no
\* orphans but by revocation, and no revoked device in the list that a load of
\* older state did not bring back.
THEOREM ListRules ==
    Spec => [](OneFirstPrimary /\ OnlyRevocationOrphans /\ RevokedStaysRevoked)
<1>1. PairInv => OneFirstPrimary /\ OnlyRevocationOrphans /\ RevokedStaysRevoked
  BY DEF PairInv, ListInv
<1> QED
  BY PairInvAlways, <1>1, PTL

\* Of all devices that pair in the life of a list, however many at once, one
\* becomes primary without being promoted.
THEOREM FirstPrimaryIsUnique == Spec => []OneFirstPrimary
BY ListRules, PTL

\* Paired devices have a primary among them as long as no primary was revoked.
THEOREM OrphansAreRevoked == Spec => []OnlyRevocationOrphans
BY ListRules, PTL

\* No step takes away the last device, whoever revokes whom at the same time:
\* a list is empty again only when a start lost it with state.json.
THEOREM NeverUnpaired == Spec => StaysPaired
<1> USE DEF pairing, list, request, ghosts, Update
<1>1. ASSUME PairInv, Next, devices # {}, devices' = {}
      PROVE  devices \subseteq undone'
  <2>1. CASE TokenSteps \/ SaveOther
    BY <1>1, <2>1 DEF TokenSteps, Generate, Expire, RedeemExpired, SaveOther
  <2>2. ASSUME NEW p \in Requests, PairSteps(p) PROVE devices' # {}
    BY <1>1, <2>2
    DEF PairSteps, Redeem, AddDevice, AddDeviceFails, AnnouncePaired
  <2>3. ASSUME NEW p \in Requests, NEW d \in Devices, Delete(p, d)
        PROVE  devices' # {}
    BY <2>3, OneOfManyStays DEF Delete, Remove
  <2>4. ASSUME NEW p \in Requests, NEW d \in Devices,
               Authenticate(p, d) \/ Promote(p, d)
        PROVE  devices' # {}
    BY <1>1, <2>4 DEF Authenticate, Promote
  <2>5. ASSUME NEW p \in Requests, Touch(p) \/ Finish(p) PROVE devices' # {}
    BY <1>1, <2>5 DEF Touch, Finish
  <2>6. CASE Reopen
    BY <1>1, <2>6, ReopenSound DEF PairInv
  <2> QED
    BY <1>1, <2>1, <2>2, <2>3, <2>4, <2>5, <2>6 DEF Next, DeviceSteps
<1>2. PairInv /\ [Next]_vars =>
        [devices # {} /\ devices' = {} => devices \subseteq undone']_vars
  BY <1>1
<1> QED
  BY PairInvAlways, <1>2, PTL DEF Spec, StaysPaired

\* A device is made from the newest token only, and not after it expired.
THEOREM TokensAreFresh == Spec => TokenDiscipline
<1> USE DEF pairing, list, request, ghosts
<1>1. ASSUME PairInv, Next, made' # made
      PROVE  source'[made'] = issued /\ issued \notin expired
  <2>1. PICK p \in Requests, t \in Tokens : Redeem(p, t)
    <3>1. ~ Reopen
      BY <1>1, ReopenSound DEF PairInv
    <3> QED
      BY <1>1, <3>1
      DEF Next, TokenSteps, Generate, Expire, RedeemExpired, PairSteps,
          AddDevice, AddDeviceFails, AnnouncePaired, DeviceSteps,
          Authenticate, Promote, Delete, Remove, Touch, Finish, SaveOther
  <2>2. t = issued /\ issued \notin expired
    BY <1>1, <2>1 DEF Redeem, PairInv, TokenInv
  <2>3. made' \in Devices
    BY <1>1, <2>1, BoundsAssumption
    DEF Redeem, MakeRecord, PairInv, TypeOK, Devices
  <2>4. source'[made'] = t
    BY <1>1, <2>1, <2>3 DEF Redeem, MakeRecord, PairInv, TypeOK
  <2> QED
    BY <2>2, <2>4
<1>2. PairInv /\ [Next]_vars =>
        [made' # made => source'[made'] = issued /\ issued \notin expired]_vars
  BY <1>1
<1> QED
  BY PairInvAlways, <1>2, PTL DEF Spec, TokenDiscipline

\* No phantom pairings: what is announced is in the list or was.
THEOREM AnnouncedPairingsExist == Spec => AnnouncedWasStored
<1>1. PairInv => \A p \in Requests : pc[p] = "paired" => self[p] \in Known
  BY DEF PairInv, RecordInv
<1>2. PairInv /\ [Next]_vars =>
        [\A p \in Requests :
            pc[p] = "paired" /\ pc'[p] = "done" => self[p] \in Known]_vars
  BY <1>1
<1> QED
  BY PairInvAlways, <1>2, PTL DEF Spec, AnnouncedWasStored

\* A revoked device comes back into the list only at a start that finds
\* state.json unreadable and takes a backup that still has it.
ReturnsByBackupOnly ==
    [][\A d \in revoked \ devices :
        d \in devices' => Recover /\ \E old \in backup : d \in old.devices]_vars

\* Revocation is final but for the loss of state.json: no request, however
\* long ago it was authenticated, and no start that can read the state brings
\* a revoked device back, and none at all one that the backup has not.
THEOREM RevocationIsFinal ==
    Spec => []RevokedStaysRevoked /\ ReturnsByBackupOnly
<1> USE DEF pairing, list, request, ghosts, Update
<1> DEFINE Returns ==
        \A d \in revoked \ devices :
            d \in devices' =>
                Recover /\ \E old \in backup : d \in old.devices
<1>1. ASSUME PairInv, Next PROVE Returns
  <2> SUFFICES ASSUME NEW d \in revoked \ devices, d \in devices'
               PROVE  Recover /\ \E old \in backup : d \in old.devices
    OBVIOUS
  <2>1. ~ (TokenSteps \/ SaveOther)
    BY DEF TokenSteps, Generate, Expire, RedeemExpired, SaveOther
  <2>2. ASSUME NEW p \in Requests PROVE ~ PairSteps(p)
    <3>1. ~ AddDevice(p)
      BY <1>1 DEF AddDevice, Move, PairInv, RecordInv, Known
    <3> QED
      BY <3>1 DEF PairSteps, Redeem, AddDeviceFails, AnnouncePaired
  <2>3. ASSUME NEW p \in Requests PROVE ~ DeviceSteps(p)
    BY DEF DeviceSteps, Authenticate, Promote, Delete, Remove, Touch, Finish
  <2>4. ~ Restart /\ ~ StartFresh
    BY DEF Restart, StartFresh, Load
  <2>5. Recover
    BY <1>1, <2>1, <2>2, <2>3, <2>4 DEF Next, Reopen
  <2>6. PICK old \in backup : devices' = old.devices
    BY <2>5 DEF Recover, Load
  <2> QED
    BY <2>5, <2>6
<1>2. PairInv /\ [Next]_vars => [Returns]_vars
  BY <1>1
<1> QED
  BY PairInvAlways, ListRules, <1>2, PTL DEF Spec, ReturnsByBackupOnly

-----------------------------------------------------------------------------
(* Ranks *)

\* The copy of a device that a request decides by may be out of date, but only
\* for a device that is no longer paired.
RankInv ==
    \A p \in Requests :
        pc[p] \in {"matched", "authorized"} /\ rank[p] =>
            self[p] \in primaries \cup revoked

\* The three ways to become primary: to be the first device, to be the
\* earliest of the devices a restart finds without a primary, and to be
\* promoted by a primary, or by one revoked after it was authenticated.
RankEarned ==
    \/ \E p \in Requests : /\ devices = {} /\ devices' = {self[p]}
                           /\ primaries' = devices'
    \/ primaries = {} /\ primaries' = {Min(devices)}
    \/ \E p \in Requests, d \in devices :
           /\ pc[p] = "authorized" /\ pc'[p] = "idle"
           /\ self[p] \in primaries \cup revoked
           /\ primaries' = primaries \cup {d}

\* Nobody else becomes primary, and a primary stays one until it is revoked,
\* but where a start finds state.json unreadable.
RanksMoveByRule ==
    [][\/ Recover \/ StartFresh
       \/ /\ primaries' \subseteq primaries \/ RankEarned
          /\ primaries \ revoked' \subseteq primaries']_vars

LEMMA RankNext == ASSUME PairInv, RankInv, Next PROVE RankInv'
<1> USE DEF RankInv, pairing, list, request, ghosts, Move, End, Update
<1>0. TypeOK /\ BackupInv /\ primaries \subseteq devices
  BY DEF PairInv, TypeOK
<1>1. CASE TokenSteps \/ SaveOther
  BY <1>1 DEF TokenSteps, Generate, Expire, RedeemExpired, SaveOther
<1>2. ASSUME NEW p \in Requests, NEW t \in Tokens, Redeem(p, t)
      PROVE  RankInv'
  BY <1>0, <1>2 DEF Redeem, MakeRecord, TypeOK
<1>3. ASSUME NEW p \in Requests, AddDevice(p) PROVE RankInv'
  BY <1>0, <1>3 DEF AddDevice, TypeOK
<1>4. ASSUME NEW p \in Requests,
             AddDeviceFails(p) \/ AnnouncePaired(p) \/ Finish(p)
      PROVE  RankInv'
  BY <1>0, <1>4 DEF AddDeviceFails, AnnouncePaired, Finish, TypeOK
<1>5. ASSUME NEW p \in Requests, Touch(p) PROVE RankInv'
  BY <1>0, <1>5 DEF Touch, TypeOK
<1>6. ASSUME NEW p \in Requests, NEW d \in Devices, Authenticate(p, d)
      PROVE  RankInv'
  <2> SUFFICES ASSUME NEW q \in Requests,
                      pc'[q] \in {"matched", "authorized"}, rank'[q]
               PROVE  self'[q] \in primaries' \cup revoked'
    OBVIOUS
  <2>1. CASE q = p
    <3>1. self'[q] = d /\ rank'[q] = (d \in primaries)
      BY <1>0, <1>6, <2>1 DEF Authenticate, TypeOK
    <3> QED
      BY <1>6, <3>1 DEF Authenticate
  <2>2. CASE q # p
    BY <1>0, <1>6, <2>2 DEF Authenticate, TypeOK
  <2> QED
    BY <2>1, <2>2
<1>7. ASSUME NEW p \in Requests, NEW d \in Devices, Promote(p, d)
      PROVE  RankInv'
  BY <1>0, <1>7 DEF Promote, TypeOK
<1>8. ASSUME NEW p \in Requests, NEW d \in Devices, Delete(p, d)
      PROVE  RankInv'
  BY <1>0, <1>8 DEF Delete, Remove, TypeOK
<1>9. CASE Reopen
  <2>1. \A p \in Requests : pc'[p] = "idle"
    BY <1>0, <1>9, ReopenSound
  <2> QED
    BY <2>1
<1> QED
  BY <1>1, <1>2, <1>3, <1>4, <1>5, <1>6, <1>7, <1>8, <1>9
  DEF Next, PairSteps, DeviceSteps

\* A device becomes primary by being the first, by the migration or by the
\* word of a primary, also where RequirePrimary decides by a copy; and no step
\* but its revocation takes the rank away, as long as state.json is readable.
THEOREM RanksAreEarned == Spec => RanksMoveByRule
<1> USE DEF pairing, list, request, ghosts, Move, End, Update
<1> DEFINE ByRule == /\ primaries' \subseteq primaries \/ RankEarned
                     /\ primaries \ revoked' \subseteq primaries'
<1>1. ASSUME PairInv, RankInv, Next PROVE Recover \/ StartFresh \/ ByRule
  <2>0. TypeOK
    BY <1>1 DEF PairInv
  <2>1. CASE TokenSteps \/ SaveOther
    BY <2>1 DEF TokenSteps, Generate, Expire, RedeemExpired, SaveOther
  <2>2. ASSUME NEW p \in Requests, PairSteps(p) PROVE ByRule
    <3>1. CASE AddDevice(p) /\ devices = {}
      <4>1. /\ devices' = {self[p]} /\ primaries' = {self[p]}
            /\ primaries = {}
        BY <2>0, <3>1 DEF AddDevice, TypeOK
      <4> QED
        BY <3>1, <4>1 DEF RankEarned
    <3>2. CASE ~(AddDevice(p) /\ devices = {})
      BY <2>2, <3>2 DEF PairSteps, Redeem, AddDevice, AddDeviceFails,
                        AnnouncePaired
    <3> QED
      BY <3>1, <3>2
  <2>3. ASSUME NEW p \in Requests, NEW d \in Devices, Promote(p, d)
        PROVE  ByRule
    <3>1. /\ pc[p] = "authorized" /\ pc'[p] = "idle" /\ rank[p]
          /\ d \in devices /\ primaries' = primaries \cup {d}
      BY <2>0, <2>3 DEF Promote, RequirePrimary, TypeOK
    <3>2. self[p] \in primaries \cup revoked
      BY <1>1, <3>1 DEF RankInv
    <3> QED
      BY <3>1, <3>2 DEF RankEarned
  <2>4. ASSUME NEW p \in Requests, NEW d \in Devices,
               Authenticate(p, d) \/ Delete(p, d)
        PROVE  ByRule
    BY <2>4 DEF Authenticate, Delete, Remove
  <2>5. ASSUME NEW p \in Requests, Touch(p) \/ Finish(p)
        PROVE  primaries' = primaries
    BY <2>5 DEF Touch, Finish
  <2>6. CASE Restart
    BY <2>6 DEF Restart, Load, Migrated, RankEarned
  <2> QED
    BY <1>1, <2>1, <2>2, <2>3, <2>4, <2>5, <2>6 DEF Next, DeviceSteps, Reopen
<1>2. PairInv /\ RankInv /\ [Next]_vars =>
        [Recover \/ StartFresh \/ ByRule]_vars
  BY <1>1
<1>3. Init => RankInv
  BY DEF Init, RankInv
<1>4. PairInv /\ RankInv /\ [Next]_vars => RankInv'
  <2>1. UNCHANGED vars /\ RankInv => RankInv'
    BY DEF vars, RankInv
  <2> QED
    BY <2>1, RankNext
<1> QED
  BY PairInvAlways, <1>2, <1>3, <1>4, PTL DEF Spec, RanksMoveByRule

-----------------------------------------------------------------------------
(* The shell *)

\* The key the shell has, in memory or in its file, is one Core knows or knew.
KeyInv ==
    /\ StoredKeyWorks
    /\ shell \in {"saving", "writing"} => held \in Known

ShellInv == PairInv /\ ShellTypeOK /\ KeyInv

\* Whatever the shell does is a step of DevicePairing or no step of it.
LEMMA ShellStep == ASSUME TypeOK, ShellNext PROVE Next \/ UNCHANGED vars
<1>1. CASE RequestToken
  BY <1>1 DEF RequestToken, Next, TokenSteps
<1>2. ASSUME NEW p \in Requests, PostPair(p) PROVE Next
  <2>1. Redeem(p, held) /\ held \in Tokens
    BY <1>2 DEF PostPair, Redeem, TypeOK
  <2> QED
    BY <2>1 DEF Next, PairSteps
<1>3. ASSUME NEW p \in Requests, Answered(p) \/ Declined(p) PROVE Next
  BY <1>3 DEF Answered, Declined, Next, PairSteps, DeviceSteps
<1>4. CASE CreateFile \/ WriteKey \/ ValidateKey \/ Leave
  BY <1>4 DEF CreateFile, WriteKey, ValidateKey, Leave
<1>5. CASE CoreSteps
  BY <1>5 DEF CoreSteps, Next, PairSteps
<1>6. CASE CoreRestarts \/ PowerFails
  BY <1>6 DEF CoreRestarts, PowerFails, Next
<1> QED
  BY <1>1, <1>2, <1>3, <1>4, <1>5, <1>6 DEF ShellNext, ShellSteps

\* Every step of the shell and of Core beside it preserves what is known of
\* the stored key.
LEMMA KeyNext == ASSUME PairInv, ShellTypeOK, KeyInv, ShellNext PROVE KeyInv'
<1> USE DEF Becomes, keyFile
<1>0. Known \subseteq Known'
  BY ShellStep, KnownStays DEF PairInv
<1>1. CASE file' = file /\ shell' \notin {"saving", "writing"}
  BY <1>0, <1>1 DEF KeyInv, StoredKeyWorks
<1>2. CASE UNCHANGED client
  BY <1>0, <1>2 DEF KeyInv, StoredKeyWorks, client
<1>3. CASE RequestToken \/ (\E p \in Requests : PostPair(p) \/ Declined(p))
           \/ ValidateKey \/ Leave
  BY <1>1, <1>3 DEF RequestToken, PostPair, Declined, ValidateKey, Leave
<1>4. ASSUME NEW p \in Requests, Answered(p) PROVE KeyInv'
  <2>1. self[p] \in Known
    BY <1>4 DEF Answered, PairInv, RecordInv
  <2> QED
    BY <1>0, <1>4, <2>1 DEF Answered, KeyInv, StoredKeyWorks
<1>5. CASE CreateFile
  BY <1>0, <1>5 DEF CreateFile, KeyInv, StoredKeyWorks
<1>6. CASE WriteKey
  BY <1>0, <1>6 DEF WriteKey, KeyInv, StoredKeyWorks
<1>7. CASE CoreRestarts
  BY <1>0, <1>7 DEF CoreRestarts, KeyInv, StoredKeyWorks
<1>8. CASE PowerFails
  BY <1>0, <1>8 DEF PowerFails, KeyInv, StoredKeyWorks
<1> QED
  BY <1>2, <1>3, <1>4, <1>5, <1>6, <1>7, <1>8
  DEF ShellNext, ShellSteps, CoreSteps

LEMMA ShellTypeNext ==
    ASSUME PairInv, ShellTypeOK, KeyInv, ShellNext
    PROVE  ShellTypeOK'
<1> USE DEF ShellTypeOK, Becomes, keyFile
<1>0. /\ \A d \in Known : d \in 0..MaxDevices
      /\ \A p \in Requests : self[p] \in Nat
      /\ issued + 1 \in Nat
  BY BoundsAssumption DEF PairInv, TypeOK, Devices, Known
<1>1. CASE UNCHANGED client
  BY <1>1 DEF client
<1>2. CASE RequestToken
  BY <1>0, <1>2 DEF RequestToken, Generate
<1>3. ASSUME NEW p \in Requests, PostPair(p) \/ Answered(p) \/ Declined(p)
      PROVE  ShellTypeOK'
  BY <1>0, <1>3 DEF PostPair, Answered, Declined
<1>4. CASE CreateFile
  <2>1. exists' \in BOOLEAN
    BY <1>4 DEF CreateFile
  <2> QED
    BY <1>4, <2>1 DEF CreateFile
<1>5. CASE WriteKey
  <2>1. held \in 0..MaxDevices
    BY <1>0, <1>5 DEF WriteKey, KeyInv
  <2> QED
    BY <1>5, <2>1 DEF WriteKey
<1>6. CASE CoreRestarts
  BY <1>6 DEF CoreRestarts
<1>7. CASE PowerFails
  <2>1. 0 \in 0..MaxDevices /\ exists' \in BOOLEAN
    <3>1. 0 \in 0..MaxDevices
      BY BoundsAssumption
    <3>2. exists' \in {exists, FALSE}
      BY <1>7 DEF PowerFails
    <3> QED
      BY <1>7, <3>1, <3>2 DEF PowerFails
  <2> QED
    BY <1>7, <2>1 DEF PowerFails
<1>8. CASE ValidateKey \/ Leave
  BY <1>8 DEF ValidateKey, Leave
<1> QED
  BY <1>1, <1>2, <1>3, <1>4, <1>5, <1>6, <1>7, <1>8
  DEF ShellNext, ShellSteps, CoreSteps

LEMMA ShellInvAlways == ShellSpec => []ShellInv
<1>1. ShellInit => ShellInv
  <2>1. ShellInit => PairInv
    BY PairInvInit DEF ShellInit
  <2>2. ShellInit => ShellTypeOK /\ KeyInv
    <3>1. 0 \in 0..MaxDevices
      BY BoundsAssumption
    <3>2. ShellInit => exists \in BOOLEAN
      BY DEF ShellInit
    <3> QED
      BY <3>1, <3>2 DEF ShellInit, ShellTypeOK, KeyInv, StoredKeyWorks
  <2> QED
    BY <2>1, <2>2 DEF ShellInv
<1>2. ASSUME ShellInv, ShellNext PROVE ShellInv'
  <2>1. PairInv'
    BY <1>2, ShellStep, TypeNext, TokenNext, BackupNext, RecordNext, ListNext,
       PairInvStutter DEF ShellInv, PairInv
  <2> QED
    BY <1>2, <2>1, KeyNext, ShellTypeNext DEF ShellInv
<1>3. ASSUME ShellInv, UNCHANGED allVars PROVE ShellInv'
  <2>1. PairInv'
    BY <1>3, PairInvStutter DEF ShellInv, allVars
  <2> QED
    BY <1>3, <2>1
    DEF ShellInv, ShellTypeOK, KeyInv, StoredKeyWorks, Known, allVars, vars,
        client
<1> QED
  BY <1>1, <1>2, <1>3, PTL DEF ShellSpec

\* The shell is one more client: DevicePairing with it beside it implements
\* DevicePairing, whose theorems therefore hold of the two together.
THEOREM ShellIsAClient == ShellSpec => Spec
<1>1. ShellInit => Init
  BY DEF ShellInit
<1>2. ShellInv /\ [ShellNext]_allVars => [Next]_vars
  BY ShellStep DEF ShellInv, PairInv, allVars
<1> QED
  BY ShellInvAlways, <1>1, <1>2, PTL DEF ShellSpec, Spec

\* The shell and its key file keep their types.
THEOREM ShellTypeCorrect == ShellSpec => []ShellTypeOK
<1>1. ShellInv => ShellTypeOK
  BY DEF ShellInv
<1> QED
  BY ShellInvAlways, <1>1, PTL

\* Wherever pairing and saving are interrupted, by kills, restarts and power
\* failures, a stored key is one that Core had in its list, and has still
\* unless the device was revoked or Core started from older state or none:
\* the two causes that EnsureDeviceKey names when the key is refused.
THEOREM StoredKeysWork ==
    ShellSpec => [](/\ StoredKeyWorks
                   /\ file # 0 /\ file \notin devices =>
                          file \in revoked \/ file \in undone)
<1>1. ShellInv => /\ StoredKeyWorks
                  /\ file # 0 /\ file \notin devices =>
                         file \in revoked \/ file \in undone
  BY DEF ShellInv, KeyInv, StoredKeyWorks, Known
<1> QED
  BY ShellInvAlways, <1>1, PTL

\* What holds of the devices holds with the shell among them, under all the
\* interruptions a shell adds, and with starts from the backup and from
\* nothing.
THEOREM RulesWithTheShell ==
    ShellSpec => /\ [](/\ OneDevicePerToken
                      /\ OneFirstPrimary
                      /\ OnlyRevocationOrphans
                      /\ RevokedStaysRevoked)
                 /\ TokenDiscipline
                 /\ StaysPaired
                 /\ AnnouncedWasStored
                 /\ RanksMoveByRule
                 /\ ReturnsByBackupOnly
BY ShellIsAClient, TokensAreSingleUse, ListRules, TokensAreFresh,
   NeverUnpaired, AnnouncedPairingsExist, RanksAreEarned, RevocationIsFinal, PTL
=============================================================================
