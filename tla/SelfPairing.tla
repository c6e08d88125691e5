----------------------------- MODULE SelfPairing -----------------------------
(***************************************************************************)
(* The TV shell pairs itself: selfpair.EnsureDeviceKey, run at every start *)
(* of the shell, beside the phones of DevicePairing and over the same two  *)
(* endpoints.  The key it gets is the device of the record, and the key    *)
(* file outlives both programs.                                            *)
(*                                                                         *)
(* A request of the shell is served by one of Requests, and the shell may  *)
(* stop waiting for it at any time: a timeout of five seconds, a lost      *)
(* connection, the end of the shell.                                       *)
(***************************************************************************)
EXTENDS DevicePairing

VARIABLES
    shell,    \* where EnsureDeviceKey is
    exists,   \* whether the key file exists
    file,     \* the device whose key it holds, 0 if it is empty
    held,     \* the token, later the device of the key, in memory
    serving   \* the request that serves POST /v1/pair for the shell

client == <<shell, exists, file, held, serving>>
keyFile == <<exists, file>>
allVars == <<vars, client>>

ShellTypeOK ==
    /\ shell \in {"off", "holding", "waiting", "saving", "writing", "ready",
                  "refused"}
    /\ exists \in BOOLEAN
    /\ file \in 0..MaxDevices
    /\ held \in Nat
    /\ serving \subseteq Requests

ShellInit ==
    /\ Init
    /\ shell = "off"
    /\ exists = FALSE /\ file = 0
    /\ held = 0
    /\ serving = {}

Becomes(from, to) == shell = from /\ shell' = to

-----------------------------------------------------------------------------
(* No key file: pairFirstTime *)

\* POST /v1/pair/generate, up to its response.
RequestToken ==
    /\ ~exists
    /\ Becomes("off", "holding")
    /\ Generate
    /\ held' = issued'
    /\ UNCHANGED <<keyFile, serving>>

\* POST /v1/pair with that token, if no other was generated since.
PostPair(p) ==
    /\ Becomes("holding", "waiting")
    /\ Redeem(p, held)
    /\ held' = 0
    /\ serving' = {p}
    /\ UNCHANGED keyFile

\* Altered: the key is taken before the device is saved.
AnsweredEarly(p) ==
    /\ Becomes("waiting", "saving")
    /\ p \in serving
    /\ pc[p] = "redeemed"
    /\ held' = self[p]
    /\ serving' = {}
    /\ UNCHANGED <<vars, keyFile>>

\* The response with the key, the last thing handlePair does.
Answered(p) ==
    /\ Becomes("waiting", "saving")
    /\ p \in serving
    /\ pc[p] = "done"
    /\ Finish(p)
    /\ held' = self[p]
    /\ serving' = {}
    /\ UNCHANGED keyFile

\* The response is an error, since the device could not be saved.
Declined(p) ==
    /\ Becomes("waiting", "off")
    /\ p \in serving
    /\ AddDeviceFails(p)
    /\ serving' = {}
    /\ UNCHANGED <<keyFile, held>>

-----------------------------------------------------------------------------
(* saveKey: os.WriteFile creates the file, then fills it, and syncs nothing *)

CreateFile ==
    /\ Becomes("saving", "writing")
    /\ exists' = TRUE
    /\ UNCHANGED <<vars, file, held, serving>>

WriteKey ==
    /\ Becomes("writing", "ready")
    /\ file' = held
    /\ held' = 0
    /\ UNCHANGED <<vars, exists, serving>>

-----------------------------------------------------------------------------
(* A key file: it is used or nothing is *)

\* GET /v1/info, which RequireDevice answers; no answer counts as a refusal.
ValidateKey ==
    /\ file # 0
    /\ \/ file \in devices /\ Becomes("off", "ready")
       \/ Becomes("off", "refused")
    /\ UNCHANGED <<vars, keyFile, held, serving>>

\* EnsureDeviceKey ends, with or without an error, or the shell does.  An
\* empty key file is an error at once and changes nothing.
Leave ==
    /\ shell # "off"
    /\ shell' = "off"
    /\ held' = 0
    /\ serving' = {}
    /\ UNCHANGED <<vars, keyFile>>

-----------------------------------------------------------------------------
(* A6 Core beside the shell *)

\* Core restarts, with the devices it had or with older state: a request of
\* the shell is cut off.
CoreRestarts ==
    /\ Reopen
    /\ shell' = IF shell = "waiting" THEN "off" ELSE shell
    /\ serving' = {}
    /\ UNCHANGED <<keyFile, held>>

\* Power fails: both programs end, and the key file may be lost or empty, as
\* long as the kernel has not written it back, whenever that is.  What Core
\* acknowledged stays, see StateStore, unless its file cannot be read.
PowerFails ==
    /\ Reopen
    /\ shell' = "off"
    /\ held' = 0
    /\ serving' = {}
    /\ \/ UNCHANGED keyFile
       \/ file' = 0 /\ exists' \in {FALSE, exists}

\* Everything else Core does, the request of the shell included.
CoreSteps ==
    /\ \/ TokenSteps \/ SaveOther
       \/ \E p \in Requests : AddDevice(p) \/ AnnouncePaired(p)
       \/ \E p \in Requests \ serving : PairSteps(p) \/ DeviceSteps(p)
    /\ UNCHANGED client

ShellSteps ==
    \/ RequestToken
    \/ \E p \in Requests : PostPair(p) \/ Answered(p) \/ Declined(p)
    \/ CreateFile \/ WriteKey
    \/ ValidateKey
    \/ Leave

ShellNext == ShellSteps \/ CoreSteps \/ CoreRestarts \/ PowerFails

ShellSpec == ShellInit /\ [][ShellNext]_allVars

-----------------------------------------------------------------------------
(* Properties *)

\* A key that was stored is good until its device is revoked or the state of
\* Core was rebuilt from an older one (selfpair.go:30): however the steps of
\* both programs interleave and wherever they are interrupted, the shell never
\* keeps a key that Core has not known.
StoredKeyWorks == file # 0 => file \in Known
=============================================================================
