------------------------------ MODULE CloudFiles ------------------------------
(***************************************************************************)
(* The cloud store: accounts and login sessions, and files whose bytes lie *)
(* on disk beside the metadata in state.json.                              *)
(*                                                                         *)
(* Two stores are changed one after the other and nothing ties them: an    *)
(* upload writes the bytes and then the record, a deletion removes the     *)
(* record and then the bytes.  store.Update is one step that happens or    *)
(* fails, and a load from the backup undoes the last one (StateStore says  *)
(* why).  Directories, names, types and passwords are left out, and what   *)
(* is refused for them changes nothing.                                    *)
(***************************************************************************)
EXTENDS Naturals

CONSTANTS
    Handlers,  \* goroutines serving requests
    Users,     \* user names, equal when EqualFold says so
    Tokens,    \* what newRandomToken draws
    Files,     \* what newID draws for an upload
    None

ASSUME DistinctAssumption ==
    None \notin Users \cup Tokens \cup Files /\ Tokens \cap Files = {}

VARIABLES
    db,         \* State.CloudUsers, CloudSessions and CloudFiles
    backup,     \* the same as of the update before
    blob,       \* the bytes of each file on disk
    flushed,    \* files whose bytes the kernel has written back
    owner,      \* who uploads a file, None before it has an ID
    holder,     \* who a token was drawn for
    pc,         \* where each handler is
    tok,        \* the session it was let in with
    file,       \* the file it works on
    recovered,  \* state.json was once read from its backup
    kept,       \* ghost: files answered as stored that nobody removed
    gone,       \* ghost: files and tokens answered as removed
    lost        \* ghost: what a power failure or a recovery has hurt

request == <<pc, tok, file>>
bytes == <<blob, flushed>>
names == <<owner, holder>>
ghosts == <<kept, gone, lost>>
vars == <<db, backup, blob, flushed, owner, holder, pc, tok, file, recovered,
          kept, gone, lost>>

Databases ==
    [accounts : SUBSET Users, sessions : SUBSET Tokens, records : SUBSET Files]

Uploading == {"named", "copying", "copied"}
Fetching == {"opening", "serving"}
Deleting == {"deleting", "unlinking"}
OnFile == Uploading \cup Fetching \cup Deleting

TypeOK ==
    /\ db \in Databases
    /\ backup \in Databases
    /\ blob \in [Files -> {"none", "partial", "whole"}]
    /\ flushed \subseteq Files
    /\ owner \in [Files -> Users \cup {None}]
    /\ holder \in [Tokens -> Users \cup {None}]
    /\ pc \in [Handlers -> OnFile \cup {"idle", "authorized"}]
    /\ tok \in [Handlers -> Tokens \cup {None}]
    /\ file \in [Handlers -> Files \cup {None}]
    /\ \A h \in Handlers :
        /\ pc[h] # "idle" => tok[h] \in Tokens
        /\ pc[h] \in OnFile => file[h] \in Files
    /\ recovered \in BOOLEAN
    /\ kept \subseteq Files
    /\ gone \subseteq Files \cup Tokens
    /\ lost \subseteq Files \cup Tokens

Init ==
    /\ db = [accounts |-> {}, sessions |-> {}, records |-> {}]
    /\ backup = db
    /\ blob = [f \in Files |-> "none"]
    /\ flushed = {}
    /\ owner = [f \in Files |-> None]
    /\ holder = [t \in Tokens |-> None]
    /\ pc = [h \in Handlers |-> "idle"]
    /\ tok = [h \in Handlers |-> None]
    /\ file = [h \in Handlers |-> None]
    /\ recovered = FALSE
    /\ kept = {} /\ gone = {} /\ lost = {}

\* state.Store.Update that succeeds.
Update(new) == db' = new /\ backup' = db

Move(h, from, to) ==
    /\ pc[h] = from
    /\ pc' = [pc EXCEPT ![h] = to]
    /\ UNCHANGED <<tok, file, recovered>>

\* The response is written.
End(h, from) ==
    /\ pc[h] \in from
    /\ pc' = [pc EXCEPT ![h] = "idle"]
    /\ tok' = [tok EXCEPT ![h] = None]
    /\ file' = [file EXCEPT ![h] = None]
    /\ UNCHANGED recovered

\* A step of an authorized request that takes up file f.
TakeUp(h, f, to) ==
    /\ pc[h] = "authorized"
    /\ pc' = [pc EXCEPT ![h] = to]
    /\ file' = [file EXCEPT ![h] = f]
    /\ UNCHANGED <<tok, recovered>>

User(h) == holder[tok[h]]

-----------------------------------------------------------------------------
(* Accounts and sessions *)

\* The name is compared with all others in the closure that adds it.
Register(u) ==
    /\ u \notin db.accounts
    /\ Update([db EXCEPT !.accounts = @ \cup {u}])
    /\ UNCHANGED <<bytes, names, request, recovered, ghosts>>

\* With the right password.  Accounts are never removed, so what the snapshot
\* showed still holds in the update.
Login(u, t) ==
    /\ u \in db.accounts
    /\ holder[t] = None
    /\ holder' = [holder EXCEPT ![t] = u]
    /\ Update([db EXCEPT !.sessions = @ \cup {t}])
    /\ UNCHANGED <<bytes, owner, request, recovered, ghosts>>

\* ValidateSession: the session and its account are in one snapshot.
Validates(t) == t \in db.sessions /\ holder[t] \in db.accounts

\* RequireCloudSession.  The request goes on with a copy of the user.
Gate(h, t) ==
    /\ Validates(t)
    /\ pc[h] = "idle"
    /\ pc' = [pc EXCEPT ![h] = "authorized"]
    /\ tok' = [tok EXCEPT ![h] = t]
    /\ UNCHANGED <<db, backup, bytes, names, file, recovered, ghosts>>

\* Altered: the sessions are compared with the token and not with its hash.
LogoutUnhashed(h) ==
    /\ pc[h] = "authorized"
    /\ Update(db)
    /\ gone' = gone \cup {tok[h]}
    /\ End(h, {"authorized"})
    /\ UNCHANGED <<bytes, names, kept, lost>>

\* The session leaves state.json, and the response says so.
Logout(h) ==
    /\ pc[h] = "authorized"
    /\ Update([db EXCEPT !.sessions = @ \ {tok[h]}])
    /\ gone' = gone \cup {tok[h]}
    /\ End(h, {"authorized"})
    /\ UNCHANGED <<bytes, names, kept, lost>>

-----------------------------------------------------------------------------
(* Upload *)

\* handleUpload has the whole form; SaveFile draws the name to store it under.
BeginUpload(h, f) ==
    /\ owner[f] = None
    /\ TakeUp(h, f, "named")
    /\ owner' = [owner EXCEPT ![f] = User(h)]
    /\ UNCHANGED <<db, backup, bytes, holder, ghosts>>

\* MkdirAll and Create.
CreateBlob(h) ==
    /\ Move(h, "named", "copying")
    /\ blob' = [blob EXCEPT ![file[h]] = "partial"]
    /\ UNCHANGED <<db, backup, flushed, names, ghosts>>

\* io.Copy has reached the end of the upload; nothing is synced.
CopyBlob(h) ==
    /\ Move(h, "copying", "copied")
    /\ blob' = [blob EXCEPT ![file[h]] = "whole"]
    /\ UNCHANGED <<db, backup, flushed, names, ghosts>>

\* The metadata is saved: status 201.
Record(h) ==
    /\ pc[h] = "copied"
    /\ Update([db EXCEPT !.records = @ \cup {file[h]}])
    /\ kept' = kept \cup {file[h]}
    /\ End(h, {"copied"})
    /\ UNCHANGED <<bytes, names, gone, lost>>

\* The directory, the file, the copy or the save fails.  What is on disk by
\* then stays there.
UploadFails(h) ==
    /\ End(h, Uploading)
    /\ UNCHANGED <<db, backup, bytes, names, ghosts>>

-----------------------------------------------------------------------------
(* Download *)

\* Altered: the owner is not compared.
VisibleToAll(u) == db.records

\* ListFiles, and what OpenFile and DeleteFile find: a record of another
\* owner is answered like none.
Visible(u) == {f \in db.records : owner[f] = u}

\* OpenFile looks the record up in a snapshot.
FindFile(h, f) ==
    /\ TakeUp(h, f, "opening")
    /\ f \in Visible(User(h))
    /\ UNCHANGED <<db, backup, bytes, names, ghosts>>

\* os.Open: from here on the bytes stay readable, whoever unlinks them.
OpenBlob(h) ==
    /\ Move(h, "opening", "serving")
    /\ blob[file[h]] # "none"
    /\ UNCHANGED <<db, backup, bytes, names, ghosts>>

\* The file was unlinked since the lookup: status 500.
OpenFails(h) ==
    /\ End(h, {"opening"})
    /\ blob[file[h]] = "none"
    /\ UNCHANGED <<db, backup, bytes, names, ghosts>>

\* The bytes were sent, or the handler only reads the state (handleMe,
\* handleListFiles), refuses, or reports a logout that could not be saved.
Finish(h) ==
    /\ End(h, {"serving", "authorized"})
    /\ UNCHANGED <<db, backup, bytes, names, ghosts>>

-----------------------------------------------------------------------------
(* Deletion *)

FindDeleted(h, f) ==
    /\ TakeUp(h, f, "deleting")
    /\ f \in Visible(User(h))
    /\ UNCHANGED <<db, backup, bytes, names, ghosts>>

\* Altered: the bytes go first.
RemoveBytesFirst(h) ==
    /\ Move(h, "deleting", "unlinking")
    /\ blob' = [blob EXCEPT ![file[h]] = "none"]
    /\ UNCHANGED <<db, backup, flushed, names, ghosts>>

\* The update does not ask whether the record is still there.
RemoveRecord(h) ==
    /\ Move(h, "deleting", "unlinking")
    /\ Update([db EXCEPT !.records = @ \ {file[h]}])
    /\ kept' = kept \ {file[h]}
    /\ UNCHANGED <<bytes, names, gone, lost>>

\* The save fails: status 500 and nothing changed.
RemoveFails(h) ==
    /\ End(h, {"deleting"})
    /\ UNCHANGED <<db, backup, bytes, names, ghosts>>

\* os.Remove, whose error is ignored: status 204.
Unlink(h) ==
    /\ pc[h] = "unlinking"
    /\ blob' \in {blob, [blob EXCEPT ![file[h]] = "none"]}
    /\ gone' = gone \cup {file[h]}
    /\ End(h, {"unlinking"})
    /\ UNCHANGED <<db, backup, flushed, names, kept, lost>>

-----------------------------------------------------------------------------
(* Faults *)

\* The daemon starts anew: the handlers are gone, state.json is read.
Reopen ==
    /\ pc' = [h \in Handlers |-> "idle"]
    /\ tok' = [h \in Handlers |-> None]
    /\ file' = [h \in Handlers |-> None]
    /\ UNCHANGED <<flushed, names, kept, gone>>

Kill ==
    /\ Reopen
    /\ UNCHANGED <<db, backup, blob, recovered, lost>>

\* The kernel writes the bytes of a file back (external).
Flush(f) ==
    /\ blob[f] = "whole"
    /\ flushed' = flushed \cup {f}
    /\ UNCHANGED <<db, backup, blob, names, request, recovered, ghosts>>

\* saveLocked syncs state.json, and nobody syncs the bytes.
PowerFailure ==
    /\ Reopen
    /\ \E hurt \in SUBSET ({f \in Files : blob[f] = "whole"} \ flushed) :
        /\ blob' = [f \in Files |-> IF f \in hurt THEN "partial" ELSE blob[f]]
        /\ lost' = lost \cup hurt
    /\ UNCHANGED <<db, backup, recovered>>

Undone(a, b) == (a \ b) \cup (b \ a)

\* state.json is unreadable, and load falls back to the update before.
Recover ==
    /\ ~recovered
    /\ recovered' = TRUE
    /\ Reopen
    /\ db' = backup
    /\ lost' = lost \cup Undone(db.records, backup.records)
                    \cup Undone(db.sessions, backup.sessions)
    /\ UNCHANGED <<backup, blob>>

-----------------------------------------------------------------------------

SessionSteps(h) ==
    (\E t \in Tokens : Gate(h, t)) \/ Logout(h)

UploadSteps(h) ==
    \/ \E f \in Files : BeginUpload(h, f)
    \/ CreateBlob(h) \/ CopyBlob(h) \/ Record(h) \/ UploadFails(h)

DownloadSteps(h) ==
    \/ \E f \in Files : FindFile(h, f)
    \/ OpenBlob(h) \/ OpenFails(h) \/ Finish(h)

DeleteSteps(h) ==
    \/ \E f \in Files : FindDeleted(h, f)
    \/ RemoveRecord(h) \/ RemoveFails(h) \/ Unlink(h)

Next ==
    \/ \E u \in Users : Register(u) \/ \E t \in Tokens : Login(u, t)
    \/ \E h \in Handlers :
        SessionSteps(h) \/ UploadSteps(h) \/ DownloadSteps(h) \/ DeleteSteps(h)
    \/ \E f \in Files : Flush(f)
    \/ Kill \/ PowerFailure \/ Recover

Spec == Init /\ [][Next]_vars

-----------------------------------------------------------------------------
(* Properties *)

\* Metadata never names bytes that are missing or half written, through kills,
\* failed saves and requests that delete and read one file at a time; but for
\* bytes that were still unwritten when the power failed, and for what a load
\* from the backup brought back.
RecordsHaveBytes == \A f \in db.records \ lost : blob[f] = "whole"

\* A download sends whole files to their owners only, although it opens the
\* bytes after it looked the record up, when both may be gone.
DownloadsWhole ==
    [][\A h \in Handlers :
        pc[h] = "opening" /\ pc'[h] = "serving" =>
            /\ owner[file[h]] = User(h)
            /\ file[h] \in lost \/ blob[file[h]] = "whole"]_vars

\* What was answered holds: a stored file stays until somebody deletes it, a
\* deleted file and a session that logged out do not come back.  Only a load
\* from the backup takes an answer back.
AnswersHold ==
    /\ kept \subseteq db.records \cup lost
    /\ gone \cap (db.records \cup db.sessions) \subseteq lost
===============================================================================
