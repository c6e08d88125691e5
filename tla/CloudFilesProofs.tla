---------------------------- MODULE CloudFilesProofs ----------------------------
(***************************************************************************)
(* What is proved of CloudFiles for any number of handlers, users, tokens  *)
(* and files. The invariant adds to the properties what a handler may rely *)
(* on between two of its steps: nobody else works on the file it uploads,  *)
(* the record of a file it unlinks is gone, and what it opens was whole    *)
(* when it was looked up. The last section is about who may take something *)
(* back: the load from the backup, and the owner.                          *)
(***************************************************************************)
EXTENDS CloudFiles, TLAPS

Known == db.records \cup backup.records \cup kept \cup gone

\* IDs and tokens are drawn once.
Drawn ==
    /\ \A f \in Files : owner[f] = None => f \notin Known
    /\ \A t \in Tokens :
        holder[t] = None => t \notin db.sessions \cup backup.sessions \cup gone

\* What handler h relies on.
Line(h) ==
    /\ pc[h] # "idle" => User(h) # None
    /\ pc[h] \in OnFile => owner[file[h]] # None
    /\ pc[h] \in Uploading => file[h] \notin Known
    /\ pc[h] = "copied" => blob[file[h]] = "whole"
    /\ pc[h] \in Fetching => owner[file[h]] = User(h)
    /\ pc[h] = "opening" => blob[file[h]] \in {"none", "whole"} \/ file[h] \in lost
    /\ pc[h] = "unlinking" => file[h] \notin db.records

\* Nobody works on a file that is being uploaded but its uploader.
Apart ==
    \A h \in Handlers, g \in Handlers :
        h # g /\ pc[h] \in Uploading /\ pc[g] \in OnFile => file[h] # file[g]

IInv ==
    /\ TypeOK /\ RecordsHaveBytes /\ AnswersHold
    /\ Drawn /\ Apart /\ \A h \in Handlers : Line(h)

States == OnFile \cup {"idle", "authorized"}

LEMMA InitIInv == Init => IInv
  <1> SUFFICES ASSUME Init PROVE IInv
    OBVIOUS
  <1> USE DEF Init
  <1>1. db = [accounts |-> {}, sessions |-> {}, records |-> {}] /\ backup = db
    OBVIOUS
  <1>2. db \in Databases /\ db.records = {} /\ db.sessions = {}
    BY <1>1 DEF Databases
  <1>3. \A h \in Handlers : pc[h] = "idle"
    OBVIOUS
  <1>4. TypeOK  BY <1>1, <1>2 DEF TypeOK, OnFile, Uploading, Fetching, Deleting
  <1>5. RecordsHaveBytes /\ AnswersHold /\ Drawn
    BY <1>1, <1>2 DEF RecordsHaveBytes, AnswersHold, Drawn, Known
  <1>6. Apart  BY <1>3 DEF Apart, Uploading
  <1>7. \A h \in Handlers : Line(h)
    BY <1>3 DEF Line, OnFile, Uploading, Fetching, Deleting
  <1>8. QED  BY <1>4, <1>5, <1>6, <1>7 DEF IInv

-----------------------------------------------------------------------------
(* What a step does, in equations *)

LEMMA Fields ==
    ASSUME NEW d \in Databases, NEW a, NEW s, NEW r
    PROVE /\ [d EXCEPT !.accounts = a] =
                [accounts |-> a, sessions |-> d.sessions, records |-> d.records]
          /\ [d EXCEPT !.sessions = s] =
                [accounts |-> d.accounts, sessions |-> s, records |-> d.records]
          /\ [d EXCEPT !.records = r] =
                [accounts |-> d.accounts, sessions |-> d.sessions, records |-> r]
          /\ d.accounts \subseteq Users /\ d.sessions \subseteq Tokens
          /\ d.records \subseteq Files
    BY DEF Databases

LEMMA MoveIs ==
    ASSUME TypeOK, NEW h \in Handlers, NEW from, NEW to \in States,
           Move(h, from, to)
    PROVE /\ pc[h] = from /\ pc'[h] = to
          /\ pc' \in [Handlers -> States]
          /\ \A g \in Handlers \ {h} : pc'[g] = pc[g]
          /\ UNCHANGED <<tok, file, recovered>>
    BY DEF Move, TypeOK, States

LEMMA TakeUpIs ==
    ASSUME TypeOK, NEW h \in Handlers, NEW f \in Files, NEW to \in States,
           TakeUp(h, f, to)
    PROVE /\ pc[h] = "authorized" /\ pc'[h] = to /\ file'[h] = f
          /\ pc' \in [Handlers -> States]
          /\ file' \in [Handlers -> Files \cup {None}]
          /\ \A g \in Handlers \ {h} : pc'[g] = pc[g] /\ file'[g] = file[g]
          /\ UNCHANGED <<tok, recovered>>
    BY DEF TakeUp, TypeOK, States

LEMMA EndIs ==
    ASSUME TypeOK, NEW h \in Handlers, NEW from, End(h, from)
    PROVE /\ pc[h] \in from /\ pc'[h] = "idle"
          /\ pc' \in [Handlers -> States]
          /\ file' \in [Handlers -> Files \cup {None}]
          /\ tok' \in [Handlers -> Tokens \cup {None}]
          /\ \A g \in Handlers \ {h} :
                pc'[g] = pc[g] /\ file'[g] = file[g] /\ tok'[g] = tok[g]
          /\ UNCHANGED recovered
    BY DEF End, TypeOK, States

-----------------------------------------------------------------------------
(* Accounts and sessions *)

LEMMA RegisterStep ==
    ASSUME IInv, NEW u \in Users, Register(u) PROVE IInv'
  <1> USE DEF IInv
  <1>1. /\ db' \in Databases /\ backup' = db
        /\ db'.records = db.records /\ db'.sessions = db.sessions
    BY Fields DEF Register, Update, TypeOK, Databases
  <1>2. UNCHANGED <<bytes, names, request, recovered, ghosts>>
    BY DEF Register
  <1> USE <1>1, <1>2 DEF bytes, names, request, ghosts
  <1>3. TypeOK'  BY DEF TypeOK
  <1>4. RecordsHaveBytes' /\ AnswersHold'
    BY DEF RecordsHaveBytes, AnswersHold
  <1>5. Drawn'  BY DEF Drawn, Known
  <1>6. Apart'  BY DEF Apart
  <1>7. ASSUME NEW h \in Handlers PROVE Line(h)'
    BY DEF Line, Known, User
  <1>8. QED  BY <1>3, <1>4, <1>5, <1>6, <1>7

LEMMA LoginStep ==
    ASSUME IInv, NEW u \in Users, NEW t \in Tokens, Login(u, t) PROVE IInv'
  <1> USE DEF IInv
  <1>1. /\ db' \in Databases /\ backup' = db
        /\ db'.records = db.records /\ db'.sessions = db.sessions \cup {t}
    BY Fields DEF Login, Update, TypeOK, Databases
  <1>2. /\ UNCHANGED <<bytes, owner, request, recovered, ghosts>>
        /\ holder[t] = None /\ holder'[t] = u /\ u # None
        /\ \A r \in Tokens \ {t} : holder'[r] = holder[r]
        /\ holder' \in [Tokens -> Users \cup {None}]
    BY DistinctAssumption DEF Login, TypeOK
  <1> USE <1>1, <1>2 DEF bytes, request, ghosts
  <1>3. TypeOK'  BY DEF TypeOK
  <1>4. RecordsHaveBytes'  BY DEF RecordsHaveBytes
  <1>5. AnswersHold'  BY DEF AnswersHold, Drawn
  <1>6. Drawn'  BY DEF Drawn, Known
  <1>7. Apart'  BY DEF Apart
  <1>8. ASSUME NEW h \in Handlers PROVE Line(h)'
    <2>1. Line(h) /\ (pc[h] # "idle" => tok[h] \in Tokens)  BY DEF TypeOK
    <2>2. pc[h] # "idle" => User(h)' = User(h) /\ User(h) # None
      BY <2>1 DEF Line, User
    <2>3. QED  BY <2>1, <2>2 DEF Line, Known, OnFile, Uploading, Fetching, Deleting, States
  <1>9. QED  BY <1>3, <1>4, <1>5, <1>6, <1>7, <1>8

LEMMA GateStep ==
    ASSUME IInv, NEW h \in Handlers, NEW t \in Tokens,
           Gate(h, t)
    PROVE IInv'
  <1> USE DEF IInv
  <1>1. /\ pc[h] = "idle" /\ pc'[h] = "authorized" /\ tok'[h] = t
        /\ pc' \in [Handlers -> States]
        /\ tok' \in [Handlers -> Tokens \cup {None}]
        /\ \A g \in Handlers \ {h} : pc'[g] = pc[g] /\ tok'[g] = tok[g]
    BY DEF Gate, TypeOK, States
  <1>2. holder[t] # None
    BY DistinctAssumption DEF Gate, Validates, TypeOK, Databases
  <1>3. UNCHANGED <<db, backup, bytes, names, file, recovered, ghosts>>
    BY DEF Gate
  <1> USE <1>1, <1>2, <1>3 DEF bytes, names, ghosts
  <1> USE DEF TypeOK, OnFile, Uploading, Fetching, Deleting, States
  <1>4. TypeOK'  OBVIOUS
  <1>5. RecordsHaveBytes'  BY DEF RecordsHaveBytes, Line
  <1>6. AnswersHold'  BY DEF AnswersHold, Line
  <1>7. Drawn'  BY DEF Drawn, Known, Line
  <1>8. Apart'  BY DEF Apart, Line
  <1>9. ASSUME NEW g \in Handlers PROVE Line(g)'
    <2>1. CASE g = h  BY <2>1 DEF Line, Known, User
    <2>2. CASE g # h
      BY <2>2 DEF Line, Known, User, Apart, Drawn
    <2>3. QED  BY <2>1, <2>2
  <1>10. QED  BY <1>4, <1>5, <1>6, <1>7, <1>8, <1>9

LEMMA LogoutStep ==
    ASSUME IInv, NEW h \in Handlers,
           Logout(h)
    PROVE IInv'
  <1> USE DEF IInv
  <1>1. /\ pc[h] \in {"authorized"} /\ pc'[h] = "idle"
        /\ pc' \in [Handlers -> States]
        /\ file' \in [Handlers -> Files \cup {None}]
        /\ tok' \in [Handlers -> Tokens \cup {None}]
        /\ \A g \in Handlers \ {h} :
            pc'[g] = pc[g] /\ file'[g] = file[g] /\ tok'[g] = tok[g]
        /\ UNCHANGED recovered
    BY EndIs DEF Logout
  <1>2. /\ db' \in Databases /\ backup' = db
        /\ db'.records = db.records /\ db'.sessions = db.sessions \ {tok[h]}
        /\ gone' = gone \cup {tok[h]} /\ tok[h] \in Tokens /\ holder[tok[h]] # None
        /\ db.records \subseteq Files /\ Tokens \cap Files = {}
    BY Fields, DistinctAssumption DEF Logout, Update, TypeOK, Databases, Line, User
  <1>3. UNCHANGED <<bytes, names, kept, lost>>
    BY DEF Logout
  <1> USE <1>1, <1>2, <1>3 DEF bytes, names, ghosts
  <1> USE DEF TypeOK, OnFile, Uploading, Fetching, Deleting, States
  <1>4. TypeOK'  OBVIOUS
  <1>5. RecordsHaveBytes'  BY DEF RecordsHaveBytes, Line
  <1>6. AnswersHold'  BY DEF AnswersHold, Line
  <1>7. Drawn'  BY DEF Drawn, Known, Line
  <1>8. Apart'  BY DEF Apart, Line
  <1>9. ASSUME NEW g \in Handlers PROVE Line(g)'
    <2>1. CASE g = h  BY <2>1 DEF Line, Known, User
    <2>2. CASE g # h
      BY <2>2 DEF Line, Known, User, Apart, Drawn
    <2>3. QED  BY <2>1, <2>2
  <1>10. QED  BY <1>4, <1>5, <1>6, <1>7, <1>8, <1>9

-----------------------------------------------------------------------------
(* Upload *)

LEMMA BeginUploadStep ==
    ASSUME IInv, NEW h \in Handlers, NEW f \in Files,
           BeginUpload(h, f)
    PROVE IInv'
  <1> USE DEF IInv
  <1>1. /\ pc[h] = "authorized" /\ pc'[h] = "named" /\ file'[h] = f
        /\ pc' \in [Handlers -> States]
        /\ file' \in [Handlers -> Files \cup {None}]
        /\ \A g \in Handlers \ {h} : pc'[g] = pc[g] /\ file'[g] = file[g]
        /\ UNCHANGED <<tok, recovered>>
    BY TakeUpIs DEF BeginUpload, States, OnFile, Uploading, Fetching, Deleting
  <1>2. /\ owner[f] = None /\ owner'[f] = User(h) /\ User(h) # None
        /\ owner' \in [Files -> Users \cup {None}]
        /\ \A e \in Files \ {f} : owner'[e] = owner[e]
    BY DEF BeginUpload, TakeUp, TypeOK, Line, User
  <1>3. f \notin Known
    BY DEF BeginUpload, Drawn
  <1>4. UNCHANGED <<db, backup, bytes, holder, ghosts>>
    BY DEF BeginUpload
  <1> USE <1>1, <1>2, <1>3, <1>4 DEF bytes, names, ghosts
  <1> USE DEF TypeOK, OnFile, Uploading, Fetching, Deleting, States
  <1>5. TypeOK'  OBVIOUS
  <1>6. RecordsHaveBytes'  BY DEF RecordsHaveBytes, Line
  <1>7. AnswersHold'  BY DEF AnswersHold, Line
  <1>8. Drawn'  BY DEF Drawn, Known, Line
  <1>9. Apart'  BY DEF Apart, Line
  <1>10. ASSUME NEW g \in Handlers PROVE Line(g)'
    <2>1. CASE g = h  BY <2>1 DEF Line, Known, User
    <2>2. CASE g # h
      BY <2>2 DEF Line, Known, User, Apart, Drawn
    <2>3. QED  BY <2>1, <2>2
  <1>11. QED  BY <1>5, <1>6, <1>7, <1>8, <1>9, <1>10

LEMMA CreateBlobStep ==
    ASSUME IInv, NEW h \in Handlers,
           CreateBlob(h)
    PROVE IInv'
  <1> USE DEF IInv
  <1>1. /\ pc[h] = "named" /\ pc'[h] = "copying"
        /\ pc' \in [Handlers -> States]
        /\ \A g \in Handlers \ {h} : pc'[g] = pc[g]
        /\ UNCHANGED <<tok, file, recovered>>
    BY MoveIs DEF CreateBlob, States, OnFile, Uploading, Fetching, Deleting
  <1>2. /\ blob' \in [Files -> {"none", "partial", "whole"}]
        /\ blob'[file[h]] = "partial"
        /\ \A f \in Files \ {file[h]} : blob'[f] = blob[f]
    BY DEF CreateBlob, Move, TypeOK, OnFile, Uploading
  <1>3. file[h] \in Files /\ file[h] \notin Known
    BY DEF CreateBlob, Move, Line, TypeOK, OnFile, Uploading
  <1>4. file[h] \notin db.records /\ db.records \subseteq Files
    BY <1>3, Fields DEF Known, TypeOK
  <1>5. UNCHANGED <<db, backup, flushed, names, ghosts>>
    BY DEF CreateBlob
  <1> USE <1>1, <1>2, <1>3, <1>4, <1>5 DEF bytes, names, ghosts
  <1> USE DEF TypeOK, OnFile, Uploading, Fetching, Deleting, States
  <1>6. TypeOK'  OBVIOUS
  <1>7. RecordsHaveBytes'  BY DEF RecordsHaveBytes, Line
  <1>8. AnswersHold'  BY DEF AnswersHold, Line
  <1>9. Drawn'  BY DEF Drawn, Known, Line
  <1>10. Apart'  BY DEF Apart, Line
  <1>11. ASSUME NEW g \in Handlers PROVE Line(g)'
    <2>1. CASE g = h  BY <2>1 DEF Line, Known, User
    <2>2. CASE g # h
      BY <2>2 DEF Line, Known, User, Apart, Drawn
    <2>3. QED  BY <2>1, <2>2
  <1>12. QED  BY <1>6, <1>7, <1>8, <1>9, <1>10, <1>11

LEMMA CopyBlobStep ==
    ASSUME IInv, NEW h \in Handlers,
           CopyBlob(h)
    PROVE IInv'
  <1> USE DEF IInv
  <1>1. /\ pc[h] = "copying" /\ pc'[h] = "copied"
        /\ pc' \in [Handlers -> States]
        /\ \A g \in Handlers \ {h} : pc'[g] = pc[g]
        /\ UNCHANGED <<tok, file, recovered>>
    BY MoveIs DEF CopyBlob, States, OnFile, Uploading, Fetching, Deleting
  <1>2. /\ blob' \in [Files -> {"none", "partial", "whole"}]
        /\ blob'[file[h]] = "whole"
        /\ \A f \in Files \ {file[h]} : blob'[f] = blob[f]
    BY DEF CopyBlob, Move, TypeOK, OnFile, Uploading
  <1>3. file[h] \in Files /\ file[h] \notin Known
    BY DEF CopyBlob, Move, Line, TypeOK, OnFile, Uploading
  <1>4. file[h] \notin db.records /\ db.records \subseteq Files
    BY <1>3, Fields DEF Known, TypeOK
  <1>5. UNCHANGED <<db, backup, flushed, names, ghosts>>
    BY DEF CopyBlob
  <1> USE <1>1, <1>2, <1>3, <1>4, <1>5 DEF bytes, names, ghosts
  <1> USE DEF TypeOK, OnFile, Uploading, Fetching, Deleting, States
  <1>6. TypeOK'  OBVIOUS
  <1>7. RecordsHaveBytes'  BY DEF RecordsHaveBytes, Line
  <1>8. AnswersHold'  BY DEF AnswersHold, Line
  <1>9. Drawn'  BY DEF Drawn, Known, Line
  <1>10. Apart'  BY DEF Apart, Line
  <1>11. ASSUME NEW g \in Handlers PROVE Line(g)'
    <2>1. CASE g = h  BY <2>1 DEF Line, Known, User
    <2>2. CASE g # h
      BY <2>2 DEF Line, Known, User, Apart, Drawn
    <2>3. QED  BY <2>1, <2>2
  <1>12. QED  BY <1>6, <1>7, <1>8, <1>9, <1>10, <1>11

LEMMA RecordStep ==
    ASSUME IInv, NEW h \in Handlers,
           Record(h)
    PROVE IInv'
  <1> USE DEF IInv
  <1>1. /\ pc[h] \in {"copied"} /\ pc'[h] = "idle"
        /\ pc' \in [Handlers -> States]
        /\ file' \in [Handlers -> Files \cup {None}]
        /\ tok' \in [Handlers -> Tokens \cup {None}]
        /\ \A g \in Handlers \ {h} :
            pc'[g] = pc[g] /\ file'[g] = file[g] /\ tok'[g] = tok[g]
        /\ UNCHANGED recovered
    BY EndIs DEF Record
  <1>2. /\ db' \in Databases /\ backup' = db
        /\ db'.sessions = db.sessions /\ db'.records = db.records \cup {file[h]}
    BY Fields DEF Record, Update, TypeOK, Databases, OnFile, Uploading, Deleting
  <1>3. kept' = kept \cup {file[h]} /\ file[h] \in Files
    BY DEF Record, TypeOK, OnFile, Uploading
  <1>4. file[h] \notin Known /\ file[h] \notin gone
    BY DEF Record, Line, Known, Uploading
  <1>5. UNCHANGED <<bytes, names, gone, lost>>
    BY DEF Record
  <1> USE <1>1, <1>2, <1>3, <1>4, <1>5 DEF bytes, names, ghosts
  <1> USE DEF TypeOK, OnFile, Uploading, Fetching, Deleting, States
  <1>6. TypeOK'  OBVIOUS
  <1>7. RecordsHaveBytes'  BY DEF RecordsHaveBytes, Line
  <1>8. AnswersHold'  BY DEF AnswersHold, Line
  <1>9. Drawn'  BY DEF Drawn, Known, Line
  <1>10. Apart'  BY DEF Apart, Line
  <1>11. ASSUME NEW g \in Handlers PROVE Line(g)'
    <2>1. CASE g = h  BY <2>1 DEF Line, Known, User
    <2>2. CASE g # h
      BY <2>2 DEF Line, Known, User, Apart, Drawn
    <2>3. QED  BY <2>1, <2>2
  <1>12. QED  BY <1>6, <1>7, <1>8, <1>9, <1>10, <1>11

LEMMA UploadFailsStep ==
    ASSUME IInv, NEW h \in Handlers,
           UploadFails(h)
    PROVE IInv'
  <1> USE DEF IInv
  <1>1. /\ pc[h] \in Uploading /\ pc'[h] = "idle"
        /\ pc' \in [Handlers -> States]
        /\ file' \in [Handlers -> Files \cup {None}]
        /\ tok' \in [Handlers -> Tokens \cup {None}]
        /\ \A g \in Handlers \ {h} :
            pc'[g] = pc[g] /\ file'[g] = file[g] /\ tok'[g] = tok[g]
        /\ UNCHANGED recovered
    BY EndIs DEF UploadFails
  <1>2. UNCHANGED <<db, backup, bytes, names, ghosts>>
    BY DEF UploadFails
  <1> USE <1>1, <1>2 DEF bytes, names, ghosts
  <1> USE DEF TypeOK, OnFile, Uploading, Fetching, Deleting, States
  <1>3. TypeOK'  OBVIOUS
  <1>4. RecordsHaveBytes'  BY DEF RecordsHaveBytes, Line
  <1>5. AnswersHold'  BY DEF AnswersHold, Line
  <1>6. Drawn'  BY DEF Drawn, Known, Line
  <1>7. Apart'  BY DEF Apart, Line
  <1>8. ASSUME NEW g \in Handlers PROVE Line(g)'
    <2>1. CASE g = h  BY <2>1 DEF Line, Known, User
    <2>2. CASE g # h
      BY <2>2 DEF Line, Known, User, Apart, Drawn
    <2>3. QED  BY <2>1, <2>2
  <1>9. QED  BY <1>3, <1>4, <1>5, <1>6, <1>7, <1>8

-----------------------------------------------------------------------------
(* Download and deletion *)

LEMMA FindFileStep ==
    ASSUME IInv, NEW h \in Handlers, NEW f \in Files,
           FindFile(h, f)
    PROVE IInv'
  <1> USE DEF IInv
  <1>1. /\ pc[h] = "authorized" /\ pc'[h] = "opening" /\ file'[h] = f
        /\ pc' \in [Handlers -> States]
        /\ file' \in [Handlers -> Files \cup {None}]
        /\ \A g \in Handlers \ {h} : pc'[g] = pc[g] /\ file'[g] = file[g]
        /\ UNCHANGED <<tok, recovered>>
    BY TakeUpIs DEF FindFile, States, OnFile, Uploading, Fetching, Deleting
  <1>2. f \in db.records /\ owner[f] = User(h) /\ User(h) # None
    BY DEF FindFile, TakeUp, Visible, Line
  <1>3. owner[f] # None /\ (blob[f] = "whole" \/ f \in lost)
    BY <1>2 DEF RecordsHaveBytes
  <1>4. \A g \in Handlers : pc[g] \in Uploading => file[g] # f
    BY <1>2 DEF Line, Known
  <1>5. UNCHANGED <<db, backup, bytes, names, ghosts>>
    BY DEF FindFile
  <1> USE <1>1, <1>2, <1>3, <1>4, <1>5 DEF bytes, names, ghosts
  <1> USE DEF TypeOK, OnFile, Uploading, Fetching, Deleting, States
  <1>6. TypeOK'  OBVIOUS
  <1>7. RecordsHaveBytes'  BY DEF RecordsHaveBytes, Line
  <1>8. AnswersHold'  BY DEF AnswersHold, Line
  <1>9. Drawn'  BY DEF Drawn, Known, Line
  <1>10. Apart'  BY DEF Apart, Line
  <1>11. ASSUME NEW g \in Handlers PROVE Line(g)'
    <2>1. CASE g = h  BY <2>1 DEF Line, Known, User
    <2>2. CASE g # h
      BY <2>2 DEF Line, Known, User, Apart, Drawn
    <2>3. QED  BY <2>1, <2>2
  <1>12. QED  BY <1>6, <1>7, <1>8, <1>9, <1>10, <1>11

LEMMA OpenBlobStep ==
    ASSUME IInv, NEW h \in Handlers,
           OpenBlob(h)
    PROVE IInv'
  <1> USE DEF IInv
  <1>1. /\ pc[h] = "opening" /\ pc'[h] = "serving"
        /\ pc' \in [Handlers -> States]
        /\ \A g \in Handlers \ {h} : pc'[g] = pc[g]
        /\ UNCHANGED <<tok, file, recovered>>
    BY MoveIs DEF OpenBlob, States, OnFile, Uploading, Fetching, Deleting
  <1>2. UNCHANGED <<db, backup, bytes, names, ghosts>>
    BY DEF OpenBlob
  <1> USE <1>1, <1>2 DEF bytes, names, ghosts
  <1> USE DEF TypeOK, OnFile, Uploading, Fetching, Deleting, States
  <1>3. TypeOK'  OBVIOUS
  <1>4. RecordsHaveBytes'  BY DEF RecordsHaveBytes, Line
  <1>5. AnswersHold'  BY DEF AnswersHold, Line
  <1>6. Drawn'  BY DEF Drawn, Known, Line
  <1>7. Apart'  BY DEF Apart, Line
  <1>8. ASSUME NEW g \in Handlers PROVE Line(g)'
    <2>1. CASE g = h  BY <2>1 DEF Line, Known, User
    <2>2. CASE g # h
      BY <2>2 DEF Line, Known, User, Apart, Drawn
    <2>3. QED  BY <2>1, <2>2
  <1>9. QED  BY <1>3, <1>4, <1>5, <1>6, <1>7, <1>8

LEMMA OpenFailsStep ==
    ASSUME IInv, NEW h \in Handlers,
           OpenFails(h)
    PROVE IInv'
  <1> USE DEF IInv
  <1>1. /\ pc[h] \in {"opening"} /\ pc'[h] = "idle"
        /\ pc' \in [Handlers -> States]
        /\ file' \in [Handlers -> Files \cup {None}]
        /\ tok' \in [Handlers -> Tokens \cup {None}]
        /\ \A g \in Handlers \ {h} :
            pc'[g] = pc[g] /\ file'[g] = file[g] /\ tok'[g] = tok[g]
        /\ UNCHANGED recovered
    BY EndIs DEF OpenFails
  <1>2. UNCHANGED <<db, backup, bytes, names, ghosts>>
    BY DEF OpenFails
  <1> USE <1>1, <1>2 DEF bytes, names, ghosts
  <1> USE DEF TypeOK, OnFile, Uploading, Fetching, Deleting, States
  <1>3. TypeOK'  OBVIOUS
  <1>4. RecordsHaveBytes'  BY DEF RecordsHaveBytes, Line
  <1>5. AnswersHold'  BY DEF AnswersHold, Line
  <1>6. Drawn'  BY DEF Drawn, Known, Line
  <1>7. Apart'  BY DEF Apart, Line
  <1>8. ASSUME NEW g \in Handlers PROVE Line(g)'
    <2>1. CASE g = h  BY <2>1 DEF Line, Known, User
    <2>2. CASE g # h
      BY <2>2 DEF Line, Known, User, Apart, Drawn
    <2>3. QED  BY <2>1, <2>2
  <1>9. QED  BY <1>3, <1>4, <1>5, <1>6, <1>7, <1>8

LEMMA FinishStep ==
    ASSUME IInv, NEW h \in Handlers,
           Finish(h)
    PROVE IInv'
  <1> USE DEF IInv
  <1>1. /\ pc[h] \in {"serving", "authorized"} /\ pc'[h] = "idle"
        /\ pc' \in [Handlers -> States]
        /\ file' \in [Handlers -> Files \cup {None}]
        /\ tok' \in [Handlers -> Tokens \cup {None}]
        /\ \A g \in Handlers \ {h} :
            pc'[g] = pc[g] /\ file'[g] = file[g] /\ tok'[g] = tok[g]
        /\ UNCHANGED recovered
    BY EndIs DEF Finish
  <1>2. UNCHANGED <<db, backup, bytes, names, ghosts>>
    BY DEF Finish
  <1> USE <1>1, <1>2 DEF bytes, names, ghosts
  <1> USE DEF TypeOK, OnFile, Uploading, Fetching, Deleting, States
  <1>3. TypeOK'  OBVIOUS
  <1>4. RecordsHaveBytes'  BY DEF RecordsHaveBytes, Line
  <1>5. AnswersHold'  BY DEF AnswersHold, Line
  <1>6. Drawn'  BY DEF Drawn, Known, Line
  <1>7. Apart'  BY DEF Apart, Line
  <1>8. ASSUME NEW g \in Handlers PROVE Line(g)'
    <2>1. CASE g = h  BY <2>1 DEF Line, Known, User
    <2>2. CASE g # h
      BY <2>2 DEF Line, Known, User, Apart, Drawn
    <2>3. QED  BY <2>1, <2>2
  <1>9. QED  BY <1>3, <1>4, <1>5, <1>6, <1>7, <1>8

LEMMA FindDeletedStep ==
    ASSUME IInv, NEW h \in Handlers, NEW f \in Files,
           FindDeleted(h, f)
    PROVE IInv'
  <1> USE DEF IInv
  <1>1. /\ pc[h] = "authorized" /\ pc'[h] = "deleting" /\ file'[h] = f
        /\ pc' \in [Handlers -> States]
        /\ file' \in [Handlers -> Files \cup {None}]
        /\ \A g \in Handlers \ {h} : pc'[g] = pc[g] /\ file'[g] = file[g]
        /\ UNCHANGED <<tok, recovered>>
    BY TakeUpIs DEF FindDeleted, States, OnFile, Uploading, Fetching, Deleting
  <1>2. f \in db.records /\ owner[f] = User(h) /\ User(h) # None
    BY DEF FindDeleted, TakeUp, Visible, Line
  <1>3. owner[f] # None /\ (blob[f] = "whole" \/ f \in lost)
    BY <1>2 DEF RecordsHaveBytes
  <1>4. \A g \in Handlers : pc[g] \in Uploading => file[g] # f
    BY <1>2 DEF Line, Known
  <1>5. UNCHANGED <<db, backup, bytes, names, ghosts>>
    BY DEF FindDeleted
  <1> USE <1>1, <1>2, <1>3, <1>4, <1>5 DEF bytes, names, ghosts
  <1> USE DEF TypeOK, OnFile, Uploading, Fetching, Deleting, States
  <1>6. TypeOK'  OBVIOUS
  <1>7. RecordsHaveBytes'  BY DEF RecordsHaveBytes, Line
  <1>8. AnswersHold'  BY DEF AnswersHold, Line
  <1>9. Drawn'  BY DEF Drawn, Known, Line
  <1>10. Apart'  BY DEF Apart, Line
  <1>11. ASSUME NEW g \in Handlers PROVE Line(g)'
    <2>1. CASE g = h  BY <2>1 DEF Line, Known, User
    <2>2. CASE g # h
      BY <2>2 DEF Line, Known, User, Apart, Drawn
    <2>3. QED  BY <2>1, <2>2
  <1>12. QED  BY <1>6, <1>7, <1>8, <1>9, <1>10, <1>11

LEMMA RemoveRecordStep ==
    ASSUME IInv, NEW h \in Handlers,
           RemoveRecord(h)
    PROVE IInv'
  <1> USE DEF IInv
  <1>1. /\ pc[h] = "deleting" /\ pc'[h] = "unlinking"
        /\ pc' \in [Handlers -> States]
        /\ \A g \in Handlers \ {h} : pc'[g] = pc[g]
        /\ UNCHANGED <<tok, file, recovered>>
    BY MoveIs DEF RemoveRecord, States, OnFile, Uploading, Fetching, Deleting
  <1>2. /\ db' \in Databases /\ backup' = db
        /\ db'.sessions = db.sessions /\ db'.records = db.records \ {file[h]}
    BY Fields DEF RemoveRecord, Update, TypeOK, Databases, OnFile, Uploading, Deleting
  <1>3. kept' = kept \ {file[h]}
    BY DEF RemoveRecord
  <1>4. UNCHANGED <<bytes, names, gone, lost>>
    BY DEF RemoveRecord
  <1> USE <1>1, <1>2, <1>3, <1>4 DEF bytes, names, ghosts
  <1> USE DEF TypeOK, OnFile, Uploading, Fetching, Deleting, States
  <1>5. TypeOK'  OBVIOUS
  <1>6. RecordsHaveBytes'  BY DEF RecordsHaveBytes, Line
  <1>7. AnswersHold'  BY DEF AnswersHold, Line
  <1>8. Drawn'  BY DEF Drawn, Known, Line
  <1>9. Apart'  BY DEF Apart, Line
  <1>10. ASSUME NEW g \in Handlers PROVE Line(g)'
    <2>1. CASE g = h  BY <2>1 DEF Line, Known, User
    <2>2. CASE g # h
      BY <2>2 DEF Line, Known, User, Apart, Drawn
    <2>3. QED  BY <2>1, <2>2
  <1>11. QED  BY <1>5, <1>6, <1>7, <1>8, <1>9, <1>10

LEMMA RemoveFailsStep ==
    ASSUME IInv, NEW h \in Handlers,
           RemoveFails(h)
    PROVE IInv'
  <1> USE DEF IInv
  <1>1. /\ pc[h] \in {"deleting"} /\ pc'[h] = "idle"
        /\ pc' \in [Handlers -> States]
        /\ file' \in [Handlers -> Files \cup {None}]
        /\ tok' \in [Handlers -> Tokens \cup {None}]
        /\ \A g \in Handlers \ {h} :
            pc'[g] = pc[g] /\ file'[g] = file[g] /\ tok'[g] = tok[g]
        /\ UNCHANGED recovered
    BY EndIs DEF RemoveFails
  <1>2. UNCHANGED <<db, backup, bytes, names, ghosts>>
    BY DEF RemoveFails
  <1> USE <1>1, <1>2 DEF bytes, names, ghosts
  <1> USE DEF TypeOK, OnFile, Uploading, Fetching, Deleting, States
  <1>3. TypeOK'  OBVIOUS
  <1>4. RecordsHaveBytes'  BY DEF RecordsHaveBytes, Line
  <1>5. AnswersHold'  BY DEF AnswersHold, Line
  <1>6. Drawn'  BY DEF Drawn, Known, Line
  <1>7. Apart'  BY DEF Apart, Line
  <1>8. ASSUME NEW g \in Handlers PROVE Line(g)'
    <2>1. CASE g = h  BY <2>1 DEF Line, Known, User
    <2>2. CASE g # h
      BY <2>2 DEF Line, Known, User, Apart, Drawn
    <2>3. QED  BY <2>1, <2>2
  <1>9. QED  BY <1>3, <1>4, <1>5, <1>6, <1>7, <1>8

LEMMA UnlinkStep ==
    ASSUME IInv, NEW h \in Handlers,
           Unlink(h)
    PROVE IInv'
  <1> USE DEF IInv
  <1>1. /\ pc[h] \in {"unlinking"} /\ pc'[h] = "idle"
        /\ pc' \in [Handlers -> States]
        /\ file' \in [Handlers -> Files \cup {None}]
        /\ tok' \in [Handlers -> Tokens \cup {None}]
        /\ \A g \in Handlers \ {h} :
            pc'[g] = pc[g] /\ file'[g] = file[g] /\ tok'[g] = tok[g]
        /\ UNCHANGED recovered
    BY EndIs DEF Unlink
  <1>2. /\ blob' \in [Files -> {"none", "partial", "whole"}]
        /\ blob'[file[h]] \in {"none", blob[file[h]]}
        /\ \A f \in Files \ {file[h]} : blob'[f] = blob[f]
        /\ gone' = gone \cup {file[h]} /\ file[h] \in Files
        /\ db.sessions \subseteq Tokens /\ Tokens \cap Files = {}
    BY Fields, DistinctAssumption DEF Unlink, TypeOK, OnFile, Deleting
  <1>3. file[h] \notin db.records /\ db.records \subseteq Files
    BY Fields DEF Unlink, Line, TypeOK
  <1>4. UNCHANGED <<db, backup, flushed, names, kept, lost>>
    BY DEF Unlink
  <1> USE <1>1, <1>2, <1>3, <1>4 DEF bytes, names, ghosts
  <1> USE DEF TypeOK, OnFile, Uploading, Fetching, Deleting, States
  <1>5. TypeOK'  OBVIOUS
  <1>6. RecordsHaveBytes'  BY DEF RecordsHaveBytes, Line
  <1>7. AnswersHold'  BY DEF AnswersHold, Line
  <1>8. Drawn'  BY DEF Drawn, Known, Line
  <1>9. Apart'  BY DEF Apart, Line
  <1>10. ASSUME NEW g \in Handlers PROVE Line(g)'
    <2>1. CASE g = h  BY <2>1 DEF Line, Known, User
    <2>2. CASE g # h
      BY <2>2 DEF Line, Known, User, Apart, Drawn
    <2>3. QED  BY <2>1, <2>2
  <1>11. QED  BY <1>5, <1>6, <1>7, <1>8, <1>9, <1>10

-----------------------------------------------------------------------------
(* Faults *)

LEMMA FlushStep ==
    ASSUME IInv, NEW f \in Files, Flush(f) PROVE IInv'
  <1> USE DEF IInv, Flush, names, request, ghosts
  <1>1. TypeOK'  BY DEF TypeOK
  <1>2. RecordsHaveBytes' /\ AnswersHold' /\ Drawn' /\ Apart'
    BY DEF RecordsHaveBytes, AnswersHold, Drawn, Known, Apart
  <1>3. ASSUME NEW h \in Handlers PROVE Line(h)'
    BY DEF Line, Known, User
  <1>4. QED  BY <1>1, <1>2, <1>3

\* Nobody relies on anything after a restart.
LEMMA ReopenIs ==
    ASSUME TypeOK, Reopen
    PROVE /\ pc' \in [Handlers -> States] /\ \A h \in Handlers : pc'[h] = "idle"
          /\ tok' \in [Handlers -> Tokens \cup {None}]
          /\ file' \in [Handlers -> Files \cup {None}]
          /\ Apart' /\ \A h \in Handlers : Line(h)'
          /\ UNCHANGED <<flushed, names, kept, gone>>
    BY DEF Reopen, TypeOK, States, Apart, Line, OnFile, Uploading, Fetching, Deleting

LEMMA KillStep == ASSUME IInv, Kill PROVE IInv'
  <1> USE DEF IInv, Kill, names
  <1>1. TypeOK'
    BY ReopenIs DEF TypeOK, States, OnFile, Uploading, Fetching, Deleting
  <1>2. RecordsHaveBytes' /\ AnswersHold' /\ Drawn'
    BY ReopenIs DEF RecordsHaveBytes, AnswersHold, Drawn, Known
  <1>3. QED  BY <1>1, <1>2, ReopenIs

LEMMA PowerFailureStep == ASSUME IInv, PowerFailure PROVE IInv'
  <1> USE DEF IInv, names
  <1>1. PICK hurt \in SUBSET ({f \in Files : blob[f] = "whole"} \ flushed) :
            /\ blob' = [f \in Files |-> IF f \in hurt THEN "partial" ELSE blob[f]]
            /\ lost' = lost \cup hurt
    BY DEF PowerFailure
  <1>2. UNCHANGED <<db, backup, recovered>> /\ Reopen  BY DEF PowerFailure
  <1> USE <1>1, <1>2
  <1>3. TypeOK'
    BY ReopenIs DEF TypeOK, States, OnFile, Uploading, Fetching, Deleting
  <1>4. RecordsHaveBytes'  BY Fields DEF RecordsHaveBytes, TypeOK
  <1>5. AnswersHold' /\ Drawn'
    BY ReopenIs DEF AnswersHold, Drawn, Known
  <1>6. QED  BY <1>3, <1>4, <1>5, ReopenIs

LEMMA RecoverStep == ASSUME IInv, Recover PROVE IInv'
  <1> USE DEF IInv, Recover, names, Undone
  <1>1. TypeOK'
    BY ReopenIs, Fields
    DEF TypeOK, States, OnFile, Uploading, Fetching, Deleting
  <1>2. RecordsHaveBytes'  BY DEF RecordsHaveBytes
  <1>3. AnswersHold'  BY ReopenIs DEF AnswersHold
  <1>4. Drawn'  BY ReopenIs DEF Drawn, Known
  <1>5. QED  BY <1>1, <1>2, <1>3, <1>4, ReopenIs

-----------------------------------------------------------------------------

LEMMA StutterStep == ASSUME IInv, UNCHANGED vars PROVE IInv'
  <1> USE DEF IInv, vars
  <1>1. TypeOK'  BY DEF TypeOK
  <1>2. RecordsHaveBytes' /\ AnswersHold' /\ Drawn' /\ Apart'
    BY DEF RecordsHaveBytes, AnswersHold, Drawn, Known, Apart
  <1>3. ASSUME NEW h \in Handlers PROVE Line(h)'
    BY DEF Line, Known, User
  <1>4. QED  BY <1>1, <1>2, <1>3

LEMMA Inductive == IInv /\ [Next]_vars => IInv'
  <1> SUFFICES ASSUME IInv, [Next]_vars PROVE IInv'
    OBVIOUS
  <1>1. ASSUME NEW h \in Handlers, SessionSteps(h) PROVE IInv'
    BY <1>1, GateStep, LogoutStep DEF SessionSteps
  <1>2. ASSUME NEW h \in Handlers, UploadSteps(h) PROVE IInv'
    BY <1>2, BeginUploadStep, CreateBlobStep, CopyBlobStep, RecordStep,
       UploadFailsStep
    DEF UploadSteps
  <1>3. ASSUME NEW h \in Handlers, DownloadSteps(h) PROVE IInv'
    BY <1>3, FindFileStep, OpenBlobStep, OpenFailsStep, FinishStep
    DEF DownloadSteps
  <1>4. ASSUME NEW h \in Handlers, DeleteSteps(h) PROVE IInv'
    BY <1>4, FindDeletedStep, RemoveRecordStep, RemoveFailsStep, UnlinkStep
    DEF DeleteSteps
  <1>5. ASSUME NEW u \in Users, Register(u) \/ \E t \in Tokens : Login(u, t)
        PROVE IInv'
    BY <1>5, RegisterStep, LoginStep
  <1>6. CASE \E f \in Files : Flush(f)  BY <1>6, FlushStep
  <1>7. CASE Kill \/ PowerFailure \/ Recover
    BY <1>7, KillStep, PowerFailureStep, RecoverStep
  <1>8. CASE UNCHANGED vars  BY <1>8, StutterStep
  <1>9. QED  BY <1>1, <1>2, <1>3, <1>4, <1>5, <1>6, <1>7, <1>8 DEF Next

LEMMA IInvHolds == Spec => []IInv
  BY InitIInv, Inductive, PTL DEF Spec

\* The accounts, sessions, records and bytes keep their types, and so does
\* what every handler holds (cloud.go, cloud_handlers.go).
THEOREM CloudTypeCorrect == Spec => []TypeOK
  <1>1. IInv => TypeOK  BY DEF IInv
  <1>2. QED  BY IInvHolds, <1>1, PTL

\* SaveFile and DeleteFile order their two writes so that no kill, failure or
\* other request leaves a record without its bytes.
THEOREM CloudRecordsHaveBytes == Spec => []RecordsHaveBytes
  <1>1. IInv => RecordsHaveBytes  BY DEF IInv
  <1>2. QED  BY IInvHolds, <1>1, PTL

\* Uploads, deletions and logouts hold once they are answered (Update).
THEOREM CloudAnswersHold == Spec => []AnswersHold
  <1>1. IInv => AnswersHold  BY DEF IInv
  <1>2. QED  BY IInvHolds, <1>1, PTL

\* A file is served by nobody who did not open it.
LEMMA OnlyOpenBlob ==
    ASSUME TypeOK, Next, NEW h \in Handlers, pc[h] = "opening", pc'[h] = "serving"
    PROVE blob[file[h]] # "none"
  <1>1. ASSUME NEW g \in Handlers, OpenBlob(g) PROVE blob[file[h]] # "none"
    BY <1>1 DEF OpenBlob, Move, TypeOK
  <1>2. ASSUME NEW g \in Handlers, SessionSteps(g) PROVE pc'[h] # "serving"
    BY <1>2 DEF SessionSteps, Gate, Logout, End, TypeOK
  <1>3. ASSUME NEW g \in Handlers, UploadSteps(g) PROVE pc'[h] # "serving"
    BY <1>3
    DEF UploadSteps, BeginUpload, CreateBlob, CopyBlob, Record, UploadFails,
        Move, TakeUp, End, TypeOK
  <1>4. ASSUME NEW g \in Handlers, DownloadSteps(g)
        PROVE pc'[h] # "serving" \/ OpenBlob(g)
    BY <1>4 DEF DownloadSteps, FindFile, OpenFails, Finish, TakeUp, End, TypeOK
  <1>5. ASSUME NEW g \in Handlers, DeleteSteps(g) PROVE pc'[h] # "serving"
    BY <1>5
    DEF DeleteSteps, FindDeleted, RemoveRecord, RemoveFails, Unlink, Move,
        TakeUp, End, TypeOK
  <1>6. ASSUME NEW u \in Users, Register(u) \/ \E t \in Tokens : Login(u, t)
        PROVE pc'[h] # "serving"
    BY <1>6 DEF Register, Login, request
  <1>7. ASSUME NEW f \in Files, Flush(f) PROVE pc'[h] # "serving"
    BY <1>7 DEF Flush, request
  <1>8. CASE Kill \/ PowerFailure \/ Recover
    BY <1>8 DEF Kill, PowerFailure, Recover, Reopen
  <1>9. QED  BY <1>1, <1>2, <1>3, <1>4, <1>5, <1>6, <1>7, <1>8 DEF Next

\* OpenFile gives whole files to their owners, whatever happened since it
\* looked the record up.
THEOREM CloudDownloadsWhole == Spec => DownloadsWhole
  <1> DEFINE Step == \A h \in Handlers :
                pc[h] = "opening" /\ pc'[h] = "serving" =>
                    /\ owner[file[h]] = User(h)
                    /\ file[h] \in lost \/ blob[file[h]] = "whole"
  <1>1. IInv /\ [Next]_vars => [Step]_vars
    <2> SUFFICES ASSUME IInv, Next, NEW h \in Handlers,
                        pc[h] = "opening", pc'[h] = "serving"
                 PROVE /\ owner[file[h]] = User(h)
                       /\ file[h] \in lost \/ blob[file[h]] = "whole"
      OBVIOUS
    <2>1. Line(h)  BY DEF IInv
    <2>2. owner[file[h]] = User(h)  BY <2>1 DEF Line, Fetching
    <2>3. blob[file[h]] # "none"  BY OnlyOpenBlob DEF IInv
    <2>4. QED  BY <2>1, <2>2, <2>3 DEF Line
  <1>2. QED  BY IInvHolds, <1>1, PTL DEF Spec, DownloadsWhole
-----------------------------------------------------------------------------
(* What only a load from the backup can do *)

\* Killed handlers, power failures and requests that overlap take no answer
\* back: of all faults, only the load from the backup does.
AnswersHoldTillRecovery ==
    ~recovered => /\ kept \subseteq db.records
                  /\ gone \cap (db.records \cup db.sessions) = {}

\* Who deletes a file owns it.
DeletesOwn == \A h \in Handlers : pc[h] \in Deleting => owner[file[h]] = User(h)

\* A file leaves the list by a deletion its owner asked for, a session by its
\* own logout, and an account never.
OwnersAsked ==
    /\ \A f \in db.records \ db'.records : \E h \in Handlers :
        pc[h] = "deleting" /\ file[h] = f /\ owner[f] = User(h)
    /\ \A t \in db.sessions \ db'.sessions : \E h \in Handlers :
        pc[h] = "authorized" /\ pc'[h] = "idle" /\ tok[h] = t
    /\ db.accounts \subseteq db'.accounts

OwnersDecide == [][recovered' = recovered => OwnersAsked]_vars
LEMMA DbStep ==
    ASSUME Next
    PROVE \/ UNCHANGED <<db, kept, gone, recovered>>
          \/ Recover
          \/ \E u \in Users : Register(u) \/ \E t \in Tokens : Login(u, t)
          \/ \E h \in Handlers :
                Logout(h) \/ Record(h) \/ RemoveRecord(h) \/ Unlink(h)
  <1> USE DEF bytes, names, request, ghosts, Move, TakeUp, End
  <1>1. ASSUME NEW h \in Handlers, SessionSteps(h)
        PROVE Logout(h) \/ UNCHANGED <<db, kept, gone, recovered>>
    BY <1>1 DEF SessionSteps, Gate
  <1>2. ASSUME NEW h \in Handlers, UploadSteps(h)
        PROVE Record(h) \/ UNCHANGED <<db, kept, gone, recovered>>
    BY <1>2 DEF UploadSteps, BeginUpload, CreateBlob, CopyBlob, UploadFails
  <1>3. ASSUME NEW h \in Handlers, DownloadSteps(h)
        PROVE UNCHANGED <<db, kept, gone, recovered>>
    BY <1>3 DEF DownloadSteps, FindFile, OpenBlob, OpenFails, Finish
  <1>4. ASSUME NEW h \in Handlers, DeleteSteps(h)
        PROVE \/ RemoveRecord(h) \/ Unlink(h)
              \/ UNCHANGED <<db, kept, gone, recovered>>
    BY <1>4 DEF DeleteSteps, FindDeleted, RemoveFails
  <1>5. ASSUME NEW f \in Files, Flush(f)
        PROVE UNCHANGED <<db, kept, gone, recovered>>
    BY <1>5 DEF Flush
  <1>6. CASE Kill \/ PowerFailure
    BY <1>6 DEF Kill, PowerFailure, Reopen
  <1>7. QED  BY <1>1, <1>2, <1>3, <1>4, <1>5, <1>6 DEF Next

LEMMA TillRecoveryNext ==
    ASSUME IInv, AnswersHoldTillRecovery, Next PROVE AnswersHoldTillRecovery'
  <1> USE DEF IInv, AnswersHoldTillRecovery
  <1>1. db \in Databases  BY DEF TypeOK
  <1>2. ASSUME NEW u \in Users, Register(u) PROVE AnswersHoldTillRecovery'
    BY <1>1, <1>2, Fields DEF Register, Update, ghosts
  <1>3. ASSUME NEW u \in Users, NEW t \in Tokens, Login(u, t)
        PROVE AnswersHoldTillRecovery'
    <2>1. t \notin gone  BY <1>3 DEF Login, Drawn
    <2>2. QED  BY <1>1, <1>3, <2>1, Fields DEF Login, Update, ghosts
  <1>4. ASSUME NEW h \in Handlers, Logout(h) PROVE AnswersHoldTillRecovery'
    <2>1. tok[h] \in Tokens  BY <1>4 DEF Logout, TypeOK
    <2>2. tok[h] \notin db.records  BY <1>1, <2>1, Fields, DistinctAssumption
    <2>3. recovered' = recovered  BY <1>4 DEF Logout, End
    <2>4. QED  BY <1>1, <1>4, <2>2, <2>3, Fields DEF Logout, Update
  <1>5. ASSUME NEW h \in Handlers, Record(h) PROVE AnswersHoldTillRecovery'
    <2>1. file[h] \notin gone  BY <1>5 DEF Record, Line, Uploading, Known
    <2>2. recovered' = recovered  BY <1>5 DEF Record, End
    <2>3. QED  BY <1>1, <1>5, <2>1, <2>2, Fields DEF Record, Update
  <1>6. ASSUME NEW h \in Handlers, RemoveRecord(h)
        PROVE AnswersHoldTillRecovery'
    <2>1. recovered' = recovered  BY <1>6 DEF RemoveRecord, Move
    <2>2. QED  BY <1>1, <1>6, <2>1, Fields DEF RemoveRecord, Update
  <1>7. ASSUME NEW h \in Handlers, Unlink(h) PROVE AnswersHoldTillRecovery'
    <2>1. file[h] \in Files /\ file[h] \notin db.records
      BY <1>7 DEF Unlink, Line, TypeOK, OnFile, Deleting
    <2>2. file[h] \notin db.sessions  BY <1>1, <2>1, Fields, DistinctAssumption
    <2>3. recovered' = recovered  BY <1>7 DEF Unlink, End
    <2>4. QED  BY <1>7, <2>1, <2>2, <2>3 DEF Unlink
  <1>8. CASE Recover  BY <1>8 DEF Recover
  <1>9. CASE UNCHANGED <<db, kept, gone, recovered>>  BY <1>9
  <1>10. QED  BY <1>2, <1>3, <1>4, <1>5, <1>6, <1>7, <1>8, <1>9, DbStep

\* Uploads, deletions and logouts that were answered hold through every kill
\* and every power failure, until state.json has to be read from its backup.
THEOREM CloudAnswersHoldTillRecovery == Spec => []AnswersHoldTillRecovery
  <1>1. Init => AnswersHoldTillRecovery  BY DEF Init, AnswersHoldTillRecovery
  <1>2. IInv /\ AnswersHoldTillRecovery /\ [Next]_vars => AnswersHoldTillRecovery'
    <2>1. AnswersHoldTillRecovery /\ UNCHANGED vars => AnswersHoldTillRecovery'
      BY DEF AnswersHoldTillRecovery, vars
    <2>2. QED  BY <2>1, TillRecoveryNext
  <1>3. QED  BY IInvHolds, <1>1, <1>2, PTL DEF Spec

\* Who a request acts for and who a file belongs to does not change.
LEMMA NamesStay ==
    ASSUME IInv, Next
    PROVE /\ \A f \in Files : owner[f] # None => owner'[f] = owner[f]
          /\ \A t \in Tokens : holder[t] # None => holder'[t] = holder[t]
  <1> USE DEF bytes, names, request, ghosts
  <1>1. CASE UNCHANGED names  BY <1>1
  <1>2. ASSUME NEW u \in Users, NEW t \in Tokens, Login(u, t)
        PROVE /\ owner' = owner
              /\ \A r \in Tokens : holder[r] # None => holder'[r] = holder[r]
    BY <1>2 DEF Login, IInv, TypeOK
  <1>3. ASSUME NEW h \in Handlers, NEW f \in Files, BeginUpload(h, f)
        PROVE /\ holder' = holder
              /\ \A e \in Files : owner[e] # None => owner'[e] = owner[e]
    BY <1>3 DEF BeginUpload, IInv, TypeOK
  <1>4. QED
    BY <1>1, <1>2, <1>3
    DEF Next, Register, SessionSteps, Gate, Logout, UploadSteps, CreateBlob,
        CopyBlob, Record, UploadFails, DownloadSteps, FindFile, OpenBlob,
        OpenFails, Finish, DeleteSteps, FindDeleted, RemoveRecord, RemoveFails,
        Unlink, Flush, Kill, PowerFailure, Recover, Reopen

LEMMA DeletesOwnNext == ASSUME IInv, DeletesOwn, Next PROVE DeletesOwn'
  <1> SUFFICES ASSUME NEW g \in Handlers, pc'[g] \in Deleting
               PROVE owner'[file'[g]] = User(g)'
    BY DEF DeletesOwn
  <1> USE DEF IInv, bytes, names, request, ghosts
  <1>1. CASE /\ pc[g] \in Deleting
             /\ file'[g] = file[g] /\ tok'[g] = tok[g]
    <2>1. file[g] \in Files /\ owner[file[g]] # None /\ tok[g] \in Tokens
          /\ holder[tok[g]] # None
      BY <1>1 DEF TypeOK, Line, User, OnFile, Deleting
    <2>2. owner[file[g]] = User(g)  BY <1>1 DEF DeletesOwn
    <2>3. QED  BY <1>1, <2>1, <2>2, NamesStay DEF User
  <1>2. ASSUME NEW f \in Files, FindDeleted(g, f) PROVE owner'[file'[g]] = User(g)'
    BY <1>2 DEF FindDeleted, TakeUp, Visible, User, TypeOK
  <1>3. \/ pc[g] \in Deleting /\ file'[g] = file[g] /\ tok'[g] = tok[g]
        \/ \E f \in Files : FindDeleted(g, f)
    <2> USE DEF TypeOK, Deleting
    <2>1. ASSUME NEW h \in Handlers, SessionSteps(h)
          PROVE pc[g] \in Deleting /\ file'[g] = file[g] /\ tok'[g] = tok[g]
      BY <2>1 DEF SessionSteps, Gate, Logout, End
    <2>2. ASSUME NEW h \in Handlers, UploadSteps(h)
          PROVE pc[g] \in Deleting /\ file'[g] = file[g] /\ tok'[g] = tok[g]
      BY <2>2
      DEF UploadSteps, BeginUpload, CreateBlob, CopyBlob, Record, UploadFails,
          Move, TakeUp, End
    <2>3. ASSUME NEW h \in Handlers, DownloadSteps(h)
          PROVE pc[g] \in Deleting /\ file'[g] = file[g] /\ tok'[g] = tok[g]
      BY <2>3
      DEF DownloadSteps, FindFile, OpenBlob, OpenFails, Finish, Move, TakeUp, End
    <2>4. ASSUME NEW h \in Handlers, DeleteSteps(h)
          PROVE \/ pc[g] \in Deleting /\ file'[g] = file[g] /\ tok'[g] = tok[g]
                \/ \E f \in Files : FindDeleted(g, f)
      <3>1. ASSUME NEW f \in Files, FindDeleted(h, f), h # g
            PROVE pc[g] \in Deleting /\ file'[g] = file[g] /\ tok'[g] = tok[g]
        BY <3>1 DEF FindDeleted, TakeUp
      <3>2. CASE RemoveRecord(h) \/ RemoveFails(h) \/ Unlink(h)
        BY <3>2 DEF RemoveRecord, RemoveFails, Unlink, Move, End
      <3>3. QED  BY <2>4, <3>1, <3>2 DEF DeleteSteps
    <2>5. ASSUME NEW u \in Users, Register(u) \/ \E t \in Tokens : Login(u, t)
          PROVE pc[g] \in Deleting /\ file'[g] = file[g] /\ tok'[g] = tok[g]
      BY <2>5 DEF Register, Login
    <2>6. ASSUME NEW f \in Files, Flush(f)
          PROVE pc[g] \in Deleting /\ file'[g] = file[g] /\ tok'[g] = tok[g]
      BY <2>6 DEF Flush
    <2>7. ~ (Kill \/ PowerFailure \/ Recover)
      BY DEF Kill, PowerFailure, Recover, Reopen
    <2>8. QED  BY <2>1, <2>2, <2>3, <2>4, <2>5, <2>6, <2>7 DEF Next
  <1>4. QED  BY <1>1, <1>2, <1>3

\* DeleteFile and Logout take away what is their caller's own and nothing
\* else does, so that what ValidateSession and OpenFile found in a snapshot
\* disappears between two steps of a request only by its owner's wish.
THEOREM CloudOwnersDecide == Spec => OwnersDecide
  <1>1. ASSUME IInv, DeletesOwn, Next, recovered' = recovered PROVE OwnersAsked
    <2> USE <1>1 DEF IInv, OwnersAsked
    <2>1. db \in Databases  BY DEF TypeOK
    <2>2. ASSUME NEW u \in Users, Register(u) \/ \E t \in Tokens : Login(u, t)
          PROVE OwnersAsked
      <3>1. ASSUME Register(u) PROVE OwnersAsked
        BY <2>1, <3>1, Fields DEF Register, Update
      <3>2. ASSUME NEW t \in Tokens, Login(u, t) PROVE OwnersAsked
        BY <2>1, <3>2, Fields DEF Login, Update
      <3>3. QED  BY <2>2, <3>1, <3>2
    <2>3. ASSUME NEW h \in Handlers, Logout(h) PROVE OwnersAsked
      <3>1. pc[h] = "authorized" /\ pc'[h] = "idle"
        BY <2>3, EndIs DEF Logout
      <3>2. db'.records = db.records /\ db'.accounts = db.accounts
            /\ db'.sessions = db.sessions \ {tok[h]}
        BY <2>1, <2>3, Fields DEF Logout, Update
      <3>3. QED  BY <3>1, <3>2
    <2>4. ASSUME NEW h \in Handlers, Record(h) PROVE OwnersAsked
      BY <2>1, <2>4, Fields DEF Record, Update
    <2>5. ASSUME NEW h \in Handlers, RemoveRecord(h) PROVE OwnersAsked
      <3>1. pc[h] = "deleting" /\ owner[file[h]] = User(h)
        BY <2>5 DEF RemoveRecord, Move, DeletesOwn, Deleting
      <3>2. db'.sessions = db.sessions /\ db'.accounts = db.accounts
            /\ db'.records = db.records \ {file[h]}
        BY <2>1, <2>5, Fields DEF RemoveRecord, Update
      <3>3. QED  BY <3>1, <3>2
    <2>6. ASSUME NEW h \in Handlers, Unlink(h) PROVE OwnersAsked
      BY <2>6 DEF Unlink
    <2>7. ~ Recover
      BY DEF Recover
    <2>8. CASE UNCHANGED <<db, kept, gone, recovered>>  BY <2>8
    <2>9. QED  BY <2>2, <2>3, <2>4, <2>5, <2>6, <2>7, <2>8, DbStep
  <1>2. IInv /\ DeletesOwn /\ [Next]_vars => [recovered' = recovered => OwnersAsked]_vars
    BY <1>1
  <1>3. Init => DeletesOwn  BY DEF Init, DeletesOwn, Deleting
  <1>4. IInv /\ DeletesOwn /\ [Next]_vars => DeletesOwn'
    <2>1. DeletesOwn /\ UNCHANGED vars => DeletesOwn'
      BY DEF DeletesOwn, User, vars
    <2>2. QED  BY <2>1, DeletesOwnNext
  <1>5. QED  BY IInvHolds, <1>2, <1>3, <1>4, PTL DEF Spec, OwnersDecide
================================================================================
