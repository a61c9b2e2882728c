--------------------- MODULE FirestoreTransactionsProofs ---------------------
(* Theorems about FirestoreTransactions, for any number of threads, ids,    *)
(* owners, addresses and attempts.                                          *)
EXTENDS FirestoreTransactions, TLAPS

\* A call in progress is an operation of the kind that its type says.
LEMMA OperationKinds ==
    ASSUME TypeOK, NEW t \in Threads, stage[t] # "idle"
    PROVE  /\ op[t].type \in {"create", "delete_for_owner", "mark_uploaded"} =>
                 op[t] \in FileOperation
           /\ op[t].type = "create_if_absent" => op[t] \in JobOperation
           /\ op[t].type = "create_user" => op[t] \in UserOperation
  <1>1. op[t] \in FileOperation \union JobOperation \union UserOperation
    BY DEF TypeOK
  <1>. QED  BY <1>1 DEF FileOperation, JobOperation, UserOperation

\* What a body reads: a document by its id, or the accounts of an address.
LEMMA FoundIs ==
    ASSUME NEW o
    PROVE  /\ o.type \in {"delete_for_owner", "mark_uploaded"} =>
                 Found(o) = {files[o.id]} \ {NoFile}
           /\ o.type = "create_if_absent" => Found(o) = {jobs[o.id]} \ {NoJob}
           /\ o.type = "create_user" => Found(o) = {a \in AccountIds : accounts[a] = o.email}
           /\ o.type = "create" => Found(o) = {}
  BY DEF Found

LEMMA FoundType ==
    ASSUME TypeOK, NEW t \in Threads, stage[t] # "idle"
    PROVE  Found(op[t]) \subseteq Seeable
  <1>1. op[t] \in FileOperation \union JobOperation \union UserOperation
    BY DEF TypeOK
  <1>2. CASE op[t] \in FileOperation
    BY <1>2, FoundIs DEF TypeOK, FileOperation, Seeable
  <1>3. CASE op[t] \in JobOperation
    BY <1>3, FoundIs DEF TypeOK, JobOperation, Seeable
  <1>4. CASE op[t] \in UserOperation
    BY <1>4, FoundIs DEF TypeOK, UserOperation, Seeable
  <1>. QED  BY <1>1, <1>2, <1>3, <1>4

-----------------------------------------------------------------------------
(* Types. *)

LEMMA AnswerTypes ==
    ASSUME TypeOK, NEW t \in Threads, stage[t] # "idle",
           NEW a \in Answers, Answer(t, a)
    PROVE  /\ issued' \subseteq FileIds \union AccountIds
           /\ op' \in [Threads -> FileOperation \union JobOperation \union UserOperation
                                    \union {NoOperation}]
           /\ stage' \in [Threads -> Stages]
           /\ seen' \in [Threads -> SUBSET Seeable]
           /\ aborts' \in [Threads -> 0 .. MaxAttempts - 1]
           /\ answer' \in [Threads -> Answers]
           /\ \A s \in Threads : stage'[s] = "idle" <=> op'[s] = NoOperation
  BY AttemptsAssumption DEF TypeOK, Answer, Stages

LEMMA TypeStep ==
    ASSUME TypeOK, [Next]_vars
    PROVE  TypeOK'
  <1>. USE DEF Stages
  <1>1. ASSUME NEW t \in Threads, NEW o \in Operations, Call(t, o)
        PROVE  TypeOK'
    <2>1. o \in FileOperation \union UserOperation /\ o # NoOperation
      BY OperationsAssumption, NullAssumption
    <2>2. o.type \in {"create", "create_user"} => o.id \in FileIds \union AccountIds
      BY <2>1 DEF FileOperation, UserOperation
    <2>. QED  BY <1>1, <2>1, <2>2 DEF Call, TypeOK
  <1>2. ASSUME NEW t \in Threads, Create(t)
        PROVE  TypeOK'
    <2>1. op[t] \in FileOperation
      BY <1>2, OperationKinds DEF Create
    <2>2. files' \in [FileIds -> FileMetadata \union {NoFile}]
      BY <1>2, <2>1 DEF Create, TypeOK, FileOperation, FileMetadata
    <2>. QED  BY <1>2, <2>2, AnswerTypes DEF Create, TypeOK, Answers
  <1>3. ASSUME NEW t \in Threads, Read(t)
        PROVE  TypeOK'
    BY <1>3, FoundType DEF Read, TypeOK, store
  <1>4. ASSUME NEW t \in Threads, DeleteForOwner(t)
        PROVE  TypeOK'
    <2>1. files' \in [FileIds -> FileMetadata \union {NoFile}]
      BY <1>4 DEF DeleteForOwner, TypeOK
    <2>. QED  BY <1>4, <2>1, AnswerTypes DEF DeleteForOwner, Ready, TypeOK, Answers
  <1>5. ASSUME NEW t \in Threads, MarkUploaded(t)
        PROVE  TypeOK'
    <2>1. files' \in [FileIds -> FileMetadata \union {NoFile}]
      BY <1>5 DEF MarkUploaded, TypeOK, FileMetadata
    <2>. QED  BY <1>5, <2>1, AnswerTypes DEF MarkUploaded, Ready, TypeOK, Answers
  <1>6. ASSUME NEW t \in Threads, CreateIfAbsent(t)
        PROVE  TypeOK'
    <2>1. jobs' \in [FileIds -> Job \union {NoJob}]
      BY <1>6 DEF CreateIfAbsent, TypeOK, Job
    <2>. QED  BY <1>6, <2>1, AnswerTypes DEF CreateIfAbsent, Ready, TypeOK, Answers
  <1>7. ASSUME NEW t \in Threads, CreateUser(t)
        PROVE  TypeOK'
    <2>1. op[t] \in UserOperation
      BY <1>7, OperationKinds DEF CreateUser, Ready
    <2>2. accounts' \in [AccountIds -> Emails \union {NoAccount}]
      BY <1>7, <2>1 DEF CreateUser, TypeOK, UserOperation
    <2>. QED  BY <1>7, <2>2, AnswerTypes DEF CreateUser, Ready, TypeOK, Answers
  <1>8. ASSUME NEW t \in Threads, Abort(t)
        PROVE  TypeOK'
    <2>1. CASE Answer(t, "error")
      BY <1>8, <2>1, AnswerTypes DEF Abort, TypeOK, Answers
    <2>2. CASE ~ Answer(t, "error")
      BY <1>8, <2>2, AttemptsAssumption DEF Abort, TypeOK
    <2>. QED  BY <2>1, <2>2
  <1>9. ASSUME NEW t \in Threads, Raise(t)
        PROVE  TypeOK'
    BY <1>9, AnswerTypes DEF Raise, TypeOK, Answers
  <1>10. ASSUME NEW t \in Threads, Return(t)
         PROVE  TypeOK'
    BY <1>10 DEF Return, TypeOK, Answers, store
  <1>11. ASSUME NEW t \in Threads, Dispatch(t)
         PROVE  TypeOK'
    <2>1. op[t] \in FileOperation
      BY <1>11, OperationKinds DEF Dispatch, GoesOn
    <2>2. [type |-> "create_if_absent", id |-> op[t].id] \in JobOperation
      BY <2>1 DEF FileOperation, JobOperation
    <2>. QED  BY <1>11, <2>2, NullAssumption DEF Dispatch, TypeOK, Answers, store
  <1>12. ASSUME NEW f \in FileIds, TakeUpFile(f)
         PROVE  TypeOK'
    BY <1>12 DEF TakeUpFile, TypeOK, FileMetadata, calls
  <1>13. ASSUME NEW f \in FileIds, TakeUpJob(f)
         PROVE  TypeOK'
    BY <1>13 DEF TakeUpJob, TypeOK, Job, calls
  <1>14. CASE UNCHANGED vars
    BY <1>14 DEF vars, store, calls, TypeOK
  <1>. QED  BY <1>1, <1>2, <1>3, <1>4, <1>5, <1>6, <1>7, <1>8, <1>9, <1>10,
               <1>11, <1>12, <1>13, <1>14 DEF Next, Proceed

-----------------------------------------------------------------------------
(* What a step does to each collection.                                    *)

\* The status of a document in the order of its life.
Forward(d, e) == Rank[e.status] >= Rank[d.status]

\* A file is untouched, created by the call that drew its id, deleted, or
\* moved forward past PENDING_UPLOAD.
LEMMA FilesStep ==
    ASSUME TypeOK, [Next]_vars, NEW f \in FileIds
    PROVE  \/ files'[f] = files[f]
           \/ /\ files[f] = NoFile /\ files'[f] # NoFile
              /\ \E t \in Threads : Creating(t, f) /\ Create(t)
           \/ files[f] # NoFile /\ files'[f] = NoFile
           \/ /\ files[f] # NoFile /\ files'[f] # NoFile
              /\ files'[f].status # "PENDING_UPLOAD"
              /\ Forward(files[f], files'[f])
  <1>. USE DEF TypeOK
  <1>1. ASSUME NEW t \in Threads, Create(t)
        PROVE  \/ files'[f] = files[f]
               \/ /\ files[f] = NoFile /\ files'[f] # NoFile
                  /\ Creating(t, f)
    <2>1. op[t] \in FileOperation
      BY <1>1, OperationKinds DEF Create
    <2>2. [owner_id |-> op[t].owner_id, status |-> "PENDING_UPLOAD"] \in FileMetadata
      BY <2>1 DEF FileOperation, FileMetadata
    <2>. QED  BY <1>1, <2>2, NullAssumption DEF Create, Creating
  <1>2. ASSUME NEW t \in Threads, DeleteForOwner(t)
        PROVE  files'[f] = files[f] \/ (files[f] # NoFile /\ files'[f] = NoFile)
    BY <1>2 DEF DeleteForOwner
  <1>3. ASSUME NEW t \in Threads, MarkUploaded(t)
        PROVE  \/ files'[f] = files[f]
               \/ /\ files[f] # NoFile /\ files'[f] # NoFile
                  /\ files'[f].status = "UPLOADED"
                  /\ files[f].status = "PENDING_UPLOAD"
    <2>1. CASE UNCHANGED files
      BY <2>1
    <2>2. CASE ~ UNCHANGED files
      <3>1. /\ Pending(t) /\ seen[t] = {files[op[t].id]} \ {NoFile}
            /\ files[op[t].id] # NoFile
            /\ files' = [files EXCEPT ![op[t].id].status = "UPLOADED"]
        BY <1>3, <2>2, FoundIs DEF MarkUploaded, Ready, Stands
      <3>2. files[op[t].id].status = "PENDING_UPLOAD"
        BY <3>1 DEF Pending
      <3>3. CASE f = op[t].id
        <4>1. files[f] \in FileMetadata
          BY <3>1, <3>3
        <4>2. files'[f] = [files[f] EXCEPT !.status = "UPLOADED"]
          BY <3>1, <3>3
        <4>. QED  BY <3>1, <3>2, <3>3, <4>1, <4>2, NullAssumption DEF FileMetadata
      <3>4. CASE f # op[t].id
        BY <3>1, <3>4
      <3>. QED  BY <3>3, <3>4
    <2>. QED  BY <2>1, <2>2
  <1>4. ASSUME NEW g \in FileIds, TakeUpFile(g)
        PROVE  \/ files'[f] = files[f]
               \/ /\ files[f] # NoFile /\ files'[f] # NoFile
                  /\ files'[f].status = "SCANNING"
                  /\ files[f].status = "UPLOADED"
    <2>1. [files[g] EXCEPT !.status = "SCANNING"] \in FileMetadata
      BY <1>4 DEF TakeUpFile, FileMetadata
    <2>. QED  BY <1>4, <2>1, NullAssumption DEF TakeUpFile, FileMetadata
  <1>5. CASE UNCHANGED files
    BY <1>5
  <1>. QED
    BY <1>1, <1>2, <1>3, <1>4, <1>5
    DEF Next, Proceed, Call, Read, CreateIfAbsent, CreateUser, Abort, Raise,
        Return, Dispatch, TakeUpJob, vars, store, Forward, Rank

\* A job is created, taken up, or untouched.
LEMMA JobsStep ==
    ASSUME TypeOK, [Next]_vars, NEW f \in FileIds, jobs[f] # NoJob
    PROVE  jobs'[f] # NoJob /\ Forward(jobs[f], jobs'[f])
  <1>. USE DEF TypeOK
  <1>1. ASSUME NEW t \in Threads, CreateIfAbsent(t)
        PROVE  jobs'[f] = jobs[f]
    BY <1>1 DEF CreateIfAbsent
  <1>2. ASSUME NEW g \in FileIds, TakeUpJob(g)
        PROVE  \/ jobs'[f] = jobs[f]
               \/ /\ jobs'[f] # NoJob /\ jobs'[f].status = "PROCESSING"
                  /\ jobs[f].status = "QUEUED"
    <2>1. [jobs[g] EXCEPT !.status = "PROCESSING"] \in Job
      BY <1>2 DEF TakeUpJob, Job
    <2>. QED  BY <1>2, <2>1, NullAssumption DEF TakeUpJob, Job
  <1>3. jobs[f] \in Job
    OBVIOUS
  <1>4. \/ jobs'[f] = jobs[f]
        \/ /\ jobs'[f] # NoJob /\ jobs'[f].status = "PROCESSING"
           /\ jobs[f].status = "QUEUED"
    BY <1>1, <1>2
    DEF Next, Proceed, Call, Create, Read, DeleteForOwner, MarkUploaded, CreateUser,
        Abort, Raise, Return, Dispatch, TakeUpFile, vars, store
  <1>. QED  BY <1>3, <1>4 DEF Forward, Rank, Job

\* An account is created for an address that has none, or nothing changes.
LEMMA AccountsStep ==
    ASSUME TypeOK, [Next]_vars
    PROVE  \/ UNCHANGED accounts
           \/ \E t \in Threads :
                 /\ CreateUser(t)
                 /\ op[t] \in UserOperation
                 /\ accounts[op[t].id] = NoAccount
                 /\ \A a \in AccountIds : accounts[a] # op[t].email
                 /\ accounts' = [accounts EXCEPT ![op[t].id] = op[t].email]
  <1>1. ASSUME NEW t \in Threads, CreateUser(t), ~ UNCHANGED accounts
        PROVE  /\ op[t] \in UserOperation
               /\ accounts[op[t].id] = NoAccount
               /\ \A a \in AccountIds : accounts[a] # op[t].email
               /\ accounts' = [accounts EXCEPT ![op[t].id] = op[t].email]
    <2>1. op[t] \in UserOperation
      BY <1>1, OperationKinds DEF CreateUser, Ready
    <2>2. {a \in AccountIds : accounts[a] = op[t].email} = {}
      BY <1>1, FoundIs DEF CreateUser, Ready, Stands
    <2>. QED  BY <1>1, <2>1, <2>2 DEF CreateUser
  <1>. QED
    BY <1>1
    DEF Next, Proceed, Call, Create, Read, DeleteForOwner, MarkUploaded,
        CreateIfAbsent, Abort, Raise, Return, Dispatch, TakeUpFile, TakeUpJob,
        vars, store

LEMMA AccountsStay ==
    ASSUME TypeOK, [Next]_vars, NEW a \in AccountIds, accounts[a] # NoAccount
    PROVE  accounts'[a] = accounts[a]
  BY AccountsStep DEF TypeOK

-----------------------------------------------------------------------------
LEMMA EmailStep ==
    ASSUME TypeOK, EmailUnique, [Next]_vars
    PROVE  EmailUnique'
  <1>1. CASE UNCHANGED accounts
    BY <1>1 DEF EmailUnique
  <1>2. ASSUME NEW t \in Threads,
               op[t] \in UserOperation,
               \A a \in AccountIds : accounts[a] # op[t].email,
               accounts' = [accounts EXCEPT ![op[t].id] = op[t].email]
        PROVE  EmailUnique'
    BY <1>2 DEF EmailUnique, TypeOK, UserOperation
  <1>. QED  BY <1>1, <1>2, AccountsStep

-----------------------------------------------------------------------------
(* The calls.                                                              *)

\* An answer of a thread whose call is of the right kind.
LEMMA AnswerKept ==
    ASSUME TypeOK, CallsInv, NEW t \in Threads, NEW a \in Answers,
           Answer(t, a), op[t].type \in AnswersOf[a], stage[t] # "idle"
    PROVE  CallsInv'
  BY DEF TypeOK, CallsInv, Answer

LEMMA CallsStep ==
    ASSUME TypeOK, CallsInv, [Next]_vars
    PROVE  CallsInv'
  <1>. USE DEF AnswersOf
  <1>1. ASSUME NEW t \in Threads, NEW o \in Operations, Call(t, o)
        PROVE  CallsInv'
    <2>1. o \in FileOperation \union UserOperation
      BY OperationsAssumption
    <2>2. o.type \in AnswersOf["none"]
      BY <2>1 DEF FileOperation, UserOperation
    <2>. QED  BY <1>1, <2>2 DEF Call, TypeOK, CallsInv
  <1>2. ASSUME NEW t \in Threads, Create(t)
        PROVE  CallsInv'
    BY <1>2, AnswerKept DEF Create, Answers
  <1>3. ASSUME NEW t \in Threads, Read(t)
        PROVE  CallsInv'
    BY <1>3 DEF Read, TypeOK, CallsInv
  <1>4. ASSUME NEW t \in Threads, DeleteForOwner(t)
        PROVE  CallsInv'
    BY <1>4, AnswerKept DEF DeleteForOwner, Ready, Answers
  <1>5. ASSUME NEW t \in Threads, MarkUploaded(t)
        PROVE  CallsInv'
    BY <1>5, AnswerKept DEF MarkUploaded, Ready, Answers
  <1>6. ASSUME NEW t \in Threads, CreateIfAbsent(t)
        PROVE  CallsInv'
    BY <1>6, AnswerKept DEF CreateIfAbsent, Ready, Answers
  <1>7. ASSUME NEW t \in Threads, CreateUser(t)
        PROVE  CallsInv'
    BY <1>7, AnswerKept DEF CreateUser, Ready, Answers
  <1>8. ASSUME NEW t \in Threads, stage[t] # "idle", Answer(t, "error")
        PROVE  CallsInv'
    <2>1. op[t] \in FileOperation \union JobOperation \union UserOperation
      BY <1>8 DEF TypeOK
    <2>2. op[t].type \in AnswersOf["error"]
      BY <2>1 DEF FileOperation, JobOperation, UserOperation
    <2>. QED  BY <1>8, <2>2, AnswerKept DEF Answers
  <1>9. ASSUME NEW t \in Threads, Abort(t), ~ Answer(t, "error")
        PROVE  CallsInv'
    BY <1>9 DEF Abort, TypeOK, CallsInv
  <1>10. ASSUME NEW t \in Threads, Return(t)
         PROVE  CallsInv'
    BY <1>10 DEF Return, TypeOK, CallsInv
  <1>11. ASSUME NEW t \in Threads, Dispatch(t)
         PROVE  CallsInv'
    BY <1>11 DEF Dispatch, store, TypeOK, CallsInv
  <1>12. CASE UNCHANGED calls
    BY <1>12 DEF calls, CallsInv
  <1>. QED
    BY <1>1, <1>2, <1>3, <1>4, <1>5, <1>6, <1>7, <1>8, <1>9, <1>10, <1>11, <1>12
    DEF Next, Proceed, Raise, Abort, TakeUpFile, TakeUpJob, vars

\* An answer about a file or a job names one.
LEMMA AnswerAbout ==
    ASSUME TypeOK, CallsInv, NEW t \in Threads
    PROVE  /\ answer[t] \in {"file", "deleted", "job"} => op[t].id \in FileIds
           /\ answer[t] \in {"account", "taken"} => op[t] \in UserOperation
           /\ answer[t] # "none" => stage[t] = "done"
  <1>1. answer[t] # "none" => stage[t] = "done"
    BY DEF CallsInv
  <1>2. CASE stage[t] = "done"
    BY <1>2, OperationKinds DEF CallsInv, AnswersOf, FileOperation, JobOperation
  <1>. QED  BY <1>1, <1>2

\* What a step does to the call of a thread, as far as files are concerned.
LEMMA CallStep ==
    ASSUME TypeOK, CallsInv, [Next]_vars, NEW t \in Threads
    PROVE  \/ op'[t] = op[t] /\ answer'[t] = answer[t]
           \/ answer'[t] \in {"none", "error", "absent"}
           \/ Create(t) \/ DeleteForOwner(t) \/ MarkUploaded(t) \/ CreateIfAbsent(t)
           \/ CreateUser(t)
  <1>. USE DEF TypeOK
  <1>1. ASSUME NEW s \in Threads, NEW a, Answer(s, a)
        PROVE  IF s = t THEN answer'[t] = a
               ELSE op'[t] = op[t] /\ answer'[t] = answer[t]
    BY <1>1 DEF Answer
  <1>2. ASSUME NEW s \in Threads, s # t,
               Create(s) \/ DeleteForOwner(s) \/ MarkUploaded(s) \/ CreateIfAbsent(s)
                 \/ CreateUser(s)
        PROVE  op'[t] = op[t] /\ answer'[t] = answer[t]
    BY <1>1, <1>2 DEF Create, DeleteForOwner, MarkUploaded, CreateIfAbsent, CreateUser
  <1>3. ASSUME NEW s \in Threads, NEW o, Call(s, o)
        PROVE  \/ op'[t] = op[t] /\ answer'[t] = answer[t]
               \/ answer'[t] = "none"
    BY <1>3 DEF Call, CallsInv
  <1>4. ASSUME NEW s \in Threads, Raise(s) \/ Abort(s) \/ Read(s) \/ Return(s) \/ Dispatch(s)
        PROVE  \/ op'[t] = op[t] /\ answer'[t] = answer[t]
               \/ answer'[t] \in {"none", "error"}
    BY <1>1, <1>4 DEF Raise, Abort, Read, Return, Dispatch, store
  <1>. QED
    BY <1>2, <1>3, <1>4 DEF Next, Proceed, TakeUpFile, TakeUpJob, vars, calls

-----------------------------------------------------------------------------
(* Fresh ids.                                                              *)

\* What an answered call about a file has found or made.
LEMMA FileAnswers ==
    ASSUME TypeOK, CallsInv, NEW t \in Threads
    PROVE  /\ Create(t) => /\ op'[t] = op[t] /\ op[t].id \in FileIds
                           /\ op[t].type = "create"
                           /\ Creating(t, op[t].id)
                           /\ answer'[t] = "file"
           /\ DeleteForOwner(t) /\ answer'[t] \in {"file", "deleted"} =>
                           /\ op'[t] = op[t] /\ op[t].id \in FileIds
                           /\ op[t].type = "delete_for_owner"
                           /\ files[op[t].id] # NoFile /\ files'[op[t].id] = NoFile
                           /\ answer'[t] = "deleted"
           /\ MarkUploaded(t) /\ answer'[t] \in {"file", "deleted"} =>
                           /\ op'[t] = op[t] /\ op[t].id \in FileIds
                           /\ op[t].type = "mark_uploaded"
                           /\ files[op[t].id] # NoFile
                           /\ files'[op[t].id].status # "PENDING_UPLOAD"
                           /\ answer'[t] = "file"
           /\ CreateIfAbsent(t) => op'[t] = op[t] /\ answer'[t] = "job"
           /\ CreateUser(t) => op'[t] = op[t] /\ answer'[t] \in {"account", "taken"}
  <1>. USE DEF TypeOK, Answer, FileOperation
  <1>1. ASSUME Create(t)
        PROVE  /\ op'[t] = op[t] /\ op[t].id \in FileIds
               /\ op[t].type = "create" /\ Creating(t, op[t].id)
               /\ answer'[t] = "file"
    BY <1>1, OperationKinds DEF Create, Creating
  <1>2. ASSUME DeleteForOwner(t), answer'[t] \in {"file", "deleted"}
        PROVE  /\ op'[t] = op[t] /\ op[t].id \in FileIds
               /\ op[t].type = "delete_for_owner"
               /\ files[op[t].id] # NoFile /\ files'[op[t].id] = NoFile
               /\ answer'[t] = "deleted"
    <2>1. seen[t] = {files[op[t].id]} \ {NoFile}
      BY <1>2, FoundIs DEF DeleteForOwner, Ready, Stands
    <2>2. op[t] \in FileOperation
      BY <1>2, OperationKinds DEF DeleteForOwner, Ready
    <2>. QED  BY <1>2, <2>1, <2>2 DEF DeleteForOwner, Ready, Owned
  <1>3. ASSUME MarkUploaded(t), answer'[t] \in {"file", "deleted"}
        PROVE  /\ op'[t] = op[t] /\ op[t].id \in FileIds
               /\ op[t].type = "mark_uploaded"
               /\ files[op[t].id] # NoFile
               /\ files'[op[t].id].status # "PENDING_UPLOAD"
               /\ answer'[t] = "file"
    <2>1. seen[t] = {files[op[t].id]} \ {NoFile}
      BY <1>3, FoundIs DEF MarkUploaded, Ready, Stands
    <2>2. op[t] \in FileOperation
      BY <1>3, OperationKinds DEF MarkUploaded, Ready
    <2>3. answer'[t] = "file" /\ Owned(t) /\ op'[t] = op[t] /\ op[t].type = "mark_uploaded"
      BY <1>3 DEF MarkUploaded, Ready
    <2>4. files[op[t].id] # NoFile
      BY <2>1, <2>3 DEF Owned
    <2>5. CASE Uploaded(t) /\ UNCHANGED files
      BY <2>1, <2>2, <2>3, <2>4, <2>5 DEF Uploaded
    <2>6. CASE files' = [files EXCEPT ![op[t].id].status = "UPLOADED"]
      <3>1. files[op[t].id] \in FileMetadata
        BY <2>2, <2>4
      <3>2. files'[op[t].id] = [files[op[t].id] EXCEPT !.status = "UPLOADED"]
        BY <2>2, <2>6
      <3>. QED  BY <2>2, <2>3, <2>4, <3>1, <3>2 DEF FileMetadata
    <2>. QED  BY <1>3, <2>2, <2>3, <2>4, <2>5, <2>6 DEF MarkUploaded
  <1>4. CreateIfAbsent(t) => op'[t] = op[t] /\ answer'[t] = "job"
    BY DEF CreateIfAbsent
  <1>5. CreateUser(t) => op'[t] = op[t] /\ answer'[t] \in {"account", "taken"}
    BY DEF CreateUser
  <1>. QED  BY <1>1, <1>2, <1>3, <1>4, <1>5

\* Only the creation of a file touches one that was not.
LEMMA TouchedStep ==
    ASSUME TypeOK, CallsInv, [Next]_vars, NEW f \in FileIds, Touched(f)'
    PROVE  Touched(f) \/ \E t \in Threads : Creating(t, f) /\ Create(t)
  <1>1. CASE files'[f] # NoFile
    BY <1>1, FilesStep DEF Touched
  <1>2. ASSUME NEW t \in Threads, answer'[t] \in {"file", "deleted"}, op'[t].id = f
        PROVE  Touched(f) \/ (Creating(t, f) /\ Create(t))
    <2>1. CASE op'[t] = op[t] /\ answer'[t] = answer[t]
      BY <1>2, <2>1 DEF Touched
    <2>2. CASE Create(t)
      BY <1>2, <2>2, FileAnswers
    <2>3. CASE DeleteForOwner(t) \/ MarkUploaded(t)
      BY <1>2, <2>3, FileAnswers DEF Touched
    <2>. QED  BY <1>2, <2>1, <2>2, <2>3, CallStep, FileAnswers
  <1>. QED  BY <1>1, <1>2 DEF Touched

\* A creation in progress was in progress before, or its call has just drawn a
\* new id, and then no other thread has moved.
LEMMA CreatingStep ==
    ASSUME TypeOK, CallsInv, [Next]_vars, NEW f \in FileIds,
           NEW s \in Threads, Creating(s, f)'
    PROVE  \/ Creating(s, f) /\ ~ Create(s)
           \/ /\ f \notin issued /\ f \in issued'
              /\ \A t \in Threads \ {s} : Creating(t, f)' => Creating(t, f)
  <1>. USE DEF TypeOK, Creating
  <1>1. ASSUME NEW t \in Threads, NEW o \in Operations, Call(t, o)
        PROVE  \/ Creating(s, f) /\ ~ Create(s)
               \/ /\ f \notin issued /\ f \in issued'
                  /\ \A r \in Threads \ {s} : Creating(r, f)' => Creating(r, f)
    <2>1. /\ op' = [op EXCEPT ![t] = o]
          /\ stage' = [stage EXCEPT ![t] = "start"]
      BY <1>1 DEF Call
    <2>2. CASE t = s
      <3>1. o.type = "create" /\ o.id = f
        BY <2>1, <2>2
      <3>. QED  BY <1>1, <2>1, <2>2, <3>1 DEF Call
    <2>3. CASE t # s
      BY <2>1, <2>3 DEF Create, Answer
    <2>. QED  BY <2>2, <2>3
  <1>2. ASSUME NEW t \in Threads, NEW a, Answer(t, a), stage[t] # "idle"
        PROVE  t # s /\ Creating(s, f)
    BY <1>2 DEF Answer
  <1>3. ASSUME NEW t \in Threads,
               Create(t) \/ DeleteForOwner(t) \/ MarkUploaded(t) \/ CreateIfAbsent(t)
                 \/ CreateUser(t) \/ Raise(t)
        PROVE  Creating(s, f) /\ ~ Create(s)
    <2>1. Creating(s, f) /\ t # s
      BY <1>2, <1>3
      DEF Create, DeleteForOwner, MarkUploaded, CreateIfAbsent, CreateUser, Raise, Ready
    <2>2. stage'[s] = stage[s]
      BY <2>1
    <2>. QED  BY <2>1, <2>2 DEF Create, Answer
  <1>4. ASSUME NEW t \in Threads, Abort(t) \/ Read(t) \/ Return(t) \/ Dispatch(t)
        PROVE  Creating(s, f) /\ ~ Create(s)
    <2>1. Creating(s, f)
      BY <1>2, <1>4 DEF Abort, Read, Return, Dispatch, store, CallsInv
    <2>. QED  BY <2>1 DEF Create, Answer
  <1>5. CASE UNCHANGED <<op, stage>>
    BY <1>5 DEF Create, Answer
  <1>. QED
    BY <1>1, <1>3, <1>4, <1>5 DEF Next, Proceed, TakeUpFile, TakeUpJob, vars, calls

LEMMA IssuedGrows ==
    ASSUME [Next]_vars
    PROVE  issued \subseteq issued'
  BY DEF Next, Proceed, Call, Create, Read, DeleteForOwner, MarkUploaded,
         CreateIfAbsent, CreateUser, Abort, Raise, Return, Dispatch, TakeUpFile,
         TakeUpJob, Answer, vars, store

LEMMA FreshStep ==
    ASSUME TypeOK, CallsInv, FreshInv, [Next]_vars
    PROVE  FreshInv'
  <1>. SUFFICES ASSUME NEW f \in FileIds
                PROVE  /\ f \notin issued' => ~ Touched(f)'
                       /\ \A s \in Threads : Creating(s, f)' =>
                             /\ f \in issued'
                             /\ ~ Touched(f)'
                             /\ \A t \in Threads : Creating(t, f)' => s = t
    BY DEF FreshInv
  <1>1. f \notin issued => ~ Touched(f) /\ \A s \in Threads : ~ Creating(s, f)
    BY DEF FreshInv
  <1>2. f \notin issued => ~ Touched(f)'
    BY <1>1, TouchedStep
  <1>3. ASSUME NEW s \in Threads, Creating(s, f)'
        PROVE  /\ f \in issued' /\ ~ Touched(f)'
               /\ \A t \in Threads : Creating(t, f)' => s = t
    <2>1. CASE Creating(s, f) /\ ~ Create(s)
      <3>1. /\ f \in issued /\ ~ Touched(f)
            /\ \A t \in Threads : Creating(t, f) => s = t
        BY <2>1 DEF FreshInv
      <3>. QED  BY <2>1, <3>1, TouchedStep, CreatingStep, IssuedGrows
    <2>2. CASE /\ f \notin issued /\ f \in issued'
               /\ \A t \in Threads \ {s} : Creating(t, f)' => Creating(t, f)
      BY <2>2, <1>1, <1>2
    <2>. QED  BY <1>3, <2>1, <2>2, CreatingStep
  <1>. QED  BY <1>2, <1>3, IssuedGrows

-----------------------------------------------------------------------------
(* Answers stay true.                                                      *)

LEMMA AnswersStep ==
    ASSUME TypeOK, CallsInv, FreshInv, AnswersHold, [Next]_vars
    PROVE  AnswersHold'
  <1>. SUFFICES ASSUME NEW t \in Threads
                PROVE  AnswerHolds(t)'
    BY DEF AnswersHold
  <1>1. CASE op'[t] = op[t] /\ answer'[t] = answer[t]
    <2>1. answer[t] # "none" => AnswerHolds(t)
      BY AnswerAbout DEF AnswersHold
    <2>2. ASSUME answer[t] \in {"file", "deleted"}
          PROVE  \A s \in Threads : ~ Creating(s, op[t].id)
      BY <2>2, AnswerAbout DEF FreshInv, Touched
    <2>3. ASSUME answer[t] = "file", op[t].type = "mark_uploaded"
          PROVE  files'[op[t].id] = NoFile \/ files'[op[t].id].status # "PENDING_UPLOAD"
      BY <2>1, <2>2, <2>3, AnswerAbout, FilesStep DEF AnswerHolds
    <2>4. ASSUME answer[t] = "deleted"
          PROVE  files'[op[t].id] = NoFile
      BY <2>1, <2>2, <2>4, AnswerAbout, FilesStep DEF AnswerHolds
    <2>5. ASSUME answer[t] = "job"
          PROVE  jobs'[op[t].id] # NoJob
      BY <2>1, <2>5, AnswerAbout, JobsStep DEF AnswerHolds
    <2>6. ASSUME answer[t] = "account"
          PROVE  accounts'[op[t].id] = op[t].email
      <3>1. op[t].id \in AccountIds /\ op[t].email \in Emails
        BY <2>6, AnswerAbout DEF UserOperation
      <3>. QED  BY <2>1, <2>6, <3>1, AccountsStay, NullAssumption DEF AnswerHolds
    <2>7. ASSUME answer[t] = "taken"
          PROVE  \E a \in AccountIds : accounts'[a] = op[t].email
      <3>1. op[t].email \in Emails
        BY <2>7, AnswerAbout DEF UserOperation
      <3>. QED  BY <2>1, <2>7, <3>1, AccountsStay, NullAssumption DEF AnswerHolds
    <2>. QED  BY <1>1, <2>3, <2>4, <2>5, <2>6, <2>7 DEF AnswerHolds
  <1>2. CASE answer'[t] \in {"none", "error", "absent"}
    BY <1>2 DEF AnswerHolds
  <1>3. CASE Create(t)
    BY <1>3, FileAnswers DEF AnswerHolds
  <1>4. CASE DeleteForOwner(t) /\ answer'[t] \in {"file", "deleted"}
    BY <1>4, FileAnswers DEF AnswerHolds
  <1>5. CASE MarkUploaded(t) /\ answer'[t] \in {"file", "deleted"}
    BY <1>5, FileAnswers DEF AnswerHolds
  <1>6. ASSUME DeleteForOwner(t) \/ MarkUploaded(t)
        PROVE  answer'[t] \in {"file", "deleted", "absent"}
    BY <1>6 DEF DeleteForOwner, MarkUploaded, Answer, TypeOK
  <1>7. CASE CreateIfAbsent(t)
    <2>1. op[t].id \in FileIds
      BY <1>7, OperationKinds DEF CreateIfAbsent, Ready, JobOperation
    <2>2. [status |-> "QUEUED"] \in Job
      BY DEF Job
    <2>3. seen[t] = {jobs[op[t].id]} \ {NoJob}
      BY <1>7, FoundIs DEF CreateIfAbsent, Ready, Stands
    <2>4. jobs'[op[t].id] # NoJob
      BY <1>7, <2>1, <2>2, <2>3, NullAssumption DEF CreateIfAbsent, TypeOK
    <2>. QED  BY <1>7, <2>4, FileAnswers DEF AnswerHolds
  <1>8. CASE CreateUser(t)
    <2>1. op[t].id \in AccountIds /\ op[t].email \in Emails
      BY <1>8, OperationKinds DEF CreateUser, Ready, UserOperation
    <2>2. seen[t] = {a \in AccountIds : accounts[a] = op[t].email}
      BY <1>8, FoundIs DEF CreateUser, Ready, Stands
    <2>. QED
      BY <1>8, <2>1, <2>2, FileAnswers DEF AnswerHolds, CreateUser, Answer, TypeOK
  <1>. QED  BY <1>1, <1>2, <1>3, <1>4, <1>5, <1>6, <1>7, <1>8, CallStep

LEMMA DeletionStep ==
    ASSUME TypeOK, CallsInv, AnswersHold, OneDeletion, [Next]_vars
    PROVE  OneDeletion'
  <1>1. ASSUME NEW t \in Threads, answer'[t] = "deleted"
        PROVE  \/ op'[t] = op[t] /\ answer'[t] = answer[t] /\ files[op[t].id] = NoFile
               \/ DeleteForOwner(t) /\ op'[t] = op[t] /\ files[op[t].id] # NoFile
    <2>1. answer[t] = "deleted" => files[op[t].id] = NoFile
      BY AnswerAbout DEF AnswersHold, AnswerHolds
    <2>. QED  BY <1>1, <2>1, CallStep, FileAnswers
  <1>2. ASSUME NEW t \in Threads, DeleteForOwner(t), NEW s \in Threads, DeleteForOwner(s)
        PROVE  s = t
    BY <1>2 DEF DeleteForOwner, Ready, Answer, TypeOK
  <1>. QED  BY <1>1, <1>2 DEF OneDeletion

-----------------------------------------------------------------------------
(* The theorems.                                                           *)

\* The inductive invariant of the transactions.
THEOREM Invariance == Spec => []IInv
  <1>1. Init => IInv
    BY AttemptsAssumption, NullAssumption
    DEF Init, IInv, TypeOK, Stages, Answers, CallsInv, FreshInv, Creating, Touched,
        EmailUnique, AnswersHold, AnswerHolds, OneDeletion
  <1>2. IInv /\ [Next]_vars => IInv'
    BY TypeStep, CallsStep, FreshStep, EmailStep, AnswersStep, DeletionStep DEF IInv
  <1>. QED  BY <1>1, <1>2, PTL DEF Spec

\* Types of the transactions' variables.
THEOREM TypeCorrect == Spec => []TypeOK
  <1>1. IInv => TypeOK
    BY DEF IInv
  <1>. QED  BY <1>1, Invariance, PTL

\* create_user never gives one e-mail address two accounts.
THEOREM OneAccountPerEmail == Spec => []EmailUnique
  <1>1. IInv => EmailUnique
    BY DEF IInv
  <1>. QED  BY <1>1, Invariance, PTL

\* What a repository call has answered stays true while its caller acts on it.
THEOREM AnswersStayTrue == Spec => []AnswersHold
  <1>1. IInv => AnswersHold
    BY DEF IInv
  <1>. QED  BY <1>1, Invariance, PTL

\* One of the calls that delete a file at the same time is told so.
THEOREM DeletedOnce == Spec => []OneDeletion
  <1>1. IInv => OneDeletion
    BY DEF IInv
  <1>. QED  BY <1>1, Invariance, PTL

\* No transaction turns back the worker's status of a file or a job.
THEOREM WorkIsKept == Spec => WorkKept
  <1>1. IInv /\ [Next]_vars =>
           [\A f \in FileIds :
              /\ files[f] # NoFile /\ files'[f] # NoFile =>
                     Rank[files'[f].status] >= Rank[files[f].status]
              /\ jobs[f] # NoJob =>
                     jobs'[f] # NoJob /\ Rank[jobs'[f].status] >= Rank[jobs[f].status]]_vars
    <2>. SUFFICES ASSUME IInv, [Next]_vars, NEW f \in FileIds
                  PROVE  /\ files[f] # NoFile /\ files'[f] # NoFile =>
                              Rank[files'[f].status] >= Rank[files[f].status]
                         /\ jobs[f] # NoJob =>
                              jobs'[f] # NoJob /\ Rank[jobs'[f].status] >= Rank[jobs[f].status]
      OBVIOUS
    <2>1. TypeOK
      BY DEF IInv
    <2>2. files[f] # NoFile => Rank[files[f].status] \in Nat
      BY <2>1 DEF TypeOK, FileMetadata, Rank
    <2>3. files[f] # NoFile /\ files'[f] # NoFile => Forward(files[f], files'[f])
      BY <2>1, <2>2, FilesStep DEF Forward
    <2>. QED  BY <2>1, <2>3, JobsStep DEF Forward
  <1>. QED  BY <1>1, Invariance, PTL DEF Spec, WorkKept

-----------------------------------------------------------------------------
(* The length of a request.                                                *)

\* What StepsLeft is at each stage, with the aborts counted.
LEMMA StepsLeftIs ==
    ASSUME TypeOK, NEW t \in Threads
    PROVE  \E k \in 0 .. MaxAttempts - 1 :
              /\ aborts[t] = k
              /\ stage[t] = "start" => StepsLeft(t) =
                    2 * (MaxAttempts - k) + AfterAnswer(op[t].type = "mark_uploaded")
              /\ stage[t] = "read" => StepsLeft(t) =
                    2 * (MaxAttempts - k) - 1 + AfterAnswer(op[t].type = "mark_uploaded")
              /\ stage[t] = "done" => StepsLeft(t) =
                    IF answer[t] = "error" THEN 1 ELSE AfterAnswer(GoesOn(t))
              /\ stage[t] = "idle" => StepsLeft(t) = 0
  <1>1. aborts[t] \in 0 .. MaxAttempts - 1 /\ stage[t] \in Stages
    BY DEF TypeOK
  <1>. QED  BY <1>1 DEF StepsLeft, Stages

\* A request that is not idle has between one and 4 * MaxAttempts + 3 steps
\* left: two transactions' runs, an answer each, and the step between them.
LEMMA StepsLeftBounds ==
    ASSUME TypeOK, NEW t \in Threads
    PROVE  /\ StepsLeft(t) \in 0 .. (4 * MaxAttempts + 3)
           /\ stage[t] \in {"start", "read"} => StepsLeft(t) > 2
           /\ stage[t] # "idle" => StepsLeft(t) > 0
  <1>1. PICK k \in 0 .. MaxAttempts - 1 :
              /\ aborts[t] = k
              /\ stage[t] = "start" => StepsLeft(t) =
                    2 * (MaxAttempts - k) + AfterAnswer(op[t].type = "mark_uploaded")
              /\ stage[t] = "read" => StepsLeft(t) =
                    2 * (MaxAttempts - k) - 1 + AfterAnswer(op[t].type = "mark_uploaded")
              /\ stage[t] = "done" => StepsLeft(t) =
                    IF answer[t] = "error" THEN 1 ELSE AfterAnswer(GoesOn(t))
              /\ stage[t] = "idle" => StepsLeft(t) = 0
    BY StepsLeftIs
  <1>2. \A b \in BOOLEAN : AfterAnswer(b) \in 2 .. (2 * MaxAttempts + 3)
    BY AttemptsAssumption DEF AfterAnswer, Run
  <1>3. PICK a \in 2 .. (2 * MaxAttempts + 3), b \in 2 .. (2 * MaxAttempts + 3) :
            a = AfterAnswer(op[t].type = "mark_uploaded") /\ b = AfterAnswer(GoesOn(t))
    BY <1>2 DEF GoesOn
  <1>4. 2 * (MaxAttempts - k) \in 2 .. (2 * MaxAttempts)
    BY AttemptsAssumption
  <1>5. stage[t] \in Stages
    BY DEF TypeOK
  <1>. QED  BY <1>1, <1>3, <1>4, <1>5, AttemptsAssumption DEF Stages

\* A step of another thread, or of the worker, leaves a request as it is.
Standstill(t) == UNCHANGED <<op[t], stage[t], aborts[t], answer[t]>>

LEMMA OthersStandStill ==
    ASSUME TypeOK, NEW s \in Threads, NEW t \in Threads, s # t,
           Proceed(t) \/ Raise(t) \/ \E o \in Operations : Call(t, o)
    PROVE  Standstill(s)
  <1>1. ASSUME NEW a, Answer(t, a) PROVE Standstill(s)
    BY <1>1 DEF Answer, TypeOK, Standstill
  <1>. QED
    BY <1>1 DEF Proceed, Create, Read, DeleteForOwner, MarkUploaded, CreateIfAbsent,
       CreateUser, Abort, Raise, Return, Dispatch, Call, store, TypeOK, Standstill

\* An answer, be it an error, comes nearer to the end than the run before it.
LEMMA AnswerShortens ==
    ASSUME TypeOK, TypeOK', NEW t \in Threads, NEW a, Answer(t, a),
           stage[t] \in {"start", "read"},
           a = "file" => op[t].type \in {"create", "mark_uploaded"}
    PROVE  StepsLeft(t)' < StepsLeft(t)
  <1>1. /\ stage'[t] = "done" /\ answer'[t] = a /\ op'[t] = op[t]
    BY DEF Answer, TypeOK
  <1>2. StepsLeft(t)' = IF a = "error" THEN 1 ELSE AfterAnswer(GoesOn(t)')
    BY <1>1 DEF StepsLeft
  <1>3. GoesOn(t)' => op[t].type = "mark_uploaded"
    BY <1>1 DEF GoesOn
  <1>4. PICK k \in 0 .. MaxAttempts - 1 :
              /\ aborts[t] = k
              /\ stage[t] = "start" => StepsLeft(t) =
                    2 * (MaxAttempts - k) + AfterAnswer(op[t].type = "mark_uploaded")
              /\ stage[t] = "read" => StepsLeft(t) =
                    2 * (MaxAttempts - k) - 1 + AfterAnswer(op[t].type = "mark_uploaded")
    BY StepsLeftIs
  <1>5. PICK b \in Nat, c \in Nat :
            /\ b = AfterAnswer(op[t].type = "mark_uploaded") /\ c = AfterAnswer(GoesOn(t)')
            /\ 2 <= c /\ c <= b
    BY <1>3, AttemptsAssumption DEF AfterAnswer, Run
  <1>6. 2 * (MaxAttempts - k) \in Nat /\ 2 * (MaxAttempts - k) >= 2
    BY AttemptsAssumption
  <1>. QED  BY <1>2, <1>4, <1>5, <1>6

\* A step of the thread itself brings its request nearer to its end: a run of
\* the body, an abort that is counted, an answer, or an answer that is lost.
LEMMA StepShortens ==
    ASSUME TypeOK, TypeOK', CallsInv, NEW t \in Threads, stage[t] # "idle",
           Proceed(t) \/ Raise(t)
    PROVE  StepsLeft(t)' < StepsLeft(t) \/ Standstill(t)
  <1>1. CASE Create(t)
    BY <1>1, AnswerShortens DEF Create
  <1>2. ASSUME DeleteForOwner(t) \/ MarkUploaded(t) \/ CreateIfAbsent(t) \/ CreateUser(t)
        PROVE  StepsLeft(t)' < StepsLeft(t)
    <2>1. /\ stage[t] = "read"
          /\ \E a : Answer(t, a) /\ (a = "file" => op[t].type \in {"create", "mark_uploaded"})
      BY <1>2 DEF DeleteForOwner, MarkUploaded, CreateIfAbsent, CreateUser, Ready
    <2>. QED  BY <2>1, AnswerShortens
  <1>3. PICK k \in 0 .. MaxAttempts - 1 :
              /\ aborts[t] = k
              /\ stage[t] = "start" => StepsLeft(t) =
                    2 * (MaxAttempts - k) + AfterAnswer(op[t].type = "mark_uploaded")
              /\ stage[t] = "read" => StepsLeft(t) =
                    2 * (MaxAttempts - k) - 1 + AfterAnswer(op[t].type = "mark_uploaded")
              /\ stage[t] = "done" => StepsLeft(t) =
                    IF answer[t] = "error" THEN 1 ELSE AfterAnswer(GoesOn(t))
    BY StepsLeftIs
  <1>4. PICK b \in Nat : b = AfterAnswer(op[t].type = "mark_uploaded")
    BY AttemptsAssumption DEF AfterAnswer, Run
  <1>5. CASE Read(t)
    <2>1. /\ stage[t] = "start" /\ stage'[t] = "read" /\ aborts'[t] = k /\ op'[t] = op[t]
      BY <1>3, <1>5 DEF Read, TypeOK
    <2>2. StepsLeft(t)' = 2 * (MaxAttempts - k) - 1 + b
      BY <1>4, <2>1 DEF StepsLeft
    <2>. QED  BY <1>3, <1>4, <2>1, <2>2, AttemptsAssumption
  <1>6. CASE Abort(t)
    <2>1. stage[t] = "read"
      BY <1>6 DEF Abort
    <2>2. CASE Answer(t, "error")
      BY <2>1, <2>2, AnswerShortens
    <2>3. CASE ~ Answer(t, "error")
      <3>1. /\ k + 1 < MaxAttempts /\ aborts'[t] = k + 1
            /\ stage'[t] = "start" /\ op'[t] = op[t]
        BY <1>3, <1>6, <2>3 DEF Abort, TypeOK
      <3>2. StepsLeft(t)' = 2 * (MaxAttempts - (k + 1)) + b
        BY <1>4, <3>1 DEF StepsLeft
      <3>. QED  BY <1>3, <1>4, <2>1, <3>1, <3>2, AttemptsAssumption
    <2>. QED  BY <2>2, <2>3
  <1>7. CASE Return(t)
    <2>1. stage[t] = "done" /\ stage'[t] = "idle"
      BY <1>7 DEF Return, TypeOK
    <2>2. StepsLeft(t)' = 0
      BY <2>1 DEF StepsLeft
    <2>. QED  BY <2>1, <2>2, StepsLeftBounds
  <1>8. CASE Dispatch(t)
    <2>1. /\ stage[t] = "done" /\ GoesOn(t) /\ stage'[t] = "start" /\ aborts'[t] = k
          /\ op'[t].type = "create_if_absent" /\ answer[t] = "file"
      BY <1>3, <1>8 DEF Dispatch, GoesOn, TypeOK
    <2>2. StepsLeft(t)' = 2 * (MaxAttempts - k) + 2
      BY <2>1 DEF StepsLeft, AfterAnswer
    <2>3. StepsLeft(t) = 2 * MaxAttempts + 3
      BY <1>3, <2>1 DEF AfterAnswer, Run
    <2>. QED  BY <2>2, <2>3, AttemptsAssumption
  <1>9. CASE Raise(t)
    <2>1. CASE stage[t] \in {"start", "read"}
      BY <1>9, <2>1, AnswerShortens DEF Raise
    <2>2. CASE stage[t] = "done"
      <3>1. /\ stage'[t] = "done" /\ answer'[t] = "error" /\ op'[t] = op[t] /\ aborts'[t] = 0
        BY <1>9 DEF Raise, Answer, TypeOK
      <3>2. StepsLeft(t)' = 1
        BY <3>1 DEF StepsLeft
      <3>3. CASE answer[t] # "error"
        <4>1. StepsLeft(t) = AfterAnswer(GoesOn(t))
          BY <1>3, <2>2, <3>3
        <4>. QED  BY <3>2, <4>1, AttemptsAssumption DEF AfterAnswer, Run
      <3>4. CASE answer[t] = "error"
        BY <2>2, <3>1, <3>4 DEF Standstill, CallsInv
      <3>. QED  BY <3>3, <3>4
    <2>. QED  BY <1>9, <2>1, <2>2 DEF Raise, TypeOK, Stages
  <1>. QED
    BY <1>1, <1>2, <1>5, <1>6, <1>7, <1>8, <1>9 DEF Proceed

\* No contention, and no other thread, prolongs a request (files/repository.py:170
\* and its like leave the retries to the library, which counts them).
THEOREM RequestsShorten == Spec => CallsShorten
  <1>1. IInv /\ IInv' /\ [Next]_vars =>
           [\A t \in Threads : stage[t] # "idle" =>
              \/ StepsLeft(t)' < StepsLeft(t)
              \/ UNCHANGED <<op[t], stage[t], aborts[t], answer[t]>>]_vars
    <2>. SUFFICES ASSUME TypeOK, TypeOK', CallsInv, [Next]_vars,
                         NEW t \in Threads, stage[t] # "idle"
                  PROVE  StepsLeft(t)' < StepsLeft(t) \/ Standstill(t)
      BY DEF Standstill, IInv
    <2>1. ASSUME NEW s \in Threads, Proceed(s) \/ Raise(s) \/ \E o \in Operations : Call(s, o)
          PROVE  StepsLeft(t)' < StepsLeft(t) \/ Standstill(t)
      <3>1. CASE s # t
        BY <2>1, <3>1, OthersStandStill
      <3>2. CASE s = t
        BY <2>1, <3>2, StepShortens DEF Call
      <3>. QED  BY <3>1, <3>2
    <2>2. ASSUME NEW f \in FileIds, TakeUpFile(f) \/ TakeUpJob(f)
          PROVE  Standstill(t)
      BY <2>2 DEF TakeUpFile, TakeUpJob, calls, Standstill
    <2>3. CASE UNCHANGED vars
      BY <2>3 DEF vars, calls, Standstill
    <2>. QED  BY <2>1, <2>2, <2>3 DEF Next
  <1>. QED  BY <1>1, Invariance, PTL DEF Spec, CallsShorten

-----------------------------------------------------------------------------
(* The refinement.                                                         *)

\* An answer on the level of the promise.
LEMMA AnswerMaps ==
    ASSUME TypeOK, NEW t \in Threads, NEW a, Answer(t, a), stage[t] # "idle"
    PROVE  Atomic!Answer(t, a)
  BY DEF TypeOK, Answer, Atomic!Answer

LEMMA ReadyMaps ==
    ASSUME TypeOK, NEW t \in Threads, NEW type, Ready(t, type)
    PROVE  Atomic!Called(t, type)
  BY DEF Ready, Atomic!Called

\* The transaction's decision on what it read is the one on what is there.
LEMMA OwnedMaps ==
    ASSUME NEW t \in Threads, Ready(t, "delete_for_owner") \/ Ready(t, "mark_uploaded")
    PROVE  /\ Owned(t) <=> Atomic!Owned(op[t])
           /\ Owned(t) => /\ Pending(t) <=> Atomic!Status(op[t]) = "PENDING_UPLOAD"
                          /\ Uploaded(t) <=> Atomic!Status(op[t]) = "UPLOADED"
  <1>1. seen[t] = {files[op[t].id]} \ {NoFile}
    BY FoundIs DEF Ready, Stands
  <1>. QED  BY <1>1 DEF Owned, Pending, Uploaded, Atomic!Owned, Atomic!Status

LEMMA StepMaps ==
    ASSUME TypeOK, [Next]_vars
    PROVE  [Atomic!Next]_(Atomic!vars)
  <1>1. ASSUME NEW t \in Threads, NEW o \in Operations, Call(t, o)
        PROVE  Atomic!Call(t, o)
    BY <1>1 DEF Call, Atomic!Call, TypeOK
  <1>2. ASSUME NEW t \in Threads, Create(t)
        PROVE  Atomic!Create(t)
    BY <1>2, AnswerMaps DEF Create, Atomic!Create, Atomic!Called
  <1>3. ASSUME NEW t \in Threads, Read(t)
        PROVE  UNCHANGED Atomic!vars
    BY <1>3 DEF Read, store, Atomic!vars, Atomic!calls, TypeOK
  <1>4. ASSUME NEW t \in Threads, DeleteForOwner(t)
        PROVE  Atomic!DeleteForOwner(t)
    BY <1>4, ReadyMaps, OwnedMaps, AnswerMaps
    DEF DeleteForOwner, Ready, Atomic!DeleteForOwner
  <1>5. ASSUME NEW t \in Threads, MarkUploaded(t)
        PROVE  Atomic!MarkUploaded(t)
    <2>1. stage[t] # "idle" /\ Atomic!Called(t, "mark_uploaded")
      BY <1>5, ReadyMaps DEF MarkUploaded, Ready
    <2>2. /\ Owned(t) <=> Atomic!Owned(op[t])
          /\ Owned(t) => /\ Pending(t) <=> Atomic!Status(op[t]) = "PENDING_UPLOAD"
                         /\ Uploaded(t) <=> Atomic!Status(op[t]) = "UPLOADED"
      BY <1>5, OwnedMaps DEF MarkUploaded
    <2>. QED  BY <1>5, <2>1, <2>2, AnswerMaps DEF MarkUploaded, Atomic!MarkUploaded
  <1>6. ASSUME NEW t \in Threads, CreateIfAbsent(t)
        PROVE  Atomic!CreateIfAbsent(t)
    <2>1. seen[t] = {jobs[op[t].id]} \ {NoJob}
      BY <1>6, FoundIs DEF CreateIfAbsent, Ready, Stands
    <2>. QED
      BY <1>6, <2>1, ReadyMaps, AnswerMaps DEF CreateIfAbsent, Ready, Atomic!CreateIfAbsent
  <1>7. ASSUME NEW t \in Threads, CreateUser(t)
        PROVE  Atomic!CreateUser(t)
    <2>1. seen[t] = {a \in AccountIds : accounts[a] = op[t].email}
      BY <1>7, FoundIs DEF CreateUser, Ready, Stands
    <2>2. seen[t] = {} <=> ~ Atomic!Registered(op[t].email)
      BY <2>1 DEF Atomic!Registered
    <2>. QED
      BY <1>7, <2>2, ReadyMaps, AnswerMaps DEF CreateUser, Ready, Atomic!CreateUser
  <1>8. ASSUME NEW t \in Threads, Raise(t)
        PROVE  Atomic!Raise(t)
    BY <1>8, AnswerMaps DEF Raise, Atomic!Raise, TypeOK, Stages
  <1>9. ASSUME NEW t \in Threads, Abort(t)
        PROVE  Atomic!Raise(t) \/ UNCHANGED Atomic!vars
    <2>1. CASE Answer(t, "error")
      BY <1>9, <2>1, AnswerMaps DEF Abort, Atomic!Raise
    <2>2. CASE ~ Answer(t, "error")
      BY <1>9, <2>2 DEF Abort, Atomic!vars, Atomic!calls, TypeOK
    <2>. QED  BY <2>1, <2>2
  <1>10. ASSUME NEW t \in Threads, Return(t)
         PROVE  Atomic!Return(t)
    BY <1>10 DEF Return, store, Atomic!Return, TypeOK
  <1>11. ASSUME NEW t \in Threads, Dispatch(t)
         PROVE  Atomic!Dispatch(t)
    BY <1>11 DEF Dispatch, GoesOn, store, Atomic!Dispatch, TypeOK
  <1>12. ASSUME NEW f \in FileIds, TakeUpFile(f)
         PROVE  Atomic!TakeUpFile(f)
    BY <1>12 DEF TakeUpFile, calls, Atomic!TakeUpFile, Atomic!calls
  <1>13. ASSUME NEW f \in FileIds, TakeUpJob(f)
         PROVE  Atomic!TakeUpJob(f)
    BY <1>13 DEF TakeUpJob, calls, Atomic!TakeUpJob, Atomic!calls
  <1>14. CASE UNCHANGED vars
    BY <1>14 DEF vars, store, calls, Atomic!vars, Atomic!calls
  <1>. QED
    BY <1>1, <1>2, <1>3, <1>4, <1>5, <1>6, <1>7, <1>8, <1>9, <1>10, <1>11, <1>12,
       <1>13, <1>14
    DEF Next, Proceed, Atomic!Next

\* The Firestore repositories implement the atomic ones.
THEOREM TransactionsAreAtomic == Spec => RefinesAtomic
  <1>1. Init => Atomic!Init
    BY DEF Init, Atomic!Init
  <1>2. IInv /\ [Next]_vars => [Atomic!Next]_(Atomic!vars)
    BY StepMaps DEF IInv
  <1>. QED  BY <1>1, <1>2, Invariance, PTL DEF Spec, RefinesAtomic, Atomic!Spec
=============================================================================
