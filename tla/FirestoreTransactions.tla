------------------------ MODULE FirestoreTransactions ------------------------
(***************************************************************************)
(* The Firestore repositories of files, jobs and accounts, inside their    *)
(* operations.  Each of delete_for_owner, mark_uploaded, create_if_absent  *)
(* and create_user is a function that the client library runs as the body  *)
(* of a transaction: it reads, decides on what it has read, and buffers a  *)
(* write that takes effect at the commit.  The store refuses to commit     *)
(* when what was read has changed since, or when it likes to (contention), *)
(* and the library then runs the body again, a bounded number of times.    *)
(* `create` of a file is a single conditional write.                       *)
(*                                                                         *)
(* The transaction's promise is external and is modelled by `Stands`: a    *)
(* commit goes through only if the reads of its transaction would give     *)
(* the same result at the instant of the commit.                           *)
(***************************************************************************)
EXTENDS Naturals

CONSTANTS
    Threads,        \* threads that serve requests, on all instances
    FileIds, AccountIds,
    Owners,
    Emails,         \* addresses, as normalize_email leaves them
    Operations,     \* the calls that requests make (a bound)
    MaxAttempts,    \* how often the library runs a transaction: 5
    NoFile, NoJob, NoAccount, NoOperation

VARIABLES
    files, jobs,    \* the two collections: id -> document, or NoFile, NoJob
                    \*   (a job's id is derived from its file's)
    accounts,       \* the users collection: id -> e-mail address, or NoAccount
    issued,         \* ids that were drawn for new documents
    op,             \* thread -> the call it is in, or NoOperation
    stage,          \* thread -> "idle"; "start": a run of the body is due;
                    \*   "read": it has read; "done": the call has an answer
    seen,           \* thread -> the documents its transaction has read
    aborts,         \* thread -> how often its transaction was aborted
    answer          \* thread -> what the call has returned

store == <<files, jobs, accounts, issued>>
calls == <<op, stage, seen, aborts, answer>>
vars == <<store, calls>>

-----------------------------------------------------------------------------
(* Documents and calls.  The key that an event of file id f names is        *)
(* <prefix>/<owner>/f, so it is the key of the document if and only if the  *)
(* owners agree: `mark_uploaded` names the owner in the key.                *)

FileMetadata == [owner_id : Owners,
                 status   : {"PENDING_UPLOAD", "UPLOADED", "SCANNING"}]
Job == [status : {"QUEUED", "PROCESSING"}]

FileOperation ==
    [type     : {"create", "delete_for_owner", "mark_uploaded"},
     id       : FileIds,
     owner_id : Owners]
JobOperation == [type : {"create_if_absent"}, id : FileIds]
UserOperation == [type : {"create_user"}, id : AccountIds, email : Emails]

Stages == {"idle", "start", "read", "done"}
Answers == {"none", "file", "deleted", "absent", "job", "account", "taken", "error"}

ASSUME OperationsAssumption == Operations \subseteq FileOperation \union UserOperation
ASSUME AttemptsAssumption == MaxAttempts \in Nat \ {0}
ASSUME NullAssumption == /\ NoFile \notin FileMetadata
                         /\ NoJob \notin Job
                         /\ NoAccount \notin Emails
                         /\ NoOperation \notin
                              FileOperation \union JobOperation \union UserOperation

-----------------------------------------------------------------------------
\* The read of a transaction's body: one document, or the accounts that the
\* query for an e-mail address finds.
Found(o) ==
    CASE o.type \in {"delete_for_owner", "mark_uploaded"} -> {files[o.id]} \ {NoFile}
      [] o.type = "create_if_absent" -> {jobs[o.id]} \ {NoJob}
      [] o.type = "create_user" -> {a \in AccountIds : accounts[a] = o.email}
      [] OTHER -> {}

\* What the transaction has read is what it would read now.
Stands(t) == seen[t] = Found(op[t])

AnyOwner(t) == seen[t] # {}   \* faulty variant

\* The decisions of the bodies, all on what was read.  For mark_uploaded,
\* Owned says that the document has the event's storage key.
Owned(t) == \E d \in seen[t] : d.owner_id = op[t].owner_id
Pending(t) == \E d \in seen[t] : d.status = "PENDING_UPLOAD"

NotYetScanning(t) == \E d \in seen[t] : d.status # "SCANNING"   \* faulty variant

Uploaded(t) == \E d \in seen[t] : d.status = "UPLOADED"

Ready(t, type) == stage[t] = "read" /\ op[t].type = type /\ Stands(t)

Answer(t, a) ==
    /\ stage' = [stage EXCEPT ![t] = "done"]
    /\ answer' = [answer EXCEPT ![t] = a]
    /\ seen' = [seen EXCEPT ![t] = {}]
    /\ aborts' = [aborts EXCEPT ![t] = 0]
    /\ UNCHANGED <<op, issued>>

-----------------------------------------------------------------------------
Init ==
    /\ files = [f \in FileIds |-> NoFile]
    /\ jobs = [f \in FileIds |-> NoJob]
    /\ accounts = [a \in AccountIds |-> NoAccount]
    /\ issued = {}
    /\ op = [t \in Threads |-> NoOperation]
    /\ stage = [t \in Threads |-> "idle"]
    /\ seen = [t \in Threads |-> {}]
    /\ aborts = [t \in Threads |-> 0]
    /\ answer = [t \in Threads |-> "none"]

CallWithAnyId(t, o) ==   \* faulty variant: the id may be in use
    /\ stage[t] = "idle"
    /\ issued' = issued \union {o.id}
    /\ op' = [op EXCEPT ![t] = o]
    /\ stage' = [stage EXCEPT ![t] = "start"]
    /\ UNCHANGED <<files, jobs, accounts, seen, aborts, answer>>

\* A request makes a call.  new_file_id and users.document() have drawn an id
\* that no document ever had.
Call(t, o) ==
    /\ stage[t] = "idle"
    /\ \/ o.type \notin {"create", "create_user"} /\ UNCHANGED issued
       \/ /\ o.type \in {"create", "create_user"}
          /\ o.id \notin issued
          /\ issued' = issued \union {o.id}
    /\ op' = [op EXCEPT ![t] = o]
    /\ stage' = [stage EXCEPT ![t] = "start"]
    /\ UNCHANGED <<files, jobs, accounts, seen, aborts, answer>>

\* FirestoreFileRepository.create: one write, on condition that the document
\* does not exist.
Create(t) ==
    /\ stage[t] = "start" /\ op[t].type = "create"
    /\ files[op[t].id] = NoFile
    /\ files' = [files EXCEPT ![op[t].id] =
                    [owner_id |-> op[t].owner_id, status |-> "PENDING_UPLOAD"]]
    /\ Answer(t, "file")
    /\ UNCHANGED <<jobs, accounts>>

-----------------------------------------------------------------------------
(* A transaction. *)

\* The library begins a transaction and runs the body up to its commit.
Read(t) ==
    /\ stage[t] = "start" /\ op[t].type # "create"
    /\ stage' = [stage EXCEPT ![t] = "read"]
    /\ seen' = [seen EXCEPT ![t] = Found(op[t])]
    /\ UNCHANGED <<store, op, aborts, answer>>

\* Faulty variant: the document is read without transaction=.
DeleteWhatWasRead(t) ==
    /\ stage[t] = "read" /\ op[t].type = "delete_for_owner"
    /\ \/ /\ Owned(t)
          /\ files' = [files EXCEPT ![op[t].id] = NoFile]
          /\ Answer(t, "deleted")
       \/ ~ Owned(t) /\ Answer(t, "absent") /\ UNCHANGED files
    /\ UNCHANGED <<jobs, accounts>>

DeleteForOwner(t) ==
    /\ Ready(t, "delete_for_owner")
    /\ \/ /\ Owned(t)
          /\ files' = [files EXCEPT ![op[t].id] = NoFile]
          /\ Answer(t, "deleted")
       \/ ~ Owned(t) /\ Answer(t, "absent") /\ UNCHANGED files
    /\ UNCHANGED <<jobs, accounts>>

\* Faulty variant: the document is read without transaction=.
MarkWhatWasRead(t) ==
    /\ stage[t] = "read" /\ op[t].type = "mark_uploaded"
    /\ \/ /\ Owned(t) /\ Pending(t)
          /\ files[op[t].id] # NoFile
          /\ files' = [files EXCEPT ![op[t].id].status = "UPLOADED"]
          /\ Answer(t, "file")
       \/ Owned(t) /\ Uploaded(t) /\ Answer(t, "file") /\ UNCHANGED files
       \/ /\ ~ (Owned(t) /\ (Pending(t) \/ Uploaded(t)))
          /\ Answer(t, "absent")
          /\ UNCHANGED files
    /\ UNCHANGED <<jobs, accounts>>

\* A document's update is refused if the document is gone.
MarkUploaded(t) ==
    /\ Ready(t, "mark_uploaded")
    /\ \/ /\ Owned(t) /\ Pending(t)
          /\ files[op[t].id] # NoFile
          /\ files' = [files EXCEPT ![op[t].id].status = "UPLOADED"]
          /\ Answer(t, "file")
       \/ Owned(t) /\ Uploaded(t) /\ Answer(t, "file") /\ UNCHANGED files
       \/ /\ ~ (Owned(t) /\ (Pending(t) \/ Uploaded(t)))
          /\ Answer(t, "absent")
          /\ UNCHANGED files
    /\ UNCHANGED <<jobs, accounts>>

\* A document's creation is refused if the document exists.
CreateIfAbsent(t) ==
    /\ Ready(t, "create_if_absent")
    /\ \/ /\ seen[t] = {}
          /\ jobs[op[t].id] = NoJob
          /\ jobs' = [jobs EXCEPT ![op[t].id] = [status |-> "QUEUED"]]
       \/ seen[t] # {} /\ UNCHANGED jobs
    /\ Answer(t, "job")
    /\ UNCHANGED <<files, accounts>>

\* Faulty variant: the query for the e-mail address runs without transaction=.
CreateUserAfterQuery(t) ==
    /\ stage[t] = "read" /\ op[t].type = "create_user"
    /\ \/ /\ seen[t] = {}
          /\ accounts[op[t].id] = NoAccount
          /\ accounts' = [accounts EXCEPT ![op[t].id] = op[t].email]
          /\ Answer(t, "account")
       \/ seen[t] # {} /\ Answer(t, "taken") /\ UNCHANGED accounts
    /\ UNCHANGED <<files, jobs>>

CreateUser(t) ==
    /\ Ready(t, "create_user")
    /\ \/ /\ seen[t] = {}
          /\ accounts[op[t].id] = NoAccount
          /\ accounts' = [accounts EXCEPT ![op[t].id] = op[t].email]
          /\ Answer(t, "account")
       \/ seen[t] # {} /\ Answer(t, "taken") /\ UNCHANGED accounts
    /\ UNCHANGED <<files, jobs>>

\* Faulty variant of Abort: the attempts are not counted.
RetryForever(t) ==
    /\ stage[t] = "read"
    /\ stage' = [stage EXCEPT ![t] = "start"]
    /\ seen' = [seen EXCEPT ![t] = {}]
    /\ UNCHANGED <<store, op, aborts, answer>>

\* The store aborts the transaction: the library runs the body again, until
\* the attempts are used up and it raises ValueError.
Abort(t) ==
    /\ stage[t] = "read"
    /\ \/ /\ aborts[t] + 1 < MaxAttempts
          /\ aborts' = [aborts EXCEPT ![t] = @ + 1]
          /\ stage' = [stage EXCEPT ![t] = "start"]
          /\ seen' = [seen EXCEPT ![t] = {}]
          /\ UNCHANGED <<issued, op, answer>>
       \/ aborts[t] + 1 = MaxAttempts /\ Answer(t, "error")
    /\ UNCHANGED <<files, jobs, accounts>>

\* A call to the store raises: before the commit, which rolls the transaction
\* back; or at a commit that has taken effect and whose answer is lost.
Raise(t) ==
    /\ stage[t] # "idle"
    /\ Answer(t, "error")
    /\ UNCHANGED <<files, jobs, accounts>>

-----------------------------------------------------------------------------
(* After the call. *)

GoesOn(t) == op[t].type = "mark_uploaded" /\ answer[t] = "file"

\* The caller answers its request: 201, 204, 404, 409, 500.
Return(t) ==
    /\ stage[t] = "done" /\ ~ GoesOn(t)
    /\ stage' = [stage EXCEPT ![t] = "idle"]
    /\ op' = [op EXCEPT ![t] = NoOperation]
    /\ answer' = [answer EXCEPT ![t] = "none"]
    /\ UNCHANGED <<store, seen, aborts>>

\* storage_event has its file and dispatches the scan.
Dispatch(t) ==
    /\ stage[t] = "done" /\ GoesOn(t)
    /\ op' = [op EXCEPT ![t] = [type |-> "create_if_absent", id |-> op[t].id]]
    /\ stage' = [stage EXCEPT ![t] = "start"]
    /\ answer' = [answer EXCEPT ![t] = "none"]
    /\ UNCHANGED <<store, seen, aborts>>

\* The worker, outside this repository, takes up a file or a job.
TakeUpFile(f) ==
    /\ files[f] # NoFile /\ files[f].status = "UPLOADED"
    /\ files' = [files EXCEPT ![f].status = "SCANNING"]
    /\ UNCHANGED <<jobs, accounts, issued, calls>>

TakeUpJob(f) ==
    /\ jobs[f] # NoJob /\ jobs[f].status = "QUEUED"
    /\ jobs' = [jobs EXCEPT ![f].status = "PROCESSING"]
    /\ UNCHANGED <<files, accounts, issued, calls>>

-----------------------------------------------------------------------------
\* One step of the thread in its call, unless it raises.
Proceed(t) ==
    \/ Create(t) \/ Read(t)
    \/ DeleteForOwner(t) \/ MarkUploaded(t) \/ CreateIfAbsent(t) \/ CreateUser(t)
    \/ Abort(t) \/ Return(t) \/ Dispatch(t)

Next ==
    \/ \E t \in Threads : Proceed(t) \/ Raise(t) \/ \E o \in Operations : Call(t, o)
    \/ \E f \in FileIds : TakeUpFile(f) \/ TakeUpJob(f)

Spec == Init /\ [][Next]_vars

\* A thread inside a call goes on.  Nothing is assumed of new requests, of
\* failures or of the worker.
FairSpec == Spec /\ \A t \in Threads : WF_vars(Proceed(t))

-----------------------------------------------------------------------------
(* Properties. *)

Seeable == FileMetadata \union Job \union AccountIds

\* Types; and a thread is in a call exactly when it is not idle.
TypeOK ==
    /\ files \in [FileIds -> FileMetadata \union {NoFile}]
    /\ jobs \in [FileIds -> Job \union {NoJob}]
    /\ accounts \in [AccountIds -> Emails \union {NoAccount}]
    /\ issued \subseteq FileIds \union AccountIds
    /\ op \in [Threads -> FileOperation \union JobOperation \union UserOperation
                            \union {NoOperation}]
    /\ stage \in [Threads -> Stages]
    /\ seen \in [Threads -> SUBSET Seeable]
    /\ aborts \in [Threads -> 0 .. MaxAttempts - 1]
    /\ answer \in [Threads -> Answers]
    /\ \A t \in Threads : stage[t] = "idle" <=> op[t] = NoOperation

\* Two registrations that run at the same time never both get the address:
\* an e-mail address has one account, though the users collection has no
\* uniqueness constraint and create_user only queries before it creates.
EmailUnique ==
    \A a, b \in AccountIds :
        accounts[a] = accounts[b] /\ accounts[a] # NoAccount => a = b

\* What a call has answered is still true when its caller acts on it, whatever
\* the other threads and the worker have done since: a file that was confirmed
\* is gone or past PENDING_UPLOAD, a deleted one does not come back, the job
\* that is enqueued next exists, an account is the one that was made, an
\* address that was refused has an account.
AnswerHolds(t) ==
    LET o == op[t] IN
    /\ answer[t] = "file" /\ o.type = "mark_uploaded" =>
           files[o.id] = NoFile \/ files[o.id].status # "PENDING_UPLOAD"
    /\ answer[t] = "deleted" => files[o.id] = NoFile
    /\ answer[t] = "job" => jobs[o.id] # NoJob
    /\ answer[t] = "account" => accounts[o.id] = o.email
    /\ answer[t] = "taken" => \E a \in AccountIds : accounts[a] = o.email

AnswersHold == \A t \in Threads : stage[t] = "done" => AnswerHolds(t)

\* Of the calls that delete one file, one is told that it did: the others get
\* 404.
OneDeletion ==
    \A s, t \in Threads :
        answer[s] = "deleted" /\ answer[t] = "deleted" /\ op[s].id = op[t].id => s = t

\* What the calls in progress know of the ids they use: a new id belongs to one
\* call, and until that has created its document no other call has found it.
Creating(t, f) == stage[t] = "start" /\ op[t].type = "create" /\ op[t].id = f
Touched(f) ==
    \/ files[f] # NoFile
    \/ \E t \in Threads : answer[t] \in {"file", "deleted"} /\ op[t].id = f

FreshInv ==
    \A f \in FileIds :
        /\ f \notin issued => ~ Touched(f)
        /\ \A s \in Threads : Creating(s, f) =>
               /\ f \in issued
               /\ ~ Touched(f)
               /\ \A t \in Threads : Creating(t, f) => s = t

\* Each answer belongs to its kind of call.
AnswersOf ==
    [none    |-> {"create", "delete_for_owner", "mark_uploaded", "create_if_absent",
                  "create_user"},
     file    |-> {"create", "mark_uploaded"},
     deleted |-> {"delete_for_owner"},
     absent  |-> {"delete_for_owner", "mark_uploaded"},
     job     |-> {"create_if_absent"},
     account |-> {"create_user"},
     taken   |-> {"create_user"},
     error   |-> {"create", "delete_for_owner", "mark_uploaded", "create_if_absent",
                  "create_user"}]

CallsInv ==
    \A t \in Threads :
        /\ stage[t] # "done" => answer[t] = "none"
        /\ stage[t] # "idle" => op[t].type \in AnswersOf[answer[t]]
        /\ stage[t] = "read" => op[t].type # "create"
        /\ stage[t] \in {"idle", "done"} => aborts[t] = 0

\* The inductive invariant: the answers in hand stay true because ids are
\* fresh, which the types of the calls in progress are needed to see.
IInv ==
    /\ TypeOK
    /\ CallsInv
    /\ FreshInv
    /\ EmailUnique
    /\ AnswersHold
    /\ OneDeletion

Rank == [PENDING_UPLOAD |-> 0, UPLOADED |-> 1, SCANNING |-> 2,
         QUEUED |-> 0, PROCESSING |-> 1]

\* A transaction never writes over what the worker has done since it read: the
\* status of a file or a job is not turned back.
WorkKept ==
    [][\A f \in FileIds :
         /\ files[f] # NoFile /\ files'[f] # NoFile =>
                Rank[files'[f].status] >= Rank[files[f].status]
         /\ jobs[f] # NoJob =>
                jobs'[f] # NoJob /\ Rank[jobs'[f].status] >= Rank[jobs[f].status]]_vars

\* The steps of its own that a thread has left in its request: each run of a
\* body takes two, an answer one more, which may still be lost, and an event
\* that was accepted goes on to its job.
Run == 2 * MaxAttempts

AfterAnswer(going) == IF going THEN Run + 3 ELSE 2

StepsLeft(t) ==
    CASE stage[t] = "start" ->
           2 * (MaxAttempts - aborts[t]) + AfterAnswer(op[t].type = "mark_uploaded")
      [] stage[t] = "read" ->
           2 * (MaxAttempts - aborts[t]) - 1 + AfterAnswer(op[t].type = "mark_uploaded")
      [] stage[t] = "done" -> IF answer[t] = "error" THEN 1 ELSE AfterAnswer(GoesOn(t))
      [] OTHER -> 0

\* No contention prolongs a request: whatever the store refuses and the other
\* threads do, a step leaves a request as it is or brings it nearer to its end.
CallsShorten ==
    [][\A t \in Threads : stage[t] # "idle" =>
         \/ StepsLeft(t)' < StepsLeft(t)
         \/ UNCHANGED <<op[t], stage[t], aborts[t], answer[t]>>]_vars

\* The repositories over Firestore are atomic: they implement what the
\* in-memory ones give by their lock, with calls that may raise.
Atomic == INSTANCE AtomicRepositories
    WITH stage <- [t \in Threads |->
                      IF stage[t] \in {"start", "read"} THEN "called" ELSE stage[t]]

RefinesAtomic == Atomic!Spec

\* Contention cannot hold a request for ever: every call ends, in an answer or
\* in an error, because the library gives up after MaxAttempts.
CallsReturn == \A t \in Threads : stage[t] # "idle" ~> stage[t] = "idle"
=============================================================================
