-------------------------- MODULE AtomicRepositories --------------------------
(***************************************************************************)
(* What the repositories of files, jobs and accounts promise their         *)
(* callers: every operation happens at one instant between its call and    *)
(* its return.  It is written from the in-memory backends, where a lock    *)
(* held for the whole operation makes this so.  A call may also raise,     *)
(* before the operation has happened or after it: that is all a remote     *)
(* store can promise.                                                      *)
(***************************************************************************)
CONSTANTS
    Threads,        \* threads that serve requests
    FileIds, AccountIds,
    Operations,     \* the calls that requests make, as records
    NoFile, NoJob, NoAccount, NoOperation

VARIABLES
    files, jobs,    \* id of a file -> its document, the document of its job
    accounts,       \* account id -> e-mail address
    issued,         \* ids that were drawn for new documents
    op,             \* thread -> the call it is in, or NoOperation
    stage,          \* thread -> "idle", "called" or "done"
    answer          \* thread -> what the call has returned

calls == <<op, stage, answer>>
vars == <<files, jobs, accounts, issued, calls>>

-----------------------------------------------------------------------------
Init ==
    /\ files = [f \in FileIds |-> NoFile]
    /\ jobs = [f \in FileIds |-> NoJob]
    /\ accounts = [a \in AccountIds |-> NoAccount]
    /\ issued = {}
    /\ op = [t \in Threads |-> NoOperation]
    /\ stage = [t \in Threads |-> "idle"]
    /\ answer = [t \in Threads |-> "none"]

Called(t, type) == stage[t] = "called" /\ op[t].type = type

Answer(t, a) ==
    /\ stage' = [stage EXCEPT ![t] = "done"]
    /\ answer' = [answer EXCEPT ![t] = a]
    /\ UNCHANGED <<issued, op>>

\* The document an operation is about, if it is there and belongs to the owner
\* that the operation names.
Owned(o) == files[o.id] # NoFile /\ files[o.id].owner_id = o.owner_id

Status(o) == files[o.id].status

-----------------------------------------------------------------------------
\* A request makes a call.  Ids of new documents were never used before.
Call(t, o) ==
    /\ stage[t] = "idle"
    /\ IF o.type \in {"create", "create_user"}
       THEN o.id \notin issued /\ issued' = issued \union {o.id}
       ELSE UNCHANGED issued
    /\ op' = [op EXCEPT ![t] = o]
    /\ stage' = [stage EXCEPT ![t] = "called"]
    /\ UNCHANGED <<files, jobs, accounts, answer>>

Create(t) ==
    /\ Called(t, "create")
    /\ files[op[t].id] = NoFile
    /\ files' = [files EXCEPT ![op[t].id] =
                    [owner_id |-> op[t].owner_id, status |-> "PENDING_UPLOAD"]]
    /\ Answer(t, "file")
    /\ UNCHANGED <<jobs, accounts>>

DeleteForOwner(t) ==
    /\ Called(t, "delete_for_owner")
    /\ \/ /\ Owned(op[t])
          /\ files' = [files EXCEPT ![op[t].id] = NoFile]
          /\ Answer(t, "deleted")
       \/ ~ Owned(op[t]) /\ Answer(t, "absent") /\ UNCHANGED files
    /\ UNCHANGED <<jobs, accounts>>

MarkUploaded(t) ==
    /\ Called(t, "mark_uploaded")
    /\ \/ /\ Owned(op[t]) /\ Status(op[t]) = "PENDING_UPLOAD"
          /\ files' = [files EXCEPT ![op[t].id].status = "UPLOADED"]
          /\ Answer(t, "file")
       \/ /\ Owned(op[t]) /\ Status(op[t]) = "UPLOADED"
          /\ Answer(t, "file")
          /\ UNCHANGED files
       \/ /\ Owned(op[t]) => Status(op[t]) \notin {"PENDING_UPLOAD", "UPLOADED"}
          /\ Answer(t, "absent")
          /\ UNCHANGED files
    /\ UNCHANGED <<jobs, accounts>>

CreateIfAbsent(t) ==
    /\ Called(t, "create_if_absent")
    /\ \/ /\ jobs[op[t].id] = NoJob
          /\ jobs' = [jobs EXCEPT ![op[t].id] = [status |-> "QUEUED"]]
       \/ jobs[op[t].id] # NoJob /\ UNCHANGED jobs
    /\ Answer(t, "job")
    /\ UNCHANGED <<files, accounts>>

Registered(email) == \E a \in AccountIds : accounts[a] = email

CreateUser(t) ==
    /\ Called(t, "create_user")
    /\ \/ /\ ~ Registered(op[t].email)
          /\ accounts' = [accounts EXCEPT ![op[t].id] = op[t].email]
          /\ Answer(t, "account")
       \/ /\ Registered(op[t].email)
          /\ Answer(t, "taken")
          /\ UNCHANGED accounts
    /\ UNCHANGED <<files, jobs>>

-----------------------------------------------------------------------------
\* The call raises, and has had no effect; or it has had its effect and its
\* answer is lost.
Raise(t) ==
    /\ stage[t] \in {"called", "done"}
    /\ Answer(t, "error")
    /\ UNCHANGED <<files, jobs, accounts>>

\* The request is over, or, when an event has found its file, goes on to
\* create the job.
Return(t) ==
    /\ stage[t] = "done"
    /\ stage' = [stage EXCEPT ![t] = "idle"]
    /\ op' = [op EXCEPT ![t] = NoOperation]
    /\ answer' = [answer EXCEPT ![t] = "none"]
    /\ UNCHANGED <<files, jobs, accounts, issued>>

Dispatch(t) ==
    /\ stage[t] = "done" /\ op[t].type = "mark_uploaded" /\ answer[t] = "file"
    /\ op' = [op EXCEPT ![t] = [type |-> "create_if_absent", id |-> op[t].id]]
    /\ stage' = [stage EXCEPT ![t] = "called"]
    /\ answer' = [answer EXCEPT ![t] = "none"]
    /\ UNCHANGED <<files, jobs, accounts, issued>>

\* The worker takes up a file or a job.
TakeUpFile(f) ==
    /\ files[f] # NoFile /\ files[f].status = "UPLOADED"
    /\ files' = [files EXCEPT ![f].status = "SCANNING"]
    /\ UNCHANGED <<jobs, accounts, issued, calls>>

TakeUpJob(f) ==
    /\ jobs[f] # NoJob /\ jobs[f].status = "QUEUED"
    /\ jobs' = [jobs EXCEPT ![f].status = "PROCESSING"]
    /\ UNCHANGED <<files, accounts, issued, calls>>

Next ==
    \/ \E t \in Threads :
          \/ \E o \in Operations : Call(t, o)
          \/ Create(t) \/ DeleteForOwner(t) \/ MarkUploaded(t)
          \/ CreateIfAbsent(t) \/ CreateUser(t)
          \/ Raise(t) \/ Return(t) \/ Dispatch(t)
    \/ \E f \in FileIds : TakeUpFile(f) \/ TakeUpJob(f)

Spec == Init /\ [][Next]_vars
=============================================================================
