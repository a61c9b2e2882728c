---------------------------- MODULE ScanPipeline ----------------------------
(***************************************************************************)
(* The upload-to-scan pipeline of the API, from the request for an upload  *)
(* URL to the security scan task in Cloud Tasks:                           *)
(*                                                                         *)
(*   POST /files/upload-url   CreatePendingUpload, SignUploadUrl           *)
(*   PUT to the signed URL    Upload                                       *)
(*   POST /events/storage     Receive .. Reply, once per delivery          *)
(*   DELETE /files/{id}       DeleteFile                                   *)
(*                                                                         *)
(* The endpoints are synchronous functions: a request runs on a thread of  *)
(* one of several instances, so each repository, queue or storage call is  *)
(* one step (a Firestore transaction, a lock, one RPC) and the steps of    *)
(* different requests interleave.  An event delivery holds the pc of its   *)
(* handler between two calls.  The finalized event of an upload is         *)
(* delivered at least once: again and again until some delivery is         *)
(* answered 2xx, and possibly again after that.                            *)
(***************************************************************************)
EXTENDS StorageKeys

CONSTANTS
    Users,           \* owner ids
    FileIds,         \* ids that new_file_id can return, each at most once
    Messages,        \* storage events that can be published (a bound)
    Handlers,        \* threads that run storage_event
    Buckets,         \* bucket names
    GcsBucketName,   \* the setting GCS_BUCKET_NAME: a bucket, or Unset
    Unset,           \* the empty setting
    ForeignEvents,   \* events that no upload through a signed URL caused
    NoFile, NoEvent, NoMessage

VARIABLES
    files,       \* the files collection: id -> document or NoFile
    jobs,        \* the documents of the jobs collection
    tasks,       \* the tasks ever created in the Cloud Tasks queue
    remembered,  \* names that create_task answers AlreadyExists: those of the
                 \*   tasks in the queue, and of some that have left it
    issued,      \* ids that new_file_id has returned
    signing,     \* keys whose upload-url request has stored its document and
                 \*   has not yet got the signed URL
    urls,        \* keys with a signed PUT URL in a client's hands
    event,       \* Messages -> the storage event published, or NoEvent
    acked,       \* messages some delivery of which was answered 2xx
    pc,          \* Handlers -> where the thread stands in storage_event
    delivery,    \* Handlers -> the message it works on, or NoMessage
    confirmed    \* history: files that were ever moved to UPLOADED

queueVars == <<tasks, remembered>>
requestVars == <<issued, signing, urls>>
handlerVars == <<acked, pc, delivery>>
vars == <<files, jobs, queueVars, requestVars, event, handlerVars, confirmed>>

-----------------------------------------------------------------------------
FileStatus == {"PENDING_UPLOAD", "UPLOADED", "SCANNING", "SAFE", "REJECTED",
               "PROCESSING", "COMPLETED", "FAILED"}
JobStatus == {"QUEUED", "PROCESSING", "COMPLETED", "FAILED"}
Steps == {"idle", "refuse", "mark", "create", "enqueue", "reply"}

JobIds == {"security-scan"} \X FileIds
FileMetadata == [owner_id : Users, storage_key : Name, status : FileStatus]
Job == [id : JobIds, file_id : FileIds, status : JobStatus]
Task == [name : JobIds, file_id : FileIds]
StorageEvent == [type : {"finalized", "deleted"}, bucket : Buckets, name : Name]

ASSUME UsersAssumption == Users \subseteq Segment \ {Empty}
ASSUME FileIdsAssumption == FileIds \subseteq Segment \ {Empty}
ASSUME BucketAssumption == GcsBucketName \in Buckets \union {Unset}
ASSUME ForeignAssumption == ForeignEvents \subseteq StorageEvent
ASSUME NullAssumption == /\ NoFile \notin FileMetadata
                         /\ NoEvent \notin StorageEvent
                         /\ NoMessage \notin Messages
                         /\ Unset \notin Buckets

-----------------------------------------------------------------------------
(* Reading the documents and the events.                                   *)

Stored(f) == f \in FileIds /\ files[f] # NoFile

\* security_scan_job_id: the same file always gives the same id.
SecurityScanJobId(f) == <<"security-scan", f>>

\* The checks of handle_upload_finalized before it touches the repository.
ValidUploadEvent(e) ==
    /\ e.type = "finalized"
    /\ GcsBucketName # Unset
    /\ e.bucket = GcsBucketName
    /\ IsQuarantineKey(e.name)

\* The key a handler is working on, and the file id it reads from that key.
KeyOf(h) == event[delivery[h]].name
FileOf(h) == FileIdOf(KeyOf(h))

MatchesIdOnly(key) == Stored(FileIdOf(key))   \* faulty variant

\* The document whose upload the event named `key` reports.
Matches(key) ==
    /\ Stored(FileIdOf(key))
    /\ files[FileIdOf(key)].storage_key = key

\* Faulty variants of the two definitions that follow: an upload is marked
\* whatever its status; a repeated event is ignored; a file the worker has taken
\* up, or a missing document, counts as an uploaded one.
PendingUnlessUploaded(key) == Matches(key) /\ files[FileIdOf(key)].status # "UPLOADED"
NeverAlreadyUploaded(key) == FALSE
UploadedOrLater(key) == Matches(key) /\ files[FileIdOf(key)].status # "PENDING_UPLOAD"
UploadedOrGone(key) ==
    Stored(FileIdOf(key)) => Matches(key) /\ files[FileIdOf(key)].status = "UPLOADED"

\* What mark_uploaded distinguishes among the documents that match.
Pending(key) == Matches(key) /\ files[FileIdOf(key)].status = "PENDING_UPLOAD"
AlreadyUploaded(key) == Matches(key) /\ files[FileIdOf(key)].status = "UPLOADED"

\* Whether a job's document exists, and whether a task was ever created by that
\* name: the worker acts on no other.
HasJob(id) == \E j \in jobs : j.id = id
HasTask(id) == \E t \in tasks : t.name = id

Scheduled(f) == \E t \in tasks : t.file_id = f

At(h, step) == pc[h] = step
Goto(h, step) == pc' = [pc EXCEPT ![h] = step]
Finish(h) ==
    /\ Goto(h, "idle")
    /\ delivery' = [delivery EXCEPT ![h] = NoMessage]

-----------------------------------------------------------------------------
Init ==
    /\ files = [f \in FileIds |-> NoFile]
    /\ jobs = {}
    /\ tasks = {}
    /\ remembered = {}
    /\ issued = {}
    /\ signing = {}
    /\ urls = {}
    /\ event = [m \in Messages |-> NoEvent]
    /\ acked = {}
    /\ pc = [h \in Handlers |-> "idle"]
    /\ delivery = [h \in Handlers |-> NoMessage]
    /\ confirmed = {}

-----------------------------------------------------------------------------
(* POST /files/upload-url *)

\* create_pending_upload for metadata that passed its validation.
CreatePendingUpload(u, f) ==
    /\ f \notin issued
    /\ issued' = issued \union {f}
    /\ files' = [files EXCEPT ![f] = [owner_id    |-> u,
                                      storage_key |-> StorageKey(u, f),
                                      status      |-> "PENDING_UPLOAD"]]
    /\ signing' = signing \union {StorageKey(u, f)}
    /\ UNCHANGED <<jobs, queueVars, urls, event, handlerVars, confirmed>>

\* The second call of create_upload_url.  It fails for an unset bucket.
SignUploadUrl(key) ==
    /\ key \in signing
    /\ GcsBucketName # Unset
    /\ signing' = signing \ {key}
    /\ urls' = urls \union {key}
    /\ UNCHANGED <<files, jobs, queueVars, issued, event, handlerVars, confirmed>>

\* Signing raises, or the request dies: the document stays.
SigningFails(key) ==
    /\ key \in signing
    /\ signing' = signing \ {key}
    /\ UNCHANGED <<files, jobs, queueVars, issued, urls, event, handlerVars, confirmed>>

-----------------------------------------------------------------------------
(* DELETE /files/{id} *)

DeleteFile(u, f) ==
    /\ Stored(f)
    /\ files[f].owner_id = u
    /\ files' = [files EXCEPT ![f] = NoFile]
    /\ UNCHANGED <<jobs, queueVars, requestVars, event, handlerVars, confirmed>>

-----------------------------------------------------------------------------
(* Cloud Storage, outside the repository *)

\* A PUT through a signed URL.  The URL admits several of them, and none need
\* ever come; each creates the object anew and publishes its finalized event.
Upload(m, key) ==
    /\ event[m] = NoEvent
    /\ key \in urls
    /\ event' = [event EXCEPT ![m] = [type |-> "finalized",
                                      bucket |-> GcsBucketName,
                                      name |-> key]]
    /\ UNCHANGED <<files, jobs, queueVars, requestVars, handlerVars, confirmed>>

\* Any other event the subscription delivers.  Nothing is stored under the key
\* of an id before new_file_id returned that id.
PublishForeign(m, e) ==
    /\ event[m] = NoEvent
    /\ \A u \in Users, f \in FileIds \ issued : e.name # StorageKey(u, f)
    /\ event' = [event EXCEPT ![m] = e]
    /\ UNCHANGED <<files, jobs, queueVars, requestVars, handlerVars, confirmed>>

-----------------------------------------------------------------------------
(* POST /events/storage *)

\* A delivery of message m, the first one or another, up to the checks of the
\* event.
Receive(h, m) ==
    /\ At(h, "idle")
    /\ event[m] # NoEvent
    /\ delivery' = [delivery EXCEPT ![h] = m]
    /\ Goto(h, IF ValidUploadEvent(event[m]) THEN "mark" ELSE "refuse")
    /\ UNCHANGED <<files, jobs, queueVars, requestVars, event, acked, confirmed>>

\* InvalidUploadEventError is answered 400, which acknowledges nothing.
Refuse(h) ==
    /\ At(h, "refuse")
    /\ Finish(h)
    /\ UNCHANGED <<files, jobs, queueVars, requestVars, event, acked, confirmed>>

\* Faulty variant: the result of mark_uploaded is not tested for None.
MarkUploadedAnyway(h) ==
    /\ At(h, "mark")
    /\ \/ /\ Pending(KeyOf(h))
          /\ files' = [files EXCEPT ![FileOf(h)].status = "UPLOADED"]
          /\ confirmed' = confirmed \union {FileOf(h)}
       \/ /\ ~ Pending(KeyOf(h))
          /\ UNCHANGED <<files, confirmed>>
    /\ Goto(h, "create")
    /\ UNCHANGED <<jobs, queueVars, requestVars, event, acked, delivery>>

\* mark_uploaded: one transaction.  It returns the document of a pending or an
\* uploaded file, and None otherwise.
MarkUploaded(h) ==
    /\ At(h, "mark")
    /\ \/ /\ Pending(KeyOf(h))
          /\ files' = [files EXCEPT ![FileOf(h)].status = "UPLOADED"]
          /\ confirmed' = confirmed \union {FileOf(h)}
          /\ Goto(h, "create")
       \/ /\ AlreadyUploaded(KeyOf(h))
          /\ Goto(h, "create")
          /\ UNCHANGED <<files, confirmed>>
       \/ /\ ~ Pending(KeyOf(h)) /\ ~ AlreadyUploaded(KeyOf(h))
          /\ Goto(h, "reply")
          /\ UNCHANGED <<files, confirmed>>
    /\ UNCHANGED <<jobs, queueVars, requestVars, event, acked, delivery>>

\* Faulty variants: the job is overwritten, is not stored, is not enqueued.
CreateAlways(h) ==
    LET id == SecurityScanJobId(FileOf(h))
    IN  /\ At(h, "create")
        /\ jobs' = {j \in jobs : j.id # id}
                     \union {[id |-> id, file_id |-> FileOf(h), status |-> "QUEUED"]}
        /\ Goto(h, "enqueue")
        /\ UNCHANGED <<files, queueVars, requestVars, event, acked, delivery, confirmed>>

CreateNothing(h) ==
    /\ At(h, "create")
    /\ Goto(h, "enqueue")
    /\ UNCHANGED <<files, jobs, queueVars, requestVars, event, acked, delivery, confirmed>>

CreateThenReply(h) ==
    LET id == SecurityScanJobId(FileOf(h))
    IN  /\ At(h, "create")
        /\ jobs' = IF HasJob(id) THEN jobs ELSE
                     jobs \union {[id |-> id, file_id |-> FileOf(h), status |-> "QUEUED"]}
        /\ Goto(h, "reply")
        /\ UNCHANGED <<files, queueVars, requestVars, event, acked, delivery, confirmed>>

\* dispatch_security_scan, first call: the job's document, unless it exists.
CreateIfAbsent(h) ==
    LET id == SecurityScanJobId(FileOf(h))
        candidate == [id |-> id, file_id |-> FileOf(h), status |-> "QUEUED"]
    IN  /\ At(h, "create")
        /\ jobs' = IF HasJob(id) THEN jobs ELSE jobs \union {candidate}
        /\ Goto(h, "enqueue")
        /\ UNCHANGED <<files, queueVars, requestVars, event, acked, delivery, confirmed>>

\* create_task succeeds: a task of a name that the queue does not know.  The name
\* is known from now on, which is how a second creation of a task shows.
CreateTask(id, f) ==
    /\ tasks' = tasks \union {[name |-> id, file_id |-> f]}
    /\ remembered' = remembered \union {id}

\* Faulty variant: AlreadyExists is an error, from which no delivery recovers.
EnqueueOnce(h) ==
    /\ At(h, "enqueue")
    /\ SecurityScanJobId(FileOf(h)) \notin remembered
    /\ CreateTask(SecurityScanJobId(FileOf(h)), FileOf(h))
    /\ Goto(h, "reply")
    /\ UNCHANGED <<files, jobs, requestVars, event, acked, delivery, confirmed>>

\* dispatch_security_scan, second call: a task named after the job.  A name
\* that the queue still knows is a success.
Enqueue(h) ==
    LET id == SecurityScanJobId(FileOf(h))
    IN  /\ At(h, "enqueue")
        /\ \/ id \in remembered /\ UNCHANGED queueVars
           \/ id \notin remembered /\ CreateTask(id, FileOf(h))
        /\ Goto(h, "reply")
        /\ UNCHANGED <<files, jobs, requestVars, event, acked, delivery, confirmed>>

\* 204 reaches the sender.
Reply(h) ==
    /\ At(h, "reply")
    /\ acked' = acked \union {delivery[h]}
    /\ Finish(h)
    /\ UNCHANGED <<files, jobs, queueVars, requestVars, event, confirmed>>

\* The delivery ends with no 2xx: a call raises (before or after it took
\* effect), the instance dies, or the answer is lost.
Abandon(h) ==
    /\ ~ At(h, "idle")
    /\ Finish(h)
    /\ UNCHANGED <<files, jobs, queueVars, requestVars, event, acked, confirmed>>

HandlerStep(h) ==
    Refuse(h) \/ MarkUploaded(h) \/ CreateIfAbsent(h) \/ Enqueue(h) \/ Reply(h)

-----------------------------------------------------------------------------
(* The security worker, outside the repository: it moves the statuses of a *)
(* file and of a job for which a task was created.                         *)

\* The allowed transitions of SPEC.md.
FileTransition == {<<"PENDING_UPLOAD", "UPLOADED">>, <<"UPLOADED", "SCANNING">>,
                   <<"SCANNING", "SAFE">>, <<"SCANNING", "REJECTED">>,
                   <<"SAFE", "PROCESSING">>, <<"PROCESSING", "COMPLETED">>,
                   <<"PROCESSING", "FAILED">>}
JobTransition == {<<"QUEUED", "PROCESSING">>, <<"PROCESSING", "COMPLETED">>,
                  <<"PROCESSING", "FAILED">>}

WorkerMovesFile(f) ==
    /\ Stored(f)
    /\ Scheduled(f)
    /\ files[f].status # "PENDING_UPLOAD"
    /\ \E s \in FileStatus :
          /\ <<files[f].status, s>> \in FileTransition
          /\ files' = [files EXCEPT ![f].status = s]
    /\ UNCHANGED <<jobs, queueVars, requestVars, event, handlerVars, confirmed>>

WorkerMovesJob(j) ==
    /\ HasTask(j.id)
    /\ \E s \in JobStatus :
          /\ <<j.status, s>> \in JobTransition
          /\ jobs' = (jobs \ {j}) \union {[j EXCEPT !.status = s]}
    /\ UNCHANGED <<files, queueVars, requestVars, event, handlerVars, confirmed>>

\* Cloud Tasks forgets a name some time after its task has left the queue.
ForgetName(id) ==
    /\ id \in remembered
    /\ remembered' = remembered \ {id}
    /\ UNCHANGED <<files, jobs, tasks, requestVars, event, handlerVars, confirmed>>

-----------------------------------------------------------------------------
Request ==
    \/ \E u \in Users, f \in FileIds : CreatePendingUpload(u, f) \/ DeleteFile(u, f)
    \/ \E key \in signing : SignUploadUrl(key) \/ SigningFails(key)

Storage ==
    \E m \in Messages :
        \/ \E key \in urls : Upload(m, key)
        \/ \E e \in ForeignEvents : PublishForeign(m, e)

Delivery ==
    \E h \in Handlers :
        (\E m \in Messages : Receive(h, m)) \/ HandlerStep(h) \/ Abandon(h)

Worker ==
    \/ \E f \in FileIds : WorkerMovesFile(f)
    \/ \E j \in jobs : WorkerMovesJob(j)
    \/ \E id \in remembered : ForgetName(id)

Next == Request \/ Storage \/ Delivery \/ Worker

Spec == Init /\ [][Next]_vars

\* A delivery fails: it ends with neither the 400 nor the 204 it had come to, or
\* before it came to any answer.  (A refusal, and a 204 for an event acknowledged
\* before, change what an abandonment changes, and are no failures.)
Fails(h) == Abandon(h) /\ ~ (Refuse(h) \/ Reply(h))

\* Threads run, an event is delivered until it is acknowledged, and failures
\* come to an end: no outage of an instance, of Firestore or of Cloud Tasks
\* lasts forever.  Refused events may be delivered, and events acknowledged
\* before be delivered again, for all time.
FairSpec ==
    /\ Spec
    /\ \A h \in Handlers : WF_vars(HandlerStep(h))
    /\ \A m \in Messages : SF_vars(\E h \in Handlers : m \notin acked /\ Receive(h, m))
    /\ <>[][\A h \in Handlers : ~ Fails(h)]_vars

-----------------------------------------------------------------------------
(* Properties *)

\* Every variable holds a value of its type.
TypeOK ==
    /\ files \in [FileIds -> FileMetadata \union {NoFile}]
    /\ jobs \subseteq Job
    /\ tasks \subseteq Task
    /\ remembered \subseteq JobIds
    /\ issued \subseteq FileIds
    /\ signing \subseteq Name
    /\ urls \subseteq Name
    /\ event \in [Messages -> StorageEvent \union {NoEvent}]
    /\ acked \subseteq Messages
    /\ pc \in [Handlers -> Steps]
    /\ delivery \in [Handlers -> Messages \union {NoMessage}]
    /\ confirmed \subseteq FileIds

\* An event that was answered 2xx, so that it need never be delivered again,
\* has left nothing undone: the file it reports, if it still exists, is past
\* PENDING_UPLOAD and its scan task exists, whatever failed on earlier
\* deliveries between the three calls of storage_event.
AckedMeansScheduled ==
    \A m \in acked :
        Matches(event[m].name) =>
            /\ files[FileIdOf(event[m].name)].status # "PENDING_UPLOAD"
            /\ Scheduled(FileIdOf(event[m].name))

\* The worker that gets a task finds the job document it names: the document
\* is stored before the task is created (jobs/service.py:43-47).
TaskHasJob ==
    \A t \in tasks : \E j \in jobs : j.id = t.name /\ j.file_id = t.file_id

\* A scan exists only for a file whose own object was uploaded: its exact
\* storage key was reported by a finalized event of the configured bucket.
JobHasUpload ==
    \A j \in jobs :
        Stored(j.file_id) =>
            \E m \in Messages :
                /\ event[m] # NoEvent
                /\ ValidUploadEvent(event[m])
                /\ event[m].name = files[j.file_id].storage_key

-----------------------------------------------------------------------------
(* The inductive invariant: what the properties above rest on.             *)

\* A document lies under the key built from its owner and id, and its status
\* tells its history: pending until confirmed, and moved on by the worker only
\* once the task exists.
FilesInv ==
    \A f \in FileIds :
        files[f] # NoFile =>
            /\ f \in issued
            /\ files[f].storage_key = StorageKey(files[f].owner_id, f)
            /\ files[f].status = "PENDING_UPLOAD" <=> f \notin confirmed
            /\ files[f].status \notin {"PENDING_UPLOAD", "UPLOADED"} => Scheduled(f)

\* A confirmed file was issued, and the event that confirmed it is published.
ConfirmedInv ==
    \A f \in confirmed :
        /\ f \in issued
        /\ files[f] # NoFile =>
              \E m \in Messages : /\ event[m] # NoEvent
                                  /\ ValidUploadEvent(event[m])
                                  /\ event[m].name = files[f].storage_key

\* URLs are signed, and events name keys, only for ids that were issued.
KeysInv ==
    /\ \A key \in signing \union urls :
          \E u \in Users, f \in issued : key = StorageKey(u, f)
    /\ urls # {} => GcsBucketName # Unset
    /\ \A m \in Messages, u \in Users, f \in FileIds :
          event[m] # NoEvent /\ event[m].name = StorageKey(u, f) => f \in issued

\* Jobs and tasks carry the id derived from their file; the file of a job was
\* confirmed, the job of a task is stored, and no two jobs share an id.  The
\* queue knows only names of tasks that were created.
ScanInv ==
    /\ \A j \in jobs : j.id = SecurityScanJobId(j.file_id) /\ j.file_id \in confirmed
    /\ \A j, k \in jobs : j.id = k.id => j = k
    /\ \A t \in tasks : t.name = SecurityScanJobId(t.file_id) /\ HasJob(t.name)
    /\ \A id \in remembered : HasTask(id)

\* What a handler has achieved when it stands at a step.
HandlersInv ==
    \A h \in Handlers :
        /\ pc[h] # "idle" => delivery[h] \in Messages /\ event[delivery[h]] # NoEvent
        /\ pc[h] \in {"mark", "create", "enqueue", "reply"} =>
              ValidUploadEvent(event[delivery[h]])
        /\ pc[h] \in {"create", "enqueue"} => FileOf(h) \in confirmed
        /\ pc[h] = "enqueue" => HasJob(SecurityScanJobId(FileOf(h)))
        /\ pc[h] = "reply" /\ Matches(KeyOf(h)) =>
              FileOf(h) \in confirmed /\ Scheduled(FileOf(h))

\* What the acknowledgement of an event says.
AckedInv ==
    \A m \in acked :
        /\ event[m] # NoEvent
        /\ Matches(event[m].name) =>
              /\ FileIdOf(event[m].name) \in confirmed
              /\ Scheduled(FileIdOf(event[m].name))

\* All of the above together is preserved by every step.
IInv ==
    /\ TypeOK
    /\ FilesInv
    /\ ConfirmedInv
    /\ KeysInv
    /\ ScanInv
    /\ HandlersInv
    /\ AckedInv

-----------------------------------------------------------------------------
(* What a step may never do.                                               *)

\* A document appears once, pending, and under a new id; from then on its
\* owner and storage key stand and its status follows SPEC.md's transitions:
\* a late or repeated event never takes a file back to UPLOADED.
Lifecycle ==
    [][\A f \in FileIds :
          /\ files[f] = NoFile /\ files'[f] # NoFile =>
                f \notin issued /\ files'[f].status = "PENDING_UPLOAD"
          /\ files[f] # NoFile /\ files'[f] # NoFile =>
                /\ files'[f].owner_id = files[f].owner_id
                /\ files'[f].storage_key = files[f].storage_key
                /\ \/ files'[f].status = files[f].status
                   \/ <<files[f].status, files'[f].status>> \in FileTransition
      ]_vars

\* A stored job is never lost and never starts over: redelivered events leave
\* the progress the worker has made (jobs/repository.py:64-66).
JobsOnlyAdvance ==
    [][\A j \in jobs : \E k \in jobs' :
          /\ k.id = j.id
          /\ k.file_id = j.file_id
          /\ k.status = j.status \/ <<j.status, k.status>> \in JobTransition
      ]_vars

\* A deleted file with no job and no dispatch in flight.
Quiet(f) ==
    /\ f \in issued
    /\ files[f] = NoFile
    /\ \A j \in jobs : j.file_id # f
    /\ \A h \in Handlers : pc[h] \in {"create", "enqueue"} => FileOf(h) # f

\* A file deleted before its upload was dispatched is never scanned: neither a
\* late PUT through its signed URL nor an event already on its way creates a
\* job for it.
QuietStays == [][\A f \in FileIds : Quiet(f) => Quiet(f)']_vars

\* A file that is deleted or that the worker has taken up, with no dispatch in
\* flight.
Settled(f) ==
    /\ f \in issued
    /\ Stored(f) => files[f].status \notin {"PENDING_UPLOAD", "UPLOADED"}
    /\ \A h \in Handlers : pc[h] \in {"create", "enqueue"} => FileOf(h) # f

\* A settled file is never handed to the worker again, however late an event of
\* its upload is delivered: Cloud Tasks may have forgotten the task's name by
\* then, and it is the file's status that stops mark_uploaded
\* (files/repository.py:181).
SettledStays ==
    [][\A f \in FileIds :
          Settled(f) =>
              /\ Settled(f)'
              /\ SecurityScanJobId(f) \in remembered' =>
                    SecurityScanJobId(f) \in remembered]_vars

\* What README.md says of the names of tasks: "Pub/Sub/Eventarc redelivery
\* therefore cannot create duplicate logical jobs or tasks" (README.md:60-61).  It
\* does not hold of tasks: once the queue has forgotten the name, a redelivery
\* creates the task again while the file is still UPLOADED
\* (queue/cloud_tasks.py:69).
TasksCreatedOnce ==
    [][\A id \in JobIds :
          id \in remembered' /\ id \notin remembered => ~ HasTask(id)]_vars

\* The pipeline implements the promise: a confirmation per file, before it is
\* deleted, and tasks of one name, the file's own, for a confirmed file only.
Promise == INSTANCE ScanPromise WITH
    Files <- FileIds,
    Tasks <- JobIds,
    accepted <- issued,
    withdrawn <- {f \in issued : files[f] = NoFile},
    scans <- [f \in FileIds |-> {t.name : t \in {s \in tasks : s.file_id = f}}]

RefinesPromise == Promise!Spec

\* Every confirmed file is scanned in the end, or deleted by its owner.
PromiseServed == Promise!Served

\* The finalized event of a quarantine upload is acknowledged in the end,
\* also when a delivery died after its task was created and every later one
\* finds the job and the task in place.
EventEventuallyAcked ==
    \A m \in Messages :
        event[m] # NoEvent /\ ValidUploadEvent(event[m]) ~> m \in acked

=============================================================================
