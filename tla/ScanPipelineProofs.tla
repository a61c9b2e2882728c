------------------------- MODULE ScanPipelineProofs -------------------------
(***************************************************************************)
(* The safety of ScanPipeline for any number of users, files, events and   *)
(* handlers.  The invariant IInv holds initially and is preserved by each  *)
(* action (one lemma per action); the properties follow from it.           *)
(***************************************************************************)
EXTENDS ScanPipeline, StorageKeysProofs

-----------------------------------------------------------------------------
(* Storage keys of users and files.                                        *)

LEMMA UploadKey ==
    ASSUME NEW u \in Users, NEW f \in FileIds
    PROVE  StorageKey(u, f) \in Name /\ FileIdOf(StorageKey(u, f)) = f
<1>1. u \in Segment /\ f \in Segment
  BY UsersAssumption, FileIdsAssumption
<1> QED
  BY <1>1, KeyShape

LEMMA UploadKeyInjective ==
    ASSUME NEW u \in Users, NEW f \in FileIds, NEW v \in Users, NEW g \in FileIds,
           StorageKey(u, f) = StorageKey(v, g)
    PROVE  u = v /\ f = g
<1>1. u \in Segment /\ f \in Segment /\ v \in Segment /\ g \in Segment
  BY UsersAssumption, FileIdsAssumption
<1> QED
  BY <1>1, KeyInjective

-----------------------------------------------------------------------------
LEMMA InitIInv == Init => IInv
<1> SUFFICES ASSUME Init PROVE IInv
  OBVIOUS
<1> USE DEF Init
<1>1. TypeOK
  BY DEF TypeOK, Steps
<1>2. FilesInv /\ ConfirmedInv
  BY DEF FilesInv, ConfirmedInv
<1>3. KeysInv
  BY NullAssumption DEF KeysInv
<1>4. ScanInv /\ AckedInv
  BY DEF ScanInv, AckedInv
<1>5. HandlersInv
  BY DEF HandlersInv
<1> QED
  BY <1>1, <1>2, <1>3, <1>4, <1>5 DEF IInv

LEMMA CreatePendingUploadStep ==
    ASSUME IInv, NEW u \in Users, NEW f \in FileIds, CreatePendingUpload(u, f)
    PROVE  IInv'
<1> DEFINE doc == [owner_id |-> u, storage_key |-> StorageKey(u, f),
                   status |-> "PENDING_UPLOAD"]
<1> USE DEF CreatePendingUpload, handlerVars, queueVars
<1>1. TypeOK /\ FilesInv /\ ConfirmedInv /\ KeysInv /\ ScanInv /\ HandlersInv /\ AckedInv
  BY DEF IInv
<1>2. doc \in FileMetadata /\ doc # NoFile /\ StorageKey(u, f) \in Name
  BY UploadKey, NullAssumption DEF FileMetadata, FileStatus
<1>3. /\ files' = [files EXCEPT ![f] = doc]
      /\ files'[f] = doc
      /\ \A g \in FileIds \ {f} : files'[g] = files[g]
  BY <1>1 DEF TypeOK
<1>4. f \notin issued /\ f \notin confirmed /\ files[f] = NoFile
  BY <1>1 DEF ConfirmedInv, FilesInv
<1>5. \A m \in Messages :
        event[m] # NoEvent /\ Matches(event[m].name)' => Matches(event[m].name)
  <2> SUFFICES ASSUME NEW m \in Messages, event[m] # NoEvent,
                      Matches(event[m].name)'
               PROVE  Matches(event[m].name)
    OBVIOUS
  <2>1. FileIdOf(event[m].name) # f
    <3> SUFFICES ASSUME FileIdOf(event[m].name) = f PROVE FALSE
      OBVIOUS
    <3>1. event[m].name = StorageKey(u, f)
      BY <1>3 DEF Matches, Stored
    <3> QED
      BY <1>1, <1>4, <3>1 DEF KeysInv
  <2> QED
    BY <1>3, <2>1 DEF Matches, Stored
<1>6. TypeOK'
  BY <1>1, <1>2 DEF TypeOK
<1>7. FilesInv'
  BY <1>1, <1>3, <1>4 DEF FilesInv, Scheduled
<1>8. ConfirmedInv'
  BY <1>1, <1>3, <1>4 DEF ConfirmedInv, ValidUploadEvent, TypeOK
<1>9. KeysInv'
  BY <1>1 DEF KeysInv
<1>10. ScanInv'
  BY <1>1 DEF ScanInv, HasTask, HasJob
<1>11. HandlersInv'
  BY <1>1, <1>5 DEF HandlersInv, ValidUploadEvent, FileOf, KeyOf, HasJob, Scheduled
<1>12. AckedInv'
  BY <1>1, <1>5 DEF AckedInv, Scheduled, TypeOK
<1> QED
  BY <1>6, <1>7, <1>8, <1>9, <1>10, <1>11, <1>12 DEF IInv

LEMMA SignUploadUrlStep ==
    ASSUME IInv, NEW key \in signing, SignUploadUrl(key)
    PROVE  IInv'
<1> USE DEF SignUploadUrl, handlerVars, queueVars
<1>1. TypeOK /\ FilesInv /\ ConfirmedInv /\ KeysInv /\ ScanInv /\ HandlersInv /\ AckedInv
  BY DEF IInv
<1>2. TypeOK'
  BY <1>1 DEF TypeOK
<1>3. FilesInv' /\ ConfirmedInv'
  BY <1>1 DEF FilesInv, ConfirmedInv, ValidUploadEvent, Scheduled
<1>4. KeysInv'
  BY <1>1 DEF KeysInv
<1>5. ScanInv' /\ AckedInv'
  BY <1>1 DEF ScanInv, AckedInv, HasTask, HasJob, Scheduled, Matches, Stored
<1>6. HandlersInv'
  BY <1>1 DEF HandlersInv, ValidUploadEvent, FileOf, KeyOf, HasJob, Scheduled,
              Matches, Stored
<1> QED
  BY <1>2, <1>3, <1>4, <1>5, <1>6 DEF IInv

LEMMA SigningFailsStep ==
    ASSUME IInv, NEW key \in signing, SigningFails(key)
    PROVE  IInv'
<1> USE DEF SigningFails, handlerVars, queueVars
<1>1. TypeOK /\ FilesInv /\ ConfirmedInv /\ KeysInv /\ ScanInv /\ HandlersInv /\ AckedInv
  BY DEF IInv
<1>2. TypeOK'
  BY <1>1 DEF TypeOK
<1>3. FilesInv' /\ ConfirmedInv'
  BY <1>1 DEF FilesInv, ConfirmedInv, ValidUploadEvent, Scheduled
<1>4. KeysInv'
  BY <1>1 DEF KeysInv
<1>5. ScanInv' /\ AckedInv'
  BY <1>1 DEF ScanInv, AckedInv, HasTask, HasJob, Scheduled, Matches, Stored
<1>6. HandlersInv'
  BY <1>1 DEF HandlersInv, ValidUploadEvent, FileOf, KeyOf, HasJob, Scheduled,
              Matches, Stored
<1> QED
  BY <1>2, <1>3, <1>4, <1>5, <1>6 DEF IInv

LEMMA DeleteFileStep ==
    ASSUME IInv, NEW u \in Users, NEW f \in FileIds, DeleteFile(u, f)
    PROVE  IInv'
<1> USE DEF DeleteFile, requestVars, handlerVars, queueVars
<1>1. TypeOK /\ FilesInv /\ ConfirmedInv /\ KeysInv /\ ScanInv /\ HandlersInv /\ AckedInv
  BY DEF IInv
<1>2. \A g \in FileIds : files'[g] # NoFile => files'[g] = files[g]
  BY <1>1 DEF TypeOK
<1>3. \A key : Matches(key)' => Matches(key)
  BY <1>2 DEF Matches, Stored
<1>4. TypeOK'
  BY <1>1 DEF TypeOK
<1>5. FilesInv' /\ ConfirmedInv'
  BY <1>1, <1>2 DEF FilesInv, ConfirmedInv, ValidUploadEvent, Scheduled, TypeOK
<1>6. KeysInv'
  BY <1>1 DEF KeysInv
<1>7. ScanInv' /\ AckedInv'
  BY <1>1, <1>3 DEF ScanInv, AckedInv, HasTask, HasJob, Scheduled
<1>8. HandlersInv'
  BY <1>1, <1>3 DEF HandlersInv, ValidUploadEvent, FileOf, KeyOf, HasJob, Scheduled
<1> QED
  BY <1>4, <1>5, <1>6, <1>7, <1>8 DEF IInv

\* Publishing an event leaves the events already published alone.
LEMMA PublishStep ==
    ASSUME IInv, NEW m \in Messages, NEW e \in StorageEvent,
           event[m] = NoEvent,
           event' = [event EXCEPT ![m] = e],
           \A u \in Users, f \in FileIds : e.name = StorageKey(u, f) => f \in issued,
           UNCHANGED <<files, jobs, queueVars, requestVars, handlerVars, confirmed>>
    PROVE  IInv'
<1> USE DEF requestVars, handlerVars, queueVars
<1>1. TypeOK /\ FilesInv /\ ConfirmedInv /\ KeysInv /\ ScanInv /\ HandlersInv /\ AckedInv
  BY DEF IInv
<1>2. /\ event'[m] = e /\ e # NoEvent
      /\ \A n \in Messages : event[n] # NoEvent => event'[n] = event[n]
      /\ \A n \in Messages : event'[n] = event[n] \/ n = m
  BY <1>1, NullAssumption DEF TypeOK
<1>3. TypeOK'
  BY <1>1 DEF TypeOK
<1>4. FilesInv'
  BY <1>1 DEF FilesInv, Scheduled
<1>5. ConfirmedInv'
  BY <1>1, <1>2 DEF ConfirmedInv, ValidUploadEvent
<1>6. KeysInv'
  BY <1>1, <1>2 DEF KeysInv
<1>7. ScanInv'
  BY <1>1 DEF ScanInv, HasTask, HasJob
<1>8. AckedInv'
  BY <1>1, <1>2 DEF AckedInv, Scheduled, Matches, Stored, TypeOK
<1>9. HandlersInv'
  <2> SUFFICES ASSUME NEW h \in Handlers
               PROVE  /\ pc[h] # "idle" => delivery[h] \in Messages /\ event'[delivery[h]] # NoEvent
                      /\ pc[h] # "idle" => event'[delivery[h]] = event[delivery[h]]
    BY <1>1 DEF HandlersInv, ValidUploadEvent, FileOf, KeyOf, HasJob, Scheduled,
                Matches, Stored
  <2> QED
    BY <1>1, <1>2 DEF HandlersInv
<1> QED
  BY <1>3, <1>4, <1>5, <1>6, <1>7, <1>8, <1>9 DEF IInv

LEMMA UploadStep ==
    ASSUME IInv, NEW m \in Messages, NEW key \in urls, Upload(m, key)
    PROVE  IInv'
<1> DEFINE e == [type |-> "finalized", bucket |-> GcsBucketName, name |-> key]
<1>1. TypeOK /\ KeysInv
  BY DEF IInv
<1>2. e \in StorageEvent
  BY <1>1, BucketAssumption DEF TypeOK, KeysInv, StorageEvent
<1>3. PICK u \in Users, f \in issued : key = StorageKey(u, f)
  BY <1>1 DEF KeysInv
<1>4. \A v \in Users, g \in FileIds : e.name = StorageKey(v, g) => g \in issued
  BY <1>1, <1>3, UploadKeyInjective DEF TypeOK
<1> HIDE DEF e
<1>5. /\ event[m] = NoEvent
      /\ event' = [event EXCEPT ![m] = e]
      /\ UNCHANGED <<files, jobs, queueVars, requestVars, handlerVars, confirmed>>
  BY DEF Upload, e
<1> QED
  BY <1>2, <1>4, <1>5, PublishStep

LEMMA PublishForeignStep ==
    ASSUME IInv, NEW m \in Messages, NEW e \in ForeignEvents, PublishForeign(m, e)
    PROVE  IInv'
<1>1. e \in StorageEvent
  BY ForeignAssumption
<1>2. \A u \in Users, f \in FileIds : e.name = StorageKey(u, f) => f \in issued
  BY DEF PublishForeign
<1> QED
  BY <1>1, <1>2, PublishStep DEF PublishForeign

-----------------------------------------------------------------------------
(* The steps of a delivery.                                                *)

LEMMA ReceiveStep ==
    ASSUME IInv, NEW h \in Handlers, NEW m \in Messages, Receive(h, m)
    PROVE  IInv'
<1> USE DEF Receive, requestVars, queueVars
<1>1. TypeOK /\ FilesInv /\ ConfirmedInv /\ KeysInv /\ ScanInv /\ HandlersInv /\ AckedInv
  BY DEF IInv
<1>2. /\ \A i \in Handlers \ {h} : pc'[i] = pc[i] /\ delivery'[i] = delivery[i]
      /\ delivery'[h] = m
      /\ pc'[h] = IF ValidUploadEvent(event[m]) THEN "mark" ELSE "refuse"
  BY <1>1 DEF TypeOK, Goto
<1>3. TypeOK'
  BY <1>1 DEF TypeOK, Goto, Steps
<1>4. FilesInv' /\ ConfirmedInv' /\ KeysInv'
  BY <1>1 DEF FilesInv, ConfirmedInv, KeysInv, ValidUploadEvent, Scheduled
<1>5. ScanInv' /\ AckedInv'
  BY <1>1 DEF ScanInv, AckedInv, HasTask, HasJob, Scheduled, Matches, Stored
<1>6. HandlersInv'
  BY <1>1, <1>2 DEF HandlersInv, ValidUploadEvent, FileOf, KeyOf, HasJob,
                    Scheduled, Matches, Stored
<1> QED
  BY <1>3, <1>4, <1>5, <1>6 DEF IInv

\* Ending a delivery, with or without an acknowledgement.
LEMMA FinishStep ==
    ASSUME IInv, NEW h \in Handlers, ~ At(h, "idle"), Finish(h),
           acked' = acked \/ (At(h, "reply") /\ acked' = acked \union {delivery[h]}),
           UNCHANGED <<files, jobs, queueVars, requestVars, event, confirmed>>
    PROVE  IInv'
<1> USE DEF requestVars, queueVars, At
<1>1. TypeOK /\ FilesInv /\ ConfirmedInv /\ KeysInv /\ ScanInv /\ HandlersInv /\ AckedInv
  BY DEF IInv
<1>2. /\ \A i \in Handlers \ {h} : pc'[i] = pc[i] /\ delivery'[i] = delivery[i]
      /\ pc'[h] = "idle"
  BY <1>1 DEF TypeOK, Finish, Goto
<1>3. TypeOK'
  BY <1>1 DEF TypeOK, Finish, Goto, Steps, HandlersInv
<1>4. FilesInv' /\ ConfirmedInv' /\ KeysInv'
  BY <1>1 DEF FilesInv, ConfirmedInv, KeysInv, ValidUploadEvent, Scheduled
<1>5. ScanInv'
  BY <1>1 DEF ScanInv, HasTask, HasJob
<1>6. AckedInv'
  <2>1. CASE acked' = acked
    BY <1>1, <2>1 DEF AckedInv, Scheduled, Matches, Stored
  <2>2. CASE At(h, "reply") /\ acked' = acked \union {delivery[h]}
    BY <1>1, <2>2 DEF AckedInv, HandlersInv, FileOf, KeyOf, Scheduled, Matches, Stored
  <2> QED
    BY <2>1, <2>2
<1>7. HandlersInv'
  BY <1>1, <1>2 DEF HandlersInv, ValidUploadEvent, FileOf, KeyOf, HasJob,
                    Scheduled, Matches, Stored
<1> QED
  BY <1>3, <1>4, <1>5, <1>6, <1>7 DEF IInv

LEMMA MarkUploadedStep ==
    ASSUME IInv, NEW h \in Handlers, MarkUploaded(h)
    PROVE  IInv'
<1> USE DEF requestVars, queueVars
<1> DEFINE key == KeyOf(h)
           f == FileOf(h)
<1>1. TypeOK /\ FilesInv /\ ConfirmedInv /\ KeysInv /\ ScanInv /\ HandlersInv /\ AckedInv
  BY DEF IInv
<1>2. /\ delivery[h] \in Messages
      /\ event[delivery[h]] # NoEvent
      /\ ValidUploadEvent(event[delivery[h]])
      /\ f = FileIdOf(key)
      /\ key = event[delivery[h]].name
  BY <1>1 DEF MarkUploaded, At, HandlersInv, FileOf, KeyOf
<1>3. UNCHANGED <<jobs, tasks, remembered, issued, signing, urls, event, acked, delivery>>
  BY DEF MarkUploaded
<1>4. ScanInv' /\ KeysInv'
  <2>1. confirmed \subseteq confirmed'
    BY DEF MarkUploaded
  <2> QED
    BY <1>1, <1>3, <2>1 DEF ScanInv, HasTask, KeysInv, HasJob
<1>5. CASE /\ Pending(key)
           /\ files' = [files EXCEPT ![f].status = "UPLOADED"]
           /\ confirmed' = confirmed \union {f}
           /\ Goto(h, "create")
  <2> HIDE DEF key, f
  <2>1. /\ f \in FileIds
        /\ files[f] # NoFile /\ files[f] \in FileMetadata
        /\ files[f].storage_key = key
        /\ files[f].status = "PENDING_UPLOAD"
    BY <1>1, <1>2, <1>5 DEF Pending, Matches, Stored, TypeOK
  <2>2. /\ files'[f] = [files[f] EXCEPT !.status = "UPLOADED"]
        /\ files'[f] \in FileMetadata
        /\ files'[f].owner_id = files[f].owner_id
        /\ files'[f].storage_key = key
        /\ files'[f].status = "UPLOADED"
        /\ files'[f] # NoFile
        /\ \A g \in FileIds \ {f} : files'[g] = files[g]
    BY <1>1, <1>5, <2>1, NullAssumption DEF TypeOK, FileMetadata, FileStatus
  <2>3. /\ pc'[h] = "create"
        /\ \A i \in Handlers \ {h} : pc'[i] = pc[i]
    BY <1>1, <1>5 DEF Goto, TypeOK
  <2>4. \A k : Matches(k)' <=> Matches(k)
    <3>1. \A g \in FileIds : /\ files'[g] # NoFile <=> files[g] # NoFile
                             /\ files'[g].storage_key = files[g].storage_key
      BY <2>1, <2>2
    <3>. QED  BY <3>1, Zenon DEF Matches, Stored
  <2>5. TypeOK'
    BY <1>1, <1>3, <1>5, <2>1, <2>2 DEF TypeOK, Goto, Steps
  <2>6. FilesInv'
    BY <1>1, <1>3, <1>5, <2>1, <2>2 DEF FilesInv, Scheduled
  <2>7. ConfirmedInv'
    <3>1. f \in issued
      BY <1>1, <2>1 DEF FilesInv
    <3> QED
      BY <1>1, <1>2, <1>3, <1>5, <2>1, <2>2, <3>1 DEF ConfirmedInv, ValidUploadEvent, TypeOK
  <2>8. AckedInv'
    BY <1>1, <1>3, <1>5, <2>4 DEF AckedInv, Scheduled
  <2>9. HandlersInv'
    BY <1>1, <1>2, <1>3, <1>5, <2>3, <2>4
       DEF HandlersInv, ValidUploadEvent, FileOf, KeyOf, HasJob, Scheduled, f
  <2> QED
    BY <1>4, <2>5, <2>6, <2>7, <2>8, <2>9 DEF IInv
<1>6. ASSUME UNCHANGED <<files, confirmed>>,
             \/ AlreadyUploaded(key) /\ Goto(h, "create")
             \/ ~ Pending(key) /\ ~ AlreadyUploaded(key) /\ Goto(h, "reply")
      PROVE  IInv'
  <2> HIDE DEF key, f
  <2>1. /\ \A i \in Handlers \ {h} : pc'[i] = pc[i]
        /\ \/ AlreadyUploaded(key) /\ pc'[h] = "create"
           \/ ~ Pending(key) /\ ~ AlreadyUploaded(key) /\ pc'[h] = "reply"
    BY <1>1, <1>6 DEF Goto, TypeOK
  <2>2. AlreadyUploaded(key) => f \in confirmed
    BY <1>1, <1>2 DEF AlreadyUploaded, Matches, Stored, FilesInv
  <2>3. Matches(key) /\ ~ Pending(key) /\ ~ AlreadyUploaded(key) =>
            f \in confirmed /\ Scheduled(f)
    BY <1>1, <1>2 DEF AlreadyUploaded, Pending, Matches, Stored, FilesInv
  <2>4. TypeOK'
    BY <1>1, <1>3, <1>6 DEF TypeOK, Goto, Steps
  <2>5. FilesInv' /\ ConfirmedInv' /\ AckedInv'
    BY <1>1, <1>3, <1>6 DEF FilesInv, ConfirmedInv, AckedInv, ValidUploadEvent,
                            Scheduled, Matches, Stored
  <2>6. HandlersInv'
    <3>1. /\ \A k : Matches(k)' <=> Matches(k)
          /\ \A g : Scheduled(g)' <=> Scheduled(g)
          /\ \A id : HasJob(id)' <=> HasJob(id)
          /\ \A i \in Handlers : KeyOf(i)' = KeyOf(i) /\ FileOf(i)' = FileOf(i)
      BY <1>3, <1>6 DEF Matches, Stored, Scheduled, HasJob, KeyOf, FileOf
    <3> QED
      BY <1>1, <1>2, <1>3, <1>6, <2>1, <2>2, <2>3, <3>1
         DEF HandlersInv, ValidUploadEvent, f, key
  <2> QED
    BY <1>4, <2>4, <2>5, <2>6 DEF IInv
<1> QED
  BY <1>5, <1>6 DEF MarkUploaded

LEMMA CreateIfAbsentStep ==
    ASSUME IInv, NEW h \in Handlers, CreateIfAbsent(h)
    PROVE  IInv'
<1>1. TypeOK /\ FilesInv /\ ConfirmedInv /\ KeysInv /\ ScanInv /\ HandlersInv /\ AckedInv
  BY DEF IInv
<1>2. PICK f : f = FileOf(h)
  OBVIOUS
<1>3. PICK id : id = SecurityScanJobId(f)
  OBVIOUS
<1>4. PICK candidate : candidate = [id |-> id, file_id |-> f, status |-> "QUEUED"]
  OBVIOUS
<1>5. /\ pc[h] = "create"
      /\ jobs' = IF HasJob(id) THEN jobs ELSE jobs \union {candidate}
      /\ Goto(h, "enqueue")
      /\ UNCHANGED <<files, tasks, remembered, issued, signing, urls, event, acked,
                     delivery, confirmed>>
  BY <1>2, <1>3, <1>4 DEF CreateIfAbsent, At, requestVars, queueVars
<1>6. f \in confirmed /\ f \in FileIds
  BY <1>1, <1>2, <1>5 DEF HandlersInv, TypeOK
<1>7. candidate \in Job /\ candidate.id = id /\ candidate.file_id = f
  BY <1>3, <1>4, <1>6 DEF Job, JobIds, JobStatus, SecurityScanJobId
<1>8. jobs \subseteq jobs' /\ \A j \in jobs' : j \in jobs \/ j = candidate
  BY <1>5
<1>9. HasJob(id)' /\ \A i : HasJob(i) => HasJob(i)'
  BY <1>5, <1>7 DEF HasJob
<1>10. TypeOK'
  BY <1>1, <1>5, <1>7 DEF TypeOK, Goto, Steps
<1>11. FilesInv' /\ ConfirmedInv' /\ KeysInv' /\ AckedInv'
  BY <1>1, <1>5 DEF FilesInv, ConfirmedInv, KeysInv, AckedInv, ValidUploadEvent,
                    Scheduled, Matches, Stored
<1>12. ScanInv'
  <2>1. \A j \in jobs' : j.id = SecurityScanJobId(j.file_id) /\ j.file_id \in confirmed'
    BY <1>1, <1>3, <1>5, <1>6, <1>7, <1>8 DEF ScanInv
  <2>2. \A j, k \in jobs' : j.id = k.id => j = k
    BY <1>1, <1>5, <1>7 DEF ScanInv, HasTask, HasJob
  <2>3. \A t \in tasks' : t.name = SecurityScanJobId(t.file_id) /\ HasJob(t.name)'
    BY <1>1, <1>5, <1>9 DEF ScanInv
  <2> QED
    BY <1>1, <1>5, <2>1, <2>2, <2>3 DEF ScanInv, HasTask
<1>13. HandlersInv'
  <2>1. /\ \A k : Matches(k)' <=> Matches(k)
        /\ \A g : Scheduled(g)' <=> Scheduled(g)
        /\ \A i \in Handlers : KeyOf(i)' = KeyOf(i) /\ FileOf(i)' = FileOf(i)
    BY <1>5 DEF Matches, Stored, Scheduled, KeyOf, FileOf
  <2>2. pc'[h] = "enqueue" /\ \A i \in Handlers \ {h} : pc'[i] = pc[i]
    BY <1>1, <1>5 DEF Goto, TypeOK
  <2> QED
    BY <1>1, <1>2, <1>3, <1>5, <1>6, <1>9, <2>1, <2>2
       DEF HandlersInv, ValidUploadEvent, SecurityScanJobId
<1> QED
  BY <1>10, <1>11, <1>12, <1>13 DEF IInv

\* What Enqueue does to the queue, whether or not the name was remembered: the
\* set of tasks ever created has one task of each name.
LEMMA EnqueueEffect ==
    ASSUME TypeOK, ScanInv, HandlersInv, NEW h \in Handlers, Enqueue(h),
           NEW f, f = FileOf(h), NEW id, id = SecurityScanJobId(f),
           NEW task, task = [name |-> id, file_id |-> f]
    PROVE  /\ tasks' = IF HasTask(id) THEN tasks ELSE tasks \union {task}
           /\ \A n \in remembered' : n \in remembered \/ n = id
<1>1. f \in FileIds /\ id \in JobIds
  BY DEF Enqueue, At, HandlersInv, TypeOK, JobIds, SecurityScanJobId
<1>2. CASE id \in remembered /\ UNCHANGED queueVars
  BY <1>2 DEF queueVars, ScanInv
<1>3. CASE CreateTask(id, f)
  <2>1. tasks' = tasks \union {task} /\ remembered' = remembered \union {id}
    BY <1>3 DEF CreateTask
  <2>2. ASSUME NEW t \in tasks, t.name = id
        PROVE  t = task
    <3>1. t \in Task /\ t.file_id = f
      BY <2>2 DEF TypeOK, ScanInv, SecurityScanJobId
    <3> QED
      BY <2>2, <3>1 DEF Task
  <2> QED
    BY <2>1, <2>2 DEF HasTask
<1> QED
  BY <1>2, <1>3 DEF Enqueue

LEMMA EnqueueStep ==
    ASSUME IInv, NEW h \in Handlers, Enqueue(h)
    PROVE  IInv'
<1>1. TypeOK /\ FilesInv /\ ConfirmedInv /\ KeysInv /\ ScanInv /\ HandlersInv /\ AckedInv
  BY DEF IInv
<1>2. PICK f : f = FileOf(h)
  OBVIOUS
<1>3. PICK id : id = SecurityScanJobId(f)
  OBVIOUS
<1>4. PICK task : task = [name |-> id, file_id |-> f]
  OBVIOUS
<1>5. /\ pc[h] = "enqueue"
      /\ tasks' = IF HasTask(id) THEN tasks ELSE tasks \union {task}
      /\ \A n \in remembered' : n \in remembered \/ n = id
      /\ Goto(h, "reply")
      /\ UNCHANGED <<files, jobs, issued, signing, urls, event, acked, delivery, confirmed>>
  BY <1>1, <1>2, <1>3, <1>4, EnqueueEffect DEF Enqueue, At, requestVars
<1>6. f \in confirmed /\ f \in FileIds /\ HasJob(id)
  BY <1>1, <1>2, <1>3, <1>5 DEF HandlersInv, TypeOK
<1>7. task \in Task /\ task.name = id /\ task.file_id = f
  BY <1>3, <1>4, <1>6 DEF Task, JobIds, SecurityScanJobId
<1>8. tasks \subseteq tasks' /\ \A t \in tasks' : t \in tasks \/ t = task
  BY <1>5
<1>9. \A g : Scheduled(g) => Scheduled(g)'
  BY <1>8 DEF Scheduled
<1>10. Scheduled(f)'
  <2>1. CASE HasTask(id)
    <3>1. PICK t \in tasks : t.name = id
      BY <2>1 DEF HasTask
    <3>2. t.file_id = f
      BY <1>1, <1>3, <3>1 DEF ScanInv, SecurityScanJobId
    <3> QED
      BY <1>8, <3>1, <3>2 DEF Scheduled
  <2>2. CASE ~ HasTask(id)
    BY <1>5, <1>7, <2>2 DEF Scheduled
  <2> QED
    BY <2>1, <2>2
<1>11. TypeOK'
  BY <1>1, <1>3, <1>5, <1>6, <1>7, <1>8 DEF TypeOK, Goto, Steps, JobIds, SecurityScanJobId
<1>12. FilesInv' /\ ConfirmedInv' /\ KeysInv'
  BY <1>1, <1>5, <1>9 DEF FilesInv, ConfirmedInv, KeysInv, ValidUploadEvent
<1>13. ScanInv'
  BY <1>1, <1>3, <1>5, <1>6, <1>7, <1>8 DEF ScanInv, HasTask, HasJob
<1>14. AckedInv'
  BY <1>1, <1>5, <1>9 DEF AckedInv, Matches, Stored
<1>15. HandlersInv'
  <2>1. /\ \A k : Matches(k)' <=> Matches(k)
        /\ \A i : HasJob(i)' <=> HasJob(i)
        /\ \A i \in Handlers : KeyOf(i)' = KeyOf(i) /\ FileOf(i)' = FileOf(i)
    BY <1>5 DEF Matches, Stored, HasJob, KeyOf, FileOf
  <2>2. pc'[h] = "reply" /\ \A i \in Handlers \ {h} : pc'[i] = pc[i]
    BY <1>1, <1>5 DEF Goto, TypeOK
  <2> QED
    BY <1>1, <1>2, <1>5, <1>6, <1>9, <1>10, <2>1, <2>2
       DEF HandlersInv, ValidUploadEvent, SecurityScanJobId
<1> QED
  BY <1>11, <1>12, <1>13, <1>14, <1>15 DEF IInv

-----------------------------------------------------------------------------
(* The steps of the worker.                                                *)

LEMMA WorkerMovesFileStep ==
    ASSUME IInv, NEW f \in FileIds, WorkerMovesFile(f)
    PROVE  IInv'
<1> USE DEF WorkerMovesFile, requestVars, handlerVars, queueVars
<1>1. TypeOK /\ FilesInv /\ ConfirmedInv /\ KeysInv /\ ScanInv /\ HandlersInv /\ AckedInv
  BY DEF IInv
<1>2. PICK s \in FileStatus : /\ <<files[f].status, s>> \in FileTransition
                              /\ files' = [files EXCEPT ![f].status = s]
  OBVIOUS
<1>3. files[f] \in FileMetadata /\ files[f] # NoFile /\ Scheduled(f)
  BY <1>1 DEF TypeOK, Stored
<1>4. s # "PENDING_UPLOAD"
  BY <1>2 DEF FileTransition
<1>5. /\ files'[f] \in FileMetadata
      /\ files'[f].owner_id = files[f].owner_id
      /\ files'[f].storage_key = files[f].storage_key
      /\ files'[f].status = s
      /\ files'[f] # NoFile
      /\ \A g \in FileIds \ {f} : files'[g] = files[g]
  BY <1>1, <1>2, <1>3, NullAssumption DEF TypeOK, FileMetadata
<1>6. /\ \A k : Matches(k)' <=> Matches(k)
      /\ \A g : Scheduled(g)' <=> Scheduled(g)
      /\ \A id : HasJob(id)' <=> HasJob(id)
      /\ \A i \in Handlers : KeyOf(i)' = KeyOf(i) /\ FileOf(i)' = FileOf(i)
  BY <1>3, <1>5 DEF Matches, Stored, Scheduled, HasJob, KeyOf, FileOf
<1>7. TypeOK'
  BY <1>1, <1>2, <1>5 DEF TypeOK
<1>8. FilesInv'
  BY <1>1, <1>3, <1>4, <1>5, <1>6 DEF FilesInv
<1>9. ConfirmedInv'
  BY <1>1, <1>3, <1>5 DEF ConfirmedInv, ValidUploadEvent, TypeOK
<1>10. KeysInv' /\ ScanInv' /\ AckedInv'
  BY <1>1, <1>6 DEF KeysInv, ScanInv, AckedInv, HasTask
<1>11. HandlersInv'
  BY <1>1, <1>6 DEF HandlersInv, ValidUploadEvent
<1> QED
  BY <1>7, <1>8, <1>9, <1>10, <1>11 DEF IInv

LEMMA WorkerMovesJobStep ==
    ASSUME IInv, NEW j \in jobs, WorkerMovesJob(j)
    PROVE  IInv'
<1> USE DEF WorkerMovesJob, requestVars, handlerVars, queueVars
<1>1. TypeOK /\ FilesInv /\ ConfirmedInv /\ KeysInv /\ ScanInv /\ HandlersInv /\ AckedInv
  BY DEF IInv
<1>2. PICK s \in JobStatus : jobs' = (jobs \ {j}) \union {[j EXCEPT !.status = s]}
  OBVIOUS
<1> DEFINE moved == [j EXCEPT !.status = s]
<1>3. j \in Job /\ moved \in Job /\ moved.id = j.id /\ moved.file_id = j.file_id
  BY <1>1 DEF TypeOK, Job
<1> HIDE DEF moved
<1>4. jobs' = (jobs \ {j}) \union {moved}
  BY <1>2 DEF moved
<1>5. /\ \A k : Matches(k)' <=> Matches(k)
      /\ \A g : Scheduled(g)' <=> Scheduled(g)
      /\ \A i \in Handlers : KeyOf(i)' = KeyOf(i) /\ FileOf(i)' = FileOf(i)
  BY DEF Matches, Stored, Scheduled, KeyOf, FileOf
<1>6. \A id : HasJob(id)' <=> HasJob(id)
  BY <1>3, <1>4 DEF HasJob
<1>7. TypeOK'
  BY <1>1, <1>3, <1>4 DEF TypeOK
<1>8. FilesInv' /\ ConfirmedInv' /\ KeysInv' /\ AckedInv'
  BY <1>1, <1>5 DEF FilesInv, ConfirmedInv, KeysInv, AckedInv, ValidUploadEvent
<1>9. ScanInv'
  BY <1>1, <1>3, <1>4, <1>6 DEF ScanInv, HasTask
<1>10. HandlersInv'
  BY <1>1, <1>5, <1>6 DEF HandlersInv, ValidUploadEvent
<1> QED
  BY <1>7, <1>8, <1>9, <1>10 DEF IInv

LEMMA ForgetNameStep ==
    ASSUME IInv, NEW id \in remembered, ForgetName(id)
    PROVE  IInv'
<1> USE DEF ForgetName, requestVars, handlerVars
<1>1. TypeOK /\ FilesInv /\ ConfirmedInv /\ KeysInv /\ ScanInv /\ HandlersInv /\ AckedInv
  BY DEF IInv
<1>2. TypeOK' /\ ScanInv'
  BY <1>1 DEF TypeOK, ScanInv, HasTask, HasJob
<1>3. FilesInv' /\ ConfirmedInv' /\ KeysInv' /\ AckedInv'
  BY <1>1 DEF FilesInv, ConfirmedInv, KeysInv, AckedInv, ValidUploadEvent, Scheduled,
              Matches, Stored
<1>4. HandlersInv'
  BY <1>1 DEF HandlersInv, ValidUploadEvent, FileOf, KeyOf, HasJob, Scheduled,
              Matches, Stored
<1> QED
  BY <1>2, <1>3, <1>4 DEF IInv

-----------------------------------------------------------------------------
LEMMA StutterStep ==
    ASSUME IInv, UNCHANGED vars
    PROVE  IInv'
<1> USE DEF vars, requestVars, handlerVars, queueVars
<1>1. /\ \A k : Matches(k)' <=> Matches(k)
      /\ \A g : Scheduled(g)' <=> Scheduled(g)
      /\ \A id : HasJob(id)' <=> HasJob(id)
      /\ \A i \in Handlers : KeyOf(i)' = KeyOf(i) /\ FileOf(i)' = FileOf(i)
  BY DEF Matches, Stored, Scheduled, HasJob, KeyOf, FileOf
<1>2. TypeOK'
  BY DEF IInv, TypeOK
<1>3. FilesInv' /\ ConfirmedInv' /\ KeysInv' /\ ScanInv' /\ AckedInv'
  BY <1>1 DEF IInv, FilesInv, ConfirmedInv, KeysInv, ScanInv, HasTask, AckedInv, ValidUploadEvent
<1>4. HandlersInv'
  BY <1>1 DEF IInv, HandlersInv, ValidUploadEvent
<1> QED
  BY <1>2, <1>3, <1>4 DEF IInv

LEMMA HandlerStepKeepsIInv ==
    ASSUME IInv, NEW h \in Handlers, HandlerStep(h) \/ Abandon(h)
    PROVE  IInv'
<1>1. CASE Refuse(h)
  BY <1>1, FinishStep DEF Refuse, At
<1>2. CASE MarkUploaded(h)
  BY <1>2, MarkUploadedStep
<1>3. CASE CreateIfAbsent(h)
  BY <1>3, CreateIfAbsentStep
<1>4. CASE Enqueue(h)
  BY <1>4, EnqueueStep
<1>5. CASE Reply(h)
  BY <1>5, FinishStep DEF Reply, At
<1>6. CASE Abandon(h)
  BY <1>6, FinishStep DEF Abandon
<1> QED
  BY <1>1, <1>2, <1>3, <1>4, <1>5, <1>6 DEF HandlerStep

LEMMA NextIInv == IInv /\ [Next]_vars => IInv'
<1> SUFFICES ASSUME IInv, [Next]_vars PROVE IInv'
  OBVIOUS
<1>1. CASE Request
  BY <1>1, CreatePendingUploadStep, DeleteFileStep, SignUploadUrlStep,
     SigningFailsStep DEF Request
<1>2. CASE Storage
  BY <1>2, UploadStep, PublishForeignStep DEF Storage
<1>3. CASE Delivery
  BY <1>3, ReceiveStep, HandlerStepKeepsIInv DEF Delivery
<1>4. CASE Worker
  BY <1>4, WorkerMovesFileStep, WorkerMovesJobStep, ForgetNameStep DEF Worker
<1>5. CASE UNCHANGED vars
  BY <1>5, StutterStep
<1> QED
  BY <1>1, <1>2, <1>3, <1>4, <1>5 DEF Next

\* The invariant holds in every reachable state.
THEOREM Invariance == Spec => []IInv
BY InitIInv, NextIInv, PTL DEF Spec

-----------------------------------------------------------------------------
(* State properties.                                                       *)

\* Type correctness; it needs the whole invariant (an event published for a
\* signed URL has a bucket only because a URL implies that one is configured).
THEOREM TypeCorrect == Spec => []TypeOK
<1>1. IInv => TypeOK
  BY DEF IInv
<1> QED
  BY <1>1, Invariance, PTL

\* An acknowledged event has left nothing undone.
THEOREM NothingLost == Spec => []AckedMeansScheduled
<1>1. IInv => AckedMeansScheduled
  BY DEF IInv, AckedInv, FilesInv, AckedMeansScheduled, Matches, Stored
<1> QED
  BY <1>1, Invariance, PTL

\* A task's job document is stored.
THEOREM TasksHaveJobs == Spec => []TaskHasJob
<1>1. IInv => TaskHasJob
  <2> SUFFICES ASSUME IInv, NEW t \in tasks
               PROVE  \E j \in jobs : j.id = t.name /\ j.file_id = t.file_id
    BY DEF TaskHasJob
  <2>1. t.name = SecurityScanJobId(t.file_id) /\ HasJob(t.name)
    BY DEF IInv, ScanInv
  <2>2. PICK j \in jobs : j.id = t.name
    BY <2>1 DEF HasJob
  <2>3. j.id = SecurityScanJobId(j.file_id)
    BY DEF IInv, ScanInv
  <2> QED
    BY <2>1, <2>2, <2>3 DEF SecurityScanJobId
<1> QED
  BY <1>1, Invariance, PTL

\* A scan exists only for a file whose own object was uploaded.
THEOREM JobsHaveUploads == Spec => []JobHasUpload
<1>1. IInv => JobHasUpload
  BY DEF IInv, ScanInv, ConfirmedInv, JobHasUpload, Stored
<1> QED
  BY <1>1, Invariance, PTL

-----------------------------------------------------------------------------
(* What the actions do to the collections.                                 *)

\* The files collection changes in one document at a time, in four ways.
LEMMA FilesStep ==
    ASSUME IInv, [Next]_vars, NEW f \in FileIds
    PROVE  \/ files'[f] = files[f]
           \/ /\ f \notin issued /\ files[f] = NoFile
              /\ files'[f] # NoFile /\ files'[f].status = "PENDING_UPLOAD"
           \/ files'[f] = NoFile
           \/ /\ files[f] # NoFile /\ files'[f] # NoFile
              /\ files'[f].owner_id = files[f].owner_id
              /\ files'[f].storage_key = files[f].storage_key
              /\ <<files[f].status, files'[f].status>> \in FileTransition
<1>1. TypeOK /\ FilesInv
  BY DEF IInv
<1>2. ASSUME NEW u \in Users, NEW g \in FileIds, CreatePendingUpload(u, g)
      PROVE  \/ files'[f] = files[f]
             \/ /\ f \notin issued /\ files[f] = NoFile
                /\ files'[f] # NoFile /\ files'[f].status = "PENDING_UPLOAD"
  <2> DEFINE doc == [owner_id |-> u, storage_key |-> StorageKey(u, g),
                     status |-> "PENDING_UPLOAD"]
  <2>1. doc \in FileMetadata /\ doc # NoFile
    BY UploadKey, NullAssumption DEF FileMetadata, FileStatus
  <2>2. files' = [files EXCEPT ![g] = doc] /\ g \notin issued /\ files[g] = NoFile
    BY <1>1, <1>2 DEF CreatePendingUpload, FilesInv
  <2> QED
    BY <1>1, <2>1, <2>2 DEF TypeOK
<1>3. ASSUME NEW g \in FileIds, NEW s, files[g] # NoFile,
             <<files[g].status, s>> \in FileTransition,
             files' = [files EXCEPT ![g].status = s]
      PROVE  \/ files'[f] = files[f]
             \/ /\ files[f] # NoFile /\ files'[f] # NoFile
                /\ files'[f].owner_id = files[f].owner_id
                /\ files'[f].storage_key = files[f].storage_key
                /\ <<files[f].status, files'[f].status>> \in FileTransition
  <2>1. files[g] \in FileMetadata
    BY <1>1, <1>3 DEF TypeOK
  <2>2. s \in FileStatus
    BY <1>3 DEF FileTransition, FileStatus
  <2> DEFINE doc == [files[g] EXCEPT !.status = s]
  <2>3. /\ doc \in FileMetadata /\ doc # NoFile /\ doc.status = s
        /\ doc.owner_id = files[g].owner_id /\ doc.storage_key = files[g].storage_key
    BY <2>1, <2>2, NullAssumption DEF FileMetadata
  <2>4. files' = [files EXCEPT ![g] = doc]
    BY <1>3
  <2> HIDE DEF doc
  <2> QED
    BY <1>1, <1>3, <2>3, <2>4 DEF TypeOK
<1>4. ASSUME NEW h \in Handlers, MarkUploaded(h)
      PROVE  \/ files' = files
             \/ \E g \in FileIds : \E s :
                   /\ files[g] # NoFile
                   /\ <<files[g].status, s>> \in FileTransition
                   /\ files' = [files EXCEPT ![g].status = s]
  BY <1>4 DEF MarkUploaded, Pending, Matches, Stored, FileOf, FileTransition
<1>5. CASE Request
  <2>1. ASSUME NEW u \in Users, NEW g \in FileIds, DeleteFile(u, g)
        PROVE  files'[f] = files[f] \/ files'[f] = NoFile
    BY <1>1, <2>1 DEF DeleteFile, TypeOK
  <2> QED
    BY <1>2, <1>5, <2>1 DEF Request, SignUploadUrl, SigningFails
<1>6. CASE Storage
  BY <1>6 DEF Storage, Upload, PublishForeign
<1>7. CASE Delivery
  <2>1. ASSUME NEW h \in Handlers, NEW m \in Messages, Receive(h, m)
        PROVE  files' = files
    BY <2>1 DEF Receive
  <2>2. ASSUME NEW h \in Handlers,
               Refuse(h) \/ CreateIfAbsent(h) \/ Enqueue(h) \/ Reply(h) \/ Abandon(h)
        PROVE  files' = files
    BY <2>2 DEF Refuse, CreateIfAbsent, Enqueue, Reply, Abandon
  <2> QED
    BY <1>3, <1>4, <1>7, <2>1, <2>2 DEF Delivery, HandlerStep
<1>8. CASE Worker
  BY <1>3, <1>8 DEF Worker, ForgetName, WorkerMovesFile, WorkerMovesJob, Stored
<1>9. CASE UNCHANGED vars
  BY <1>9 DEF vars
<1> QED
  BY <1>5, <1>6, <1>7, <1>8, <1>9 DEF Next

\* A document appears once and its status only follows allowed transitions.
THEOREM LifecycleHolds == Spec => Lifecycle
<1>1. IInv /\ [Next]_vars =>
        [\A f \in FileIds :
          /\ files[f] = NoFile /\ files'[f] # NoFile =>
                f \notin issued /\ files'[f].status = "PENDING_UPLOAD"
          /\ files[f] # NoFile /\ files'[f] # NoFile =>
                /\ files'[f].owner_id = files[f].owner_id
                /\ files'[f].storage_key = files[f].storage_key
                /\ \/ files'[f].status = files[f].status
                   \/ <<files[f].status, files'[f].status>> \in FileTransition
        ]_vars
  BY FilesStep
<1> QED
  BY <1>1, Invariance, PTL DEF Spec, Lifecycle

\* The jobs collection grows by one queued job of the file a handler
\* dispatches, or the worker moves one job along.
LEMMA JobsStep ==
    ASSUME IInv, [Next]_vars
    PROVE  \/ jobs' = jobs
           \/ \E h \in Handlers : \E k :
                 /\ pc[h] = "create"
                 /\ k.file_id = FileOf(h)
                 /\ jobs' = jobs \union {k}
           \/ \E j \in jobs : \E k :
                 /\ k.id = j.id
                 /\ k.file_id = j.file_id
                 /\ <<j.status, k.status>> \in JobTransition
                 /\ jobs' = (jobs \ {j}) \union {k}
<1>1. CASE Request
  BY <1>1 DEF Request, CreatePendingUpload, DeleteFile, SignUploadUrl, SigningFails
<1>2. CASE Storage
  BY <1>2 DEF Storage, Upload, PublishForeign
<1>3. CASE Delivery
  <2>1. ASSUME NEW h \in Handlers, CreateIfAbsent(h)
        PROVE  \/ jobs' = jobs
               \/ \E k : /\ pc[h] = "create"
                         /\ k.file_id = FileOf(h)
                         /\ jobs' = jobs \union {k}
    <3> DEFINE c == [id |-> SecurityScanJobId(FileOf(h)), file_id |-> FileOf(h),
                     status |-> "QUEUED"]
    <3>1. c.file_id = FileOf(h)
      OBVIOUS
    <3>2. pc[h] = "create" /\ (jobs' = jobs \/ jobs' = jobs \union {c})
      BY <2>1 DEF CreateIfAbsent, At
    <3> HIDE DEF c
    <3> QED
      BY <3>1, <3>2
  <2>2. ASSUME NEW h \in Handlers, NEW m \in Messages, Receive(h, m)
        PROVE  jobs' = jobs
    BY <2>2 DEF Receive
  <2>3. ASSUME NEW h \in Handlers,
               Refuse(h) \/ MarkUploaded(h) \/ Enqueue(h) \/ Reply(h) \/ Abandon(h)
        PROVE  jobs' = jobs
    BY <2>3 DEF Refuse, MarkUploaded, Enqueue, Reply, Abandon
  <2> QED
    BY <1>3, <2>1, <2>2, <2>3 DEF Delivery, HandlerStep
<1>4. CASE Worker
  <2>1. ASSUME NEW j \in jobs, WorkerMovesJob(j)
        PROVE  \E k : /\ k.id = j.id
                      /\ k.file_id = j.file_id
                      /\ <<j.status, k.status>> \in JobTransition
                      /\ jobs' = (jobs \ {j}) \union {k}
    <3>1. PICK s \in JobStatus : /\ <<j.status, s>> \in JobTransition
                                 /\ jobs' = (jobs \ {j}) \union {[j EXCEPT !.status = s]}
      BY <2>1 DEF WorkerMovesJob
    <3> DEFINE k == [j EXCEPT !.status = s]
    <3>2. j \in Job
      BY DEF IInv, TypeOK
    <3>3. k.id = j.id /\ k.file_id = j.file_id /\ k.status = s
      BY <3>2 DEF Job
    <3> HIDE DEF k
    <3>4. jobs' = (jobs \ {j}) \union {k}
      BY <3>1 DEF k
    <3> QED
      BY <3>1, <3>3, <3>4
  <2> QED
    BY <1>4, <2>1 DEF Worker, ForgetName, WorkerMovesFile
<1>5. CASE UNCHANGED vars
  BY <1>5 DEF vars
<1> QED
  BY <1>1, <1>2, <1>3, <1>4, <1>5 DEF Next

\* A stored job is never lost and never starts over.
THEOREM JobsOnlyAdvanceHolds == Spec => JobsOnlyAdvance
<1>1. IInv /\ [Next]_vars =>
        [\A j \in jobs : \E k \in jobs' :
          /\ k.id = j.id
          /\ k.file_id = j.file_id
          /\ k.status = j.status \/ <<j.status, k.status>> \in JobTransition
        ]_vars
  BY JobsStep
<1> QED
  BY <1>1, Invariance, PTL DEF Spec, JobsOnlyAdvance

\* A handler comes to dispatch a file only while its document is stored, and
\* works on that file until it is done.
LEMMA DispatchStep ==
    ASSUME IInv, [Next]_vars, NEW h \in Handlers, pc'[h] \in {"create", "enqueue"}
    PROVE  /\ FileOf(h)' = FileOf(h)
           /\ pc[h] \in {"create", "enqueue"} \/ Stored(FileOf(h))
<1>1. TypeOK /\ HandlersInv
  BY DEF IInv
<1>2. ASSUME UNCHANGED <<event, pc, delivery>>
      PROVE  /\ FileOf(h)' = FileOf(h)
             /\ pc[h] \in {"create", "enqueue"}
  BY <1>2 DEF FileOf, KeyOf
<1>3. CASE Request
  BY <1>2, <1>3 DEF Request, CreatePendingUpload, DeleteFile, SignUploadUrl,
                    SigningFails, handlerVars, queueVars
<1>4. CASE Storage
  <2>1. PICK m \in Messages : /\ event[m] = NoEvent
                              /\ \E e : event' = [event EXCEPT ![m] = e]
                              /\ UNCHANGED <<pc, delivery>>
    BY <1>4 DEF Storage, Upload, PublishForeign, handlerVars, queueVars
  <2>2. delivery[h] \in Messages /\ event[delivery[h]] # NoEvent
    BY <1>1, <2>1 DEF HandlersInv
  <2>3. event'[delivery[h]] = event[delivery[h]]
    BY <1>1, <2>1, <2>2 DEF TypeOK
  <2> QED
    BY <2>1, <2>3 DEF FileOf, KeyOf
<1>5. CASE Delivery
  <2>1. PICK i \in Handlers : (\E m \in Messages : Receive(i, m)) \/ HandlerStep(i) \/ Abandon(i)
    BY <1>5 DEF Delivery
  <2>2. CASE i # h
    <3>1. UNCHANGED event /\ pc'[h] = pc[h] /\ delivery'[h] = delivery[h]
      BY <1>1, <2>1, <2>2 DEF TypeOK, Receive, HandlerStep, Refuse, MarkUploaded,
         CreateIfAbsent, Enqueue, Reply, Abandon, Finish, Goto
    <3> QED
      BY <3>1 DEF FileOf, KeyOf
  <2>3. CASE i = h
    <3>1. CASE \E m \in Messages : Receive(h, m)
      <4>1. pc'[h] \in {"mark", "refuse"}
        BY <1>1, <3>1 DEF Receive, Goto, TypeOK
      <4> QED
        BY <4>1
    <3>2. CASE Refuse(h) \/ Reply(h) \/ Abandon(h)
      <4>1. pc'[h] = "idle"
        BY <1>1, <3>2 DEF Refuse, Reply, Abandon, Finish, Goto, TypeOK
      <4> QED
        BY <4>1
    <3>3. CASE MarkUploaded(h)
      <4>1. UNCHANGED <<event, delivery>>
        BY <3>3 DEF MarkUploaded
      <4>2. Matches(KeyOf(h)) \/ pc'[h] = "reply"
        BY <1>1, <3>3 DEF MarkUploaded, Pending, AlreadyUploaded, Goto, TypeOK
      <4> QED
        BY <4>1, <4>2 DEF FileOf, KeyOf, Matches
    <3>4. CASE CreateIfAbsent(h) \/ Enqueue(h)
      BY <3>4 DEF CreateIfAbsent, Enqueue, At, FileOf, KeyOf
    <3> QED
      BY <2>1, <2>3, <3>1, <3>2, <3>3, <3>4 DEF HandlerStep
  <2> QED
    BY <2>2, <2>3
<1>6. CASE Worker
  BY <1>2, <1>6 DEF Worker, ForgetName, WorkerMovesFile, WorkerMovesJob, handlerVars, queueVars
<1>7. CASE UNCHANGED vars
  BY <1>2, <1>7 DEF vars, handlerVars, queueVars
<1> QED
  BY <1>3, <1>4, <1>5, <1>6, <1>7 DEF Next

\* Ids stay issued.
LEMMA IssuedStep ==
    ASSUME [Next]_vars
    PROVE  issued \subseteq issued'
<1>1. CASE Request
  BY <1>1 DEF Request, CreatePendingUpload, DeleteFile, SignUploadUrl, SigningFails, requestVars
<1>2. CASE Storage
  BY <1>2 DEF Storage, Upload, PublishForeign, requestVars
<1>3. CASE Delivery
  BY <1>3 DEF Delivery, Receive, HandlerStep, Refuse, MarkUploaded, CreateIfAbsent,
              Enqueue, Reply, Abandon, requestVars
<1>4. CASE Worker
  BY <1>4 DEF Worker, ForgetName, WorkerMovesFile, WorkerMovesJob, requestVars
<1>5. CASE UNCHANGED vars
  BY <1>5 DEF vars, requestVars
<1> QED
  BY <1>1, <1>2, <1>3, <1>4, <1>5 DEF Next

\* A file deleted before its upload was dispatched is never scanned.
THEOREM QuietStaysHolds == Spec => QuietStays
<1>1. ASSUME IInv, [Next]_vars, NEW f \in FileIds, Quiet(f)
      PROVE  Quiet(f)'
  <2> USE DEF Quiet
  <2>1. f \in issued'
    BY <1>1, IssuedStep
  <2>2. files'[f] = NoFile
    BY <1>1, FilesStep
  <2>3. \A j \in jobs' : j.file_id # f
    BY <1>1, JobsStep
  <2>4. \A h \in Handlers : pc'[h] \in {"create", "enqueue"} => FileOf(h)' # f
    BY <1>1, DispatchStep DEF Stored
  <2> QED
    BY <2>1, <2>2, <2>3, <2>4
<1>2. IInv /\ [Next]_vars => [\A f \in FileIds : Quiet(f) => Quiet(f)']_vars
  BY <1>1
<1> QED
  BY <1>2, Invariance, PTL DEF Spec, QuietStays

\* The queue learns a name only from a handler that dispatches its file.
LEMMA RememberedStep ==
    ASSUME IInv, [Next]_vars, NEW id \in remembered' \ remembered
    PROVE  \E h \in Handlers : pc[h] = "enqueue" /\ SecurityScanJobId(FileOf(h)) = id
<1>1. CASE Request
  BY <1>1 DEF Request, CreatePendingUpload, DeleteFile, SignUploadUrl, SigningFails, queueVars
<1>2. CASE Storage
  BY <1>2 DEF Storage, Upload, PublishForeign, queueVars
<1>3. CASE Delivery
  <2>1. PICK h \in Handlers : Enqueue(h)
    BY <1>3 DEF Delivery, Receive, HandlerStep, Refuse, MarkUploaded, CreateIfAbsent,
                Reply, Abandon, queueVars
  <2> QED
    BY <2>1 DEF Enqueue, At, CreateTask, queueVars
<1>4. CASE Worker
  BY <1>4 DEF Worker, ForgetName, WorkerMovesFile, WorkerMovesJob, queueVars
<1>5. CASE UNCHANGED vars
  BY <1>5 DEF vars, queueVars
<1> QED
  BY <1>1, <1>2, <1>3, <1>4, <1>5 DEF Next

\* A handler comes to dispatch a file only if it is pending or uploaded.
LEMMA DispatchStatus ==
    ASSUME IInv, [Next]_vars, NEW h \in Handlers,
           pc'[h] \in {"create", "enqueue"}, pc[h] \notin {"create", "enqueue"}
    PROVE  /\ Stored(FileOf(h))
           /\ files[FileOf(h)].status \in {"PENDING_UPLOAD", "UPLOADED"}
<1>1. TypeOK
  BY DEF IInv
<1>2. pc' # pc
  OBVIOUS
<1>3. Delivery
  BY <1>2 DEF Next, vars, handlerVars, Request, CreatePendingUpload, DeleteFile,
     SignUploadUrl, SigningFails, Storage, Upload, PublishForeign, Worker, ForgetName,
     WorkerMovesFile, WorkerMovesJob
<1>4. PICK i \in Handlers : (\E m \in Messages : Receive(i, m)) \/ HandlerStep(i) \/ Abandon(i)
  BY <1>3 DEF Delivery
<1>5. \A k \in Handlers \ {i} : pc'[k] = pc[k]
  BY <1>1, <1>4 DEF TypeOK, Receive, HandlerStep, Refuse, MarkUploaded,
     CreateIfAbsent, Enqueue, Reply, Abandon, Finish, Goto
<1>6. i = h
  BY <1>5
<1>7. MarkUploaded(h)
  BY <1>1, <1>4, <1>6 DEF TypeOK, Receive, HandlerStep, Refuse, CreateIfAbsent, Enqueue,
     Reply, Abandon, Finish, Goto, At
<1>8. Pending(KeyOf(h)) \/ AlreadyUploaded(KeyOf(h))
  BY <1>1, <1>7 DEF MarkUploaded, TypeOK, Goto
<1> QED
  BY <1>8 DEF Pending, AlreadyUploaded, Matches, FileOf

\* A settled file is never dispatched again, though the queue forgets.
THEOREM SettledStaysHolds == Spec => SettledStays
<1>1. ASSUME IInv, [Next]_vars, NEW f \in FileIds, Settled(f)
      PROVE  /\ Settled(f)'
             /\ SecurityScanJobId(f) \in remembered' => SecurityScanJobId(f) \in remembered
  <2> USE DEF Settled
  <2>1. f \in issued'
    BY <1>1, IssuedStep
  <2>2. Stored(f)' => files'[f].status \notin {"PENDING_UPLOAD", "UPLOADED"}
    <3>1. files[f] # NoFile => files[f].status \notin {"PENDING_UPLOAD", "UPLOADED"}
      BY <1>1 DEF Stored
    <3> QED
      BY <1>1, <3>1, FilesStep DEF Stored, FileTransition
  <2>3. \A h \in Handlers : pc'[h] \in {"create", "enqueue"} => FileOf(h)' # f
    BY <1>1, DispatchStep, DispatchStatus
  <2>4. SecurityScanJobId(f) \in remembered' => SecurityScanJobId(f) \in remembered
    BY <1>1, RememberedStep DEF SecurityScanJobId
  <2> QED
    BY <2>1, <2>2, <2>3, <2>4
<1>2. IInv /\ [Next]_vars =>
        [\A f \in FileIds :
          Settled(f) =>
              /\ Settled(f)'
              /\ SecurityScanJobId(f) \in remembered' =>
                    SecurityScanJobId(f) \in remembered]_vars
  BY <1>1
<1> QED
  BY <1>2, Invariance, PTL DEF Spec, SettledStays

-----------------------------------------------------------------------------
(* The pipeline implements ScanPromise.                                    *)

\* The refinement mapping.
Withdrawn == {f \in issued : files[f] = NoFile}
Scans == [f \in FileIds |-> {t.name : t \in {s \in tasks : s.file_id = f}}]

\* A step that adds no id, confirmation or task, and no deletion, stutters.
LEMMA PromiseStutters ==
    ASSUME TypeOK,
           UNCHANGED <<issued, confirmed, tasks>>,
           \A f \in issued : files'[f] = NoFile <=> files[f] = NoFile
    PROVE  UNCHANGED Promise!vars
<1>1. Withdrawn' = Withdrawn
  BY DEF Withdrawn
<1>2. Scans' = Scans
  BY DEF Scans
<1> QED
  BY <1>1, <1>2 DEF Promise!vars, Withdrawn, Scans

LEMMA CreateRefines ==
    ASSUME IInv, NEW u \in Users, NEW f \in FileIds, CreatePendingUpload(u, f)
    PROVE  Promise!Accept(f)
<1>1. TypeOK
  BY DEF IInv
<1> DEFINE doc == [owner_id |-> u, storage_key |-> StorageKey(u, f),
                   status |-> "PENDING_UPLOAD"]
<1>2. doc # NoFile
  BY UploadKey, NullAssumption DEF FileMetadata, FileStatus
<1>3. /\ f \notin issued /\ issued' = issued \union {f}
      /\ files' = [files EXCEPT ![f] = doc]
      /\ UNCHANGED <<tasks, confirmed>>
  BY DEF CreatePendingUpload, queueVars
<1> HIDE DEF doc
<1>4. files'[f] # NoFile /\ \A g \in FileIds \ {f} : files'[g] = files[g]
  BY <1>1, <1>2, <1>3 DEF TypeOK
<1>5. Withdrawn' = Withdrawn
  BY <1>1, <1>3, <1>4 DEF Withdrawn, TypeOK
<1>6. Scans' = Scans
  BY <1>3 DEF Scans
<1> QED
  BY <1>3, <1>5, <1>6 DEF Promise!Accept, Withdrawn, Scans

LEMMA DeleteRefines ==
    ASSUME IInv, NEW u \in Users, NEW f \in FileIds, DeleteFile(u, f)
    PROVE  Promise!Withdraw(f)
<1>1. TypeOK /\ FilesInv
  BY DEF IInv
<1>2. /\ files[f] # NoFile /\ files' = [files EXCEPT ![f] = NoFile]
      /\ UNCHANGED <<issued, tasks, confirmed>>
  BY DEF DeleteFile, Stored, requestVars, queueVars
<1>3. f \in issued \ Withdrawn
  BY <1>1, <1>2 DEF FilesInv, Withdrawn
<1>4. Withdrawn' = Withdrawn \union {f}
  BY <1>1, <1>2, <1>3 DEF Withdrawn, TypeOK
<1>5. Scans' = Scans
  BY <1>2 DEF Scans
<1> QED
  BY <1>2, <1>3, <1>4, <1>5 DEF Promise!Withdraw, Withdrawn, Scans

LEMMA MarkRefines ==
    ASSUME IInv, NEW h \in Handlers, MarkUploaded(h)
    PROVE  Promise!Next \/ UNCHANGED Promise!vars
<1>1. TypeOK /\ FilesInv
  BY DEF IInv
<1>2. UNCHANGED <<issued, tasks>>
  BY DEF MarkUploaded, requestVars, queueVars
<1>3. CASE UNCHANGED <<files, confirmed>>
  BY <1>1, <1>2, <1>3, PromiseStutters
<1>4. CASE /\ Pending(KeyOf(h))
           /\ files' = [files EXCEPT ![FileOf(h)].status = "UPLOADED"]
           /\ confirmed' = confirmed \union {FileOf(h)}
  <2>1. PICK f : f = FileOf(h)
    OBVIOUS
  <2>2. /\ f \in FileIds /\ files[f] # NoFile
        /\ files[f].status = "PENDING_UPLOAD"
    BY <1>4, <2>1 DEF Pending, Matches, Stored, FileOf
  <2>3. f \in issued /\ f \notin confirmed /\ f \notin Withdrawn
    BY <1>1, <2>2 DEF FilesInv, Withdrawn
  <2>4. [files[f] EXCEPT !.status = "UPLOADED"] # NoFile
    BY <1>1, <2>2, NullAssumption DEF TypeOK, FileMetadata, FileStatus
  <2>5. \A g \in FileIds : files'[g] = NoFile <=> files[g] = NoFile
    BY <1>1, <1>4, <2>1, <2>2, <2>4 DEF TypeOK
  <2>6. Withdrawn' = Withdrawn
    BY <1>1, <1>2, <2>5 DEF Withdrawn, TypeOK
  <2>7. Scans' = Scans
    BY <1>2 DEF Scans
  <2>8. Promise!Confirm(f)
    BY <1>2, <1>4, <2>1, <2>3, <2>6, <2>7 DEF Promise!Confirm, Withdrawn, Scans
  <2> QED
    BY <2>2, <2>8 DEF Promise!Next
<1> QED
  BY <1>3, <1>4 DEF MarkUploaded

LEMMA EnqueueRefines ==
    ASSUME IInv, NEW h \in Handlers, Enqueue(h)
    PROVE  Promise!Next \/ UNCHANGED Promise!vars
<1>1. TypeOK /\ ScanInv /\ HandlersInv
  BY DEF IInv
<1>2. PICK f : f = FileOf(h)
  OBVIOUS
<1>3. PICK id : id = SecurityScanJobId(f)
  OBVIOUS
<1>4. PICK task : task = [name |-> id, file_id |-> f]
  OBVIOUS
<1>5. /\ pc[h] = "enqueue"
      /\ tasks' = IF HasTask(id) THEN tasks ELSE tasks \union {task}
      /\ UNCHANGED <<files, issued, confirmed>>
  BY <1>1, <1>2, <1>3, <1>4, EnqueueEffect DEF Enqueue, At, requestVars
<1>6. f \in confirmed /\ f \in FileIds /\ id \in JobIds
  BY <1>1, <1>2, <1>3, <1>5 DEF HandlersInv, TypeOK, JobIds, SecurityScanJobId
<1>7. CASE HasTask(id)
  BY <1>1, <1>5, <1>7, PromiseStutters
<1>8. CASE ~ HasTask(id)
  <2>1. tasks' = tasks \union {task} /\ task.name = id /\ task.file_id = f
    BY <1>4, <1>5, <1>8
  <2>2. \A t \in tasks : t.file_id # f
    BY <1>1, <1>3, <1>8 DEF ScanInv, HasTask
  <2>3. Scans[f] = {}
    BY <1>6, <2>2 DEF Scans
  <2>4. Scans' = [Scans EXCEPT ![f] = {id}]
    <3>1. {t.name : t \in {s \in tasks' : s.file_id = f}} = {id}
      BY <2>1, <2>2
    <3>2. ASSUME NEW g \in FileIds \ {f}
          PROVE  {t.name : t \in {s \in tasks' : s.file_id = g}}
                    = {t.name : t \in {s \in tasks : s.file_id = g}}
      <4>1. {s \in tasks' : s.file_id = g} = {s \in tasks : s.file_id = g}
        BY <2>1, <3>2
      <4> QED
        BY <4>1
    <3> QED
      BY <1>6, <3>1, <3>2 DEF Scans
  <2>5. Withdrawn' = Withdrawn
    BY <1>5 DEF Withdrawn
  <2>6. Promise!Schedule(f)
    BY <1>5, <1>6, <2>3, <2>4, <2>5 DEF Promise!Schedule, Withdrawn, Scans
  <2> QED
    BY <1>6, <2>6 DEF Promise!Next
<1> QED
  BY <1>7, <1>8

LEMMA StepRefines ==
    ASSUME IInv, [Next]_vars
    PROVE  Promise!Next \/ UNCHANGED Promise!vars
<1>1. TypeOK
  BY DEF IInv
<1>2. CASE Request
  <2>1. ASSUME UNCHANGED <<files, issued, tasks, confirmed>>
        PROVE  UNCHANGED Promise!vars
    BY <1>1, <2>1, PromiseStutters
  <2> QED
    BY <1>2, <2>1, CreateRefines, DeleteRefines
       DEF Request, SignUploadUrl, SigningFails, queueVars, Promise!Next
<1>3. CASE Storage
  BY <1>1, <1>3, PromiseStutters DEF Storage, Upload, PublishForeign, requestVars, queueVars
<1>4. CASE Delivery
  <2>1. ASSUME UNCHANGED <<files, tasks, requestVars, confirmed>>
        PROVE  UNCHANGED Promise!vars
    BY <1>1, <2>1, PromiseStutters DEF requestVars
  <2>2. ASSUME NEW h \in Handlers, NEW m \in Messages, Receive(h, m)
        PROVE  UNCHANGED <<files, tasks, requestVars, confirmed>>
    BY <2>2 DEF Receive, queueVars
  <2>3. ASSUME NEW h \in Handlers,
               Refuse(h) \/ CreateIfAbsent(h) \/ Reply(h) \/ Abandon(h)
        PROVE  UNCHANGED <<files, tasks, requestVars, confirmed>>
    BY <2>3 DEF Refuse, CreateIfAbsent, Reply, Abandon, queueVars
  <2> QED
    BY <1>4, <2>1, <2>2, <2>3, MarkRefines, EnqueueRefines DEF Delivery, HandlerStep
<1>5. CASE Worker
  <2>1. ASSUME NEW f \in FileIds, WorkerMovesFile(f)
        PROVE  \A g \in issued : files'[g] = NoFile <=> files[g] = NoFile
    BY <1>1, <2>1, NullAssumption DEF WorkerMovesFile, Stored, TypeOK, FileMetadata
  <2>2. ASSUME NEW j \in jobs, WorkerMovesJob(j)
        PROVE  UNCHANGED files
    BY <2>2 DEF WorkerMovesJob
  <2>3. UNCHANGED <<issued, confirmed, tasks>>
    BY <1>5 DEF Worker, ForgetName, WorkerMovesFile, WorkerMovesJob, requestVars, queueVars
  <2> QED
    BY <1>1, <1>5, <2>1, <2>2, <2>3, PromiseStutters DEF Worker, ForgetName
<1>6. CASE UNCHANGED vars
  BY <1>1, <1>6, PromiseStutters DEF vars, requestVars, queueVars
<1> QED
  BY <1>2, <1>3, <1>4, <1>5, <1>6 DEF Next

\* Every behaviour of the pipeline is one the promise allows: uploads are
\* confirmed once, before a deletion, and each confirmed file is scanned once.
THEOREM PipelineImplementsPromise == Spec => RefinesPromise
<1>1. Init => Promise!Init
  BY DEF Init, Promise!Init
<1>2. IInv /\ [Next]_vars => [Promise!Next]_(Promise!vars)
  BY StepRefines
<1> QED
  BY <1>1, <1>2, Invariance, PTL DEF Spec, RefinesPromise, Promise!Spec

=============================================================================
