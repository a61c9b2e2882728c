--------------------------- MODULE LookupsProofs ---------------------------
(***************************************************************************)
(* What pollers are told, for any number of users, files, events and       *)
(* handlers.  A step is one of the pipeline or one of a poller; LInv holds *)
(* of a user who takes no part in a step because files and jobs only       *)
(* advance (BystanderStep), and of the poller by the action that it takes. *)
(***************************************************************************)
EXTENDS Lookups, ScanPipelineProofs

-----------------------------------------------------------------------------
(* The pipeline's invariant holds: a poller's step leaves the pipeline     *)
(* alone.                                                                  *)

LEMMA PipelineSteps == [LNext]_lvars => [Next]_vars
<1> SUFFICES ASSUME [LNext]_lvars PROVE [Next]_vars
  OBVIOUS
<1>1. ASSUME NEW u \in Pollers, Client(u) PROVE UNCHANGED vars
  BY <1>1 DEF Client, AskJob, GetJob, LookupFails, GetFile, ListFiles
<1> QED
  BY <1>1 DEF LNext, lvars

LEMMA LSpecIInv == LSpec => []IInv
<1>1. LInit => IInv
  BY InitIInv DEF LInit
<1>2. IInv /\ [LNext]_lvars => IInv'
  BY NextIInv, PipelineSteps
<1> QED
  BY <1>1, <1>2, PTL DEF LSpec

-----------------------------------------------------------------------------
(* Ranks.                                                                  *)

LEMMA JobRanks ==
    /\ \A s \in JobStatus : JobRank[s] \in Int
    /\ \A s, t \in JobStatus :
          <<s, t>> \in JobTransition => JobRank[s] < JobRank[t]
  BY DEF JobRank, JobStatus, JobTransition

LEMMA FileRanks ==
    /\ \A s \in FileStatus : FileRank[s] \in Int
    /\ \A s, t \in FileStatus :
          <<s, t>> \in FileTransition => FileRank[s] < FileRank[t]
  BY DEF FileRank, FileStatus, FileTransition

LEMMA JobRankTransitive ==
    ASSUME NEW r \in JobStatus, NEW s \in JobStatus, NEW t \in JobStatus,
           NotBefore(JobRank, r, s), NotBefore(JobRank, s, t)
    PROVE  NotBefore(JobRank, r, t)
  BY JobRanks DEF NotBefore

LEMMA FileRankTransitive ==
    ASSUME NEW r \in FileStatus, NEW s \in FileStatus, NEW t \in FileStatus,
           NotBefore(FileRank, r, s), NotBefore(FileRank, s, t)
    PROVE  NotBefore(FileRank, r, t)
  BY FileRanks DEF NotBefore

-----------------------------------------------------------------------------
(* What a step of the pipeline leaves true.                                *)

\* An issued file that is stored after a step was stored before it, with the
\* same owner and no later status.
LEMMA FileStays ==
    ASSUME IInv, [Next]_vars, NEW f \in issued, Stored(f)'
    PROVE  /\ Stored(f)
           /\ files'[f].owner_id = files[f].owner_id
           /\ files[f].status \in FileStatus /\ files'[f].status \in FileStatus
           /\ NotBefore(FileRank, files[f].status, files'[f].status)
<1>1. TypeOK /\ TypeOK'
  BY NextIInv DEF IInv
<1>2. f \in FileIds
  BY <1>1 DEF TypeOK
<1>3. Stored(f) /\ files'[f].owner_id = files[f].owner_id
  BY <1>2, FilesStep DEF Stored
<1>4. files[f] \in FileMetadata /\ files'[f] \in FileMetadata
  BY <1>1, <1>2, <1>3 DEF TypeOK, Stored
<1>5. files[f].status \in FileStatus /\ files'[f].status \in FileStatus
  BY <1>4 DEF FileMetadata
<1>6. \/ files'[f].status = files[f].status
      \/ <<files[f].status, files'[f].status>> \in FileTransition
  BY <1>2, <1>3, FilesStep DEF Stored
<1> QED
  BY <1>3, <1>5, <1>6, FileRanks DEF NotBefore

\* What a job has reached it has reached for good.
LEMMA ReachedStays ==
    ASSUME IInv, [Next]_vars, NEW f \in FileIds, NEW s \in JobStatus, HasReached(f, s)
    PROVE  HasReached(f, s)'
<1>1. jobs \subseteq Job /\ jobs' \subseteq Job
  BY NextIInv DEF IInv, TypeOK
<1>2. PICK j \in jobs : j.file_id = f /\ NotBefore(JobRank, s, j.status)
  BY DEF HasReached
<1>3. PICK k \in jobs' : /\ k.file_id = f
                         /\ k.status = j.status \/ <<j.status, k.status>> \in JobTransition
  BY <1>2, JobsStep
<1>4. j.status \in JobStatus /\ k.status \in JobStatus
  BY <1>1 DEF Job
<1>5. NotBefore(JobRank, j.status, k.status)
  BY <1>3, <1>4, JobRanks DEF NotBefore
<1>6. NotBefore(JobRank, s, k.status)
  BY <1>2, <1>4, <1>5, JobRankTransitive
<1> QED
  BY <1>3, <1>6 DEF HasReached, NotBefore

\* The job of a file carries the id asked for, and the file was issued.
LEMMA JobOfFile ==
    ASSUME IInv, NEW f \in FileIds
    PROVE  /\ \A j \in jobs : j.id = SecurityScanJobId(f) <=> j.file_id = f
           /\ \A j \in jobs : j.file_id = f => f \in issued /\ f \in confirmed
<1>1. \A j \in jobs : j.id = SecurityScanJobId(j.file_id) /\ j.file_id \in confirmed
  BY DEF IInv, ScanInv
<1>2. confirmed \subseteq issued
  BY DEF IInv, ConfirmedInv
<1> QED
  BY <1>1, <1>2 DEF SecurityScanJobId

-----------------------------------------------------------------------------
(* A user who takes no part in a step.                                     *)

LEMMA BystanderStep ==
    ASSUME IInv, [Next]_vars, Record, LTypeOK, NEW u \in Pollers, UserInv(u),
           step'[u] = step[u], wanted'[u] = wanted[u], found'[u] = found[u],
           toldJob'[u] = toldJob[u], toldFile'[u] = toldFile[u]
    PROVE  UserInv(u)'
<1>1. FoundInv(u) /\ ToldJobInv(u) /\ ToldFileInv(u) /\ AnsweredRight(u)
  BY DEF UserInv
<1>2. issued \subseteq issued'
  BY IssuedStep
<1>3. could'[u] = IF Asking(u) THEN could[u] \union RightAnswer(u, wanted[u])' ELSE could[u]
  BY DEF Record, Asking
<1>4. ASSUME NEW f \in issued PROVE Readable(u, f)' => Readable(u, f)
  BY FileStays DEF Readable
<1>5. ASSUME NEW f \in FileIds, NEW s \in JobStatus, HasReached(f, s) PROVE f \in issued
  BY <1>5, JobOfFile DEF HasReached
<1>6. ASSUME NEW f \in FileIds, NEW s \in JobStatus, HasReached(f, s)
      PROVE  \E j \in jobs' : j.file_id = f /\ NotBefore(JobRank, s, j.status)
  <2>1. HasReached(f, s)'
    BY <1>6, ReachedStays
  <2> QED
    BY <2>1 DEF HasReached, NotBefore, JobRank
<1>7. FoundInv(u)'
  <2>1. (Asking(u) => RightAnswer(u, wanted[u]) \subseteq could[u])'
    BY <1>3 DEF Asking
  <2>2. ASSUME step[u] = "file"
        PROVE  /\ found[u] \in Job
               /\ found[u].file_id = wanted[u]
               /\ HasReached(wanted[u], found[u].status)'
               /\ Readable(u, wanted[u])' => found[u].status \in could'[u]
               /\ toldJob[u][wanted[u]] \in JobStatus =>
                     NotBefore(JobRank, toldJob[u][wanted[u]], found[u].status)
    <3>1. /\ wanted[u] \in FileIds
          /\ found[u] \in Job /\ found[u].file_id = wanted[u]
          /\ HasReached(wanted[u], found[u].status)
          /\ Readable(u, wanted[u]) => found[u].status \in could[u]
          /\ toldJob[u][wanted[u]] \in JobStatus =>
                NotBefore(JobRank, toldJob[u][wanted[u]], found[u].status)
      BY <1>1, <2>2 DEF FoundInv
    <3>2. found[u].status \in JobStatus
      BY <3>1 DEF Job
    <3>3. HasReached(wanted[u], found[u].status)'
      BY <1>6, <3>1, <3>2 DEF HasReached, NotBefore
    <3>4. Readable(u, wanted[u])' => Readable(u, wanted[u])
      BY <1>4, <1>5, <3>1, <3>2 DEF Readable, Stored
    <3> QED
      BY <1>3, <3>1, <3>3, <3>4
  <2> QED
    BY <1>1, <2>1, <2>2 DEF FoundInv
<1>8. ToldJobInv(u)'
  <2> SUFFICES ASSUME NEW f \in FileIds
               PROVE  /\ toldJob[u][f] \in JobStatus =>
                            /\ Stored(f)' => files'[f].owner_id = u
                            /\ HasReached(f, toldJob[u][f])'
                      /\ toldJob[u][f] = "gone" => f \in issued' /\ ~ Readable(u, f)'
    BY DEF ToldJobInv, HasReached, Readable, Stored
  <2>1. CASE toldJob[u][f] \in JobStatus
    <3>1. (Stored(f) => files[f].owner_id = u) /\ HasReached(f, toldJob[u][f])
      BY <1>1, <2>1 DEF ToldJobInv
    <3>2. f \in issued
      BY <1>5, <2>1, <3>1
    <3>3. HasReached(f, toldJob[u][f])'
      BY <1>6, <2>1, <3>1 DEF HasReached, NotBefore
    <3> QED
      BY <2>1, <3>1, <3>2, <3>3, FileStays DEF JobStatus
  <2>2. CASE toldJob[u][f] = "gone"
    BY <1>1, <1>2, <1>4, <2>2 DEF ToldJobInv, JobStatus
  <2> QED
    BY <2>1, <2>2
<1>9. ToldFileInv(u)'
  <2> SUFFICES ASSUME NEW f \in FileIds
               PROVE  /\ toldFile[u][f] \in FileStatus =>
                            /\ f \in issued'
                            /\ Stored(f)' =>
                                  /\ files'[f].owner_id = u
                                  /\ NotBefore(FileRank, toldFile[u][f], files'[f].status)
                      /\ toldFile[u][f] = "gone" => f \in issued' /\ ~ Readable(u, f)'
    BY DEF ToldFileInv, Readable, Stored, NotBefore, FileRank
  <2>1. CASE toldFile[u][f] \in FileStatus
    <3>1. /\ f \in issued
          /\ Stored(f) => /\ files[f].owner_id = u
                          /\ NotBefore(FileRank, toldFile[u][f], files[f].status)
      BY <1>1, <2>1 DEF ToldFileInv
    <3> QED
      BY <1>2, <2>1, <3>1, FileStays, FileRankTransitive DEF FileStatus
  <2>2. CASE toldFile[u][f] = "gone"
    BY <1>1, <1>2, <1>4, <2>2 DEF ToldFileInv, FileStatus
  <2> QED
    BY <2>1, <2>2
<1>10. AnsweredRight(u)'
  BY <1>1, <1>3 DEF AnsweredRight, Asking
<1> QED
  BY <1>7, <1>8, <1>9, <1>10 DEF UserInv

-----------------------------------------------------------------------------
(* A poller's own steps leave the collections as they are.                 *)

\* What the history variable becomes in such a step.
LEMMA OwnRecord ==
    ASSUME NEW u \in Pollers, Record, UNCHANGED vars
    PROVE  /\ step'[u] \in {"job", "file"} =>
                could'[u] = (IF Asking(u) THEN could[u] ELSE {}) \union RightAnswer(u, wanted'[u])
           /\ step'[u] \notin {"job", "file"} => could'[u] = could[u]
<1>1. RightAnswer(u, wanted[u])' = RightAnswer(u, wanted'[u])
  BY DEF RightAnswer, RightAnswers, Readable, Stored, vars, queueVars, requestVars, handlerVars
<1> QED
  BY <1>1 DEF Record

\* Everything but FoundInv and AnsweredRight speaks of the collections and of
\* what the user was told.
LEMMA SameCollections ==
    ASSUME UNCHANGED vars
    PROVE  /\ \A f \in FileIds : (Stored(f))' = Stored(f)
           /\ \A f \in FileIds, s \in JobStatus : (HasReached(f, s))' = HasReached(f, s)
           /\ \A u \in Pollers, f \in FileIds : (Readable(u, f))' = Readable(u, f)
           /\ files' = files /\ jobs' = jobs /\ issued' = issued
  BY DEF vars, queueVars, requestVars, handlerVars, Stored, HasReached, Readable,
         NotBefore, JobRank

LEMMA AskJobStep ==
    ASSUME IInv, LTypeOK, Record, NEW u \in Pollers, UserInv(u),
           NEW f \in FileIds, AskJob(u, f)
    PROVE  UserInv(u)'
<1>1. /\ step'[u] = "job" /\ wanted'[u] = f
      /\ UNCHANGED <<files, jobs, issued, toldJob, toldFile>>
  BY SameCollections DEF AskJob, LTypeOK
<1>2. could'[u] = RightAnswer(u, f)
  BY <1>1, OwnRecord DEF AskJob
<1>3. RightAnswer(u, wanted[u])' = RightAnswer(u, f)
  BY <1>1 DEF RightAnswer, RightAnswers, Readable, Stored
<1>4. FoundInv(u)' /\ AnsweredRight(u)'
  BY <1>1, <1>2, <1>3 DEF FoundInv, AnsweredRight, Asking
<1>5. ToldJobInv(u)' /\ ToldFileInv(u)'
  BY <1>1 DEF UserInv, ToldJobInv, ToldFileInv, HasReached, Readable, Stored, NotBefore,
              JobRank, FileRank
<1> QED
  BY <1>4, <1>5 DEF UserInv

LEMMA LookupFailsStep ==
    ASSUME IInv, LTypeOK, Record, NEW u \in Pollers, UserInv(u), LookupFails(u)
    PROVE  UserInv(u)'
<1>1. step'[u] = "idle" /\ UNCHANGED <<files, jobs, issued, toldJob, toldFile>>
  BY SameCollections DEF LookupFails, LTypeOK
<1>2. FoundInv(u)' /\ AnsweredRight(u)'
  BY <1>1 DEF FoundInv, AnsweredRight, Asking
<1>3. ToldJobInv(u)' /\ ToldFileInv(u)'
  BY <1>1 DEF UserInv, ToldJobInv, ToldFileInv, HasReached, Readable, Stored, NotBefore,
              JobRank, FileRank
<1> QED
  BY <1>2, <1>3 DEF UserInv

\* What GET /files/{id} and GET /files tell.
LEMMA ViewStep ==
    ASSUME IInv, LTypeOK, Record, NEW u \in Pollers, UserInv(u),
           ~ Asking(u), UNCHANGED <<vars, step, wanted, found, toldJob>>,
           \A f \in FileIds : \/ toldFile'[u][f] = toldFile[u][f]
                            \/ toldFile'[u][f] = Answered(toldFile[u][f], ViewOf(u, f))
    PROVE  UserInv(u)'
<1>1. UNCHANGED <<files, jobs, issued>>
  BY SameCollections
<1>2. could'[u] = could[u]
  BY OwnRecord DEF Asking
<1>3. FoundInv(u)' /\ AnsweredRight(u)' /\ ToldJobInv(u)'
  BY <1>1, <1>2 DEF UserInv, FoundInv, AnsweredRight, ToldJobInv, Asking, RightAnswer,
     RightAnswers, HasReached, Readable, Stored, NotBefore, JobRank
<1>4. ToldFileInv(u)'
  <2> SUFFICES ASSUME NEW f \in FileIds
               PROVE  /\ toldFile'[u][f] \in FileStatus =>
                            /\ f \in issued
                            /\ Stored(f) =>
                                  /\ files[f].owner_id = u
                                  /\ NotBefore(FileRank, toldFile'[u][f], files[f].status)
                      /\ toldFile'[u][f] = "gone" => f \in issued /\ ~ Readable(u, f)
    BY <1>1 DEF ToldFileInv, Readable, Stored, NotBefore, FileRank
  <2>1. /\ toldFile[u][f] \in FileStatus =>
              /\ f \in issued
              /\ Stored(f) => /\ files[f].owner_id = u
                              /\ NotBefore(FileRank, toldFile[u][f], files[f].status)
        /\ toldFile[u][f] = "gone" => f \in issued /\ ~ Readable(u, f)
    BY DEF UserInv, ToldFileInv
  <2>2. CASE toldFile'[u][f] = toldFile[u][f]
    BY <2>1, <2>2
  <2>3. CASE Readable(u, f) /\ toldFile'[u][f] = Answered(toldFile[u][f], ViewOf(u, f))
    <3>1. files[f].owner_id = u /\ f \in issued /\ files[f].status \in FileStatus
      BY <2>3 DEF Readable, Stored, IInv, TypeOK, FilesInv, FileMetadata
    <3>2. toldFile'[u][f] = files[f].status
      BY <2>3, <3>1 DEF Answered, ViewOf, FileStatus
    <3> QED
      BY <3>1, <3>2 DEF NotBefore, FileStatus
  <2>4. CASE ~ Readable(u, f) /\ toldFile'[u][f] = Answered(toldFile[u][f], ViewOf(u, f))
    <3>1. toldFile'[u][f] = Answered(toldFile[u][f], "not_found")
      BY <2>4 DEF ViewOf
    <3>2. toldFile[u][f] \in FileStatus \union Unknown \union {"gone"}
      BY DEF LTypeOK
    <3>3. toldFile'[u][f] \in {"not_found", "gone"}
      BY <3>1, <3>2 DEF Answered, Unknown
    <3>4. toldFile'[u][f] = "gone" => f \in issued
      BY <2>1, <3>1, <3>2 DEF Answered
    <3> QED
      BY <2>4, <3>3, <3>4 DEF FileStatus
  <2> QED
    BY <2>2, <2>3, <2>4
<1> QED
  BY <1>3, <1>4 DEF UserInv

-----------------------------------------------------------------------------
(* The two reads of get_job.                                               *)

\* The first read finds the job: it is kept for the second.
LEMMA JobFoundStep ==
    ASSUME IInv, LTypeOK, Record, NEW u \in Pollers, UserInv(u), UNCHANGED vars,
           step[u] = "job", step'[u] = "file", UNCHANGED <<wanted, toldJob, toldFile>>,
           NEW j \in jobs, j.id = SecurityScanJobId(wanted[u]), found'[u] = j
    PROVE  UserInv(u)'
<1>1. wanted[u] \in FileIds /\ RightAnswer(u, wanted[u]) \subseteq could[u]
  BY DEF UserInv, FoundInv, Asking
<1>2. j \in Job /\ j.status \in JobStatus /\ j.file_id = wanted[u]
  BY <1>1, JobOfFile DEF IInv, TypeOK, Job
<1>3. could'[u] = could[u] \union RightAnswer(u, wanted[u])
  BY OwnRecord DEF Asking
<1>4. HasReached(wanted[u], j.status)
  BY <1>2 DEF HasReached, NotBefore
<1>5. Readable(u, wanted[u]) => j.status \in could[u]
  BY <1>1, <1>2 DEF RightAnswer, RightAnswers
<1>6. ASSUME toldJob[u][wanted[u]] \in JobStatus
      PROVE  NotBefore(JobRank, toldJob[u][wanted[u]], j.status)
  <2>1. HasReached(wanted[u], toldJob[u][wanted[u]])
    BY <1>1, <1>6 DEF UserInv, ToldJobInv
  <2>2. PICK k \in jobs : /\ k.file_id = wanted[u]
                          /\ NotBefore(JobRank, toldJob[u][wanted[u]], k.status)
    BY <2>1 DEF HasReached
  <2>3. k = j
    BY <1>1, <2>2, JobOfFile DEF IInv, ScanInv
  <2> QED
    BY <2>2, <2>3
<1>7. FoundInv(u)'
  <2>1. RightAnswer(u, wanted[u])' = RightAnswer(u, wanted[u])
    BY SameCollections DEF RightAnswer, RightAnswers, Readable, Stored
  <2>2. Readable(u, wanted[u])' = Readable(u, wanted[u])
    BY SameCollections DEF Readable, Stored
  <2>3. HasReached(wanted[u], found[u].status)'
    BY <1>4, SameCollections DEF HasReached, NotBefore, JobRank
  <2>4. (toldJob[u][wanted[u]] \in JobStatus =>
           NotBefore(JobRank, toldJob[u][wanted[u]], found[u].status))'
    BY <1>6 DEF NotBefore, JobRank
  <2> QED
    BY <1>1, <1>2, <1>3, <1>5, <2>1, <2>2, <2>3, <2>4 DEF FoundInv, Asking
<1>8. AnsweredRight(u)' /\ ToldJobInv(u)' /\ ToldFileInv(u)'
  BY SameCollections, SMTT(30) DEF UserInv, AnsweredRight, ToldJobInv, ToldFileInv, HasReached,
     Readable, Stored, NotBefore, JobRank, FileRank
<1> QED
  BY <1>7, <1>8 DEF UserInv

\* The request is answered, right as of this moment or an earlier one.
LEMMA JobAnsweredStep ==
    ASSUME IInv, LTypeOK, Record, NEW u \in Pollers, UserInv(u), UNCHANGED vars,
           Asking(u), step'[u] = "answered", UNCHANGED <<wanted, toldFile>>,
           NEW answer \in JobStatus \union {"not_found"},
           TellJob(u, wanted[u], answer),
           answer \in could[u],
           answer = "not_found" =>
              \/ ~ Readable(u, wanted[u]) /\ wanted[u] \in issued
              \/ toldJob[u][wanted[u]] \notin JobStatus,
           answer \in JobStatus =>
              Readable(u, wanted[u]) /\ HasReached(wanted[u], answer)
    PROVE  UserInv(u)'
<1> DEFINE w == wanted[u] before == toldJob[u][w]
<1>1. w \in FileIds /\ before \in JobStatus \union Unknown \union {"gone"}
  BY DEF UserInv, FoundInv, Asking, LTypeOK
<1>2. /\ toldJob'[u][w] = Answered(before, answer)
      /\ \A f \in FileIds \ {w} : toldJob'[u][f] = toldJob[u][f]
  BY <1>1 DEF TellJob, LTypeOK
<1>3. could'[u] = could[u]
  BY OwnRecord
<1>4. /\ answer \in JobStatus => toldJob'[u][w] = answer
      /\ answer = "not_found" => toldJob'[u][w] \in {"not_found", "gone"}
      /\ toldJob'[u][w] = "gone" => answer = "not_found" /\ before \notin Unknown
  BY <1>2 DEF Answered, JobStatus
<1>5. FoundInv(u)' /\ ToldFileInv(u)'
  BY <1>1, SameCollections DEF UserInv, FoundInv, Asking, ToldFileInv, Readable, Stored,
     NotBefore, FileRank
<1>6. AnsweredRight(u)'
  BY <1>1, <1>3, <1>4 DEF AnsweredRight, JobStatus
<1>7. ToldJobInv(u)'
  <2> SUFFICES ASSUME NEW f \in FileIds
               PROVE  /\ toldJob'[u][f] \in JobStatus =>
                            /\ Stored(f) => files[f].owner_id = u
                            /\ HasReached(f, toldJob'[u][f])
                      /\ toldJob'[u][f] = "gone" => f \in issued /\ ~ Readable(u, f)
    BY SameCollections DEF ToldJobInv, HasReached, Readable, Stored, NotBefore, JobRank
  <2>1. /\ toldJob[u][f] \in JobStatus =>
              /\ Stored(f) => files[f].owner_id = u
              /\ HasReached(f, toldJob[u][f])
        /\ toldJob[u][f] = "gone" => f \in issued /\ ~ Readable(u, f)
    BY DEF UserInv, ToldJobInv
  <2>2. CASE f # w
    BY <1>2, <2>1, <2>2
  <2>3. CASE f = w /\ answer \in JobStatus
    BY <1>4, <2>3 DEF Readable, JobStatus
  <2>4. CASE f = w /\ answer = "not_found"
    BY <1>1, <1>4, <2>1, <2>4 DEF JobStatus
  <2> QED
    BY <2>2, <2>3, <2>4
<1> QED
  BY <1>5, <1>6, <1>7 DEF UserInv

LEMMA GetJobStep ==
    ASSUME IInv, LTypeOK, Record, NEW u \in Pollers, UserInv(u), GetJob(u)
    PROVE  UserInv(u)'
<1> DEFINE w == wanted[u]
<1>1. Asking(u) /\ w \in FileIds /\ RightAnswer(u, w) \subseteq could[u]
  BY DEF GetJob, Asking, UserInv, FoundInv
<1>2. \A j \in jobs : j.id = SecurityScanJobId(w) <=> j.file_id = w
  BY <1>1, JobOfFile
<1>3. ASSUME NEW j \in jobs, step[u] = "job", j.id = SecurityScanJobId(w),
             found' = [found EXCEPT ![u] = j], step' = [step EXCEPT ![u] = "file"],
             UNCHANGED <<vars, wanted, toldJob, toldFile>>
      PROVE  UserInv(u)'
  <2>1. step'[u] = "file" /\ found'[u] = j
    BY <1>3 DEF LTypeOK
  <2> QED
    BY <1>3, <2>1, JobFoundStep
<1>4. ASSUME step[u] = "job", ~ HasJob(SecurityScanJobId(w)), TellJob(u, w, "not_found"),
             step' = [step EXCEPT ![u] = "answered"], UNCHANGED <<vars, wanted, found, toldFile>>
      PROVE  UserInv(u)'
  <2>1. step'[u] = "answered"
    BY <1>4 DEF LTypeOK
  <2>2. "not_found" \in could[u]
    BY <1>1, <1>4 DEF RightAnswer, RightAnswers, HasJob
  <2>3. toldJob[u][w] \notin JobStatus
    BY <1>1, <1>2, <1>4 DEF UserInv, ToldJobInv, HasReached, HasJob
  <2> QED
    BY <1>1, <1>4, <2>1, <2>2, <2>3, JobAnsweredStep DEF JobStatus
<1>5. ASSUME step[u] = "file", step' = [step EXCEPT ![u] = "answered"],
             UNCHANGED <<vars, wanted, toldFile>>,
             TellJob(u, w, IF Readable(u, found[u].file_id) THEN found[u].status ELSE "not_found")
      PROVE  UserInv(u)'
  <2>1. step'[u] = "answered"
    BY <1>5 DEF LTypeOK
  <2>2. /\ found[u] \in Job /\ found[u].file_id = w
        /\ HasReached(w, found[u].status)
        /\ Readable(u, w) => found[u].status \in could[u]
    BY <1>5 DEF UserInv, FoundInv
  <2>3. found[u].status \in JobStatus /\ w \in issued
    BY <1>1, <2>2, JobOfFile DEF Job, HasReached
  <2>4. CASE Readable(u, w)
    <3>1. TellJob(u, w, found[u].status)
      BY <1>5, <2>2, <2>4
    <3> QED
      BY <1>1, <1>5, <2>1, <2>2, <2>3, <2>4, <3>1, JobAnsweredStep DEF JobStatus
  <2>5. CASE ~ Readable(u, w)
    <3>1. TellJob(u, w, "not_found")
      BY <1>5, <2>2, <2>5
    <3>2. RightAnswers(u, w) = {}
      BY <1>2, <2>5 DEF RightAnswers
    <3>3. "not_found" \in could[u]
      BY <1>1, <3>2 DEF RightAnswer
    <3> QED
      BY <1>1, <1>5, <2>1, <2>3, <2>5, <3>1, <3>3, JobAnsweredStep DEF JobStatus
  <2> QED
    BY <2>4, <2>5
<1> QED
  BY <1>3, <1>4, <1>5 DEF GetJob

-----------------------------------------------------------------------------
(* The invariant.                                                          *)

LEMMA LTypeStep ==
    ASSUME IInv, LTypeOK, \A u \in Pollers : FoundInv(u), LNext
    PROVE  LTypeOK'
<1>1. jobs \subseteq Job /\ jobs' \subseteq Job
  BY NextIInv, PipelineSteps DEF IInv, TypeOK
<1>2. could' \in [Pollers -> SUBSET (JobStatus \union {"not_found"})]
  <2>1. ASSUME NEW u \in Pollers
        PROVE  RightAnswer(u, wanted[u])' \subseteq JobStatus \union {"not_found"}
    BY <1>1 DEF RightAnswer, RightAnswers, Job
  <2> QED
    BY <2>1 DEF LNext, Record, LTypeOK
<1>3. ASSUME NEW u \in Pollers, Client(u) PROVE LTypeOK'
  <2>1. ASSUME NEW v \in Pollers, NEW f \in FileIds
        PROVE  Answered(toldFile[v][f], ViewOf(v, f)) \in FileStatus \union Unknown \union {"gone"}
    <3>1. ViewOf(v, f) \in FileStatus \union {"not_found"}
      BY DEF ViewOf, Readable, Stored, IInv, TypeOK, FileMetadata
    <3> QED
      BY <3>1 DEF Answered, Unknown
  <2>2. ASSUME NEW f \in FileIds, AskJob(u, f) PROVE LTypeOK'
    BY <1>2, <2>2 DEF LTypeOK, AskJob
  <2>3. ASSUME NEW f \in FileIds, GetFile(u, f) PROVE LTypeOK'
    BY <1>2, <2>1, <2>3 DEF LTypeOK, GetFile
  <2>4. ASSUME ListFiles(u) PROVE LTypeOK'
    <3>1. [f \in FileIds |-> Answered(toldFile[u][f], ViewOf(u, f))]
             \in [FileIds -> FileStatus \union Unknown \union {"gone"}]
      BY <2>1
    <3> QED
      BY <1>2, <2>4, <3>1 DEF LTypeOK, ListFiles
  <2>5. ASSUME LookupFails(u) PROVE LTypeOK'
    BY <1>2, <2>5 DEF LTypeOK, LookupFails
  <2>6. ASSUME GetJob(u) PROVE LTypeOK'
    <3>1. ASSUME NEW answer \in JobStatus \union {"not_found"}, wanted[u] \in FileIds,
                 TellJob(u, wanted[u], answer)
          PROVE  toldJob' \in [Pollers -> [FileIds -> JobStatus \union Unknown \union {"gone"}]]
      <4>1. Answered(toldJob[u][wanted[u]], answer) \in JobStatus \union Unknown \union {"gone"}
        BY DEF Answered, Unknown
      <4> QED
        BY <3>1, <4>1 DEF TellJob, LTypeOK
    <3>2. wanted[u] \in FileIds
      BY <2>6 DEF GetJob, FoundInv
    <3>3. step[u] = "file" => found[u].status \in JobStatus
      BY DEF FoundInv, Job
    <3>4. toldJob' \in [Pollers -> [FileIds -> JobStatus \union Unknown \union {"gone"}]]
      BY <2>6, <3>1, <3>2, <3>3 DEF GetJob, LTypeOK
    <3>5. UNCHANGED <<wanted, toldFile>>
      BY <2>6 DEF GetJob
    <3>6. step' \in [Pollers -> {"idle", "job", "file", "answered"}]
      BY <2>6 DEF GetJob, LTypeOK
    <3>7. found' \in [Pollers -> Job \union {NoJob}]
      BY <1>1, <2>6 DEF GetJob, LTypeOK
    <3> QED
      BY <1>2, <3>4, <3>5, <3>6, <3>7 DEF LTypeOK
  <2> QED
    BY <1>3, <2>2, <2>3, <2>4, <2>5, <2>6 DEF Client
<1>4. CASE Next /\ UNCHANGED clientVars
  BY <1>2, <1>4 DEF clientVars, LTypeOK
<1> QED
  BY <1>3, <1>4 DEF LNext

\* A poller's step touches only what is the poller's own.
LEMMA ClientLeavesOthers ==
    ASSUME LTypeOK, NEW u \in Pollers, Client(u), NEW v \in Pollers \ {u}
    PROVE  /\ step'[v] = step[v] /\ wanted'[v] = wanted[v] /\ found'[v] = found[v]
           /\ toldJob'[v] = toldJob[v] /\ toldFile'[v] = toldFile[v]
<1>1. ASSUME NEW f \in FileIds, AskJob(u, f) \/ GetFile(u, f)
      PROVE  /\ step'[v] = step[v] /\ wanted'[v] = wanted[v] /\ found'[v] = found[v]
             /\ toldJob'[v] = toldJob[v] /\ toldFile'[v] = toldFile[v]
  BY <1>1 DEF LTypeOK, AskJob, GetFile
<1>2. ASSUME LookupFails(u) \/ ListFiles(u)
      PROVE  /\ step'[v] = step[v] /\ wanted'[v] = wanted[v] /\ found'[v] = found[v]
             /\ toldJob'[v] = toldJob[v] /\ toldFile'[v] = toldFile[v]
  BY <1>2 DEF LTypeOK, LookupFails, ListFiles
<1>3. ASSUME GetJob(u)
      PROVE  /\ step'[v] = step[v] /\ wanted'[v] = wanted[v] /\ found'[v] = found[v]
             /\ toldJob'[v] = toldJob[v] /\ toldFile'[v] = toldFile[v]
  BY <1>3 DEF LTypeOK, GetJob, TellJob
<1> QED
  BY <1>1, <1>2, <1>3 DEF Client

LEMMA LNextLInv == IInv /\ LInv /\ [LNext]_lvars => LInv'
<1> SUFFICES ASSUME IInv, LInv, [LNext]_lvars PROVE LInv'
  OBVIOUS
<1>1. LTypeOK /\ [Next]_vars /\ \A u \in Pollers : UserInv(u)
  BY PipelineSteps DEF LInv
<1>2. CASE UNCHANGED lvars
  <2>1. UNCHANGED <<files, jobs, issued, step, wanted, found, toldJob, toldFile, could>>
    BY <1>2, SameCollections DEF lvars, clientVars
  <2>2. LTypeOK'
    BY <1>1, <2>1 DEF LTypeOK
  <2>3. ASSUME NEW u \in Pollers PROVE UserInv(u)'
    <3>1. FoundInv(u)'
      <4>1. RightAnswer(u, wanted[u])' = RightAnswer(u, wanted[u])
        BY <2>1 DEF RightAnswer, RightAnswers, Readable, Stored
      <4>2. Readable(u, wanted[u])' = Readable(u, wanted[u])
        BY <2>1 DEF Readable, Stored
      <4>3. HasReached(wanted[u], found[u].status)' = HasReached(wanted[u], found[u].status)
        BY <2>1 DEF HasReached, NotBefore, JobRank
      <4>4. FoundInv(u)
        BY <1>1 DEF UserInv
      <4> QED
        BY <2>1, <4>1, <4>2, <4>3, <4>4 DEF FoundInv, Asking, NotBefore, JobRank
    <3>2. ToldJobInv(u)' /\ AnsweredRight(u)'
      BY <1>1, <2>1 DEF UserInv, ToldJobInv, AnsweredRight, HasReached, Readable, Stored,
         NotBefore, JobRank
    <3>3. ToldFileInv(u)'
      BY <1>1, <2>1 DEF UserInv, ToldFileInv, Readable, Stored, NotBefore, FileRank
    <3> QED
      BY <3>1, <3>2, <3>3 DEF UserInv
  <2> QED
    BY <2>2, <2>3 DEF LInv
<1>3. CASE LNext
  <2>1. LTypeOK' /\ Record
    BY <1>1, <1>3, LTypeStep DEF LNext, UserInv
  <2>2. ASSUME NEW u \in Pollers, Next /\ UNCHANGED clientVars PROVE UserInv(u)'
    BY <1>1, <2>1, <2>2, BystanderStep DEF clientVars
  <2>3. ASSUME NEW u \in Pollers, NEW v \in Pollers, Client(v) PROVE UserInv(u)'
    <3>1. CASE u # v
      BY <1>1, <2>1, <2>3, <3>1, BystanderStep, ClientLeavesOthers
    <3>2. CASE u = v
      <4>1. ASSUME NEW f \in FileIds, AskJob(u, f) PROVE UserInv(u)'
        BY <1>1, <2>1, <4>1, AskJobStep
      <4>2. ASSUME NEW f \in FileIds, GetFile(u, f) PROVE UserInv(u)'
        <5>1. \A g \in FileIds : \/ toldFile'[u][g] = toldFile[u][g]
                               \/ toldFile'[u][g] = Answered(toldFile[u][g], ViewOf(u, g))
          BY <1>1, <4>2 DEF GetFile, LTypeOK
        <5> QED
          BY <1>1, <2>1, <4>2, <5>1, ViewStep DEF GetFile
      <4>3. ASSUME ListFiles(u) PROVE UserInv(u)'
        <5>1. \A g \in FileIds :
                 toldFile'[u][g] = Answered(toldFile[u][g], ViewOf(u, g))
          BY <1>1, <4>3 DEF ListFiles, LTypeOK
        <5> QED
          BY <1>1, <2>1, <4>3, <5>1, ViewStep DEF ListFiles
      <4> QED
        BY <1>1, <2>1, <2>3, <3>2, <4>1, <4>2, <4>3, GetJobStep, LookupFailsStep DEF Client
    <3> QED
      BY <3>1, <3>2
  <2> QED
    BY <1>3, <2>1, <2>2, <2>3 DEF LInv, LNext
<1> QED
  BY <1>2, <1>3

\* Pollers are told of nothing but their own files and jobs, as they stand or
\* once stood.
THEOREM LookupInvariance == LSpec => []LInv
<1>1. LInit => LInv
  BY DEF LInit, Init, LInv, LTypeOK, UserInv, FoundInv, ToldJobInv, ToldFileInv,
         AnsweredRight, Asking, Unknown, JobStatus, FileStatus
<1> QED
  BY <1>1, LSpecIInv, LNextLInv, PTL DEF LSpec

\* The two reads of get_job answer as one would.
THEOREM LookupsAreAtomic == LSpec => []LookupAtomic
<1>1. LInv => LookupAtomic
  BY DEF LInv, UserInv, LookupAtomic
<1> QED
  BY <1>1, LookupInvariance, PTL

-----------------------------------------------------------------------------
(* What the answers do over time.                                          *)

\* An answer is a 404, or what the request has just read of the user's file.
LEMMA ToldStep ==
    ASSUME IInv, LInv, [LNext]_lvars, NEW u \in Pollers, NEW f \in FileIds
    PROVE  /\ \/ toldJob'[u][f] = toldJob[u][f]
              \/ toldJob'[u][f] \in {"not_found", "gone"}
              \/ /\ Readable(u, f)
                 /\ toldJob'[u][f] = found[u].status
                 /\ toldJob[u][f] \in JobStatus =>
                       NotBefore(JobRank, toldJob[u][f], found[u].status)
           /\ \/ toldFile'[u][f] = toldFile[u][f]
              \/ toldFile'[u][f] \in {"not_found", "gone"}
              \/ Readable(u, f) /\ toldFile'[u][f] = files[f].status
<1>1. LTypeOK /\ UserInv(u)
  BY DEF LInv
<1>2. toldJob[u][f] \in JobStatus \union Unknown \union {"gone"}
  BY <1>1 DEF LTypeOK
<1>3. ASSUME NEW before, NEW answer, answer # "not_found"
      PROVE  Answered(before, answer) = answer
  BY <1>3 DEF Answered
<1>4. ASSUME NEW before PROVE Answered(before, "not_found") \in {"not_found", "gone"}
  BY DEF Answered
<1>5. ASSUME NEW v \in Pollers, NEW g \in FileIds,
             AskJob(v, g) \/ GetFile(v, g) \/ LookupFails(v) \/ ListFiles(v)
      PROVE  /\ toldJob'[u][f] = toldJob[u][f]
             /\ \/ toldFile'[u][f] = toldFile[u][f]
                \/ toldFile'[u][f] = Answered(toldFile[u][f], ViewOf(u, f))
  BY <1>1, <1>5 DEF AskJob, GetFile, LookupFails, ListFiles, LTypeOK
<1>6. \/ Answered(toldFile[u][f], ViewOf(u, f)) \in {"not_found", "gone"}
      \/ Readable(u, f) /\ Answered(toldFile[u][f], ViewOf(u, f)) = files[f].status
  <2>1. CASE Readable(u, f)
    <3>1. files[f].status # "not_found"
      BY <2>1 DEF IInv, TypeOK, Readable, Stored, FileMetadata, FileStatus
    <3> QED
      BY <1>3, <2>1, <3>1 DEF ViewOf
  <2>2. CASE ~ Readable(u, f)
    BY <1>4, <2>2 DEF ViewOf
  <2> QED
    BY <2>1, <2>2
<1>7. ASSUME GetJob(u)
      PROVE  /\ toldFile' = toldFile
             /\ \/ toldJob'[u][f] = toldJob[u][f]
                \/ toldJob'[u][f] \in {"not_found", "gone"}
                \/ /\ Readable(u, f)
                   /\ toldJob'[u][f] = found[u].status
                   /\ toldJob[u][f] \in JobStatus =>
                         NotBefore(JobRank, toldJob[u][f], found[u].status)
  <2>1. wanted[u] \in FileIds
    BY <1>1, <1>7 DEF GetJob, UserInv, FoundInv
  <2>2. ASSUME NEW answer, TellJob(u, wanted[u], answer)
        PROVE  toldJob'[u][f] = IF f = wanted[u] THEN Answered(toldJob[u][f], answer)
                                ELSE toldJob[u][f]
    BY <1>1, <2>1, <2>2 DEF TellJob, LTypeOK
  <2>3. ASSUME step[u] = "file"
        PROVE  /\ found[u].file_id = wanted[u]
               /\ found[u].status # "not_found"
               /\ toldJob[u][wanted[u]] \in JobStatus =>
                     NotBefore(JobRank, toldJob[u][wanted[u]], found[u].status)
    BY <1>1, <2>3 DEF UserInv, FoundInv, Job, JobStatus
  <2>4. CASE UNCHANGED toldJob
    BY <1>7, <2>4 DEF GetJob
  <2>5. CASE TellJob(u, wanted[u], "not_found")
    BY <1>4, <1>7, <2>2, <2>5 DEF GetJob
  <2>6. CASE /\ step[u] = "file"
             /\ Readable(u, found[u].file_id)
             /\ TellJob(u, wanted[u], found[u].status)
    BY <1>3, <1>7, <2>2, <2>3, <2>6 DEF GetJob
  <2> QED
    BY <1>7, <2>4, <2>5, <2>6 DEF GetJob
<1>8. ASSUME NEW v \in Pollers, v # u, Client(v)
      PROVE  toldJob'[u] = toldJob[u] /\ toldFile'[u] = toldFile[u]
  BY <1>1, <1>8, ClientLeavesOthers
<1> QED
  BY <1>5, <1>6, <1>7, <1>8 DEF LNext, Client, lvars, clientVars

\* What a user is shown never goes back.
THEOREM PollingAdvancesHolds == LSpec => PollingAdvances
<1>1. ASSUME IInv, LInv, [LNext]_lvars, NEW u \in Pollers, NEW f \in FileIds
      PROVE  /\ toldJob[u][f] \in JobStatus /\ toldJob'[u][f] \in JobStatus =>
                   NotBefore(JobRank, toldJob[u][f], toldJob'[u][f])
             /\ toldFile[u][f] \in FileStatus /\ toldFile'[u][f] \in FileStatus =>
                   NotBefore(FileRank, toldFile[u][f], toldFile'[u][f])
             /\ toldJob[u][f] \in JobStatus /\ toldFile'[u][f] = "PENDING_UPLOAD" =>
                   toldFile[u][f] = "PENDING_UPLOAD"
  <2>1. ToldJobInv(u) /\ ToldFileInv(u)
    BY <1>1 DEF LInv, UserInv
  <2>2. ASSUME toldJob[u][f] \in JobStatus, toldJob'[u][f] \in JobStatus
        PROVE  NotBefore(JobRank, toldJob[u][f], toldJob'[u][f])
    BY <1>1, <2>2, ToldStep DEF NotBefore, JobStatus
  <2>3. ASSUME toldFile[u][f] \in FileStatus, toldFile'[u][f] \in FileStatus
        PROVE  NotBefore(FileRank, toldFile[u][f], toldFile'[u][f])
    BY <1>1, <2>1, <2>3, ToldStep DEF ToldFileInv, Readable, NotBefore, FileStatus
  <2>4. ASSUME toldJob[u][f] \in JobStatus, toldFile'[u][f] = "PENDING_UPLOAD",
               toldFile[u][f] # "PENDING_UPLOAD"
        PROVE  FALSE
    <3>1. Readable(u, f) /\ files[f].status = "PENDING_UPLOAD"
      BY <1>1, <2>4, ToldStep
    <3>2. f \in confirmed
      BY <1>1, <2>1, <2>4, JobOfFile DEF ToldJobInv, HasReached
    <3> QED
      BY <1>1, <3>1, <3>2 DEF IInv, FilesInv, Readable, Stored
  <2> QED
    BY <2>2, <2>3, <2>4
<1>2. IInv /\ LInv /\ [LNext]_lvars =>
        [\A u \in Pollers, f \in FileIds :
          /\ toldJob[u][f] \in JobStatus /\ toldJob'[u][f] \in JobStatus =>
                NotBefore(JobRank, toldJob[u][f], toldJob'[u][f])
          /\ toldFile[u][f] \in FileStatus /\ toldFile'[u][f] \in FileStatus =>
                NotBefore(FileRank, toldFile[u][f], toldFile'[u][f])
          /\ toldJob[u][f] \in JobStatus /\ toldFile'[u][f] = "PENDING_UPLOAD" =>
                toldFile[u][f] = "PENDING_UPLOAD"
        ]_lvars
  BY <1>1
<1> QED
  BY <1>2, LSpecIInv, LookupInvariance, PTL DEF LSpec, PollingAdvances

\* What a user is told is gone is not shown again.
THEOREM GoneForGoodHolds == LSpec => GoneForGood
<1>1. ASSUME IInv, LInv, [LNext]_lvars, NEW u \in Pollers, NEW f \in FileIds,
             "gone" \in {toldJob[u][f], toldFile[u][f]}
      PROVE  /\ toldJob'[u][f] \in {toldJob[u][f], "not_found", "gone"}
             /\ toldFile'[u][f] \in {toldFile[u][f], "not_found", "gone"}
  <2>1. ~ Readable(u, f)
    BY <1>1 DEF LInv, UserInv, ToldJobInv, ToldFileInv
  <2> QED
    BY <1>1, <2>1, ToldStep
<1>2. IInv /\ LInv /\ [LNext]_lvars =>
        [\A u \in Pollers, f \in FileIds :
          "gone" \in {toldJob[u][f], toldFile[u][f]} =>
              /\ toldJob'[u][f] \in {toldJob[u][f], "not_found", "gone"}
              /\ toldFile'[u][f] \in {toldFile[u][f], "not_found", "gone"}
        ]_lvars
  BY <1>1
<1> QED
  BY <1>2, LSpecIInv, LookupInvariance, PTL DEF LSpec, GoneForGood
=============================================================================
