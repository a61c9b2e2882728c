------------------------------ MODULE Lookups ------------------------------
(***************************************************************************)
(* What the owner of a file sees of it while the pipeline is at work:      *)
(*                                                                         *)
(*   GET /jobs/{id}    AskJob, then the two reads of GetJob                *)
(*   GET /files/{id}   GetFile                                             *)
(*   GET /files        ListFiles                                           *)
(*                                                                         *)
(* Each poller sends one request at a time.  Every step of ScanPipeline may *)
(* come between two reads of one request: the endpoints read Firestore     *)
(* outside any transaction.  A step of this module is a step of the        *)
(* pipeline or one of a request, and records in the history variable       *)
(* `could` what a lookup done at that very moment would have answered.     *)
(***************************************************************************)
EXTENDS ScanPipeline

CONSTANTS
    Pollers,   \* the users who look things up (a bound)
    NoJob

VARIABLES
    step,      \* Pollers -> where the user's request stands
    wanted,    \* Pollers -> the file whose job is asked for, or NoFile
    found,     \* Pollers -> the local variable `job` of get_job, or NoJob
    toldJob,   \* Pollers -> FileIds -> the last answer about the file's job
    toldFile,  \* Pollers -> FileIds -> the last answer about the file
    could      \* history: the answers that were right since the request began

clientVars == <<step, wanted, found, toldJob, toldFile>>
lvars == <<vars, clientVars, could>>

-----------------------------------------------------------------------------
(* Answers: a status; a 404, which means "gone" to a user who has been     *)
(* shown the thing before.                                                 *)

Unknown == {"unasked", "not_found"}

JobRank ==
    [s \in JobStatus |-> CASE s = "QUEUED" -> 1 [] s = "PROCESSING" -> 2 [] OTHER -> 3]
FileRank ==
    [s \in FileStatus |-> CASE s = "PENDING_UPLOAD" -> 1 [] s = "UPLOADED" -> 2
                            [] s = "SCANNING" -> 3 [] s \in {"SAFE", "REJECTED"} -> 4
                            [] s = "PROCESSING" -> 5 [] OTHER -> 6]

ASSUME PollersAssumption == Pollers \subseteq Users
ASSUME NoJobAssumption == NoJob \notin Job

Answered(before, answer) ==
    IF answer = "not_found" /\ before \notin Unknown THEN "gone" ELSE answer

TellJob(u, f, answer) ==
    toldJob' = [toldJob EXCEPT ![u][f] = Answered(@, answer)]

ReadableByAnyone(u, f) == Stored(f)   \* faulty variant

\* get_for_owner: a missing document and another owner's look the same.
Readable(u, f) == Stored(f) /\ files[f].owner_id = u

ViewOf(u, f) == IF Readable(u, f) THEN files[f].status ELSE "not_found"

\* What get_job would answer if its two reads were one.
RightAnswers(u, f) ==
    {j.status : j \in {k \in jobs : k.id = SecurityScanJobId(f) /\ Readable(u, k.file_id)}}

RightAnswer(u, f) ==
    IF RightAnswers(u, f) = {} THEN {"not_found"} ELSE RightAnswers(u, f)

Asking(u) == step[u] \in {"job", "file"}

-----------------------------------------------------------------------------
(* GET /jobs/{job_id} *)

AskJob(u, f) ==
    /\ ~ Asking(u)
    /\ step' = [step EXCEPT ![u] = "job"]
    /\ wanted' = [wanted EXCEPT ![u] = f]
    /\ UNCHANGED <<vars, found, toldJob, toldFile>>

\* Faulty variants: the file is read before the job; the owner is compared
\* only when the file is there.
GetJobFileFirst(u) ==
    LET f == wanted[u]
    IN  \/ /\ step[u] = "job"
           /\ \/ /\ Readable(u, f)
                 /\ step' = [step EXCEPT ![u] = "file"]
                 /\ UNCHANGED toldJob
              \/ /\ ~ Readable(u, f)
                 /\ step' = [step EXCEPT ![u] = "answered"]
                 /\ TellJob(u, f, "not_found")
           /\ UNCHANGED <<vars, wanted, found, toldFile>>
        \/ /\ step[u] = "file"
           /\ IF HasJob(SecurityScanJobId(f))
              THEN \E j \in jobs : j.id = SecurityScanJobId(f) /\ TellJob(u, f, j.status)
              ELSE TellJob(u, f, "not_found")
           /\ step' = [step EXCEPT ![u] = "answered"]
           /\ UNCHANGED <<vars, wanted, found, toldFile>>

GetJobOfMissingFile(u) ==
    \/ /\ step[u] = "job"
       /\ \E j \in jobs :
             /\ j.id = SecurityScanJobId(wanted[u])
             /\ found' = [found EXCEPT ![u] = j]
       /\ step' = [step EXCEPT ![u] = "file"]
       /\ UNCHANGED <<vars, wanted, toldJob, toldFile>>
    \/ /\ step[u] = "job"
       /\ ~ HasJob(SecurityScanJobId(wanted[u]))
       /\ TellJob(u, wanted[u], "not_found")
       /\ step' = [step EXCEPT ![u] = "answered"]
       /\ UNCHANGED <<vars, wanted, found, toldFile>>
    \/ /\ step[u] = "file"
       /\ LET f == found[u].file_id
          IN  TellJob(u, wanted[u], IF Stored(f) /\ files[f].owner_id # u
                                    THEN "not_found" ELSE found[u].status)
       /\ found' = [found EXCEPT ![u] = NoJob]
       /\ step' = [step EXCEPT ![u] = "answered"]
       /\ UNCHANGED <<vars, wanted, toldFile>>

\* JobService.get_job: the job, then the file that it names.
GetJob(u) ==
    \/ /\ step[u] = "job"
       /\ \E j \in jobs :
             /\ j.id = SecurityScanJobId(wanted[u])
             /\ found' = [found EXCEPT ![u] = j]
       /\ step' = [step EXCEPT ![u] = "file"]
       /\ UNCHANGED <<vars, wanted, toldJob, toldFile>>
    \/ /\ step[u] = "job"
       /\ ~ HasJob(SecurityScanJobId(wanted[u]))
       /\ TellJob(u, wanted[u], "not_found")
       /\ step' = [step EXCEPT ![u] = "answered"]
       /\ UNCHANGED <<vars, wanted, found, toldFile>>
    \/ /\ step[u] = "file"
       /\ TellJob(u, wanted[u], IF Readable(u, found[u].file_id)
                                THEN found[u].status ELSE "not_found")
       /\ found' = [found EXCEPT ![u] = NoJob]
       /\ step' = [step EXCEPT ![u] = "answered"]
       /\ UNCHANGED <<vars, wanted, toldFile>>

\* A read fails or the answer is lost.
LookupFails(u) ==
    /\ Asking(u)
    /\ step' = [step EXCEPT ![u] = "idle"]
    /\ found' = [found EXCEPT ![u] = NoJob]
    /\ UNCHANGED <<vars, wanted, toldJob, toldFile>>

-----------------------------------------------------------------------------
(* GET /files/{file_id} and GET /files *)

GetFile(u, f) ==
    /\ ~ Asking(u)
    /\ toldFile' = [toldFile EXCEPT ![u][f] = Answered(@, ViewOf(u, f))]
    /\ UNCHANGED <<vars, step, wanted, found, toldJob>>

\* One query; a file that is not listed is as good as a 404.
ListFiles(u) ==
    /\ ~ Asking(u)
    /\ toldFile' = [toldFile EXCEPT ![u] =
                       [f \in FileIds |-> Answered(toldFile[u][f], ViewOf(u, f))]]
    /\ UNCHANGED <<vars, step, wanted, found, toldJob>>

-----------------------------------------------------------------------------
LInit ==
    /\ Init
    /\ step = [u \in Pollers |-> "idle"]
    /\ wanted = [u \in Pollers |-> NoFile]
    /\ found = [u \in Pollers |-> NoJob]
    /\ toldJob = [u \in Pollers |-> [f \in FileIds |-> "unasked"]]
    /\ toldFile = [u \in Pollers |-> [f \in FileIds |-> "unasked"]]
    /\ could = [u \in Pollers |-> {}]

Client(u) ==
    \/ \E f \in FileIds : AskJob(u, f) \/ GetFile(u, f)
    \/ GetJob(u)
    \/ LookupFails(u)
    \/ ListFiles(u)

\* The set is started when a request begins, grows in every state until it is
\* answered, and is kept until the next one.
Record ==
    could' = [u \in Pollers |->
                 IF step'[u] \in {"job", "file"}
                 THEN (IF Asking(u) THEN could[u] ELSE {}) \union RightAnswer(u, wanted[u])'
                 ELSE could[u]]

LNext ==
    /\ (Next /\ UNCHANGED clientVars) \/ \E u \in Pollers : Client(u)
    /\ Record

LSpec == LInit /\ [][LNext]_lvars

-----------------------------------------------------------------------------
(* The inductive invariant, next to that of ScanPipeline.                  *)

NotBefore(rank, s, t) == s = t \/ rank[s] < rank[t]

\* The job of file f is stored and has reached status s.
HasReached(f, s) ==
    \E j \in jobs : j.file_id = f /\ NotBefore(JobRank, s, j.status)

LTypeOK ==
    /\ step \in [Pollers -> {"idle", "job", "file", "answered"}]
    /\ wanted \in [Pollers -> FileIds \union {NoFile}]
    /\ found \in [Pollers -> Job \union {NoJob}]
    /\ toldJob \in [Pollers -> [FileIds -> JobStatus \union Unknown \union {"gone"}]]
    /\ toldFile \in [Pollers -> [FileIds -> FileStatus \union Unknown \union {"gone"}]]
    /\ could \in [Pollers -> SUBSET (JobStatus \union {"not_found"})]

\* While get_job is at work, every answer that is right now counts; the status
\* it has found is a right answer if the file is still to be found.
FoundInv(u) ==
    /\ step[u] # "idle" => wanted[u] \in FileIds
    /\ Asking(u) => RightAnswer(u, wanted[u]) \subseteq could[u]
    /\ step[u] = "file" =>
          /\ found[u] \in Job
          /\ found[u].file_id = wanted[u]
          /\ HasReached(wanted[u], found[u].status)
          /\ Readable(u, wanted[u]) => found[u].status \in could[u]
          /\ toldJob[u][wanted[u]] \in JobStatus =>
                NotBefore(JobRank, toldJob[u][wanted[u]], found[u].status)

\* What a user was told about a job was true of a file of the user's own, and
\* the job has not gone back since.
ToldJobInv(u) ==
    \A f \in FileIds :
        /\ toldJob[u][f] \in JobStatus =>
              /\ Stored(f) => files[f].owner_id = u
              /\ HasReached(f, toldJob[u][f])
        /\ toldJob[u][f] = "gone" => f \in issued /\ ~ Readable(u, f)

\* The same of a file.
ToldFileInv(u) ==
    \A f \in FileIds :
        /\ toldFile[u][f] \in FileStatus =>
              /\ f \in issued
              /\ Stored(f) => /\ files[f].owner_id = u
                              /\ NotBefore(FileRank, toldFile[u][f], files[f].status)
        /\ toldFile[u][f] = "gone" => f \in issued /\ ~ Readable(u, f)

\* The last answer to a job lookup was right at some moment of the request.
AnsweredRight(u) ==
    step[u] = "answered" =>
        LET answer == toldJob[u][wanted[u]]
        IN  (IF answer = "gone" THEN "not_found" ELSE answer) \in could[u]

UserInv(u) == FoundInv(u) /\ ToldJobInv(u) /\ ToldFileInv(u) /\ AnsweredRight(u)

-----------------------------------------------------------------------------
(* Properties *)

\* The answer to a job lookup is the one that some single moment of the request
\* would have given, although get_job reads the job and then its file and the
\* file may be deleted, or its job created, in between (jobs/service.py:50-57).
LookupAtomic == \A u \in Pollers : AnsweredRight(u)

\* A user is told of nothing but files of the user's own and jobs of theirs, each
\* as it stands or once stood, and of no file as gone that is still there.
LInv == LTypeOK /\ \A u \in Pollers : UserInv(u)

\* What a user is shown never goes back: neither a job's status nor a file's,
\* and a file whose job has been shown is not shown as pending afterwards.
PollingAdvances ==
    [][\A u \in Pollers, f \in FileIds :
          /\ toldJob[u][f] \in JobStatus /\ toldJob'[u][f] \in JobStatus =>
                NotBefore(JobRank, toldJob[u][f], toldJob'[u][f])
          /\ toldFile[u][f] \in FileStatus /\ toldFile'[u][f] \in FileStatus =>
                NotBefore(FileRank, toldFile[u][f], toldFile'[u][f])
          /\ toldJob[u][f] \in JobStatus /\ toldFile'[u][f] = "PENDING_UPLOAD" =>
                toldFile[u][f] = "PENDING_UPLOAD"
      ]_lvars

\* A user who has been told that a file, or its job, is gone is never shown
\* either of them again, whatever deliveries and dispatches are still under way.
GoneForGood ==
    [][\A u \in Pollers, f \in FileIds :
          "gone" \in {toldJob[u][f], toldFile[u][f]} =>
              /\ toldJob'[u][f] \in {toldJob[u][f], "not_found", "gone"}
              /\ toldFile'[u][f] \in {toldFile[u][f], "not_found", "gone"}
      ]_lvars

=============================================================================
