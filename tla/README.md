# Verification of the Secure File Processing API

TLA+ models of the API service, TLC configurations that check them on small
instances, and TLAPS proofs for every instance. All paths are relative to the
repository; `files/service.py:116` stands for `app/files/service.py`, line 116.

## 1. The system

The service is a set of FastAPI processes. All endpoints that change state are
synchronous functions, so a request runs on a thread of a pool, many at a time,
in one of several processes. State lives in Firestore, in Cloud Storage, in a
Cloud Tasks queue, and (refresh sessions) in the memory of one process.

| component | state | operations | meets |
|---|---|---|---|
| Object names (`files/service.py:83-90, 131-144`) | the prefix setting | build a key, recognise a key | upload request, event endpoint |
| Upload request (`files/service.py:42-101`, `storage/gcs.py`) | `files` documents, signed URLs | check the name and type, store the pending document, then sign the URL | files collection, Cloud Storage |
| Files collection (`files/repository.py`) | one document per file | create, list, get, delete, mark_uploaded | Firestore |
| Storage event endpoint (`api/routes/events.py`) | none of its own | check the event, mark_uploaded, dispatch, answer | Eventarc, which delivers at least once |
| Job dispatch (`jobs/service.py`, `jobs/repository.py`) | one document per job | create_if_absent, then enqueue; get_job | Firestore, the queue |
| Task queue (`queue/cloud_tasks.py`) | named tasks, and names not yet forgotten | create a task; a name still known is a success | the worker |
| Job and file lookup (`jobs/service.py:50-57`, `files/service.py:103-110`) | none | read the job, then its file; read or list files | files, jobs |
| Worker (another repository) | - | moves the statuses of files and jobs | files, jobs |
| Sessions (`auth/service.py`, `auth/repository.py:69-97`) | sessions in process memory, JWTs with clients | login, refresh, logout | accounts, the clock |
| Accounts (`auth/repository.py:42-66, 100-170`) | one document per account | register, read | Firestore |
| Access tokens, roles (`auth/service.py:113-201`, `auth/dependencies.py`) | JWTs with clients | mint a pair, decode, read the account, check the role | accounts, the clocks of the instances |
| Request strings (`auth/schemas.py`, `files/service.py:71-81, 151-160`) | none | normalise, accept or refuse | accounts, upload request |
| Settings, wiring (`config/settings.py`, `main.py`) | the objects of a process | `create_app`: which store is behind which service | all |

What is hard here:

- **Three calls, no transaction around them.** `storage_event` marks the file,
  stores the job and creates the task one after the other. A crash between any
  two must be repaired by a redelivery, which finds the earlier effects in place.
- **At-least-once delivery.** An event may arrive again, late, out of order, and
  on two threads at a time; the answer that would stop the redelivery can be lost.
- **Races with the owner and the worker.** A file can be deleted at any moment;
  the worker moves statuses while late redeliveries still arrive.
- **Refresh in four reads and writes.** Session, account, revocation and new
  session are separate calls; other requests with the same token, a logout, a
  deactivation, the clock and a restart come between them.
- **Sessions of one process, tokens of all.** A token is valid in every process,
  its session exists in one, until that process restarts.
- **Reads outside transactions.** `get_job` reads a job and then its file; the
  file may be deleted, and the job appear or move on, in between.
- **Two clocks and two resolutions.** A token's claims are whole seconds of the
  clock of one instance and are judged by the clock of another.
- **One setting, five stores.** The backend of files, jobs, accounts and tasks is
  a setting; that of sessions is not, and one repository is shared by two services.
- **Read, then write.** Inside one repository operation the Firestore backend reads,
  decides and writes later. Two registrations, a deletion and a confirmation, or
  the worker and a late delivery meet between the read and the commit, and an
  aborted transaction runs again. The users collection has no unique constraint.

## 2. The modules

| module | content |
|---|---|
| `StorageKeys` | object names as sequences of segments: `StorageKey`, `IsQuarantineKey`, `FileIdOf` |
| `StorageKeyStrings`, `MCStorageKeys` | the same code on characters (`strip`, `split`, `removeprefix`), compared with `StorageKeys` |
| `RequestStrings` | addresses, file names and MIME types of requests, on characters; checked in the same instance |
| `StorageKeysProofs` | theorems about `StorageKeys` |
| `RequestStringsProofs` | theorems about `StorageKeyStrings` and `RequestStrings`, for strings of every length |
| `ScanPromise` | abstract: a file is accepted, confirmed, possibly withdrawn, and scanned under one task name |
| `ScanPipeline` | upload request, deletion, event endpoint, dispatch, queue, and the worker and Cloud Storage as environment |
| `MCScanPipeline` | its instances |
| `ScanPipelineProofs` | its theorems |
| `Lookups`, `MCLookups`, `LookupsProofs` | the lookups of clients, composed with the whole of `ScanPipeline`; instance; theorems |
| `RotationPromise` | abstract: a login is a chain of sessions with at most one usable end |
| `AuthSessions` | login, refresh, logout on threads of processes |
| `MCAuthSessions` | its instances |
| `AuthSessionsProofs` | its theorems |
| `AccessTokens`, `MCAccessTokens`, `AccessTokensProofs` | access tokens and roles; instance; theorems |
| `Wiring`, `MCWiring`, `WiringProofs` | what `create_app` puts behind the services of each process; instance; theorems |
| `AtomicRepositories` | abstract: the repositories of files, jobs and accounts, each operation at one instant, as the in-memory backends have them |
| `FirestoreTransactions` | the Firestore backends: read, commit, abort and retry inside each operation |
| `MCFirestoreTransactions` | its instances |
| `FirestoreTransactionsProofs` | its theorems |

`ScanPipeline` extends `StorageKeys` and instantiates `ScanPromise`; `Lookups`
extends `ScanPipeline`: each of its steps is one of the pipeline or one of a
client. `AuthSessions` instantiates `RotationPromise`. The pipeline and the
sessions share nothing but the account id, so they are not composed. `FirestoreTransactions`
instantiates `AtomicRepositories`: it justifies the single steps that stand for a
repository call in `ScanPipeline`.

Definitions under the comments "Fault" and "faulty variant" are not part of the
specifications. Each is a plausible bug, put next to the definition it would
replace, to confirm that the properties can fail: `PROJECT.json` lists which one
breaks which property.

### ScanPipeline and the code

| TLA+ | code |
|---|---|
| `files`, `jobs`, `tasks` | the two collections and every task ever created |
| `remembered` | the names that `create_task` still answers with AlreadyExists |
| `issued` | ids that `new_file_id` returned (`files/service.py:83`); each is returned once |
| `signing`, `urls` | an upload-url request between its two calls; URLs with clients |
| `event`, `acked` | published storage events; those some delivery answered 2xx |
| `pc[h]`, `delivery[h]` | the thread of one delivery in `storage_event` |
| `CreatePendingUpload`, `SignUploadUrl`, `SigningFails` | `create_upload_url` (`files/service.py:42-61`) |
| `DeleteFile` | `delete_for_owner` |
| `Receive`, `Refuse` | the checks (`files/service.py:124-142`) and the 400 (`events.py:48-52`) |
| `MarkUploaded` | `mark_uploaded`, one transaction |
| `CreateIfAbsent`, `Enqueue` | `dispatch_security_scan` (`jobs/service.py:43, 47`) |
| `Reply`, `Abandon` | 204 reaches the sender; anything else ends the delivery |
| `Upload`, `PublishForeign`, `WorkerMovesFile`, `WorkerMovesJob`, `ForgetName` | outside the repository |

One repository call is one step. The in-memory repositories hold a lock for
the length of a call, the Firestore ones run a transaction. A call that takes effect and
whose answer is lost is the step followed by `Abandon`; one that fails is
`Abandon` alone. The events that no upload caused (`ForeignEvents`) cover
another event type, a key of another owner, and the trusted prefix.

The worker moves a file only once a task exists for it, and only along the
transitions that `SPEC.md` lists. Nothing else about it is assumed. The URL of
an upload never expires in the model, which allows more behaviours than the code.

Cloud Tasks forgets a name some time after the task has left the queue, and
`ForgetName` lets that happen at any moment. `tasks` holds the tasks ever created
under their names, so creating one a second time does not change it; what shows the
second creation is that the name enters `remembered` again. "One scan" in
`ScanPromise` means one task *name*. That no task is created a second time once the
worker has taken the file up is `SettledStays`. While the file is still UPLOADED a
repeated delivery creates the task again when the name has been forgotten: the code
retries the enqueueing on purpose (`jobs/service.py:45-46`), and only AlreadyExists
stops it (`queue/cloud_tasks.py:70`). The repository's own README says that a
redelivery cannot create duplicate tasks (lines 60-61), and the run `redelivery`
shows that it can: **finding**, section 3.

### Lookups and the code

| TLA+ | code |
|---|---|
| `AskJob`, `GetJob` | `GET /jobs/{id}`: the read of the job, the read of its file, the answer (`jobs/service.py:50-57`, `routes/jobs.py:22-30`) |
| `GetFile`, `ListFiles` | `GET /files/{id}` and `GET /files`: one read each |
| `LookupFails` | a read raises or the answer is lost |
| `found` | the local variable `job` of `get_job` |
| `toldJob`, `toldFile` | the last answer a client has; "gone" is a 404 after an answer with the thing |
| `could` | history: the answers that a lookup of no duration would have given since the request began |

`LookupAtomic` is the linearizability of `get_job`. It holds because the job is
read first: jobs are never removed, so only the file's absence can be news.

### RequestStrings and the code

`NormalizeEmail`, `DeclaredMimeType`, `OriginalFilename` are the functions of
`auth/schemas.py:20-25` and `files/service.py:71-81`; `<<>>` stands for the 422.
`RequestEmail`, `RequestMimeType`, `RequestFilename` put the schemas' limits before
them (`auth/schemas.py:31, 43`, `files/schemas.py:16-17`): 254 and 255 characters of
the text *as it was sent*, so at the limit blanks around a text do decide, and
`SpellingDoesNotMatter` speaks of the blanks for which the limit leaves room. The
limits and the 63 characters of a label are constants.
`Suffix` is that of Python 3.12, the version of `docker/Dockerfile`. `Split` is
given by the set of positions where it cuts and `StripAll` by the first and the last
character it keeps, so neither needs a recursion. `lower()` is a map of letters:
`TextAssumption` says that a lower-case letter stays one and that no letter is a
blank, a control character or a separator. The few letters that `lower()` turns
into two characters, or lowers by their context, are left out.

### AuthSessions and the code

| TLA+ | code |
|---|---|
| `store[i]` | `_sessions` of process i (`auth/repository.py:73`), a new one per process (`main.py:118`) |
| `active`, `now` | `is_active` of each account, the clock in units that divide the lifetime |
| `tokens` | refresh tokens that reached clients; a client may present any of them, to any process, any number of times |
| `step`, `user`, `token` | the position and the local variables of a request |
| `lineage` | history: the login and the predecessor of each session. No step depends on it but the choice of a fresh id |
| `Login` | `auth/service.py:66-74` up to the issue |
| `BeginRefresh`, `GetSession`, `CheckUser`, `RevokeForRefresh` | `refresh`, call by call |
| `IssueTokenPair`, `Reply` | `_issue_token_pair`, the answer |
| `BeginLogout`, `LogoutGet`, `LogoutRevoke` | `logout` |
| `Fail`, `Restart` | a call raises or the answer is lost; a process is replaced |

`revoked_at` is kept as a Boolean. The lock makes each repository call atomic.
The access token of a pair is left out here and is `AccessTokens`' subject.

### AccessTokens and the code

| TLA+ | code |
|---|---|
| `account` | the role and `is_active` of each stored account |
| `tokens` | every token minted; `iat` and `exp` as PyJWT writes them, `minted` and `due` as history |
| `Clock(i)` | `_now()` on instance i: true time plus its skew |
| `Issue` | `_issue_token_pair` (`auth/service.py:142-173`) |
| `Begin` | `get_current_user` up to `decode_token` (`auth/service.py:120-140`) |
| `ReadUser` | `get_user_by_id` and the checks of `authenticate_access_token` and `require_roles` |
| `seen`, `began` | history: the account while the request ran, the time of the decoding |
| `Edit`, `Tick` | an operator, time |

PyJWT writes a datetime as its whole seconds and refuses an `iat` after its own
clock and an `exp` not after it. Signature, issuer and audience are those of the
one service, so a token in the model is one that was minted. No endpoint uses
`require_roles` yet; a request draws the roles it admits, both of them for the
endpoints there are.

### Wiring and the code

| TLA+ | code |
|---|---|
| `Create` | `create_auth_repository`, `create_file_repository`, `create_job_repository`, `create_job_queue` |
| `Slots`, `CreateApp` | `create_app`: which object each service gets |
| `Start`, `Stop` | a process imports `app.main`; it ends |
| `holds` | what each object, or the project's Firestore and queue, contains |
| `kept` | history: what was written, and who ought to find it |
| `Register`, `Login`, `CreateUploadUrl`, `StorageEvent` | the endpoints, reduced to the stores they read and write |

Processes of both backends run side by side and are replaced by one of either.

### FirestoreTransactions and the code

| TLA+ | code |
|---|---|
| `files`, `jobs`, `accounts` | the three collections; of a document, the fields that the operations look at |
| `op[t]`, `stage[t]`, `answer[t]` | the repository call a request's thread is in, how far it is, what it returned |
| `seen[t]` | what the body of the transaction has read |
| `aborts[t]`, `MaxAttempts` | the client library's count of attempts (5 in the library, 2 in the runs) |
| `Call`, `Return`, `Dispatch` | the request around the call; `storage_event` goes on from `mark_uploaded` to `create_if_absent` |
| `Create` | `create` of a file: one conditional write, no transaction (`files/repository.py:118-122`) |
| `Read` | the transaction begins and its body runs up to the commit |
| `DeleteForOwner`, `MarkUploaded`, `CreateIfAbsent`, `CreateUser` | the commit of `delete_in_transaction`, `update_in_transaction`, `create_in_transaction` (jobs and accounts) |
| `Abort` | the commit is refused; the body runs again, or `ValueError` after the last attempt |
| `Raise` | any other failure, before the commit, or after it with the answer lost |
| `TakeUpFile`, `TakeUpJob` | the worker, outside the repository |

The body decides on `seen`, never on the store. What ties the two together is
`Stands`, the guarantee of a Firestore read-write transaction: it commits only if
its reads (a document, or the query for an address) would still give the same.
That guarantee is assumed, not modelled: how the store locks or validates is its
own matter. A key `quarantine/<owner>/<id>` of a given id is the stored key if
and only if the owners agree (`KeyInjective`, `RecognisedIsKey`), so the key of
`mark_uploaded` is modelled by its owner. Times, hashes and the other fields of
the documents are left out.

## 3. The runs

| run | instance | shows |
|---|---|---|
| `keys` | alphabet "/", "q", "x", settings up to 3 and names up to 7 characters; then an alphabet of 8, texts up to 6, limits 1 (label), 7 (address) and 5 (name, type) | the two readings of object names agree; every built key is recognised unless the prefix strips to nothing; `SpellingDoesNotMatter` |
| `one_file` | 1 file, 2 users, 3 events, 2 handlers, 3 foreign events | `AckedMeansScheduled`, `JobHasUpload`, `Lifecycle`, `JobsOnlyAdvance`, `SettledStays`, `IInv` |
| `two_files` | 2 files, 1 user, 2 events, 2 handlers, no foreign events | `TaskHasJob`, `QuietStays`, and `ScanPromise` is implemented |
| `liveness` | 1 file, 2 events, 2 handlers, no symmetry | `EventEventuallyAcked`, `PromiseServed` |
| `lookups` | 1 file, 2 users of whom one polls, 1 event, 2 handlers | `LookupAtomic`, `PollingAdvances`, `GoneForGood`, `LInv` |
| `rotation` | 1 process, 2 threads, 3 sessions, 2 lifetimes of time | `RotatedOnce`, `SpentStays`, and `RotationPromise` is implemented |
| `processes` | 2 processes, 3 threads, 2 sessions, 2 accounts | `OneUsablePerLogin`, `DeactivationHolds`, `IInv` |
| `access` | 1 account, 2 instances a tick apart, 1 request, 2 ticks to a second, access tokens of 3 seconds, 1 pair of tokens | `AccountDecides`, `TermsEnd`, `FreshTokenServed`, `IInv` |
| `wiring` | 2 processes, 3 starts, 2 ids | `WrittenIsFound`, `SessionsAreLocal`, `IInv` |
| `transactions` | 3 threads, 1 file, 2 owners, 2 attempts | `AnswersHold`, `OneDeletion`, `WorkKept`, `CallsShorten` |
| `atomic` | 2 threads, 1 file, 2 account ids, 2 addresses, 2 attempts | `EmailUnique`, `IInv`, `AtomicRepositories` is implemented, and under fairness `CallsReturn` |
| `redelivery` | 1 file, 1 event, 1 handler | a violation of `TasksCreatedOnce` |

**Finding** (run `redelivery`). `README.md:60-61` of the repository: "Pub/Sub/Eventarc
redelivery therefore cannot create duplicate logical jobs or tasks." TLC finds the
behaviour in which it does: the task is created, it leaves the queue and Cloud Tasks
forgets its name, the file is still UPLOADED because the worker has not moved it (it
failed, or the queue dropped the task after its retries), and a redelivered event
goes through `mark_uploaded` and `create_if_absent` to a second `create_task`, which
succeeds. Jobs are never duplicated, and for a file the worker has taken up, tasks
are not either (`SettledStays`, proved). As no scan is recorded on the file, a second
task may even be wanted; the sentence promises more than the code does.

Why the bounds are enough to meet the cases: two handlers are what a race needs,
and each event can be delivered any number of times, so three events give two
uploads and a foreign one at the same time. The second user exists to own the
key that does not match. Names of seven characters hold a prefix, an owner, a
file id, and one slash too many at any place. Three sessions are a login and the
two successors that two racing refreshes would create. With a lifetime of 1 and
a clock up to 2, a session expires and its successor is still good. The sets of
events, ids, session ids and `MaxTime` are the only bounds.
In `lookups` the poller is the owner or a stranger, as the user who uploads
is either; one event is enough, for it is delivered any number of times by two
handlers. In `access` one pair suffices because requests do not depend on each
other's tokens, and the clock runs past both lifetimes. In `wiring` the third
start is a restart next to another process. Texts of six characters hold the
shortest address with a blank, and a name with a two-character suffix; the limits
leave the shortest address room for two blanks and no more, and names and types
that are too long are typed.
A transaction conflict takes two threads; the third lets a deletion come between
a delivery's read and its commit while another delivery confirms the file. Two
attempts are one retry and one last attempt. The theorems hold
without them.

What a run does not cover, another does. `processes` has two session ids, so the two
successors of one token cannot both be opened there: that case is `RotatedOnce`'s in
`rotation`. `transactions` has no registrations: what a registration was answered
stays true by `IInv` in `atomic`. `DeactivationHolds` begins when no request is left that
has read the account as active before it was deactivated: such a request is still
answered, as in the code, and what the property excludes is that anything which reads
the account later, a refresh of the session it opened included, gets something.
`WrittenIsFound` asks nothing of a memory process that has stopped: what it held is
lost by design.

Deadlock is not checked: when every event, id and session of the bound has been used
and the clock is at its end, the system may stop.

**Fairness.** `FairSpec` of `FirestoreTransactions` (run `atomic`): a thread inside
a call takes its next step. Contention is unrestricted: the store may abort every
transaction, and what ends the call is the bound on the attempts.

`FairSpec` of `ScanPipeline` (run `liveness`): a thread that has started a delivery takes its next step
(weak fairness). An event that has not been acknowledged is delivered again:
strong fairness of its `Receive`, because the free threads come and go; Eventarc
retries over Pub/Sub until it gets a 2xx. Failures come to an end
(`<>[][\A h \in Handlers : ~ Fails(h)]_vars`): if every delivery failed forever
nothing could be promised. A failure is an abandonment that is not also the end to
which the delivery had come: a 400 (`Refuse`), and a 204 for an event acknowledged
before (`Reply`), change the same variables as `Abandon` does, and both may go on for all
time in a fair behaviour. So an event that is refused is delivered forever, which is
what the code does, and the run shows that it does not starve the others. Nothing is
assumed of users, of uploads or of the worker.

## 4. The proofs

TLAPS proves, for every value of the constants that meets the named
assumptions (sets of any size, any prefix, any lifetime):

- **Keys** (`StorageKeysProofs`): keys are injective in owner and file id, every
  built key is recognised and gives back its id, and every recognised name is a
  built key. The pipeline's proofs rest on these.
- **Strings** (`RequestStringsProofs`): for strings of every length, the names
  that the event endpoint recognises are exactly those that the upload request
  builds from non-empty parts (`RecognisedAreBuilt`), different uploads have
  different names (`KeysDiffer`), and the segments of `StorageKeys` are a
  faithful reading of the characters (`SegmentsAgree`), which justifies their
  use in the pipeline. `EverySpelling` is about the texts of requests, of any length
  and under any limits. Then
  `TypesKept`, `RecognitionAlwaysAgrees`, `BuiltKeyAlwaysRecognised`,
  `SpellingNeverMatters` for the behaviours of the run.
- **Pipeline** (`ScanPipelineProofs`): `Invariance`, then `TypeCorrect`,
  `NothingLost`, `TasksHaveJobs`, `JobsHaveUploads`, the action
  properties `LifecycleHolds`, `JobsOnlyAdvanceHolds`, `QuietStaysHolds`, `SettledStaysHolds`, and
  `PipelineImplementsPromise`.
- **Sessions** (`AuthSessionsProofs`): `Invariance`, then `TypeCorrect`,
  `SingleUse`, `OneUsable`, `SpentStaysHolds`, `Deactivated`, and
  `SessionsImplementPromise`.
- **Lookups** (`LookupsProofs`): `LookupInvariance` on top of the pipeline's, then
  `LookupsAreAtomic`, `PollingAdvancesHolds`, `GoneForGoodHolds`.
- **Access tokens** (`AccessTokensProofs`): `Invariance`, `AccountAlwaysDecides`,
  `TermsAlwaysEnd`, `FreshTokensServed`, for every skew and every lifetime.
- **Wiring** (`WiringProofs`): `Invariance`, `WrittenIsAlwaysFound`,
  `SessionsAreAlwaysLocal`.
- **Transactions** (`FirestoreTransactionsProofs`): `Invariance`, then
  `TypeCorrect`, `OneAccountPerEmail`, `AnswersStayTrue`, `DeletedOnce`, the
  action properties `WorkIsKept` and `RequestsShorten`, and `TransactionsAreAtomic`.

*Why the pipeline's invariant looks as it does.* `AckedMeansScheduled` is not
inductive: `Reply` needs to know what the handler has achieved (`HandlersInv`:
at "reply", a file that still matches is confirmed and has its task), which
in turn needs that a handler past "mark" works on a confirmed file, and that
`mark_uploaded` returns None only when the file does not match or the worker has
moved it on, for which a task must exist (`FilesInv`). A new document must not
match an event already acknowledged; `KeysInv` says that no event names a key of
an id not yet issued. `ConfirmedInv` carries the event that confirmed a file,
which `JobHasUpload` needs. `ScanInv` ties jobs and tasks to their derived ids.

*How the strings are proved without induction over them.* `Split` is
characterised by its cuts: an enumeration of a finite set of positions exists and
is unique (`EnumerationExists`, `EnumerationCounts`: the rank of a position is a
bijection, by the library's facts about cardinality). From that come what the
pieces are (`SplitShape`, `Consecutive`), that splitting loses nothing
(`SplitInjective`, where the least position at which two strings differ, `LeastOf`,
replaces an induction) and that the pieces of two strings joined by a separator are
the pieces of each (`SplitConcat`). `strip()` is described by its result alone:
the trimmed string with only blanks around it (`StripShape`, `StripIs`), which
the slashes around a prefix (`RootIs`) and the blanks around an address share.
Case is the relation `Alike`: two texts with the same lower case, character by
character; blanks, dots and separators stand at the same places of both, so both
are stripped, refused and cut alike.

*And the sessions'.* `RotatedOnce` and `OneUsablePerLogin` need `ChainInv`: a
login's chain has one end, which is its usable session or the session one
thread is replacing. The revocation under the lock (`auth/repository.py:91-97`)
turns the first into the second; `_issue_token_pair` turns it back with
the new session. `LineageInv` keeps chains apart, `StoreInv` keeps a session in
one process, `ThreadsInv` and `TokensInv` type what threads hold.
For the refinement and for `SpentStays` the steps are split into those that
create no session (`OtherSteps`: they only shrink the store, and start a
replacement only with a usable session) and `IssueTokenPair`.

*And the transactions'.* A commit may use what was read as if it were there now
(`FoundIs` with `Stands`), so `EmailUnique` is inductive, `WorkKept` follows from
the types alone, and each commit maps to the atomic operation; reading and retrying
map to nothing. `RequestsShorten` is the half of `CallsReturn` that needs no
fairness. `StepsLeft` counts the steps a thread has left in its request: two for
each attempt of a transaction, one for the answer, one should that answer be lost,
and for an accepted event the same again for its job, at most 4 `MaxAttempts` + 3.
No step of any thread raises it, and a step of the thread itself lowers it, unless
it is an error reported once more; `CallsInv` is
needed for it to say that the attempts of a call start from zero. What is left to
TLC is that a fair thread takes the steps.
That an answer stays true needs more: a deleted file must
not be created again, so `FreshInv` says that a creation in progress has an id
that no other call has found, which rests on ids being drawn once.

*The lookups'.* `LInv` relates what a client was told to what is stored: a
job that was shown is stored and has not gone back (`HasReached`), a file
is still the user's with a status not earlier, and what was called gone is not
readable, which needs that ids are drawn once. `FoundInv` carries a request from
its first read to its second: the status found is among the right answers as
long as the file is still readable, and when it is not, "not found" is one.

*The access tokens'.* `Sound` bounds `exp` between the intended end less a second
and the intended end, and `iat` by the skew. `RequestInv` keeps that together
with the time at which the request was decoded and the accounts it has overlapped.

*The wiring's.* `KeptInv` says where a thing written is; that a stop of one
process takes nothing from another needs that no two running applications have
the same number (`AppsInv`) and that number 0 is nobody's.

**Only model-checked:** the liveness properties (`EventEventuallyAcked`,
`PromiseServed`, `CallsReturn`), because fairness and ENABLED are beyond the prover.
`TasksCreatedOnce` does not hold. Every other property of the runs is stated by a theorem.

## 5. What is not modelled

- How Firestore keeps the promise of a transaction (locks, validation, its
  servers). `Stands` states that promise.
- The validators of the settings (`jwt_algorithm`, the development secret, the
  ranges of numbers) and the bound on the size of an upload: one comparison each,
  of one value, with no state before or after it. The lengths of passwords.
- When exactly Cloud Tasks forgets a name; the model lets it happen at any time.
- The password hash, the JWT signature, the HTTP layer, response schemas, routers,
  the health endpoint and logging.
- The memory backend for files and jobs (tests and local use) is the same atomic
  operations with a state that a restart loses. `AtomicRepositories` has the
  operations and `Wiring` the loss; the pipeline keeps Firestore's documents.

Behaviours of the code that the models contain and no property forbids, because
nothing in the repository promises otherwise: a file deleted between
`mark_uploaded` and `create_if_absent` gets a job and a task; a logout that
comes between the revocation and the issue of a refresh answers 204 and the
successor stays usable; a refresh that dies after its revocation ends the login;
a client whose registration succeeded but whose answer was lost gets 409 when it
registers again.

Of these, the models show what is left to rely on: such a job and task are never
shown to the owner who saw the 404 (`GoneForGood`); that successor is the login's
only usable session (`OneUsablePerLogin`); the retried registration makes no
second account (`EmailUnique`). A refresh token or an access token used at once on
an instance whose clock is behind is refused for its `iat`; `FreshTokenServed`
says from when on it is not.

## 6. Plan

Done: the pipeline with a forgetting queue, the names and request strings, the
sessions, the access tokens, the lookups, the wiring and the repositories'
transactions, their checks and their proofs, for strings of every length too. What would add more:

1. The halves of the other two liveness properties that need no fairness: a
   delivery and a refresh have a bounded number of steps left, whatever the
   others do.
2. The upload policy's limit on the size, if it becomes more than one comparison.
3. The worker, once its code is in this repository: today it is an environment
   held to the status moves of `SPEC.md`.
