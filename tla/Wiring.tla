------------------------------- MODULE Wiring -------------------------------
(***************************************************************************)
(* How create_app wires an API process together: which object keeps the    *)
(* accounts, the sessions, the files, the jobs and the tasks of a process, *)
(* and so what a process finds of what it, another process or an earlier   *)
(* run of it wrote.  The endpoints are reduced to the store that each of   *)
(* them reads and writes; the other modules have the rest of them.         *)
(***************************************************************************)
EXTENDS Naturals

CONSTANTS
    Processes,   \* where an application may run
    MaxStarts,   \* bound on the applications created
    Ids,         \* emails of accounts and ids of files
    NoApp

VARIABLES
    app,       \* Processes -> the application state, or NoApp
    starts,    \* applications created so far
    holds,     \* Store -> the ids that it holds
    kept       \* history: what was written, and who ought to find it

vars == <<app, starts, holds, kept>>

-----------------------------------------------------------------------------
Backend == {"firestore", "memory"}   \* the setting AUTH_REPOSITORY_BACKEND
Kind == {"account", "session", "file", "job", "task"}

\* The objects of the n-th application, and for n = 0 Firestore and Cloud Tasks.
Store == (0 .. MaxStarts) \X Kind

\* What create_app hands to the services; "job_file" is the file repository of
\* JobService.
Slot == Kind \union {"job_file"}
App == [number : 1 .. MaxStarts, backend : Backend, slots : [Slot -> Store]]
Kept == [kind : Kind, id : Ids, scope : 0 .. MaxStarts]

ASSUME BoundAssumption == MaxStarts \in Nat
ASSUME NullAssumption == NoApp \notin App

\* create_auth_repository, create_file_repository, create_job_repository and
\* create_job_queue: a new object in memory, or the project's service.
Create(backend, number, kind) ==
    IF backend = "memory" THEN <<number, kind>> ELSE <<0, kind>>

\* Faulty variants: JobService gets a file repository of its own, in which no
\* file is ever stored; the session repository is a default argument, evaluated
\* once for all applications.
UnsharedSlots(backend, number) ==
    [slot \in Slot |->
        CASE slot = "session" -> <<number, slot>>
          [] slot = "job_file" -> <<number, "task">>
          [] OTHER -> Create(backend, number, slot)]

OneSessionStoreSlots(backend, number) ==
    [slot \in Slot |-> Create(backend, IF slot = "session" THEN 0 ELSE number,
                              IF slot = "job_file" THEN "file" ELSE slot)]

\* create_app: sessions are in memory whatever the backend, and JobService has
\* the file repository of FileService.
Slots(backend, number) ==
    [slot \in Slot |->
        IF slot = "session" THEN <<number, slot>>
        ELSE Create(backend, number, IF slot = "job_file" THEN "file" ELSE slot)]

CreateApp(backend, number) ==
    [number |-> number, backend |-> backend, slots |-> Slots(backend, number)]

-----------------------------------------------------------------------------
Runs(p) == app[p] # NoApp

Finds(p, kind, id) == id \in holds[app[p].slots[kind]]

\* Who ought to find what process p writes: every process on Firestore, or p
\* until it stops.
Scope(p, kind) ==
    IF app[p].backend = "firestore" /\ kind # "session" THEN 0 ELSE app[p].number

Note(p, kinds, id) ==
    kept' = kept \union {[kind |-> k, id |-> id, scope |-> Scope(p, k)] : k \in kinds}

Write(p, kinds, id) ==
    /\ holds' = [s \in Store |-> IF \E k \in kinds : s = app[p].slots[k]
                                 THEN holds[s] \union {id} ELSE holds[s]]
    /\ Note(p, kinds, id)

Init ==
    /\ app = [p \in Processes |-> NoApp]
    /\ starts = 0
    /\ holds = [s \in Store |-> {}]
    /\ kept = {}

\* A process imports app.main: the settings are read once (get_settings).
Start(p, backend) ==
    /\ ~ Runs(p)
    /\ starts < MaxStarts
    /\ starts' = starts + 1
    /\ app' = [app EXCEPT ![p] = CreateApp(backend, starts')]
    /\ UNCHANGED <<holds, kept>>

\* It dies, and its memory with it.
Stop(p) ==
    /\ Runs(p)
    /\ app' = [app EXCEPT ![p] = NoApp]
    /\ holds' = [s \in Store |-> IF s[1] = app[p].number THEN {} ELSE holds[s]]
    /\ UNCHANGED <<starts, kept>>

Register(p, a) == Runs(p) /\ ~ Finds(p, "account", a) /\ Write(p, {"account"}, a)

Login(p, a) == Runs(p) /\ Finds(p, "account", a) /\ Write(p, {"session"}, a)

\* An id is used once, by whatever process.
CreateUploadUrl(p, f) ==
    /\ Runs(p)
    /\ \A k \in kept : k.kind = "file" => k.id # f
    /\ Write(p, {"file"}, f)

\* The event of an upload: a process that does not find the file answers 204
\* and does nothing.
StorageEvent(p, f) ==
    /\ Runs(p)
    /\ \/ Finds(p, "file", f) /\ Write(p, {"job", "task"}, f)
       \/ ~ Finds(p, "file", f) /\ UNCHANGED <<holds, kept>>

Request(p) ==
    /\ \E id \in Ids : Register(p, id) \/ Login(p, id) \/ CreateUploadUrl(p, id)
                       \/ StorageEvent(p, id)
    /\ UNCHANGED <<app, starts>>

Next == \E p \in Processes : (\E b \in Backend : Start(p, b)) \/ Stop(p) \/ Request(p)

Spec == Init /\ [][Next]_vars

-----------------------------------------------------------------------------
(* The inductive invariant.                                                *)

TypeOK ==
    /\ app \in [Processes -> App \union {NoApp}]
    /\ starts \in 0 .. MaxStarts
    /\ holds \in [Store -> SUBSET Ids]
    /\ kept \subseteq Kept

\* Applications are numbered in the order they are created.
AppsInv ==
    /\ \A p \in Processes :
          Runs(p) => /\ app[p].slots = Slots(app[p].backend, app[p].number)
                     /\ app[p].number <= starts
    /\ \A p, q \in Processes :
          Runs(p) /\ Runs(q) /\ app[p].number = app[q].number => p = q

\* What was written is where it was written to, as long as that lasts.
KeptInv ==
    \A k \in kept :
        /\ k.scope <= starts
        /\ k.scope = 0 => k.kind # "session" /\ k.id \in holds[<<0, k.kind>>]
        /\ \A p \in Processes :
              Runs(p) /\ k.scope = app[p].number => Finds(p, k.kind, k.id)

SessionsInv ==
    \A n \in 0 .. MaxStarts, a \in Ids :
        a \in holds[<<n, "session">>] => [kind |-> "session", id |-> a, scope |-> n] \in kept

IInv == TypeOK /\ AppsInv /\ KeptInv /\ SessionsInv

-----------------------------------------------------------------------------
(* Properties *)

\* What was written is found by every process that ought to find it, whatever
\* was started, stopped and started again: accounts, files, jobs and tasks on
\* Firestore by all of its processes, the rest by the process itself.  The file
\* of a job is found by JobService as by FileService (main.py:121-130): get_job
\* never answers 404 for the job of a file that get_file shows.
WrittenIsFound ==
    \A p \in Processes, k \in kept :
        Runs(p) /\ (k.scope = app[p].number \/ (k.scope = 0 /\ app[p].backend = "firestore")) =>
            /\ Finds(p, k.kind, k.id)
            /\ k.kind = "file" => Finds(p, "job_file", k.id)

\* A session is found by no process but the one that opened it, and by that one
\* no longer than it runs: "users must log in again after an API restart"
\* (README.md:40-41).
SessionsAreLocal ==
    \A p \in Processes, a \in Ids :
        Runs(p) /\ Finds(p, "session", a) =>
            [kind |-> "session", id |-> a, scope |-> app[p].number] \in kept

=============================================================================
