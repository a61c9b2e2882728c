\* One file, two owners, three threads: every race of events, deletions and the
\* worker.  The system stops when every thread is idle.
CONSTANTS
    t1 = t1  t2 = t2  t3 = t3
    f1 = f1  a1 = a1  a2 = a2
    u1 = u1  u2 = u2  e1 = e1  e2 = e2
    Threads = {t1, t2, t3}
    FileIds = {f1}
    AccountIds = {}
    Owners = {u1, u2}
    Emails = {}
    Operations <- OneFileOperations
    MaxAttempts = 2
    NoFile = NoFile  NoJob = NoJob  NoAccount = NoAccount  NoOperation = NoOperation
SPECIFICATION Spec
INVARIANTS AnswersHold OneDeletion
PROPERTIES WorkKept CallsShorten
CHECK_DEADLOCK FALSE
