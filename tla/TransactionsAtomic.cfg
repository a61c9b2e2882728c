\* Two threads, one file and two registrations: the repositories are atomic, an
\* address has one account, and no contention keeps a call from its end.  The system
\* stops when every thread is idle.
CONSTANTS
    t1 = t1  t2 = t2  t3 = t3
    f1 = f1  a1 = a1  a2 = a2
    u1 = u1  u2 = u2  e1 = e1  e2 = e2
    Threads = {t1, t2}
    FileIds = {f1}
    AccountIds = {a1, a2}
    Owners = {u1, u2}
    Emails = {e1, e2}
    Operations <- AllOperations
    MaxAttempts = 2
    NoFile = NoFile  NoJob = NoJob  NoAccount = NoAccount  NoOperation = NoOperation
SPECIFICATION FairSpec
INVARIANTS IInv EmailUnique
PROPERTIES RefinesAtomic CallsReturn
CHECK_DEADLOCK FALSE
