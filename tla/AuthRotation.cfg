CONSTANTS
    i1 = i1
    i2 = i2
    t1 = t1
    t2 = t2
    t3 = t3
    Users = {u1}
    Instances = {i1}
    Threads = {t1, t2}
    InstanceOf <- OneProcess
    SessionIds = {s1, s2, s3}
    Lifetime = 1
    MaxTime = 2
    NoSession = NoSession
    NoToken = NoToken
    NoUser = NoUser
SPECIFICATION Spec
INVARIANTS
    RotatedOnce
PROPERTIES
    SpentStays
    RefinesPromise
SYMMETRY Symmetry
CHECK_DEADLOCK FALSE
