CONSTANTS
    i1 = i1
    i2 = i2
    t1 = t1
    t2 = t2
    t3 = t3
    Users = {u1, u2}
    Instances = {i1, i2}
    Threads = {t1, t2, t3}
    InstanceOf <- TwoProcesses
    SessionIds = {s1, s2}
    Lifetime = 1
    MaxTime = 1
    NoSession = NoSession
    NoToken = NoToken
    NoUser = NoUser
SPECIFICATION Spec
INVARIANTS
    IInv
    OneUsablePerLogin
PROPERTIES
    DeactivationHolds
SYMMETRY Symmetry
CHECK_DEADLOCK FALSE
