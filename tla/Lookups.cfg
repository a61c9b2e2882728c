CONSTANTS
    quarantine = quarantine
    alice = alice
    bob = bob
    f1 = f1
    uploads = uploads
    Empty = Empty
    Segment <- MCSegment
    QuarantinePrefix <- MCPrefix
    Users = {alice, bob}
    Pollers = {bob}
    FileIds = {f1}
    Messages = {m1}
    Handlers = {h1, h2}
    Buckets = {uploads}
    GcsBucketName = uploads
    Unset = Unset
    ForeignEvents = {}
    NoFile = NoFile
    NoEvent = NoEvent
    NoMessage = NoMessage
    NoJob = NoJob
SPECIFICATION LSpec
INVARIANTS
    LookupAtomic
    LInv
PROPERTIES
    PollingAdvances
    GoneForGood
SYMMETRY Symmetry
CHECK_DEADLOCK FALSE
