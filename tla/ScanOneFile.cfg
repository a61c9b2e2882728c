CONSTANTS
    quarantine = quarantine
    trusted = trusted
    alice = alice
    bob = bob
    f1 = f1
    f2 = f2
    uploads = uploads
    Empty = Empty
    Segment <- MCSegment
    QuarantinePrefix <- MCPrefix
    Users = {alice, bob}
    FileIds = {f1}
    Messages = {m1, m2, m3}
    Handlers = {h1, h2}
    Buckets = {uploads}
    GcsBucketName = uploads
    Unset = Unset
    ForeignEvents <- MCForeign
    NoFile = NoFile
    NoEvent = NoEvent
    NoMessage = NoMessage
SPECIFICATION Spec
INVARIANTS
    IInv
    AckedMeansScheduled
    JobHasUpload
PROPERTIES
    Lifecycle
    JobsOnlyAdvance
    SettledStays
SYMMETRY Symmetry
CHECK_DEADLOCK FALSE
