CONSTANTS
    quarantine = quarantine
    trusted = trusted
    alice = alice
    bob = bob
    f1 = f1
    f2 = f2
    uploads = uploads
    Empty = Empty
    Segment <- MCSegment
    QuarantinePrefix <- MCPrefix
    Users = {alice}
    FileIds = {f1}
    Messages = {m1, m2}
    Handlers = {h1, h2}
    Buckets = {uploads}
    GcsBucketName = uploads
    Unset = Unset
    ForeignEvents <- MCTrusted
    NoFile = NoFile
    NoEvent = NoEvent
    NoMessage = NoMessage
SPECIFICATION FairSpec
PROPERTIES
    EventEventuallyAcked
    PromiseServed
CHECK_DEADLOCK FALSE
