\* One upload, whose event is delivered again after the queue has forgotten the name
\* of its task.
CONSTANTS
    quarantine = quarantine
    trusted = trusted
    alice = alice
    bob = bob
    f1 = f1
    f2 = f2
    uploads = uploads
    Empty = Empty
    Segment <- MCSegment
    QuarantinePrefix <- MCPrefix
    Users = {alice}
    FileIds = {f1}
    Messages = {m1}
    Handlers = {h1}
    Buckets = {uploads}
    GcsBucketName = uploads
    Unset = Unset
    ForeignEvents = {}
    NoFile = NoFile
    NoEvent = NoEvent
    NoMessage = NoMessage
SPECIFICATION Spec
PROPERTIES
    TasksCreatedOnce
CHECK_DEADLOCK FALSE
