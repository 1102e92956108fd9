\* A publication with a packet id, of which the client leaves bytes in the stream.
SPECIFICATION Spec
CONSTANTS
    Task = task
    AppThreads = {}
    NoThread = none
    RecursiveMutex = FALSE
    MaxNest = 0
    MaxTopic = 2
    MaxQos = 2
    FailureQos = 128
    PacketIdMod = 1
    PubQos = {0}
    Keepalives = {0}
    Identities = {"valid"}
    AppOps = {"init", "connect", "set_identity"}
    CallbackOps <- QuietCallbacks
    RxCap = 1
    MaxOwed = 1
    ConnackCodes = {0}
    AckCodes = {1}
    Publications <- AcknowledgedMessage
    PointerSize = 8
    Faults = {}
PROPERTIES
    NotifiesAsPromised
CHECK_DEADLOCK FALSE
