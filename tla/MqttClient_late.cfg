\* A thread publishes on a reset connection while the task waits for data.
SPECIFICATION Spec
CONSTANTS
    Task = task
    AppThreads = {app}
    NoThread = none
    RecursiveMutex = FALSE
    MaxNest = 0
    MaxTopic = 2
    MaxQos = 2
    FailureQos = 128
    PacketIdMod = 2
    PubQos = {0}
    Keepalives = {0, 1}
    Identities = {"valid"}
    AppOps = {"init", "connect", "publish", "set_identity"}
    CallbackOps <- QuietCallbacks
    RxCap = 1
    MaxOwed = 1
    ConnackCodes = {0}
    AckCodes = {1}
    Publications <- ShortMessage
    PointerSize = 8
    Faults = {"reset"}
PROPERTIES
    NotifiesAsPromised
