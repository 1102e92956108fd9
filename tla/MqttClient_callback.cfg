\* The callbacks of lw-mqtt-sub with a POSIX mutex.
SPECIFICATION Spec
CONSTANTS
    Task = task
    AppThreads = {}
    NoThread = none
    RecursiveMutex = FALSE
    MaxNest = 0
    MaxTopic = 2
    MaxQos = 2
    FailureQos = 128
    PacketIdMod = 2
    PubQos = {0}
    Keepalives = {0, 1}
    Identities = {"valid"}
    AppOps = {"init", "connect", "disconnect", "subscribe", "unsubscribe", "publish", "set_keepalive", "set_identity"}
    CallbackOps <- SubscriberCallbacks
    RxCap = 1
    MaxOwed = 1
    ConnackCodes = {0}
    AckCodes = {1}
    Publications <- ShortMessage
    PointerSize = 8
    Faults = {}
INVARIANTS
    CallbackMayCall
