\* Fair threads, every fault, messages that leave bytes in the stream and messages
\* that are taken for longer than they are.
SPECIFICATION FairSpec
CONSTANTS
    Task = task
    AppThreads = {app}
    NoThread = none
    RecursiveMutex = FALSE
    MaxNest = 0
    MaxTopic = 2
    MaxQos = 2
    FailureQos = 128
    PacketIdMod = 1
    PubQos = {0}
    Keepalives = {0, 1}
    Identities = {"valid"}
    AppOps = {"init", "connect", "disconnect", "subscribe", "unsubscribe", "publish", "set_keepalive", "set_identity"}
    CallbackOps <- QuietCallbacks
    RxCap = 1
    MaxOwed = 1
    ConnackCodes = {0, 5}
    AckCodes = {1}
    Publications <- MisreadMessages
    PointerSize = 8
    Faults = {"eof", "reset", "partial", "eintr"}
PROPERTIES
    ConnectResolves
    WaitEnds
    ResetIsNoticed
    DisconnectCompletes
    MutexIsReleased
