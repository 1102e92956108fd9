\* An application thread and the task, a recursive mutex, callbacks that call
\* anything, from callbacks too, every fault but packets that stop half way, and
\* messages that are misread.
SPECIFICATION Spec
CONSTANTS
    Task = task
    AppThreads = {app}
    NoThread = none
    RecursiveMutex = TRUE
    MaxNest = 2
    MaxTopic = 1
    MaxQos = 2
    FailureQos = 128
    PacketIdMod = 1
    PubQos = {0, 1}
    Keepalives = {1}
    Identities = {"valid"}
    AppOps = {"init", "connect", "disconnect", "subscribe", "unsubscribe", "publish", "set_keepalive", "set_identity"}
    CallbackOps <- EagerCallbacks
    RxCap = 2
    MaxOwed = 1
    ConnackCodes = {0, 5}
    AckCodes = {1, 2}
    Publications <- MisreadMessages
    PointerSize = 8
    Faults = {"eof", "reset", "eintr"}
INVARIANTS
    LockDiscipline
    StateMatchesSocket
    BranchStaysValid
    NoPhantomWait
