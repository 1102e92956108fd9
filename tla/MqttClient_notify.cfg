\* Two threads, every fault but a reset, no refusal, nothing to acknowledge, and
\* messages that are read to their end or refused: the callbacks keep their promise.
\* The end of a connection can stop the task for good, and so can a callback that
\* calls the client.
SPECIFICATION Spec
CONSTANTS
    Task = task
    AppThreads = {app}
    NoThread = none
    RecursiveMutex = FALSE
    MaxNest = 0
    MaxTopic = 2
    MaxQos = 2
    FailureQos = 128
    PacketIdMod = 2
    PubQos = {0}
    Keepalives = {0, 1}
    Identities = {"valid", "invalid"}
    AppOps = {"init", "connect", "disconnect", "subscribe", "unsubscribe", "publish", "set_keepalive", "set_identity"}
    CallbackOps <- SubscriberCallbacks
    RxCap = 1
    MaxOwed = 1
    ConnackCodes = {0}
    AckCodes = {1, 2}
    Publications <- UnderstoodMessages
    PointerSize = 8
    Faults = {"eof", "partial", "eintr"}
INVARIANTS
    TypeOK
PROPERTIES
    NotifiesAsPromised
    DataWhileConnected
CHECK_DEADLOCK FALSE
