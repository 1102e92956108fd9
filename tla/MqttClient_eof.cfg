\* The broker closes the connection.
SPECIFICATION FairSpec
CONSTANTS
    Task = task
    AppThreads = {}
    NoThread = none
    RecursiveMutex = FALSE
    MaxNest = 0
    MaxTopic = 2
    MaxQos = 2
    FailureQos = 128
    PacketIdMod = 1
    PubQos = {0}
    Keepalives = {0}
    Identities = {"valid"}
    AppOps = {"init", "connect", "set_identity"}
    CallbackOps <- QuietCallbacks
    RxCap = 1
    MaxOwed = 1
    ConnackCodes = {0}
    AckCodes = {1}
    Publications <- ShortMessage
    PointerSize = 8
    Faults = {"eof"}
PROPERTIES
    EndIsNoticed
CHECK_DEADLOCK FALSE
