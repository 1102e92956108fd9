\* Both programs with a recursive mutex, a broker that refuses or rejects, every
\* fault and messages that are misread.  A program that has exited stops.
SPECIFICATION ProgramsSpec
CONSTANTS
    NTopics = 2
    Task = task
    AppThreads = {}
    NoThread = none
    RecursiveMutex = TRUE
    MaxNest = 1
    MaxTopic = 1
    MaxQos = 2
    FailureQos = 128
    PacketIdMod = 1
    PubQos = {0, 1}
    Keepalives = {0, 1}
    Identities = {"valid"}
    AppOps = {"init", "set_identity", "set_keepalive", "connect"}
    CallbackOps <- ProgramCallbacks
    RxCap = 2
    MaxOwed = 2
    ConnackCodes = {0, 5}
    AckCodes = {1, 2}
    Publications <- Messages
    PointerSize = 8
    Faults = {"eof", "reset", "partial", "eintr"}
INVARIANTS
    ProgramsTypesOK
    TopicInRange
    OneRequestAtATime
    LoopEndsWithConnection
    ExitTellsPublished
PROPERTIES
    PublisherEnds
    SubscriberEnds
CHECK_DEADLOCK FALSE
