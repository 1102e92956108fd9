SPECIFICATION FairSpec
CONSTANTS
    Clients = {c1, c2, c3}
    NoClient = NoClient
    Addresses = {a1, a2}
    NoAddress = NoAddress
    Backlog = 2
    MaxOpen = 2
    ShutdownWorks = TRUE
    Pointers = {"null", "wild", "memory"}
INVARIANTS
    TypeOK
    StateMatchesListener
    ListenerStays
    OnlyResetsLeak
PROPERTIES
    ClientIsAnswered
    ClientFreesMutex
CHECK_DEADLOCK FALSE
