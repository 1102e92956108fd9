\* A buffer that one packet of 128 bytes and one of four fill up.
SPECIFICATION Spec
CONSTANTS
    MaxQos = 2
    PointerSize = 8
    LengthMod = 16777216
    StringCap = 4
    TopicCap = 2
    BufferSize = 135
    MaxPackets = 2
    Packets <- MCPackets
INVARIANTS
    TypeOK
    BufferHoldsPackets
    ReaderKeepsPace
PROPERTIES
    ReadAsSent
