\* Packets within the limits of the configuration.
SPECIFICATION Spec
CONSTANTS
    MaxQos = 2
    PointerSize = 8
    LengthMod = 16777216
    StringCap = 4
    TopicCap = 512
    BufferSize = 135
    MaxPackets = 2
    Packets <- LimitPackets
PROPERTIES
    ReadsWithinLimits
