\* Times of 3 bits: connections that begin before, at and after a wrap.
SPECIFICATION TimersSpec
CONSTANTS
    Mod = 8
    Timeouts = {0, 2, 3, 7}
    MaxElapsed = 9
    Second = 1
    Keepalives = {0, 2, 3}
    ResponseTimeouts = {2, 7}
INVARIANTS
    TimersTypeOK
    PeriodKept
PROPERTIES
    ExactUntilWrap
    PingsOnTime
    GivesUpOnTime
