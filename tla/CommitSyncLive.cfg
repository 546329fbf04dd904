SPECIFICATION FairSpec
CONSTANTS
    Base = 1
    MaxEpoch = 2
    Budget = 2
    PerDatagram = 1
    StreamWindow = 1
    MayMute = TRUE
PROPERTIES
    BobCatchesUp
    LogDrains
    LastingContactReports
