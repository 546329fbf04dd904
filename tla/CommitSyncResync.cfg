SPECIFICATION Spec
CONSTANTS
    Base = 1
    MaxEpoch = 2
    Budget = 2
    PerDatagram = 1
    StreamWindow = 1
    MayMute = FALSE
INVARIANTS
    ResyncMeansFellOff
