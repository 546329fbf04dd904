SPECIFICATION Spec
CONSTANTS
    MaxEpoch = 2
    MaxPackets = 3
    KeyPhaseSize = 2
CHECK_DEADLOCK FALSE
INVARIANTS UpdatesInStep PhasesAreFresh InSyncAfterRekey
PROPERTIES SplitIsFinal
