CONSTANTS
    Blackouts = TRUE
    Patient = TRUE
    MaxIncoming = 2
    MaxOutages = 2
    MaxStrays = 1
SPECIFICATION FairSpec
INVARIANTS
    OneSessionPerConfig
PROPERTIES
    NoAttemptInVain
    ContactRecurs
    BobComesBack
CHECK_DEADLOCK FALSE
