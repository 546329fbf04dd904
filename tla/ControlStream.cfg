CONSTANTS
    BASE = 4
    EPOCH = 2
    Epochs = {2, 7, 11}
    Credit = 4
    MaxMessages = 3
SPECIFICATION ControlSpec
INVARIANTS
    ReaderInStep
PROPERTY ImplementsChannel
CHECK_DEADLOCK FALSE
