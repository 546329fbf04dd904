CONSTANTS
    TRANSCRIPT_HEADER_LEN = 4
    EntryHeaderLen = 4
    MAX_DATAGRAM_PAYLOAD = 15
    Windows <- MCWindows
    Budgets = {0, 10, 14, 40}
    MAGIC <- MCMagic
    BASE = 4
    EPOCH = 2
    WORD = 2
    MaxBytes = {9, 14, 99}
SPECIFICATION Spec
INVARIANTS
    LongestPrefixGoesOut
    FewestDatagrams
    BucketsGoWhole
    WholeOrNotAtAll
    AcceptedIsThere
CHECK_DEADLOCK FALSE
