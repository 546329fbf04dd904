CONSTANTS
    PN = 4
    SAMPLE = 2
    TAG = 2
    Payloads <- MCPayloads
    Cids = {c1}
    FirstPn = 255
    MaxPackets = 257
    Iv <- MCIv
    Mask <- MCMask
SPECIFICATION Spec
INVARIANTS
    WholePacketOpens
    OnlyThePeersOpens
    NoncesAreFresh
    FormStaysVisible
    TagFits
CHECK_DEADLOCK FALSE
