CONSTANTS
    CregN = 1
    PinMatches = TRUE
    SimInit = {"PIN", "READY"}
    RegStates = {1, 2}
    MaxAvail = 2
    CardResponses <- MCCardResponses
    MaxQueue = 3
    MaxRegChanges = 2
    MaxCalls = 0
    MaxLen = 3
    MAX_PACKET = 2
    ApduLens = {5, 257}
    UninitChars = {"NUL"}
SPECIFICATION Spec
PROPERTY LockDrainsStream
CHECK_DEADLOCK FALSE
