CONSTANTS
    CregN = 1
    PinMatches = FALSE
    SimInit = {"PIN"}
    RegStates = {1, 2}
    MaxAvail = 2
    CardResponses <- MCCardResponses
    MaxQueue = 3
    MaxRegChanges = 2
    MaxCalls = 1
    MaxLen = 3
    MAX_PACKET = 2
    ApduLens = {5, 257}
    UninitChars = {"NUL"}
SPECIFICATION Spec
PROPERTY ApduTrueOnlyOnSuccess
CHECK_DEADLOCK FALSE
