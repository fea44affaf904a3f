\* A case-4 command on a logical channel above 3.
CONSTANTS
    Commands <- FurtherChannelCommands
    DataIns <- MCDataIns
    Avail = {10}
    CardErrors = FALSE
    MaxDepth = 4
SPECIFICATION Spec
INVARIANT GetResponseOnOwnChannel
