\* The caller passes a case-2 command without its Le byte.
CONSTANTS
    Commands <- ShortLeCommands
    DataIns <- ShortLeDataIns
    Avail = {8}
    CardErrors = FALSE
    MaxDepth = 4
SPECIFICATION Spec
INVARIANT ApduWithinBuffer
\* The stack bound ends the recursion.
CHECK_DEADLOCK FALSE
