\* Two sessions; each PC/SC call of open may fail; commands of every case
\* on channels 0 to 3, in the basic and the proprietary class; the card
\* has 10 or 256 bytes for a command and may reject any command.
CONSTANTS
    Commands <- MCCommands
    DataIns <- MCDataIns
    Avail = {10, 256}
    CardErrors = TRUE
    MaxDepth = 4
    MaxOpens = 2
SPECIFICATION Spec
INVARIANT TypeOK
INVARIANT TransmitInTransaction
INVARIANT RecursionBounded
PROPERTY ImplementsApduExchange
\* The caller stops after MaxOpens sessions.
CHECK_DEADLOCK FALSE
