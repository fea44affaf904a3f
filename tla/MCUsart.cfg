CONSTANTS
    Size = 3
    MaxIn = 3
    MaxOut = 3
    Ops = {"open", "read", "write", "flush", "baud", "close"}
    Handles = {0, 1}
    Lens = {1, 3}
SPECIFICATION Spec
INVARIANT TypeOK
PROPERTY FifoSafety
PROPERTY FifoTxLive
PROPERTY FlushReturns
INVARIANT NoStaleAfterReopen
\* usart_flush's busy-wait is a disabled step while tail # head, and a
\* stuck flush is a terminal state; FlushReturns is what checks it.
CHECK_DEADLOCK FALSE
