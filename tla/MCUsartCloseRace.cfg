\* A byte received while usart_close runs.
CONSTANTS
    Size = 3
    MaxIn = 2
    MaxOut = 0
    Ops = {"open", "close"}
    Handles = {1}
    Lens = {1}
SPECIFICATION Spec
PROPERTY IsrUsesLiveBuffers
CHECK_DEADLOCK FALSE
