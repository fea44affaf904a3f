\* The application reads one byte per call while size bytes come in: the
\* receive ring can fill while a usart_read is under way or between calls.
CONSTANTS
    Size = 3
    MaxIn = 3
    MaxOut = 0
    Ops = {"open", "read"}
    Handles = {1}
    Lens = {1}
SPECIFICATION Spec
PROPERTY CallsReturn
