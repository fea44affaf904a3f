---------------------------- MODULE ATProcessRecv ----------------------------
(***************************************************************************)
(* at_process_recv of at_parser.c byte by byte: the djb2 hash, the        *)
(* leading-byte skip, the boundary characters, the generic-then-specific   *)
(* table search, and the effects of a match on the lock, the specific      *)
(* table and the asynchronous callback slot.  Each behaviour is a caller   *)
(* invoking the step again and again, each call on one line of input, and  *)
(* installing a specific table or an async callback between calls.         *)
(***************************************************************************)
EXTENDS ModemEvents, SequencesExt

CONSTANTS
    Lines,            \* the lines one call may meet: [tok, bytes, used]
    SpecificTable,    \* a table a caller may install with at_set_specific
    SpecificTokens    \* the same table at token level

CR == 13
LF == 10
SP == 32

\* A token boundary: '\n', '>', ',' or ':'.
Boundary == {LF, 62, 44, 58}

\* Bytes dropped when they are the first byte of a token.
SkipBytes == {SP, CR, LF}

\* The step on a hash wider than 32 bits: the high half never wraps.
Djb2StepUnwrapped(h, c) ==
    LET lo == h[2] * 33 + c
    IN  << h[1] * 33 + lo \div 65536, lo % 65536 >>

\* hash = ((hash << 5) + hash) + c on a uint32_t, on <<high, low>> halves.
Djb2Step(h, c) ==
    LET lo == h[2] * 33 + c
    IN  << (h[1] * 33 + lo \div 65536) % 65536, lo % 65536 >>

Djb2Seed == <<0, 5381>>

\* The search with the two tables in the other order.
HashMapContainsSpecificFirst(h, generic, specific) ==
    LET g == SelectInSeq(generic, LAMBDA e : e.hash = h)
        s == SelectInSeq(specific, LAMBDA e : e.hash = h)
    IN  IF s > 0 THEN specific[s].evt
        ELSE IF g > 0 THEN generic[g].evt
        ELSE "NONE"

\* at_hash_map_contains: the first entry of the generic table, else of the
\* specific table, whose hash equals h; "NONE" if there is none.
HashMapContains(h, generic, specific) ==
    LET g == SelectInSeq(generic, LAMBDA e : e.hash = h)
        s == SelectInSeq(specific, LAMBDA e : e.hash = h)
    IN  IF g > 0 THEN generic[g].evt
        ELSE IF s > 0 THEN specific[s].evt
        ELSE "NONE"

VARIABLES
    line,      \* the input of the current call
    pos,       \* bytes of it consumed so far
    hash,      \* the running djb2 hash
    read,      \* the uint16_t count of bytes of the current token
    result,    \* "NONE" while the call runs, then the event it returns
    locked,    \* at->locked
    specific,  \* at->specific_table (<<>> when none)
    asyncCb,   \* at->async_cb.fct set ("SET") or not ("NONE")
    asyncRuns  \* invocations of the async callback since it was last set

vars == <<line, pos, hash, read, result, locked, specific, asyncCb, asyncRuns>>

\* A call starts: the locals of at_process_recv are initialised.
StartCall(l) ==
    /\ line' = l
    /\ pos' = 0
    /\ hash' = Djb2Seed
    /\ read' = 0
    /\ result' = "NONE"

\* at_init; the caller holds the lock, as after at_lock.
Init ==
    /\ line \in Lines
    /\ pos = 0
    /\ hash = Djb2Seed
    /\ read = 0
    /\ result = "NONE"
    /\ locked \in BOOLEAN
    /\ specific \in {<<>>, SpecificTable}
    /\ asyncCb \in {"NONE", "SET"}
    /\ asyncRuns = 0

\* The effect of a matched entry with event e: unlock on success or failure
\* (at_unlock clears the specific table too), then the async callback,
\* cleared after a success or failure and kept after a notification.
Matched(e) ==
    /\ result' = e
    /\ IF IsFinalEvent(e)
         THEN /\ locked' = FALSE
              /\ specific' = <<>>
         ELSE UNCHANGED <<locked, specific>>
    /\ IF asyncCb = "SET" /\ IsFinalEvent(e)
         THEN /\ asyncCb' = "NONE"
              /\ asyncRuns' = asyncRuns + 1
       ELSE IF asyncCb = "SET" /\ e = AT_COMMAND_NOTIFICATION_EVENT
         THEN /\ asyncRuns' = asyncRuns + 1
              /\ UNCHANGED asyncCb
       ELSE UNCHANGED <<asyncCb, asyncRuns>>

\* One iteration of the do-while loop in which at_read_c returns a byte c.
ReadByte ==
    /\ result = "NONE"
    /\ pos < Len(line.bytes)
    /\ LET c == line.bytes[pos + 1]
           r == (read + 1) % 65536
           h == Djb2Step(hash, c)
           e == HashMapContains(h, m_modem_generic_table, specific)
       IN  /\ pos' = pos + 1
           /\ UNCHANGED line
           /\ IF r = 1 /\ c \in SkipBytes
                THEN \* read = 0; continue: the loop test read && ... fails
                     /\ read' = 0
                     /\ result' = AT_TIMEOUT_EVENT
                     /\ UNCHANGED <<hash, locked, specific, asyncCb, asyncRuns>>
              ELSE IF c \in Boundary /\ e # "NONE"
                THEN /\ read' = r
                     /\ hash' = h
                     /\ Matched(e)
              ELSE /\ read' = r
                   /\ hash' = h
                   /\ result' = IF c = LF THEN AT_TIMEOUT_EVENT ELSE "NONE"
                   /\ UNCHANGED <<locked, specific, asyncCb, asyncRuns>>

\* at_read_c finds no byte at the start of a token: the call times out.
\* (Within a token the loop would spin until the next byte arrives.)
NoByte ==
    /\ result = "NONE"
    /\ pos = Len(line.bytes)
    /\ read = 0
    /\ result' = AT_TIMEOUT_EVENT
    /\ UNCHANGED <<line, pos, hash, read, locked, specific, asyncCb, asyncRuns>>

\* The caller, between calls, starts the next call on a new line, taking
\* the lock first (at_lock), installing a specific table (at_set_specific)
\* or an async callback (at_set_async_cb) as it pleases.
NextCall ==
    /\ result # "NONE"
    /\ \E l \in Lines : StartCall(l)
    /\ locked' \in {locked, TRUE}
    /\ specific' \in {specific, SpecificTable}
    /\ \/ /\ asyncCb' = "SET"
          /\ asyncRuns' = 0
       \/ UNCHANGED <<asyncCb, asyncRuns>>

Next == ReadByte \/ NoByte \/ NextCall

Spec == Init /\ [][Next]_vars

-----------------------------------------------------------------------------
TypeOK ==
    /\ line \in Lines
    /\ pos \in 0..Len(line.bytes)
    /\ hash \in (0..65535) \X (0..65535)
    /\ read \in 0..65535
    /\ locked \in BOOLEAN
    /\ specific \in {<<>>, SpecificTable}
    /\ asyncCb \in {"NONE", "SET"}
    /\ asyncRuns \in Nat

\* The event a line is written to produce: the generic table's binding of
\* its token, else the installed specific table's, else a timeout.
Intended(l) ==
    IF l.tok \in DOMAIN ModemTokenTable THEN ModemTokenTable[l.tok]
    ELSE IF specific # <<>> /\ l.tok \in DOMAIN SpecificTokens
         THEN SpecificTokens[l.tok]
    ELSE AT_TIMEOUT_EVENT

\* The bytes a call on l consumes: the matched prefix, or the one skipped
\* byte, or, for a line that matches nothing, all of it.
Expected(l) ==
    IF Intended(l) = AT_TIMEOUT_EVENT /\ l.bytes # <<>>
       /\ l.bytes[1] \notin SkipBytes
    THEN Len(l.bytes)
    ELSE l.used

\* Every line the modem sends, scanned by at_process_recv with the
\* precomputed hashes of m_modem_generic_table, yields the event and stops
\* at the byte the session layer expects: no earlier boundary of the line
\* collides with a table entry, the generic table wins over a specific one,
\* and the remainder is what modem.c then parses by hand.
ReturnsTokenEvent ==
    result # "NONE" => /\ result = Intended(line)
                       /\ pos = Expected(line)

=============================================================================
