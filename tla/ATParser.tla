------------------------------ MODULE ATParser ------------------------------
(***************************************************************************)
(* The event dispatch engine of at_parser.c, at the granularity of lines.  *)
(*                                                                         *)
(* The modem-to-host stream is a sequence of line items.  An item carries *)
(* the token its bytes hash to at their first matching boundary (tok) and *)
(* the characters that follow that boundary (rest), which the session      *)
(* layer reads by hand with at_read.  That this token abstraction is the   *)
(* one the djb2 scan of at_process_recv computes is checked byte by byte  *)
(* in ATProcessRecv.                                                       *)
(***************************************************************************)
EXTENDS Naturals, Sequences

\* The generic events of at_parser.h.
AT_TIMEOUT_EVENT              == "TIMEOUT"
AT_COMMAND_SUCCESS_EVENT      == "SUCCESS"
AT_COMMAND_FAILURE_EVENT      == "FAILURE"
AT_COMMAND_NOTIFICATION_EVENT == "NOTIFICATION"

\* The uint8_t codes of at_parser.h: AT_GENERIC_EVENT_MASK | n.
AtEventCode(e) ==
    CASE e = AT_TIMEOUT_EVENT              -> 130
      [] e = AT_COMMAND_SUCCESS_EVENT      -> 131
      [] e = AT_COMMAND_FAILURE_EVENT      -> 132
      [] e = AT_COMMAND_NOTIFICATION_EVENT -> 133

\* An event that ends a command: seeing one releases the lock.
IsFinalEvent(e) == e \in {AT_COMMAND_SUCCESS_EVENT, AT_COMMAND_FAILURE_EVENT}

\* at_hash_map_contains: the event bound to a token by the table, which is
\* a function from the tokens it knows to events; every other line is
\* consumed up to its '\n' without a match, and at_process_recv returns
\* AT_TIMEOUT_EVENT for it.
Lookup(table, tok) ==
    IF tok \in DOMAIN table THEN table[tok] ELSE AT_TIMEOUT_EVENT

\* The part of a line left in the stream after a match at a boundary that
\* is not its last byte, when the caller does not read it by hand.  It
\* starts with a space or a digit and holds no further table token, so
\* every later at_process_recv over it returns AT_TIMEOUT_EVENT.
RestItem == [tok |-> "REST", rest |-> <<>>, n |-> 0]

\* at_process_recv: the event one call returns on the stream q.  With no
\* byte available the first read fails and the call times out.
RecvEvent(q, table) ==
    IF q = <<>> THEN AT_TIMEOUT_EVENT ELSE Lookup(table, Head(q).tok)

\* The stream after one at_process_recv call that nobody follows with
\* manual reads: the matched prefix is gone, its remainder stays.
RecvRest(q) ==
    IF q = <<>> THEN q
    ELSE IF Head(q).rest # <<>> THEN <<RestItem>> \o Tail(q)
    ELSE Tail(q)

\* The lock after an event: at_process_recv calls at_unlock when the
\* matched event is a success or a failure, and leaves it alone otherwise.
LockedAfter(isLocked, e) == IF IsFinalEvent(e) THEN FALSE ELSE isLocked

=============================================================================
