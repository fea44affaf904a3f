---------------------------- MODULE ApduExchange ----------------------------
(***************************************************************************)
(* What the card-reader backend's transmitApdu promises its caller (spec  *)
(* section 4.5): the call is one exchange with the card.  It returns, and  *)
(* when it returns true the response is either all the data the card has   *)
(* for the command with status 9000, or, if the card itself failed the     *)
(* command, an error status word with no data; never a 61xx or 6Cxx that   *)
(* asks the caller to go on.  A false return leaves the response          *)
(* undefined.  PCSCTransmit implements it (ImplementsApduExchange); the    *)
(* modem backend, modem_send_apdu, hands 61xx and 6Cxx back (section 4.4). *)
(***************************************************************************)
EXTENDS Naturals

CONSTANTS Commands, DataIns, Avail, CardErrors

VARIABLES
    pc,        \* the caller: "idle", "call" (inside transmitApdu), "done"
    orig,      \* the APDU the caller passed
    want,      \* data length the card has for it (0: none)
    cardErr,   \* the card failed the command
    result,    \* what transmitApdu returned
    response   \* [data, sw1, sw2]: what the caller finds in its buffer

avars == <<pc, orig, want, cardErr, result, response>>

NoResponse == [data |-> 0, sw1 |-> 0, sw2 |-> 0]
Responses == [data : 0..256, sw1 : 0..255, sw2 : 0..255]

\* A final status word other than 9000 with no data: not 61xx (more data)
\* nor 6Cxx (wrong length), which a backend is to act on itself.
ErrorWords == {r \in Responses : r.data = 0 /\ r.sw1 \notin {97, 108, 144}}

Init ==
    /\ pc = "idle" /\ orig \in Commands /\ want = 0
    /\ cardErr = FALSE /\ result = FALSE /\ response = NoResponse

\* The caller passes a command; until the call returns its buffer holds
\* nothing it may use.
Call ==
    /\ pc \in {"idle", "done"}
    /\ \E c \in Commands, n \in Avail :
         /\ orig' = c
         /\ want' = IF c.ins \in DataIns THEN n ELSE 0
    /\ pc' = "call" /\ cardErr' = FALSE /\ result' = FALSE
    /\ response' = NoResponse

\* The call returns: false on a transport failure, true with the card's
\* data and 9000, or true with the error word of a card that failed.
Return ==
    /\ pc = "call" /\ pc' = "done"
    /\ \/ result' = FALSE /\ cardErr' = FALSE /\ response' \in Responses
       \/ /\ result' = TRUE /\ cardErr' = FALSE
          /\ response' = [data |-> want, sw1 |-> 144, sw2 |-> 0]
       \/ CardErrors /\ result' = TRUE /\ cardErr' = TRUE
          /\ response' \in ErrorWords
    /\ UNCHANGED <<orig, want>>

Next == Call \/ Return

\* Every call returns.
Spec == Init /\ [][Next]_avars /\ WF_avars(Return)

====
