---------------------------- MODULE PCSCTransmit ----------------------------
(***************************************************************************)
(* PCSCAccess::transmitApdu (pcsc/src/PCSCAccess.cpp), the card-reader    *)
(* backend of the secure-element capability, against a T=0 card.  Each    *)
(* invocation sends the current APDU with SCardTransmit and either        *)
(* returns or rewrites the APDU in the caller's buffer and calls itself:  *)
(* on 6Cxx it resends with P3 = xx, on 61xx it sends GET RESPONSE with    *)
(* Le = xx on the command's logical channel.  An APDU is the record of    *)
(* its header bytes and its length; response data is a byte count.        *)
(***************************************************************************)
EXTENDS Naturals

CONSTANTS
    Commands,   \* the APDUs the caller passes: [cla, ins, p1p2, p3, len],
                \* p3 meaning nothing when len = 4
    DataIns,    \* instructions for which the card has response data
    Avail,      \* the data lengths (1..256) the card may have for one
    CardErrors, \* the card may answer a command with an error status
    MaxDepth    \* invocations of transmitApdu the stack allows

GET_RESPONSE == 192   \* INS 0xC0
NoData == [data |-> 0, sw1 |-> 0, sw2 |-> 0]

ASSUME Avail \subseteq 1..256 /\ MaxDepth >= 3

VARIABLES
    pc,        \* the caller: "idle", "call" (inside transmitApdu), "done"
    orig,      \* the APDU the caller passed
    apdu,      \* the caller's buffer as transmitApdu has rewritten it
    apduLen,   \* the apduLen argument of the current invocation
    oob,       \* a store went past the caller's apduLen bytes
    depth,     \* invocations of transmitApdu so far in this call
    response,  \* [data, sw1, sw2]: the last response received
    result,    \* what the outermost invocation returned
    want,      \* the card: data length of the caller's command (0: none)
    pending,   \* the card: bytes waiting for GET RESPONSE (0: none)
    pendCh,    \* the card: the logical channel they wait on
    cardErr    \* the card answered with an error during this call

card == <<want, pending, pendCh, cardErr>>
vars == <<pc, orig, apdu, apduLen, oob, depth, response, result, card>>

\* The logical channel a CLA byte addresses (ISO 7816-4 5.4.1): the first
\* interindustry class codes channels 0..3 in b2..b1, the further class
\* channels 4..19 in b4..b1; a proprietary class follows the same coding.
Channel(cla) == IF (cla \div 64) % 2 = 0 THEN cla % 4 ELSE 4 + (cla % 16)

\* The first five bytes of a command as the buffer holds them.
Header(c) == [cla |-> c.cla, ins |-> c.ins, p1p2 |-> c.p1p2, p3 |-> c.p3]

\* P3 = 0 asks for 256 bytes.
Le(p3) == IF p3 = 0 THEN 256 ELSE p3

-----------------------------------------------------------------------------
(* The card *)

\* The answers of a T=0 card to the command TPDU a (SCardTransmit sends a
\* 4-byte APDU with P3 = 00), with what it then keeps pending.
CardAnswers(a, len) ==
    LET ok(n) == [r |-> [data |-> n, sw1 |-> 144, sw2 |-> 0], p |-> 0]
        err   == [r |-> [data |-> 0, sw1 |-> 106, sw2 |-> 130], p |-> pending]
        p3    == IF len = 4 THEN 0 ELSE a.p3
        hdr   == IF a.ins = GET_RESPONSE
                   THEN IF len # 5 \/ pending = 0 \/ Channel(a.cla) # pendCh
                          THEN {[r |-> [data |-> 0, sw1 |-> 105, sw2 |-> 133], p |-> 0]}
                        ELSE IF Le(p3) = pending THEN {ok(pending)}
                        ELSE {[r |-> [data |-> 0, sw1 |-> 108, sw2 |-> pending % 256], p |-> pending]}
                 ELSE IF want = 0 THEN {ok(0)}
                 ELSE IF len > 5
                   THEN {[r |-> [data |-> 0, sw1 |-> 97, sw2 |-> want % 256], p |-> want]}
                 ELSE IF Le(p3) = want THEN {ok(want)}
                 ELSE {[r |-> [data |-> 0, sw1 |-> 108, sw2 |-> want % 256], p |-> 0]}
    IN  hdr \cup (IF CardErrors THEN {err} ELSE {})

-----------------------------------------------------------------------------
(* The caller and transmitApdu *)

Init ==
    /\ pc = "idle" /\ orig \in Commands /\ apdu = Header(orig) /\ apduLen = orig.len
    /\ oob = FALSE /\ depth = 0 /\ response = NoData /\ result = FALSE
    /\ want = 0 /\ pending = 0 /\ pendCh = 0 /\ cardErr = FALSE

\* The caller passes a fresh APDU; the card's data for it is fixed.
Call ==
    /\ pc \in {"idle", "done"}
    /\ \E c \in Commands, n \in Avail :
         /\ orig' = c /\ apdu' = Header(c) /\ apduLen' = c.len
         /\ want' = IF c.ins \in DataIns THEN n ELSE 0
    /\ pc' = "call" /\ oob' = FALSE /\ depth' = 0 /\ cardErr' = FALSE
    /\ UNCHANGED <<response, result, pending, pendCh>>

\* apdu[4] = x: past the caller's buffer when it is only 4 bytes long.
SetP3(x) == apdu' = [apdu EXCEPT !.p3 = x] /\ oob' = (oob \/ orig.len < 5)

\* 6Cxx: apdu[4] = response[1]; same apduLen.
ResendWithLe(r) == SetP3(r.sw2) /\ UNCHANGED apduLen

\* GetResponse leaving apdu[4] as it was.
GetResponseKeepsP3(r) ==
    /\ apdu' = [cla |-> apdu.cla % 4, ins |-> GET_RESPONSE, p1p2 |-> 0, p3 |-> apdu.p3]
    /\ oob' = (oob \/ orig.len < 5)
    /\ apduLen' = 5

\* GetResponse without apduLen = 5.
GetResponseKeepsLen(r) ==
    /\ apdu' = [cla |-> apdu.cla % 4, ins |-> GET_RESPONSE, p1p2 |-> 0, p3 |-> r.sw2]
    /\ oob' = (oob \/ orig.len < 5)
    /\ UNCHANGED apduLen

\* GetResponse appending the Le byte to the command, apduLen + 1.
GetResponseLenPlusOne(r) ==
    /\ apdu' = [cla |-> apdu.cla % 4, ins |-> GET_RESPONSE, p1p2 |-> 0, p3 |-> r.sw2]
    /\ oob' = (oob \/ orig.len < 5)
    /\ apduLen' = apduLen + 1

\* 61xx: CLA keeps the channel bits b2..b1, INS = C0, P1 = P2 = 0,
\* apdu[4] = response[1], apduLen = 5.
GetResponse(r) ==
    /\ apdu' = [cla |-> apdu.cla % 4, ins |-> GET_RESPONSE, p1p2 |-> 0,
                p3 |-> r.sw2]
    /\ oob' = (oob \/ orig.len < 5)
    /\ apduLen' = 5

\* One invocation: SCardTransmit, then return false on its failure, recurse
\* on a two-byte 6Cxx or 61xx, or return true.
TransmitApdu ==
    /\ pc = "call" /\ depth < MaxDepth
    /\ depth' = depth + 1
    /\ \/ /\ pc' = "done" /\ result' = FALSE
          /\ UNCHANGED <<apdu, apduLen, oob, response, card>>
       \/ \E ans \in CardAnswers(apdu, apduLen) :
            LET r == ans.r IN
            /\ response' = r /\ pending' = ans.p
            /\ pendCh' = IF ans.p > 0 THEN Channel(apdu.cla) ELSE pendCh
            /\ cardErr' = (cardErr \/ r.sw1 = 106)
            /\ \/ r.data = 0 /\ r.sw1 = 108 /\ ResendWithLe(r) /\ UNCHANGED <<pc, result>>
               \/ r.data = 0 /\ r.sw1 = 97 /\ GetResponse(r) /\ UNCHANGED <<pc, result>>
               \/ /\ ~(r.data = 0 /\ r.sw1 \in {97, 108})
                  /\ pc' = "done" /\ result' = TRUE
                  /\ UNCHANGED <<apdu, apduLen, oob>>
            /\ UNCHANGED want
    /\ UNCHANGED orig

Next == Call \/ TransmitApdu

\* The caller waits inside transmitApdu, which never blocks but in
\* SCardTransmit, and the card always answers.
Spec == Init /\ [][Next]_vars /\ WF_vars(TransmitApdu)

-----------------------------------------------------------------------------
(* Properties *)

TypeOK ==
    /\ pc \in {"idle", "call", "done"}
    /\ apdu.p3 \in 0..255 /\ apdu.cla \in 0..255
    /\ apduLen \in {c.len : c \in Commands} \cup {5}
    /\ depth \in 0..MaxDepth /\ pending \in 0..256
    /\ response.data \in 0..256 /\ response.sw2 \in 0..255

\* With a card that follows T=0, transmitApdu calls itself at most once:
\* the 6Cxx resend carries the length the card asked for and the GET
\* RESPONSE after 61xx asks for exactly the bytes waiting, so the card
\* never has to correct it.
RecursionBounded == depth <= 2

\* transmitApdu as its caller sees it: the result and the response are the
\* caller's to read only once the outermost invocation has returned.
SE == INSTANCE ApduExchange
          WITH result <- (pc = "done" /\ result),
               cardErr <- (pc = "done" /\ cardErr),
               response <- IF pc = "done" THEN response ELSE NoData

\* transmitApdu implements ApduExchange: every call returns, and a true
\* return carries all the data the card had for the command with 9000,
\* whether it came at once, after a 6Cxx resend or through GET RESPONSE,
\* or the error word of a card that failed it; never a 61xx, a 6Cxx or the
\* answer to a GET RESPONSE the card could not serve.
ImplementsApduExchange == SE!Spec

\* The GET RESPONSE that the 61xx branch builds goes to the logical channel
\* of the caller's command, where the card keeps the data.
GetResponseOnOwnChannel ==
    (pc = "call" /\ apdu.ins = GET_RESPONSE /\ orig.ins # GET_RESPONSE) =>
        Channel(apdu.cla) = Channel(orig.cla)

\* transmitApdu stores only within the apduLen bytes the caller passed.
ApduWithinBuffer == ~oob

====
