----------------------------- MODULE ModemDevice -----------------------------
(***************************************************************************)
(* The cellular modem on the far side of the serial line: the environment *)
(* the session layer of modem.c talks to.  It is not code of this          *)
(* repository; it answers each AT command the session sends, in the       *)
(* verbose V.250 format (every line preceded by "\r\n"), one line per step, *)
(* and emits unsolicited result codes between responses.  The lines are    *)
(* items of ATParser; the characters after a matched prefix (rest) are     *)
(* one-character strings, numbers printed in decimal by Dec.               *)
(***************************************************************************)
EXTENDS ATParser, Naturals, Sequences

CONSTANTS
    CregN,          \* the <n> of +CREG, the modem's presentation mode (0 or 1)
    PinMatches,     \* whether the SIM's PIN is the "1111" the session sends
    SimInit,        \* the SIM states the modem may boot with
    RegStates,      \* registration states the network may put the modem in
    MaxAvail,       \* bound on socket bytes waiting in the modem
    CardResponses,  \* hex strings (character sequences) the SIM may answer
    MaxQueue,       \* bound on lines in the serial line for a URC to be sent
    MaxRegChanges   \* bound on registration changes of the network

ASSUME CregN \in {0, 1}
ASSUME RegStates \subseteq 0..5 /\ SimInit \subseteq {"PIN", "READY"}

VARIABLES
    rx,      \* lines sent by the modem, not yet read by the host
    tx,      \* commands and payloads written by the host, not yet read
    mout,    \* lines of the response being sent
    echo,    \* ATE echo mode
    sim,     \* "PIN" while the SIM waits for its PIN, else "READY"
    reg,     \* registration status <stat> of +CREG
    sock,    \* state of internet service profile 1 (0: not defined)
    avail,   \* bytes received from the peer and not yet read by the host
    await,   \* bytes of ^SISW payload the modem still expects
    regChanges  \* registration changes so far

modemVars == <<rx, tx, mout, echo, sim, reg, sock, avail, await, regChanges>>

Item(tok, rest, n) == [tok |-> tok, rest |-> rest, n |-> n]
Blank == Item("BLANK", <<>>, 0)
Final(tok) == <<Blank, Item(tok, <<>>, 0)>>
CmeError == <<Blank, Item("CME", <<" ", "x", "\r", "\n">>, 0)>>
Info(tok, rest, n) == <<Blank, Item(tok, rest, n)>>

DigitChar == <<"0", "1", "2", "3", "4", "5", "6", "7", "8", "9">>
Digits == {DigitChar[i] : i \in 1..10}
DigitValue(ch) == CHOOSE d \in 0..9 : DigitChar[d + 1] = ch

\* The decimal characters the modem prints for n.
RECURSIVE Dec(_)
Dec(n) == IF n < 10 THEN <<DigitChar[n + 1]>>
          ELSE Dec(n \div 10) \o <<DigitChar[(n % 10) + 1]>>

Cmd(name, arg) == [name |-> name, arg |-> arg]

ModemInit ==
    /\ rx = <<>>
    /\ tx = <<>>
    /\ mout = Info("SYSSTART", <<>>, 0)
    /\ echo = TRUE
    /\ sim \in SimInit
    /\ reg \in RegStates
    /\ sock = 0
    /\ avail = 0
    /\ await = 0
    /\ regChanges = 0

\* The response to command m, the modem's state after it.
Respond(m) ==
    LET n == m.name
        echoed == IF echo THEN <<Item("ECHO", <<>>, 0)>> ELSE <<>>
        Answer(r) == mout' = echoed \o r
    IN
    \/ /\ n \in {"AT", "SPOW", "CMEE", "SCFG", "SICS_conType",
                 "SICS_alphabet", "SICS_APN", "SISS_address", "SISS_conId"}
       /\ Answer(Final("OK"))
       /\ UNCHANGED <<echo, sim, sock, avail, await>>
    \/ /\ n = "ATE0"
       /\ Answer(Final("OK"))
       /\ echo' = FALSE
       /\ UNCHANGED <<sim, sock, avail, await>>
    \/ /\ n = "SISS_srvtype"
       /\ Answer(Final("OK"))
       /\ sock' = IF sock = 0 THEN 2 ELSE sock
       /\ UNCHANGED <<echo, sim, avail, await>>
    \/ /\ n = "CPIN?"
       /\ Answer(Info(IF sim = "PIN" THEN "CPIN_SIM_PIN" ELSE "CPIN_READY",
                      <<>>, 0) \o Final("OK"))
       /\ UNCHANGED <<echo, sim, sock, avail, await>>
    \/ /\ n = "CPIN="
       /\ IF sim = "PIN" /\ PinMatches
            THEN Answer(Final("OK")) /\ sim' = "READY"
            ELSE Answer(CmeError) /\ UNCHANGED sim
       /\ UNCHANGED <<echo, sock, avail, await>>
    \/ /\ n = "CREG?"
       /\ Answer(Info("CREG", <<" ">> \o Dec(CregN) \o <<",">> \o Dec(reg)
                               \o <<"\r", "\n">>, reg)
                 \o Final("OK"))
       /\ UNCHANGED <<echo, sim, sock, avail, await>>
    \/ /\ n = "SISO"
       /\ IF sock = 2
            THEN Answer(Final("OK")) /\ sock' = 3
            ELSE Answer(CmeError) /\ UNCHANGED sock
       /\ UNCHANGED <<echo, sim, avail, await>>
    \/ /\ n = "SISI?"
       /\ Answer(IF sock = 0 THEN Final("OK")
                 ELSE Info("SISI1", Dec(sock) \o <<",", "0", "\r", "\n">>,
                           sock)
                      \o Final("OK"))
       /\ UNCHANGED <<echo, sim, sock, avail, await>>
    \/ /\ n = "SISR"
       /\ IF sock = 4
            THEN LET k == IF m.arg < avail THEN m.arg ELSE avail
                 IN  /\ Answer(Info("SISR1", Dec(k) \o <<"\r", "\n">>, k)
                               \o (IF k > 0 THEN <<Item("DATA", <<>>, k)>>
                                   ELSE <<>>)
                               \o Final("OK"))
                     /\ avail' = avail - k
            ELSE Answer(CmeError) /\ UNCHANGED avail
       /\ UNCHANGED <<echo, sim, sock, await>>
    \/ /\ n = "SISW"
       /\ IF sock = 4
            THEN \E k \in 1..m.arg :
                    /\ Answer(Info("SISW1",
                                    Dec(k) \o <<",", "0", "\r", "\n">>, k))
                    /\ await' = k
            ELSE Answer(CmeError) /\ UNCHANGED await
       /\ UNCHANGED <<echo, sim, sock, avail>>
    \/ /\ n = "SISC"
       /\ Answer(Final("OK"))
       /\ sock' = IF sock = 0 THEN 0 ELSE 2
       /\ avail' = 0
       /\ UNCHANGED <<echo, sim, await>>
    \/ /\ n = "CSIM"
       /\ IF sim = "READY"
            THEN \E r \in CardResponses :
                    Answer(Info("CSIM", <<" ">> \o Dec(Len(r))
                                        \o <<",", "\"">> \o r
                                        \o <<"\"", "\r", "\n">>, Len(r))
                           \o Final("OK"))
            ELSE Answer(CmeError)
       /\ UNCHANGED <<echo, sim, sock, avail, await>>

\* The modem reads the next command once it has finished the last one.
ModemExec ==
    /\ tx # <<>>
    /\ Head(tx).name # "PAYLOAD"
    /\ mout = <<>>
    /\ await = 0
    /\ tx' = Tail(tx)
    /\ Respond(Head(tx))
    /\ UNCHANGED <<rx, reg, regChanges>>

\* The ^SISW payload arrives; the modem acknowledges it.
ModemPayload ==
    /\ tx # <<>>
    /\ Head(tx).name = "PAYLOAD"
    /\ await > 0
    /\ tx' = Tail(tx)
    /\ mout' = Final("OK")
    /\ await' = 0
    /\ UNCHANGED <<rx, echo, sim, reg, sock, avail, regChanges>>

\* The next line of the response goes out on the serial line.
ModemEmit ==
    /\ mout # <<>>
    /\ rx' = Append(rx, Head(mout))
    /\ mout' = Tail(mout)
    /\ UNCHANGED <<tx, echo, sim, reg, sock, avail, await, regChanges>>

\* The network changes the registration; with <n> = 1 the modem reports
\* it as +CREG: <stat> between responses.
RegChange ==
    /\ regChanges < MaxRegChanges
    /\ regChanges' = regChanges + 1
    /\ \E r \in RegStates \ {reg} : reg' = r
    /\ IF CregN = 1
         THEN /\ mout = <<>> /\ await = 0 /\ Len(rx) < MaxQueue
              /\ mout' = Info("CREG", <<" ">> \o Dec(reg') \o <<"\r", "\n">>, reg')
         ELSE UNCHANGED mout
    /\ UNCHANGED <<rx, tx, echo, sim, sock, avail, await>>

\* The connection being set up succeeds or fails; the peer sends data;
\* the peer closes (state 5, closing, then 6, down).
SocketEvent ==
    /\ \/ sock = 3 /\ sock' \in {4, 6} /\ UNCHANGED avail
       \/ sock = 4 /\ avail < MaxAvail /\ avail' = avail + 1 /\ UNCHANGED sock
       \/ sock = 4 /\ sock' = 5 /\ UNCHANGED avail
       \/ sock = 5 /\ sock' = 6 /\ UNCHANGED avail
    /\ UNCHANGED <<rx, tx, mout, echo, sim, reg, await, regChanges>>

\* What the modem firmware does by itself; the network and the peer are
\* EnvNext.
ModemNext == ModemExec \/ ModemPayload \/ ModemEmit
EnvNext == RegChange \/ SocketEvent

\* Lines that end a command.
IsFinalItem(i) == i.tok \in {"OK", "ERROR", "CME"}

=============================================================================
