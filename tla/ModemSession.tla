----------------------------- MODULE ModemSession -----------------------------
(***************************************************************************)
(* The session layer of modem.c on the engine of at_parser.c, driven by an *)
(* application that calls its operations one after another, against the  *)
(* modem of ModemDevice.  The host is one thread; a step of it is one     *)
(* at_process_recv call (with the manual at_read parsing that follows it  *)
(* in the code) or the write of one command.  The modem and the network   *)
(* run concurrently with it.                                               *)
(***************************************************************************)
EXTENDS ModemDevice, ModemEvents, Integers, Sequences

CONSTANTS
    MaxCalls,       \* operations the application calls
    MaxLen,         \* largest len passed to read or write
    MAX_PACKET,     \* MODEM_MAX_PACKET_SIZE (1500 bytes, scaled)
    ApduLens,       \* apdu_len values passed to modem_send_apdu
    UninitChars     \* values an uninitialised uint8_t c may hold

VARIABLES
    locked,   \* m_at.locked
    hpc,      \* where the host is
    cmd,      \* command the pending at_lock will print
    ret,      \* where the host goes after at_lock and at_print
    cont,     \* where the host goes after at_wait_for_response
    sret,     \* where modem_send_query_at_sisi returns to
    loc,      \* locals of the running operation
    result,   \* [op, val] returned by the last operation (bool as 0/1)
    calls     \* operations called so far

hostVars == <<locked, hpc, cmd, ret, cont, sret, loc, result, calls>>
vars == <<modemVars, hostVars>>

T == ModemTokenTable

IsDigit(ch) == ch \in Digits
HexDigits == Digits \cup {"A", "B", "C", "D", "E", "F", "a", "b", "c", "d", "e", "f"}
IsHex(ch) == ch \in HexDigits

-----------------------------------------------------------------------------
(* The hand-written parsers of modem.c, over the characters of a line     *)
(* after its matched prefix.  A reader is [w, p, v, fail]: the characters *)
(* w from the last one read on, the position p in w of that character c,  *)
(* the number being built, and whether a '\n' cut the parse short.  Every *)
(* parse leaves c = '\n': the read that failed or the end-of-line loop     *)
(* (while(c != '\n') at_read) put it there.                                *)

\* The first position at or after p whose character is in S (in = TRUE)
\* or outside S (in = FALSE).
FirstAt(w, p, S, in) ==
    CHOOSE q \in p..Len(w) : (w[q] \in S) = in
                            /\ \A r \in p..(q - 1) : (w[r] \in S) # in

\* v = v*10 + c - '0' for each digit of d, on an integer of the given width.
DecValue(d, v, width) ==
    LET f[k \in 0..Len(d)] ==
          IF k = 0 THEN v ELSE (f[k - 1] * 10 + DigitValue(d[k])) % width
    IN  f[Len(d)]

Reader(c, s, v) == [w |-> <<c>> \o s, p |-> 1, v |-> v, fail |-> FALSE]
CharOf(st) == st.w[st.p]

\* at_read(&m_at, &c, 1)
ReadC(st) == [st EXCEPT !.p = @ + 1]

\* while(!isdigit(c)) { at_read; if(c == '\n') return false; }
FindDigit(st) ==
    IF st.fail \/ IsDigit(CharOf(st)) THEN st
    ELSE LET q == FirstAt(st.w, st.p + 1, Digits \cup {"\n"}, TRUE)
         IN  [st EXCEPT !.p = q, !.fail = ~IsDigit(st.w[q])]

\* while(isdigit(c)) { v = v*10 + c - '0'; at_read; } on a v of the given
\* width; when checked, each read is followed by if(c == '\n') return false;
TakeDigits(st, width, checked) ==
    IF st.fail THEN st
    ELSE LET r == FirstAt(st.w, st.p, Digits, FALSE)
         IN  [st EXCEPT !.p = r,
                        !.v = DecValue(SubSeq(st.w, st.p, r - 1), st.v, width),
                        !.fail = checked /\ r > st.p /\ st.w[r] = "\n"]

\* ParseCreg with the two fields taken in the wrong order.
ParseCregSwapped(c, s, mode, status) ==
    LET a == TakeDigits(FindDigit(Reader(c, s, status)), 256, TRUE)
        b == TakeDigits(FindDigit([a EXCEPT !.v = mode]), 256, TRUE)
    IN  [fail |-> b.fail, mode |-> b.v, status |-> a.v, c |-> "\n"]

\* modem_bring_up on a +CREG line: c as left by earlier reads, mode and
\* status (uint8_t) as they stand; find and take the mode, then the status.
ParseCreg(c, s, mode, status) ==
    LET a == TakeDigits(FindDigit(Reader(c, s, mode)), 256, TRUE)
        b == TakeDigits(FindDigit([a EXCEPT !.v = status]), 256, TRUE)
    IN  [fail |-> b.fail, mode |-> a.v, status |-> b.v, c |-> "\n"]

\* The state number of ^SISI (uint8_t) or the length of ^SISR / ^SISW
\* (uint16_t): at_read, then take the digits.
ParseNumber(s, v, width) ==
    TakeDigits(ReadC(Reader("NUL", s, v)), width, FALSE).v

\* while(!isxdigit(c)) { at_read; if(c == '\n') return false; }
FindHex(st) ==
    IF st.fail \/ IsHex(CharOf(st)) THEN st
    ELSE LET q == FirstAt(st.w, st.p + 1, HexDigits \cup {"\n"}, TRUE)
         IN  [st EXCEPT !.p = q, !.fail = ~IsHex(st.w[q])]

\* while(isxdigit(c)): at_read the second digit, at_read the next
\* character, failing on '\n' after either; v counts *response_len.
HexPairs(st) ==
    LET Stop(j) == \/ ~IsHex(st.w[st.p + 2 * j])
                   \/ st.w[st.p + 2 * j + 1] = "\n"
                   \/ st.w[st.p + 2 * j + 2] = "\n"
        k == CHOOSE j \in 0..Len(st.w) : Stop(j) /\ \A i \in 0..(j - 1) : ~Stop(i)
    IN  IF st.fail THEN st
        ELSE [st EXCEPT !.p = @ + 2 * k, !.v = @ + k,
                        !.fail = IsHex(st.w[st.p + 2 * k])]

\* modem_send_apdu on a +CSIM line, c = 0: find the length, skip it, find
\* the hex digits, take them in pairs.
ParseCsim(s, len) ==
    LET a == TakeDigits(FindDigit(Reader("NUL", s, 0)), 256, TRUE)
        b == HexPairs([FindHex(a) EXCEPT !.v = len])
    IN  [fail |-> b.fail, len |-> b.v]

-----------------------------------------------------------------------------
(* The engine: at_lock and at_wait_for_response, and the two macros of    *)
(* modem.c that send a command.                                            *)

Evt == RecvEvent(rx, T)

\* What a host step leaves alone: the modem's state and the call count.
Frame == UNCHANGED <<mout, echo, sim, reg, sock, avail, await, regChanges,
                     calls>>

\* modem_send_at_command: lock, print, wait for the response, go on at k.
SendAtCommand(c, k) ==
    /\ cmd' = c /\ ret' = "wait_resp" /\ cont' = k /\ hpc' = "lock"

\* modem_send_at_command_no_wait_response: lock, print, go on at k.
SendNoWait(c, k) ==
    /\ cmd' = c /\ ret' = k /\ hpc' = "lock" /\ UNCHANGED cont

\* at_lock with if(at->locked) for while(at->locked): it waits for one
\* line only, not for the unlock.
AtLockNoWait ==
    /\ hpc = "lock"
    /\ rx' = RecvRest(rx)
    /\ IF Evt = AT_TIMEOUT_EVENT
         THEN /\ locked' = TRUE
              /\ tx' = Append(tx, cmd)
              /\ hpc' = ret
         ELSE /\ locked' = LockedAfter(locked, Evt)
              /\ UNCHANGED <<tx, hpc>>
    /\ Frame /\ UNCHANGED <<cmd, ret, cont, sret, loc, result>>

\* at_lock: while locked, process lines; then process lines until one
\* times out; then lock, and at_print writes the command.
AtLock ==
    /\ hpc = "lock"
    /\ rx' = RecvRest(rx)
    /\ IF locked
         THEN /\ locked' = LockedAfter(locked, Evt)
              /\ UNCHANGED <<tx, hpc>>
       ELSE IF Evt = AT_TIMEOUT_EVENT
         THEN /\ locked' = TRUE
              /\ tx' = Append(tx, cmd)
              /\ hpc' = ret
         ELSE UNCHANGED <<locked, tx, hpc>>
    /\ Frame /\ UNCHANGED <<cmd, ret, cont, sret, loc, result>>

\* at_wait_for_response: process lines until a success or a failure.
AtWaitForResponse ==
    /\ hpc = "wait_resp"
    /\ rx' = RecvRest(rx)
    /\ locked' = LockedAfter(locked, Evt)
    /\ IF IsFinalEvent(Evt)
         THEN /\ hpc' = cont
              /\ loc' = [loc EXCEPT !.wres = Evt]
         ELSE UNCHANGED <<hpc, loc>>
    /\ Frame /\ UNCHANGED <<tx, cmd, ret, cont, sret, result>>

\* One at_process_recv call whose matched prefix nobody parses by hand.
RecvStep ==
    /\ rx' = RecvRest(rx)
    /\ locked' = LockedAfter(locked, Evt)

\* The host consumes a line whose rest it parses by hand with at_read.
RecvParsed == rx' = Tail(rx) /\ UNCHANGED locked

\* Return from the running operation with value v.
Return(v) == hpc' = "app" /\ result' = [op |-> loc.op, val |-> v]

-----------------------------------------------------------------------------
(* modem_init *)

InitCmds == <<"AT", "ATE0", "SPOW", "CMEE">>
CfgCmds == <<"SCFG", "SICS_conType", "SICS_alphabet", "SICS_APN">>

\* while(at_process_recv(&m_at) != MODEM_SYSSTART_EVENT);
InitWaitSysstart ==
    /\ hpc = "init_start"
    /\ RecvStep
    /\ IF Evt = MODEM_SYSSTART_EVENT
         THEN hpc' = "init_cmds" /\ loc' = [loc EXCEPT !.idx = 1]
         ELSE UNCHANGED <<hpc, loc>>
    /\ Frame /\ UNCHANGED <<tx, cmd, ret, cont, sret, result>>

\* AT, ATE0, AT^SPOW=1,0,0, AT+CMEE=2, each waited for; then AT+CPIN?.
InitCommands ==
    /\ hpc = "init_cmds"
    /\ IF loc.idx <= Len(InitCmds)
         THEN /\ SendAtCommand(Cmd(InitCmds[loc.idx], 0), "init_cmds")
              /\ loc' = [loc EXCEPT !.idx = @ + 1]
         ELSE SendNoWait(Cmd("CPIN?", 0), "cpin_loop") /\ UNCHANGED loc
    /\ Frame /\ UNCHANGED <<rx, tx, locked, sret, result>>

\* The do-while loop over the answer to AT+CPIN?.
InitCpinLoop ==
    /\ hpc = "cpin_loop"
    /\ RecvStep
    /\ CASE Evt = MODEM_CPIN_SIM_PIN_EVENT ->
              hpc' = "wait_resp" /\ cont' = "cpin_pin" /\ UNCHANGED loc
         [] Evt = MODEM_CPIN_READY_EVENT ->
              /\ hpc' = "wait_resp" /\ cont' = "init_cfg"
              /\ loc' = [loc EXCEPT !.idx = 1]
         [] IsFinalEvent(Evt) ->
              hpc' = "init_cfg" /\ loc' = [loc EXCEPT !.idx = 1]
              /\ UNCHANGED cont
         [] OTHER -> UNCHANGED <<hpc, cont, loc>>
    /\ Frame /\ UNCHANGED <<tx, cmd, ret, sret, result>>

\* InitCpinPin without evt = AT_COMMAND_SUCCESS_EVENT after the PIN is
\* sent: the loop goes on processing lines.
InitCpinPinStays ==
    /\ hpc = "cpin_pin"
    /\ IF loc.wres = AT_COMMAND_SUCCESS_EVENT
         THEN /\ SendAtCommand(Cmd("CPIN=", 0), "cpin_loop")
              /\ UNCHANGED loc
         ELSE hpc' = "cpin_loop" /\ UNCHANGED <<cmd, ret, cont, loc>>
    /\ Frame /\ UNCHANGED <<rx, tx, locked, sret, result>>

\* After +CPIN: SIM PIN: if the query succeeded, send AT+CPIN="1111" and
\* leave the loop whatever its answer; else keep on processing lines.
InitCpinPin ==
    /\ hpc = "cpin_pin"
    /\ IF loc.wres = AT_COMMAND_SUCCESS_EVENT
         THEN /\ SendAtCommand(Cmd("CPIN=", 0), "init_cfg")
              /\ loc' = [loc EXCEPT !.idx = 1]
         ELSE hpc' = "cpin_loop" /\ UNCHANGED <<cmd, ret, cont, loc>>
    /\ Frame /\ UNCHANGED <<rx, tx, locked, sret, result>>

\* AT^SCFG and the three AT^SICS commands, each waited for.
InitConfig ==
    /\ hpc = "init_cfg"
    /\ IF loc.idx <= Len(CfgCmds)
         THEN /\ SendAtCommand(Cmd(CfgCmds[loc.idx], 0), "init_cfg")
              /\ loc' = [loc EXCEPT !.idx = @ + 1]
         ELSE hpc' = "app" /\ UNCHANGED <<cmd, ret, cont, loc>>
    /\ Frame /\ UNCHANGED <<rx, tx, locked, sret, result>>

-----------------------------------------------------------------------------
(* modem_bring_up *)

\* mode = 0; status = 0; send AT+CREG? without waiting.
BringUpPoll ==
    /\ hpc = "creg_poll"
    /\ loc' = [loc EXCEPT !.mode = 0, !.status = 0, !.wire = -1]
    /\ SendNoWait(Cmd("CREG?", 0), "creg_loop")
    /\ Frame /\ UNCHANGED <<rx, tx, locked, sret, result>>

\* The inner do-while: parse a +CREG line by hand (a '\n' before both
\* numbers returns false, leaving the command's OK unread and the lock
\* held); on success or failure, return true if status is 1 or 5, else
\* poll again.
BringUpRecv ==
    /\ hpc = "creg_loop"
    /\ IF Evt = MODEM_CREG_EVENT
         THEN \E p \in {ParseCreg(loc.c, Head(rx).rest, loc.mode, loc.status)} :
                  /\ RecvParsed
                  /\ IF p.fail
                       THEN Return(0) /\ UNCHANGED loc
                       ELSE /\ loc' = [loc EXCEPT !.c = p.c, !.mode = p.mode,
                                        !.status = p.status,
                                        !.wire = Head(rx).n]
                            /\ UNCHANGED <<hpc, result>>
         ELSE /\ RecvStep
              /\ UNCHANGED loc
              /\ IF ~IsFinalEvent(Evt) THEN UNCHANGED <<hpc, result>>
                 ELSE IF loc.status \in {1, 5} THEN Return(1)
                 ELSE hpc' = "creg_poll" /\ UNCHANGED result
    /\ Frame /\ UNCHANGED <<tx, cmd, ret, cont, sret>>

-----------------------------------------------------------------------------
(* modem_send_query_at_sisi and modem_open_tcp_socket *)

\* *srv_state = 0; send AT^SISI? without waiting; come back to k.
SisiQuery(k) ==
    /\ sret' = k
    /\ loc' = [loc EXCEPT !.srv = 0]
    /\ SendNoWait(Cmd("SISI?", 0), "sisi_loop")

\* Parse the state of profile 1 out of ^SISI: 1,<state>,...; stop at the
\* success or failure (the returned bool, true for both, is unused).
SisiRecv ==
    /\ hpc = "sisi_loop"
    /\ IF Evt = MODEM_SISI_1_EVENT
         THEN /\ RecvParsed
              /\ loc' = [loc EXCEPT
                           !.srv = ParseNumber(Head(rx).rest, loc.srv, 256),
                           !.wire = Head(rx).n]
              /\ UNCHANGED hpc
         ELSE /\ RecvStep
              /\ UNCHANGED loc
              /\ hpc' = IF IsFinalEvent(Evt) THEN sret ELSE hpc
    /\ Frame /\ UNCHANGED <<tx, cmd, ret, cont, sret, result>>

OpenCmds == <<"SISS_srvtype", "SISS_address", "SISS_conId", "SISO">>

\* The three AT^SISS commands and AT^SISO=1, each waited for.
OpenConfig ==
    /\ hpc = "open_cfg"
    /\ IF loc.idx <= Len(OpenCmds)
         THEN /\ SendAtCommand(Cmd(OpenCmds[loc.idx], 0), "open_cfg")
              /\ loc' = [loc EXCEPT !.idx = @ + 1]
              /\ UNCHANGED sret
         ELSE SisiQuery("open_check")
    /\ Frame /\ UNCHANGED <<rx, tx, locked, result>>

\* Poll until the state is 4 (return handle 1) or 5 or 6 (return -1).
OpenCheck ==
    /\ hpc = "open_check"
    /\ IF loc.srv \in {5, 6} THEN Return(-1) /\ UNCHANGED <<loc, cmd, ret, sret>>
       ELSE IF loc.srv = 4 THEN Return(1) /\ UNCHANGED <<loc, cmd, ret, sret>>
       ELSE SisiQuery("open_check") /\ UNCHANGED result
    /\ Frame /\ UNCHANGED <<rx, tx, locked, cont>>

-----------------------------------------------------------------------------
(* modem_read_socket and modem_write_socket *)

\* for(i = 0; i < len;): query the state first; return the total at the end.
SocketLoop(here, next) ==
    /\ hpc = here
    /\ IF loc.i < loc.len
         THEN SisiQuery(next) /\ UNCHANGED result
         ELSE Return(loc.total) /\ UNCHANGED <<loc, cmd, ret, sret>>
    /\ Frame /\ UNCHANGED <<rx, tx, locked, cont>>

ReadLoop == SocketLoop("rd_loop", "rd_sisi")
WriteLoop == SocketLoop("wr_loop", "wr_sisi")

\* Variants of ToRead as a slip in the code would make them: the cap
\* dropped, and the chunk computed from len instead of len - i.
ToReadUncapped(len, i) == len - i
ToReadFromLen(len, i) == IF len > MAX_PACKET THEN MAX_PACKET ELSE len

\* toread = len - i; if(toread > MODEM_MAX_PACKET_SIZE) toread = ...;
ToRead(len, i) == IF len - i > MAX_PACKET THEN MAX_PACKET ELSE len - i

\* A closed socket (5 or 6) aborts with -1; else ask for at most
\* MODEM_MAX_PACKET_SIZE bytes with AT^SISR=1,n or AT^SISW=1,n (towrite
\* is computed as toread is).
SocketChunk(here, op, next) ==
    /\ hpc = here
    /\ IF loc.srv \in {5, 6}
         THEN Return(-1) /\ UNCHANGED <<loc, cmd, ret>>
         ELSE LET n == ToRead(loc.len, loc.i)
              IN  /\ loc' = [loc EXCEPT !.chunk = n]
                  /\ SendNoWait(Cmd(op, n), next)
                  /\ UNCHANGED result
    /\ Frame /\ UNCHANGED <<rx, tx, locked, cont, sret>>

ReadChunk == SocketChunk("rd_sisi", "SISR", "rd_wait")
WriteChunk == SocketChunk("wr_sisi", "SISW", "wr_wait")

\* Process lines until ^SISR: 1, (a failure returns -1), then parse the
\* length the modem grants.
ReadWait ==
    /\ hpc = "rd_wait"
    /\ IF Evt = MODEM_SISR_1_EVENT
         THEN LET n == ParseNumber(Head(rx).rest, 0, 65536)
              IN  /\ RecvParsed
                  /\ loc' = [loc EXCEPT !.chunk = n]
                  /\ hpc' = IF n > 0 THEN "rd_data" ELSE "wait_resp"
                  /\ cont' = "rd_after"
                  /\ UNCHANGED result
         ELSE /\ RecvStep
              /\ UNCHANGED <<loc, cont>>
              /\ IF Evt \in {MODEM_CME_ERROR_EVENT, AT_COMMAND_FAILURE_EVENT}
                   THEN Return(-1)
                   ELSE UNCHANGED <<hpc, result>>
    /\ Frame /\ UNCHANGED <<tx, cmd, ret, sret>>

\* at_read(&m_at, &data[i], toread): the payload, read raw.
ReadData ==
    /\ hpc = "rd_data"
    /\ rx # <<>>
    /\ Head(rx).tok = "DATA"
    /\ rx' = Tail(rx)
    /\ hpc' = "wait_resp"
    /\ Frame /\ UNCHANGED <<tx, locked, cmd, ret, cont, sret, loc, result>>

\* at_write: usart_write until all n bytes are in the transmit ring (the
\* ring drains, as UsartRing checks); a -1 would end the loop early.
AtWrite(n) == tx' = Append(tx, Cmd("PAYLOAD", n))

\* Process lines until ^SISW: 1, (a failure returns -1), parse the length
\* the modem accepts, write that many bytes, wait for the response.
WriteWait ==
    /\ hpc = "wr_wait"
    /\ IF Evt = MODEM_SISW_1_EVENT
         THEN LET n == ParseNumber(Head(rx).rest, 0, 65536)
              IN  /\ RecvParsed
                  /\ loc' = [loc EXCEPT !.chunk = n]
                  /\ IF n > 0 THEN AtWrite(n) ELSE UNCHANGED tx
                  /\ hpc' = "wait_resp"
                  /\ cont' = "wr_after"
                  /\ UNCHANGED result
         ELSE /\ RecvStep
              /\ UNCHANGED <<loc, cont, tx>>
              /\ IF Evt \in {MODEM_CME_ERROR_EVENT, AT_COMMAND_FAILURE_EVENT}
                   THEN Return(-1)
                   ELSE UNCHANGED <<hpc, result>>
    /\ Frame /\ UNCHANGED <<cmd, ret, sret>>

\* A failure returns -1; else i += n and the total grows by n.
ChunkDone ==
    /\ hpc \in {"rd_after", "wr_after"}
    /\ IF loc.wres = AT_COMMAND_FAILURE_EVENT
         THEN Return(-1) /\ UNCHANGED loc
         ELSE /\ loc' = [loc EXCEPT !.i = (@ + loc.chunk) % 65536,
                                    !.total = @ + loc.chunk]
              /\ hpc' = IF hpc = "rd_after" THEN "rd_loop" ELSE "wr_loop"
              /\ UNCHANGED result
    /\ Frame /\ UNCHANGED <<rx, tx, locked, cmd, ret, cont, sret>>

-----------------------------------------------------------------------------
(* modem_send_apdu *)

\* Parse the +CSIM response by hand; on the success or failure return
\* (evt ? true : false).
CsimRecv ==
    /\ hpc = "csim_loop"
    /\ IF Evt = MODEM_CSIM_EVENT
         THEN \E p \in {ParseCsim(Head(rx).rest, loc.rlen)} :
                  /\ RecvParsed
                  /\ IF p.fail
                       THEN Return(0) /\ UNCHANGED loc
                       ELSE loc' = [loc EXCEPT !.rlen = p.len]
                            /\ UNCHANGED <<hpc, result>>
         ELSE /\ RecvStep
              /\ UNCHANGED loc
              /\ IF IsFinalEvent(Evt)
                   THEN Return(IF AtEventCode(Evt) # 0 THEN 1 ELSE 0)
                   ELSE UNCHANGED <<hpc, result>>
    /\ Frame /\ UNCHANGED <<tx, cmd, ret, cont, sret>>

-----------------------------------------------------------------------------
(* The application: ConnectShieldNet and ConnectShieldSE forward each     *)
(* call to one modem.c operation, with handle 1.                           *)

LocInit == [op |-> "init", idx |-> 0, wres |-> AT_TIMEOUT_EVENT, c |-> "NUL",
            mode |-> 0, status |-> 0, wire |-> -1, srv |-> 0, i |-> 0,
            len |-> 0, chunk |-> 0, total |-> 0, rlen |-> 0]

\* ConnectShieldNet::down and ::isSocketClosed return false at once,
\* with no call to modem.c.
StubCall(op) ==
    /\ result' = [op |-> op, val |-> 0]
    /\ UNCHANGED <<hpc, cmd, ret, cont, loc>>

\* The constructor of the second adapter (ConnectShieldNet and
\* ConnectShieldSE each call modem_init): first is 0, modem_init returns.
InitAgain == UNCHANGED <<hpc, cmd, ret, cont, loc, result>>

\* modem_close_socket(1): send AT^SISC=1 and wait for its response.
CloseSocket ==
    /\ loc' = [LocInit EXCEPT !.op = "close"]
    /\ SendAtCommand(Cmd("SISC", 0), "app")
    /\ result' = [op |-> "close", val |-> 0]

\* modem_send_apdu: an APDU longer than 256 bytes is rejected before
\* anything is written; else lock and print AT+CSIM=2n,"<hex>".
SendApdu(n) ==
    /\ loc' = [LocInit EXCEPT !.op = "apdu", !.len = n]
    /\ IF n > 256
         THEN result' = [op |-> "apdu", val |-> 0] /\ UNCHANGED <<hpc, cmd, ret, cont>>
         ELSE SendNoWait(Cmd("CSIM", n), "csim_loop") /\ UNCHANGED result

\* The application calls the next operation; after MaxCalls calls it stops,
\* and that is the only state with no next step.
AppCall ==
    /\ hpc = "app"
    /\ calls < MaxCalls
    /\ calls' = calls + 1
    /\ LET Start(op, pc, l) == /\ loc' = [l EXCEPT !.op = op] /\ hpc' = pc
                               /\ UNCHANGED <<cmd, ret, cont, result>>
       IN
       \/ \E u \in UninitChars :    \* uint8_t c; left uninitialised
             Start("bring_up", "creg_poll", [LocInit EXCEPT !.c = u])
       \/ Start("open", "open_cfg", [LocInit EXCEPT !.idx = 1])
       \/ \E n \in 1..MaxLen :
             \/ Start("read", "rd_loop", [LocInit EXCEPT !.len = n])
             \/ Start("write", "wr_loop", [LocInit EXCEPT !.len = n])
       \/ CloseSocket
       \/ \E n \in ApduLens : SendApdu(n)
       \/ \E op \in {"down", "is_closed"} : StubCall(op)
       \/ InitAgain
    /\ UNCHANGED <<rx, tx, mout, echo, sim, reg, sock, avail, await, regChanges,
                   locked, sret>>

Init ==
    /\ ModemInit
    /\ locked = FALSE
    /\ hpc = "init_start"
    /\ cmd = Cmd("AT", 0)
    /\ ret = "app"
    /\ cont = "app"
    /\ sret = "app"
    /\ loc = LocInit
    /\ result = [op |-> "init", val |-> 0]
    /\ calls = 0

HostNext ==
    \/ AtLock \/ AtWaitForResponse
    \/ InitWaitSysstart \/ InitCommands \/ InitCpinLoop \/ InitCpinPin
    \/ InitConfig
    \/ BringUpPoll \/ BringUpRecv
    \/ SisiRecv \/ OpenConfig \/ OpenCheck
    \/ ReadLoop \/ WriteLoop \/ ReadChunk \/ WriteChunk \/ ReadWait \/ ReadData \/ WriteWait \/ ChunkDone
    \/ CsimRecv
    \/ AppCall

\* A step of the modem firmware, of the network or of the peer.
ModemStep == ModemNext /\ UNCHANGED hostVars
EnvStep == EnvNext /\ UNCHANGED hostVars

Next == HostNext \/ ModemStep \/ EnvStep

\* The host thread never stops for good, nor does the modem firmware; the
\* network and the peer owe nothing.
Spec == Init /\ [][Next]_vars /\ WF_vars(HostNext) /\ WF_vars(ModemStep)

-----------------------------------------------------------------------------
(* Properties *)

Chars == Digits \cup {" ", ",", "\"", "\r", "\n", "x", "NUL",
                      "A", "B", "C", "D", "E", "F"}
Toks == DOMAIN T \cup {"BLANK", "ECHO", "REST", "DATA"}
Pcs == {"init_start", "init_cmds", "cpin_loop", "cpin_pin", "init_cfg", "app",
        "lock", "wait_resp", "creg_poll", "creg_loop", "sisi_loop",
        "open_cfg", "open_check", "rd_loop", "rd_sisi", "rd_wait", "rd_data",
        "rd_after", "wr_loop", "wr_sisi", "wr_wait", "wr_after", "csim_loop"}

TypeOK ==
    /\ rx \o mout \in Seq([tok : Toks, rest : Seq(Chars), n : Nat])
    /\ tx \in Seq([name : STRING, arg : Nat])
    /\ echo \in BOOLEAN /\ sim \in {"PIN", "READY"} /\ reg \in RegStates
    /\ sock \in 0..6 /\ avail \in 0..MaxAvail /\ await \in 0..MaxLen
    /\ locked \in BOOLEAN
    /\ hpc \in Pcs /\ ret \in Pcs /\ cont \in Pcs /\ sret \in Pcs
    /\ loc.srv \in 0..255 /\ loc.mode \in 0..255 /\ loc.status \in 0..255
    /\ loc.i \in 0..65535 /\ loc.chunk \in 0..MAX_PACKET
    /\ calls \in 0..MaxCalls

\* The commands the modem has been given and not yet answered with a final
\* OK, ERROR or +CME ERROR the host has read: those still in the serial
\* line, the one being executed, and a ^SISW waiting for its payload.
Outstanding ==
    Len(SelectSeq(tx, LAMBDA m : m.name # "PAYLOAD"))
    + Len(SelectSeq(mout \o rx, IsFinalItem))
    + (IF await > 0 THEN 1 ELSE 0)

\* At most one command in flight (at_lock): the host never writes a
\* command while the final result of an earlier one is still unread, so
\* the OK or ERROR it then reads is the answer to the command it sent,
\* including after modem_bring_up returned false in the middle of a
\* response with the lock held, or a URC arrived while at_lock drained.
AtMostOneCommandInFlight == Outstanding <= 1

\* at_lock drains the stream before it locks (spec 4.3: a new command
\* starts from a stream with no stale unread bytes): when it takes the
\* lock, every line the modem has already sent has been read.
LockDrainsStream ==
    [][ (hpc = "lock" /\ ~locked /\ locked') => rx' = <<>> ]_vars

\* modem_bring_up returns true only when the +CREG line it parsed last in
\* this poll reported <stat> 1 (home) or 5 (roaming).
BringUpReportsRegistration ==
    [][ (hpc = "creg_loop" /\ hpc' = "app" /\ result'.val = 1)
          => loc.wire \in {1, 5} ]_vars

\* modem_read_socket copies each ^SISR payload to &data[i], and
\* modem_write_socket sends each ^SISW grant from &data[i], with
\* i + n <= len: the length the modem grants, which both trust, never
\* runs past the caller's buffer, however the chunks of
\* MODEM_MAX_PACKET_SIZE split it.
ChunkWithinBuffer ==
    (\/ hpc = "rd_data"
     \/ hpc = "wait_resp" /\ cont = "wr_after" /\ loc.chunk > 0)
        => loc.i + loc.chunk <= loc.len

\* modem_send_apdu reports success only when the modem answered OK (a
\* command failure is to return false, spec section 7).
ApduTrueOnlyOnSuccess ==
    [][ (hpc = "csim_loop" /\ hpc' = "app" /\ result'.val = 1)
          => Evt = AT_COMMAND_SUCCESS_EVENT ]_vars

\* modem_init finishes: SYSSTART is seen, every command is answered, the
\* PIN dialogue leaves its loop, and the application gets control.
InitCompletes == <>(hpc = "app")

=============================================================================
