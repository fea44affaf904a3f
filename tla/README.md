# TLA+ models of the Connect Shield modem stack

This directory holds TLA+ models of the Twilio Wireless Trust Onboard
Connect Shield stack under
`src/external_libs/gemalto/platform/connect_shield/`. It also holds the
TLC configurations that check those models.

## The system and its parts

| Part | Source | What it does |
|---|---|---|
| USART driver | `src/stm32l476rg/usart.c` | Keeps rx and tx ring buffers that the interrupt handler `USART_IRQHandler` shares with `usart_read` and `usart_write`. |
| Event engine | `src/at_parser.c`, `inc/at_parser.h` | `at_process_recv` reads bytes one at a time. It hashes each token with djb2 up to a boundary (`\n > , :`) and looks the hash up in a generic and a specific table. A match on a success or failure event unlocks the engine. `at_lock` waits for the unlock, drains the stream until a call times out, and takes the lock. `at_wait_for_response` processes lines until a success or a failure. |
| Modem session | `src/modem.c` | `modem_init`, `modem_bring_up`, `modem_open_tcp_socket`, `modem_read_socket`, `modem_write_socket`, `modem_close_socket` and `modem_send_apdu`. Each sends AT commands through the engine and parses the rest of a matched line by hand with `at_read`. |
| Adapters | `ConnectShield_Net.cpp`, `ConnectShield_SE.cpp` | Each method forwards to one `modem.c` operation, except `down` and `isSocketClosed`, which return false. Each adapter's constructor calls `modem_init`, which runs only once (its static `first` flag). |
| PC/SC backend | `pcsc/src/PCSCAccess.cpp` | The Linux path to the SIM. `open` establishes a context, connects to the first reader and begins a transaction. `transmitApdu` re-issues an APDU on status 6Cxx and fetches more data on 61xx. `close` ends all three. |
| Power key | `pwm.c` | Hardware registers only. |

The host is a single thread. The modem, the cellular network and the TCP
peer run concurrently with it. The only channel between them is the
serial line. On the host, `USART_IRQHandler` preempts the thread between
any two of its memory accesses, and shares the rings with it.

## Modules

- **`ATParser`** models the engine at the granularity of lines.
  - A line is an item `[tok, rest, n]`. `tok` is the token its bytes hash to at their first matching boundary. `rest` is the characters after that boundary.
  - `RecvEvent` and `RecvRest` are one `at_process_recv` call.
  - `LockedAfter` is the `at_unlock` it may perform.
- **`ModemEvents`** holds the event codes and `m_modem_generic_table`. The table appears twice: with the 32-bit hashes of the source, and at token level.
- **`ATProcessRecv`** (with `MCATProcessRecv`) models `at_process_recv` byte by byte.
  - It covers the djb2 step on a `uint32_t`, kept as two 16-bit halves so that wrap-around is exact.
  - It covers the skip of a leading blank, the boundaries, and the generic-then-specific table search.
  - It covers the effects of a match on the lock, the specific table and the async callback slot.
  - The caller installs a specific table or a callback between calls.
  - The lines checked are those the modem of `ModemDevice` sends, spelled out byte by byte. The run shows that the token abstraction of `ATParser` is sound.
- **`ModemDevice`** is the environment, not code of this repository. It answers each command the way the modem's AT manual describes.
  - It uses verbose mode, so every line is preceded by `\r\n`.
  - It echoes commands until `ATE0`.
  - It returns `+CPIN: SIM PIN` or `READY`, `+CREG: <n>,<stat>`, `^SISI`, `^SISR`, `^SISW` with granted lengths, `+CSIM`, and `+CME ERROR`.
  - The network changes the registration and emits `+CREG: <stat>` URCs. These changes are bounded by `MaxRegChanges`.
  - The peer sends bytes, bounded by `MaxAvail`.
- **`ModemSession`** models `modem.c` on the engine, driven by an application that calls the adapters' operations.
  - `hpc` is the host's program counter.
  - A host step is one `at_process_recv` call, together with the manual `at_read` parse that follows it in the code, or one command write.
  - The hand-written parsers of `modem.c` are the operators `FindDigit`, `TakeDigits`, `FindHex`, `HexPairs`, `ParseCreg`, `ParseNumber` and `ParseCsim`. They work over the characters of a line, including the value the `uint8_t c` holds before the first read, and keep each field's integer width.
  - `AtLock`, `AtWaitForResponse`, `SendAtCommand` and `SendNoWait` are the engine and the two send macros.
  - There is one action for each loop of each operation. `modem_read_socket` and `modem_write_socket` have the same loop and chunking, so `SocketLoop` and `SocketChunk` are shared between `ReadLoop`/`WriteLoop` and `ReadChunk`/`WriteChunk`. `AtWrite` is `at_write` putting a granted payload on the line. `CloseSocket` and `SendApdu` are the starts of `modem_close_socket` and `modem_send_apdu`.
  - `AppCall` is the application calling an adapter method. `StubCall` is `down` or `isSocketClosed`, and `InitAgain` is the second adapter's constructor, whose `modem_init` returns at once.
- **`MCModemSession`** gives the card's responses.
- **`UsartRing`** models `usart.c` for the modem's USART.
  - The state is the two rings (`rxHead`, `rxTail`, `rxData`, and the same for tx), whether each buffer is allocated, live or freed, and the `UE` and `TXEIE` bits of `CR1`.
  - A thread step is one access to shared state: `ReadLoop` copies a slot and `ReadAdvance` publishes the tail, `WriteLoop` stores a slot and `WriteHead` publishes the head, and `usart_close` is five steps. `hpc` and `loc` are the thread's program counter and locals.
  - `rdr` is the byte in `RDR` while `RXNE` is set (0 when it is clear). `LineByte` is a byte from the line: it is lost while `UE` is clear, and otherwise lands in `RDR`. A byte that comes while `RDR` is still full is lost (overrun); the model lets that happen only when the handler cannot empty `RDR` (`RxStuck`), since otherwise the handler runs long before the next frame ends.
  - `USART_IRQHandler(txe)` is one whole handler run, with the receive half `RxPart` and the transmit half `TxPart`. On a full ring `RxPart` leaves `RDR` unread, as `usart.c:50-52` does, so `RXNE` stays set and the run changes nothing.
  - `Thread` is the application thread, which runs only while no received byte is pending (`RxPending`): the code never masks the interrupt, so a pending handler preempts it at once. Clearing `UE` (`CloseUe`, `BaudOff`) resets `RXNE`.
  - Bytes are numbered: in the order they arrive from the line, or in the order the writer offers them. `got` and `sent` record what `usart_read` returned and what went to `TDR`, so any loss, repeat, reordering or stale slot shows in them.
  - `Call` is the application. It opens only a closed USART and closes or re-rates only an open one.
- **`SerialFifo`** is the abstract specification of the driver: two bounded FIFOs. Its receive queue holds `Cap` bytes (the ring's `size - 1` and `RDR`). A byte is lost only when the queue is full or the channel is off. Closing may discard what is queued, switching off may drop the newest byte, and opening starts empty. `UsartRing` implements it through `Fifo == INSTANCE SerialFifo WITH ...`. The mapping reads each queue as the ring from tail to head (the receive queue followed by `RDR` while `RXNE` is set), `Cap` as `Size`, and `on` as `UE`.
- **`PCSCTransmit`** models `transmitApdu` against a T=0 card (`CardAnswers`).
  - An APDU is its header bytes, plus the `apduLen` of the current invocation.
  - One `TransmitApdu` step is one invocation: `SCardTransmit`, then a return or a rewrite of the caller's buffer (`ResendWithLe` on 6Cxx, `GetResponse` on 61xx), then the recursive call.
  - The card follows ISO 7816-3:
    - a 4-byte APDU goes out with P3 = 00;
    - a wrong Le draws 6Cxx;
    - a case-4 command draws 61xx;
    - GET RESPONSE returns the pending data only on the channel that holds it.
  - The card may reject any command (6A82), and `SCardTransmit` may fail.
- **`ApduExchange`** is the abstract specification of the card-reader backend's `transmitApdu`, as spec section 4.5 describes it: one call is one exchange that returns. A true return carries either all the card's data with 9000, or the error word of a card that failed the command, never a 61xx or 6Cxx. `PCSCTransmit` implements it through `SE == INSTANCE ApduExchange WITH ...`. The mapping shows the caller `result` and `response` only once the outermost invocation has returned, so the recursion is invisible to the abstract spec. The modem backend (`modem_send_apdu`) does not implement it: it hands 61xx and 6Cxx back to its caller (spec section 4.4).
- **`PCSCAccess`** composes `open`, `close` and a caller with `PCSCTransmit`, which it instantiates as `T`.
  - `OpenCall` is one PC/SC call of `open` together with its early `return false`.
  - `lists` and `tables` count the reader lists and tables that are allocated and not yet freed.
- **`PCSCApdus`** holds the APDUs the PC/SC runs pass. `MCPCSCTransmit` and `MCPCSCAccess` are the model modules for the PC/SC runs.

`PROJECT.json` maps every definition to the lines it models.

## Runs

| Run | Config | Expect | Shows |
|---|---|---|---|
| `dispatch` | `MCATProcessRecv.cfg` | pass | Every modem line yields the event of its token and stops where `modem.c` starts its manual parse, whichever specific table is installed. This holds because no earlier boundary of a line collides with a table entry and the generic table is searched first. |
| `session` | `MCModemSession.cfg` | pass | See the list below. |
| `init_liveness` | `MCModemInit.cfg` | pass | `modem_init` always returns, whether the SIM boots locked or ready, with URCs arriving at any line boundary. |
| `bringup_uninit` | `MCBringUpUninit.cfg` | violation | With `c` uninitialised and holding a digit, `modem_bring_up` returns true while the network reports `<stat>` 2. |
| `apdu_error` | `MCApduError.cfg` | violation | `modem_send_apdu` returns true when the modem answers `+CME ERROR`. |
| `lock_stale` | `MCLockStale.cfg` | violation | `at_lock` takes the lock with a `+CREG` URC still unread. |
| `usart_fifo` | `MCUsart.cfg` | pass | The interrupt preempts every driver operation at every shared access, and the rings and `RDR` still implement `SerialFifo` (`FifoSafety`). Every byte `usart_write` stored is sent (`FifoTxLive`), and `usart_flush` returns (`FlushReturns`), unless the receive side has locked up (`RxStuck`, the subject of `usart_rx_overrun`). After a reopen, the reader gets only bytes that arrived after `usart_open` (`NoStaleAfterReopen`). |
| `usart_close_race` | `MCUsartCloseRace.cfg` | violation | A byte received between `free(rx.data)` and the clearing of `UE` in `usart_close` is stored into the freed buffer. |
| `usart_rx_overrun` | `MCUsartRxOverrun.cfg` | violation | When the receive ring fills before `usart_read` takes a byte, the handler re-enters for ever and no driver call returns (`CallsReturn`). |
| `pcsc_transmit` | `MCPCSCAccess.cfg` | pass | Any PC/SC call of `open` may fail, and still every `SCardTransmit` is inside a begun transaction. `transmitApdu` calls itself at most once. Every call returns, and its result refines `ApduExchange` (`ImplementsApduExchange`): all the card's data with 9000, or the card's own error word. |
| `pcsc_short_le` | `MCPCSCShortLe.cfg` | violation | A case-2 command passed as 4 bytes draws 6Cxx, and `apdu[4]` is written past the caller's buffer. |
| `pcsc_channel` | `MCPCSCChannel.cfg` | violation | After 61xx on logical channel 5, GET RESPONSE goes to channel 1. |

The `session` run checks two application calls made after `modem_init`:
- at most one command is ever unanswered (`AtMostOneCommandInFlight`);
- no `^SISR` or `^SISW` grant runs past the caller's buffer, which `at_read` fills and `at_write` sends from (`ChunkWithinBuffer`);
- a successful bring-up saw `<stat>` 1 or 5 on its last `+CREG` line (`BringUpReportsRegistration`).

### What the violations mean

- **`bringup_uninit`:** `modem.c:146` tests `c` before any read. When `c` happens to hold a digit, the mode loop consumes it and `<n>` is read as the status.
- **`apdu_error`:** `modem.c:432` returns `evt ? true : false`, and the failure event 0x84 is non-zero.
- **`usart_close_race`:** `usart.c:198` frees `rx.data` while `UE` and `RXNEIE` are still set, and `UE` is cleared only at line 204. A byte received in between makes the handler write `rx.data[rx.head]` into freed memory. If `usart_open` then takes the same block back, its `head = tail = 0` reset is what keeps the byte from the reader (`NoStaleAfterReopen` holds).
- **`usart_rx_overrun`:** on a full ring `usart.c:50-52` takes the empty `/* Buffer overflow */` branch without reading `RDR`. `RXNE` stays set, so the interrupt is taken again the moment it returns, and the thread (including the `usart_read` that would make room) never runs again. In the trace, `usart_read` is called and three bytes arrive before its first step. Reading `RDR` in the else branch would drop the byte and let the firmware go on.
- **`pcsc_short_le`:** `PCSCAccess.cpp:183` stores into `apdu[4]` whatever `apduLen` is. It also resends with the same `apduLen` (4). The card therefore sees the same command again and answers 6Cxx again, and the trace repeats to the depth bound. The recursion never ends.
- **`pcsc_channel`:** `PCSCAccess.cpp:188` builds the GET RESPONSE class as `apdu[0] & 0x03`. That keeps the channel only for channels 0 to 3 (ISO 7816-4 5.4.1).
- **`lock_stale`:** this is the spec's §4.3 claim against `at_parser.c:65-67`.
  - A leading `\r` sets `read = 0; continue`, which leaves the loop, so `at_process_recv` returns `AT_TIMEOUT_EVENT`.
  - `at_lock` therefore stops its drain at the start of every verbose-mode line.
  - The URC is then read inside the next command's response.
  - The `session` run shows that the lock still keeps one command in flight, so this divergence is harmless to pairing. What breaks is the "no stale bytes" promise.

Every property of a passing run has a mutant in `PROJECT.json`: a plausible slip in the mapped code, which TLC catches. The slips are:
- dropping the cap on `toread`, or computing the chunk from `len`;
- `if` for `while` in `at_lock`;
- the two `+CREG` fields swapped;
- a missing `evt = AT_COMMAND_SUCCESS_EVENT` after the PIN;
- djb2 without 32-bit wrap-around;
- searching the specific table first;
- in the USART, the receive half without its overflow test, a read without the tail wrap, TXEIE set only when a write stored all of `len`, the interrupt clearing TXEIE after every byte, and `usart_open` without the rx reset;
- in PC/SC, GET RESPONSE that keeps the old P3, keeps `apduLen` or appends the Le byte, and `open` ignoring `SCardBeginTransaction`'s result.

## Bounds

The session runs use these bounds:
- the application makes `MaxCalls = 2` calls;
- reads and writes have `len` of 1..3 with `MAX_PACKET = 2`, so a call needs two chunks;
- the modem holds at most 2 unread socket bytes, and grants no more than that;
- the network makes at most 2 registration changes between states 1 and 2;
- URCs are emitted only while at most 3 lines are queued;
- `apdu_len` is 5, or 257, which is rejected;
- the card answers `9000`.

These bounds are enough for the following cases to happen:
- a URC lands before, inside and after every response;
- a read takes more than one chunk;
- a grant is smaller than the request;
- a `+CREG` URC is parsed as a poll answer;
- the SIM boots locked.

`MCBringUpUninit` widens the uninitialised `c` to `{"NUL", "7"}`.

The USART runs use these bounds:
- rings of `Size = 3` (two usable slots);
- 3 bytes from the line and 3 written;
- reads and writes of 1 or 3 bytes, so a call meets both an empty ring and a full one;
- handles 0 (NULL) and 1.

These bounds are enough for:
- a ring that fills with a byte waiting in `RDR` (the lock-up), and an overrun behind it;
- a wrap of every index;
- the interrupt between every pair of thread accesses;
- a close racing a receive, followed by a reopen.

The PC/SC run uses these bounds:
- two sessions;
- four commands covering every APDU case, on channels 0 to 3 and in the basic and proprietary classes;
- card data of 10 or 256 bytes, so both P3 = 00 for 256 and a wrong Le occur;
- `MaxDepth = 4`, which the run shows is never approached.

## Fairness

The spec has weak fairness on the host thread and on the modem firmware:
- the host thread never blocks except in the loops modelled;
- the firmware always answers the command it has read.

The network and the peer get no fairness. They may stay silent forever.
In `UsartRing`:
- the thread has weak fairness once it is inside a driver call and no received byte is pending;
- the TX interrupt has strong fairness, because the hardware sets TXE one frame after each write to `TDR`, and a pending interrupt is taken as soon as `UE` and `TXEIE` allow.

It must be strong fairness because `usart_change_baudrate` can clear `UE` in between. Received bytes and the application owe nothing.

The USART configs set `CHECK_DEADLOCK FALSE`:
- `usart_flush`'s busy-wait is modelled as a step that is disabled until tail equals head, so a stuck flush is a terminal state, and `FlushReturns` reports it;
- the receive lock-up is a state in which only the handler runs, changing nothing; `CallsReturn` reports it;
- the application may stop calling.

`PCSCAccess` and `PCSCTransmit` have weak fairness on `TransmitApdu`. The caller is blocked inside `transmitApdu`, which waits only in `SCardTransmit`, and the reader always answers or fails. This fairness is what makes `ImplementsApduExchange` (whose abstract spec has weak fairness on `Return`) say that every call returns. The caller itself owes nothing: it stops after two sessions, hence `CHECK_DEADLOCK FALSE`.

Liveness (`InitCompletes`) is checked with no application calls. ENABLED
over the hand-written parsers makes the full configuration too slow for
TLC. Every session config sets `CHECK_DEADLOCK FALSE` because the
application stops after `MaxCalls`, and that is the only terminal state.

## Abstractions

- `\r\n` before a line is one `BLANK` item. `at_process_recv` consumes it in one call, which returns a timeout.
- A line arrives at the host whole. Bytes within a line are not interleaved with anything, because one modem writes the stream in order.
- A payload is a `DATA` item, since its bytes are never parsed.
- Commands are records `[name, arg]`. The printing of `at_print` is not modelled.
- After a match, the remainder of a line that nobody parses is a `REST` item. Its later calls time out, as `ATProcessRecv` checks.

## Not modelled

- **Parts of the USART driver:**
  - the GPIO, RCC and NVIC writes of `usart_init`;
  - the echo to `USART_DBG`, which is another USART's ring;
  - the handle off-by-one at `usart.c:81`, a single comparison recorded as a hazard;
  - `usart_change_baudrate` setting `UE` on a closed USART (`usart.c:372`), which the application of the model never does;
  - a build that keeps the non-volatile `tx.tail` in a register in `usart_flush`: whether one does depends on the compiler and flags, which the repository does not fix, so the model reloads it at every test, as the source reads;
  - the overrun flag `ORE`, which also raises the interrupt and which the handler never clears: it is set only behind a full ring, where the handler already re-enters for ever.
- **The reader-list memory that a failed PC/SC `open` leaks.** It is counted in `PCSCAccess`, but no property claims it. `close` makes its three calls whatever each returns, in one step, so nothing is checked of it beyond its assignments.
- **`UsartRing` composed under `ModemSession`.** The session treats the line as a reliable FIFO of lines. `UsartRing` shows that the driver is such a FIFO until its receive ring fills, where the firmware stops.
- **A closed transport.** `usart_read` returns `-1` once `UE` is clear. `at_process_recv` treats that like an empty ring, and `at_read` and `at_write` return `len` anyway, so every wait loop would spin. Spec section 7 says the operation aborts instead. Nothing in this repository closes the modem's UART while the session runs, so the session model has no closed transport.
- **The AWS IoT sample** (`src/samples/linux/aws`). `main` is a straight sequence of SDK calls with early returns, then a publish loop whose exit depends only on the SDK's return codes.
  - `publishCount` is 0 and never set, so the counting branch is dead.
  - `disconnectCallbackHandler`'s manual reconnect is unreachable, because `aws_iot_mqtt_yield`, which calls it, runs only after auto-reconnect is enabled.
  - Its hazard, `intHandler` closing the modem from a signal handler, lives in `CinterionModem`, which is not in this repository.
  - The SDK is not in this repository either.
- **The PWM power key** (`pwm.c`). It is register writes only, with no state the software reads back.
- **`at_wait_for_timeout`, `at_wait_for_notification` and `at_wait_for_event`.** Nothing in this repository calls them. The same holds for the async callback slot that `at_set_async_cb` installs.
- **`PCSCAccess::lock` and `unlock`.** They return true and change nothing.
- **Timeouts and a lossy line.** The code has no timeout, so any lost line hangs the host.
- **`pwm.c` and the AWS sample.** These are hardware and an application of the external SDK.

## Plan

1. An abstract "one command, one answer" specification of the engine, with `ModemSession` refined to it through INSTANCE ... WITH. `AtMostOneCommandInFlight` states the core of it as an invariant today. The PC/SC side already has its refinement (`ApduExchange`).
2. Liveness of every operation under fairness of the modem. We tried this on a reduced instance: `MaxCalls` 2, one `SISR` length, and only write, close and the APDU call. Safety checking of that instance finishes in 1 s with 53,120 states. With weak fairness on the host steps inside `modem.c`, TLC explores only about 1,000 distinct states per minute, because ENABLED is evaluated over the parsers. The check needs a host model whose parsing is precomputed per line before it can run.
3. The USART with the overflow branch reading `RDR` (the fix of `usart_rx_overrun`), checked against `SerialFifo` and `CallsReturn`, and a fault model for the session in which the bytes it drops reach `ModemSession` as a torn line.
