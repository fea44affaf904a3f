------------------------------ MODULE UsartRing ------------------------------
(***************************************************************************)
(* usart.c: the driver of the USART the modem is on.  Its receive and      *)
(* transmit rings are shared by the application thread, which calls one   *)
(* driver operation at a time, and USART_IRQHandler, which preempts the   *)
(* thread between any two of its memory accesses and runs to completion.  *)
(* A step of the thread is one access to shared state; a step of the     *)
(* interrupt is one whole handler run.  Bytes are numbered in the order   *)
(* they arrive from the line (or are offered by the writer), so a lost,   *)
(* repeated, reordered or stale byte shows in the histories got and sent. *)
(***************************************************************************)
EXTENDS Naturals, Sequences

CONSTANTS
    Size,        \* rx.size and tx.size passed to usart_init
    MaxIn,       \* bytes that arrive from the line
    MaxOut,      \* bytes the application writes
    Ops,         \* the driver operations the application calls
    Handles,     \* the handles it passes
    Lens         \* the len it passes to usart_read and usart_write

ASSUME Size >= 2 /\ Ops \subseteq {"open", "read", "write", "flush", "baud", "close"}

NUM_USART == 4   \* sizeof(m_usart) / sizeof(usart_t)
MODEM == 1       \* the handle of the USART modelled here
GARBAGE == 0     \* a slot malloc has not had written

VARIABLES
    rxHead, rxTail, rxData, rxBuf,  \* usart->rx; rxBuf: "none", "live", "freed"
    txHead, txTail, txData, txBuf,  \* usart->tx
    ue, txeie,       \* CR1.UE and CR1.TXEIE
    rdr,             \* the byte in RDR while RXNE is set, else 0
    arrived, got,    \* bytes arrived from the line; bytes returned by usart_read
    accepted, sent,  \* bytes stored by usart_write; bytes written to TDR
    hpc, loc,        \* the application thread: where it is, its locals
    openArrived, openGot   \* arrived and Len(got) at the last usart_open

rx == <<rxHead, rxTail, rxData, rxBuf>>
tx == <<txHead, txTail, txData, txBuf>>
marks == <<openArrived, openGot>>
vars == <<rx, tx, ue, txeie, rdr, arrived, got, accepted, sent, hpc, loc, marks>>

Slots == 0..(Size - 1)

\* usart_get_by_handle: the index of the m_usart entry returned, 0 for NULL.
UsartGetByHandle(h) == IF h # 0 /\ h <= NUM_USART THEN h ELSE 0

\* The bytes from tail up to head, oldest first.
RingSeq(data, tail, head) ==
    [k \in 1..((head - tail + Size) % Size) |-> data[(tail + k - 1) % Size]]

-----------------------------------------------------------------------------
(* USART_IRQHandler *)

\* RxPart without the overflow test: the byte is stored whatever the room.
RxPartNoFullCheck ==
    IF rdr = 0 THEN UNCHANGED <<rdr, rxHead, rxData>>
    ELSE /\ rxData' = [rxData EXCEPT ![rxHead] = rdr]
         /\ rxHead' = (rxHead + 1) % Size
         /\ rdr' = 0

\* RXNE: unless head + 1 would reach tail, store RDR and advance head;
\* reading RDR clears RXNE.  On a full ring the branch is empty: RDR is
\* not read and RXNE stays set.
RxPart ==
    LET head == (rxHead + 1) % Size
    IN  IF rdr # 0 /\ head # rxTail
          THEN /\ rxData' = [rxData EXCEPT ![rxHead] = rdr]
               /\ rxHead' = head
               /\ rdr' = 0
          ELSE UNCHANGED <<rdr, rxHead, rxData>>

\* TxPart clearing TXEIE after every byte, not only on an empty ring.
TxPartClearsAlways(txe) ==
    IF ~(txe /\ txeie) THEN UNCHANGED <<sent, txTail, txeie>>
    ELSE IF txTail # txHead
      THEN /\ sent' = Append(sent, txData[txTail])
           /\ txTail' = (txTail + 1) % Size
           /\ txeie' = FALSE
      ELSE txeie' = FALSE /\ UNCHANGED <<sent, txTail>>

\* TXE with TXEIE: send the byte at tail, or, on an empty ring, disable the
\* interrupt.
TxPart(txe) ==
    IF ~(txe /\ txeie) THEN UNCHANGED <<sent, txTail, txeie>>
    ELSE IF txTail # txHead
      THEN /\ sent' = Append(sent, txData[txTail])
           /\ txTail' = (txTail + 1) % Size
           /\ UNCHANGED txeie
      ELSE txeie' = FALSE /\ UNCHANGED <<sent, txTail>>

\* The interrupt is pending while UE is set and RXNE is set, or TXE is set
\* (txe) with TXEIE.  A run of the handler with RXNE set on a full ring
\* changes nothing, and the interrupt is pending again at once.
USART_IRQHandler(txe) ==
    /\ ue
    /\ rdr # 0 \/ (txe /\ txeie)
    /\ RxPart
    /\ TxPart(txe)
    /\ UNCHANGED <<rxTail, rxBuf, txHead, txData, txBuf, ue, arrived, got, accepted, hpc, loc, marks>>

\* A received byte is pending: the handler preempts the thread.
RxPending == ue /\ rdr # 0

\* A pending handler that cannot take the byte: the ring is full.
RxStuck == RxPending /\ (rxHead + 1) % Size = rxTail

\* Byte arrived + 1 comes in from the line.  With UE clear it is never
\* received; else it lands in RDR and sets RXNE.  The handler empties RDR
\* long before the next byte's frame ends unless it cannot (RxStuck); a
\* byte that comes while RDR is still full is lost (overrun).
LineByte ==
    /\ arrived < MaxIn
    /\ RxPending => RxStuck
    /\ arrived' = arrived + 1
    /\ rdr' = IF ue /\ rdr = 0 THEN arrived + 1 ELSE rdr
    /\ UNCHANGED <<rx, tx, ue, txeie, got, accepted, sent, hpc, loc, marks>>

-----------------------------------------------------------------------------
(* The application thread *)

Idle == [op |-> "none", h |-> 0, len |-> 0, i |-> 0, slot |-> 0, next |-> 0]

Init ==
    /\ rxHead = 0 /\ rxTail = 0 /\ rxData = [s \in Slots |-> GARBAGE]
    /\ txHead = 0 /\ txTail = 0 /\ txData = [s \in Slots |-> GARBAGE]
    /\ rxBuf = "none" /\ txBuf = "none"
    /\ ue = FALSE /\ txeie = FALSE /\ rdr = 0
    /\ arrived = 0 /\ got = <<>> /\ accepted = 0 /\ sent = <<>>
    /\ hpc = "idle" /\ loc = Idle
    /\ openArrived = 0 /\ openGot = 0

\* The application calls an operation on handle h; NULL (and the slot past
\* m_usart, whose contents the model does not know) returns at once.  It
\* opens only a closed USART, closes and changes the rate only of an open
\* one (usart_change_baudrate sets UE whatever the state), and has MaxOut
\* bytes to write.
Call ==
    /\ hpc = "idle"
    /\ \E op \in Ops, h \in Handles, n \in Lens :
         /\ op = "open" => rxBuf # "live"
         /\ op \in {"close", "baud"} => rxBuf = "live"
         /\ op = "write" => accepted + n <= MaxOut
         /\ loc' = [Idle EXCEPT !.op = op, !.h = h, !.len = n]
         /\ hpc' = IF UsartGetByHandle(h) = MODEM THEN op ELSE "idle"
    /\ UNCHANGED <<rx, tx, ue, txeie, arrived, rdr, got, accepted, sent, marks>>

\* usart_open without resetting rx.head and rx.tail.
OpenNoRxReset ==
    /\ hpc = "open"
    /\ txHead' = 0 /\ txTail' = 0
    /\ rxBuf' = "live" /\ txBuf' = "live"
    /\ ue' = TRUE
    /\ openArrived' = arrived /\ openGot' = Len(got)
    /\ hpc' = "idle"
    /\ UNCHANGED <<rxHead, rxTail, rxData, txData, txeie, arrived, rdr, got, accepted, sent, loc>>

\* usart_open: empty both rings, allocate their buffers (malloc may hand
\* back the block freed by the last usart_close, contents and all), set UE.
\* Nothing else runs meanwhile: UE is clear until the last line.
Open ==
    /\ hpc = "open"
    /\ rxHead' = 0 /\ rxTail' = 0 /\ txHead' = 0 /\ txTail' = 0
    /\ rxBuf' = "live" /\ txBuf' = "live"
    /\ ue' = TRUE
    /\ openArrived' = arrived /\ openGot' = Len(got)
    /\ hpc' = "idle"
    /\ UNCHANGED <<rxData, txData, txeie, arrived, rdr, got, accepted, sent, loc>>

\* usart_read: -1 while UE is clear; else copy bytes until len or empty.
ReadStart ==
    /\ hpc = "read"
    /\ hpc' = IF ue THEN "rd_loop" ELSE "idle"
    /\ UNCHANGED <<rx, tx, ue, txeie, arrived, rdr, got, accepted, sent, loc, marks>>

\* if(tail == head) break; data[i] = rx.data[tail];  (returns i; the echo
\* to USART_DBG is another USART's ring)
ReadLoop ==
    /\ hpc = "rd_loop"
    /\ IF loc.i < loc.len /\ rxTail # rxHead
         THEN loc' = [loc EXCEPT !.slot = rxData[rxTail]] /\ hpc' = "rd_adv"
         ELSE hpc' = "idle" /\ UNCHANGED loc
    /\ UNCHANGED <<rx, tx, ue, txeie, arrived, rdr, got, accepted, sent, marks>>

\* ReadAdvance without the wrap-around of tail.
ReadAdvanceNoWrap ==
    /\ hpc = "rd_adv"
    /\ rxTail' = rxTail + 1
    /\ got' = Append(got, loc.slot)
    /\ loc' = [loc EXCEPT !.i = @ + 1]
    /\ hpc' = "rd_loop"
    /\ UNCHANGED <<rxHead, rxData, rxBuf, tx, ue, txeie, arrived, rdr, accepted, sent, marks>>

\* tail = (tail + 1) % size; i++: the byte now belongs to the caller.
ReadAdvance ==
    /\ hpc = "rd_adv"
    /\ rxTail' = (rxTail + 1) % Size
    /\ got' = Append(got, loc.slot)
    /\ loc' = [loc EXCEPT !.i = @ + 1]
    /\ hpc' = "rd_loop"
    /\ UNCHANGED <<rxHead, rxData, rxBuf, tx, ue, txeie, arrived, rdr, accepted, sent, marks>>

\* usart_write: -1 while UE is clear; else store bytes until len or full.
WriteStart ==
    /\ hpc = "write"
    /\ hpc' = IF ue THEN "wr_loop" ELSE "idle"
    /\ UNCHANGED <<rx, tx, ue, txeie, arrived, rdr, got, accepted, sent, loc, marks>>

\* head = (tx.head + 1) % size; if(head == tail) break;
\* tx.data[tx.head] = data[i];
WriteLoop ==
    /\ hpc = "wr_loop"
    /\ LET head == (txHead + 1) % Size
       IN  IF loc.i < loc.len /\ head # txTail
             THEN /\ txData' = [txData EXCEPT ![txHead] = accepted + 1]
                  /\ loc' = [loc EXCEPT !.next = head]
                  /\ hpc' = "wr_head"
             ELSE hpc' = "wr_txe" /\ UNCHANGED <<txData, loc>>
    /\ UNCHANGED <<rx, txHead, txTail, txBuf, ue, txeie, arrived, rdr, got, accepted, sent, marks>>

\* tx.head = head; i++
WriteHead ==
    /\ hpc = "wr_head"
    /\ txHead' = loc.next
    /\ accepted' = accepted + 1
    /\ loc' = [loc EXCEPT !.i = @ + 1]
    /\ hpc' = "wr_loop"
    /\ UNCHANGED <<rx, txTail, txData, txBuf, ue, txeie, arrived, rdr, got, sent, marks>>

\* WriteTxe with if(i == len) for if(i).
WriteTxeOnlyWhenComplete ==
    /\ hpc = "wr_txe"
    /\ txeie' = (txeie \/ loc.i = loc.len)
    /\ hpc' = "idle"
    /\ UNCHANGED <<rx, tx, ue, arrived, rdr, got, accepted, sent, loc, marks>>

\* if(i) CR1 |= TXEIE; return i.
WriteTxe ==
    /\ hpc = "wr_txe"
    /\ txeie' = (txeie \/ loc.i > 0)
    /\ hpc' = "idle"
    /\ UNCHANGED <<rx, tx, ue, arrived, rdr, got, accepted, sent, loc, marks>>

\* usart_flush: do {} while(tx.head != tx.tail); the loop ends once the
\* interrupt has sent the last byte.
FlushSpin ==
    /\ hpc = "flush"
    /\ txTail = txHead
    /\ hpc' = "idle"
    /\ UNCHANGED <<rx, tx, ue, txeie, arrived, rdr, got, accepted, sent, loc, marks>>

\* usart_change_baudrate to a new rate: CR1 &= ~UE, BRR = ..., CR1 |= UE;
\* the same rate changes nothing.  Clearing UE resets the ISR flags, RXNE
\* among them.
BaudOff ==
    /\ hpc = "baud"
    /\ \/ ue' = FALSE /\ rdr' = 0 /\ hpc' = "baud_on"
       \/ hpc' = "idle" /\ UNCHANGED <<ue, rdr>>
    /\ UNCHANGED <<rx, tx, txeie, arrived, got, accepted, sent, loc, marks>>

BaudOn ==
    /\ hpc = "baud_on"
    /\ ue' = TRUE
    /\ hpc' = "idle"
    /\ UNCHANGED <<rx, tx, txeie, arrived, rdr, got, accepted, sent, loc, marks>>

\* usart_close, one statement group per step: rx.head = rx.tail = 0;
\* free(rx.data); tx.head = tx.tail = 0; free(tx.data); CR1 &= ~UE.
\* The interrupt stays enabled until the last of them.
CloseRx ==
    /\ hpc = "close"
    /\ rxHead' = 0 /\ rxTail' = 0
    /\ hpc' = "cl_rxfree"
    /\ UNCHANGED <<rxData, rxBuf, tx, ue, txeie, arrived, rdr, got, accepted, sent, loc, marks>>

CloseRxFree ==
    /\ hpc = "cl_rxfree"
    /\ rxBuf' = "freed"
    /\ hpc' = "cl_tx"
    /\ UNCHANGED <<rxHead, rxTail, rxData, tx, ue, txeie, arrived, rdr, got, accepted, sent, loc, marks>>

CloseTx ==
    /\ hpc = "cl_tx"
    /\ txHead' = 0 /\ txTail' = 0
    /\ hpc' = "cl_txfree"
    /\ UNCHANGED <<rx, txData, txBuf, ue, txeie, arrived, rdr, got, accepted, sent, loc, marks>>

CloseTxFree ==
    /\ hpc = "cl_txfree"
    /\ txBuf' = "freed"
    /\ hpc' = "cl_ue"
    /\ UNCHANGED <<rx, txHead, txTail, txData, ue, txeie, arrived, rdr, got, accepted, sent, loc, marks>>

CloseUe ==
    /\ hpc = "cl_ue"
    /\ ue' = FALSE /\ rdr' = 0
    /\ hpc' = "idle"
    /\ UNCHANGED <<rx, tx, txeie, arrived, got, accepted, sent, loc, marks>>

-----------------------------------------------------------------------------

\* Every step of the thread but the choice of the next call.
ThreadStep ==
    \/ Open \/ ReadStart \/ ReadLoop \/ ReadAdvance
    \/ WriteStart \/ WriteLoop \/ WriteHead \/ WriteTxe
    \/ FlushSpin \/ BaudOff \/ BaudOn
    \/ CloseRx \/ CloseRxFree \/ CloseTx \/ CloseTxFree \/ CloseUe

\* The thread runs only while no received byte is pending: the code never
\* masks the interrupt, and the handler preempts it at once.
Thread == ~RxPending /\ (Call \/ ThreadStep)

Next ==
    \/ Thread
    \/ \E txe \in BOOLEAN : USART_IRQHandler(txe)
    \/ LineByte

\* The thread, once in a driver call, keeps running.  The transmitter sets
\* TXE again one frame after each write to TDR, and a pending interrupt is
\* taken as soon as UE and TXEIE allow it, so one enabled again and again
\* is taken (strong fairness: usart_change_baudrate may clear UE in between).
\* Received bytes and the application's calls owe nothing.
Spec ==
    /\ Init /\ [][Next]_vars
    /\ WF_vars(~RxPending /\ ThreadStep)
    /\ SF_vars(USART_IRQHandler(TRUE))

-----------------------------------------------------------------------------
(* Properties *)

TypeOK ==
    /\ {rxHead, rxTail, txHead, txTail} \subseteq Slots
    /\ rxData \in [Slots -> 0..MaxIn] /\ txData \in [Slots -> 0..MaxOut]
    /\ {rxBuf, txBuf} \subseteq {"none", "live", "freed"}
    /\ ue \in BOOLEAN /\ txeie \in BOOLEAN /\ rdr \in 0..MaxIn
    /\ arrived \in 0..MaxIn /\ accepted \in 0..MaxOut
    /\ got \in Seq(0..MaxIn) /\ sent \in Seq(0..MaxOut)

\* The rings seen as the two queues of SerialFifo: what lies between tail
\* and head, and on the receive side the byte waiting in RDR; the receiver
\* and transmitter are on while UE is set.
Fifo == INSTANCE SerialFifo WITH
    Cap <- Size,
    on <- ue,
    rxq <- RingSeq(rxData, rxTail, rxHead) \o (IF rdr # 0 THEN <<rdr>> ELSE <<>>),
    txq <- RingSeq(txData, txTail, txHead)

\* The driver is a pair of bounded FIFOs (SerialFifo): usart_read returns
\* the bytes of the line in order, without repeats or stale slots, losing
\* one only while UE is clear, when UE is cleared with a byte in RDR, or
\* when size - 1 bytes wait in the ring and another in RDR; the
\* interrupt puts on the line exactly the bytes usart_write stored, in
\* order.  This is what the interrupt and the thread interleaving on the
\* shared head and tail indices must preserve.
FifoSafety == Fifo!Safety

\* Every byte usart_write stored is eventually sent: TXEIE is never left
\* clear with bytes in the ring, whatever the interrupt did between the
\* stores and the enabling of TXEIE.  The one exception is a receive ring
\* that fills before usart_write has set TXEIE: the thread never runs
\* again to set it (RxStuck, which CallsReturn is about).
FifoTxLive == <>RxStuck \/ Fifo!TxLive

\* usart_flush returns: the interrupt drains the transmit ring and the
\* loop sees tx.tail reach tx.head, unless the receive ring has filled
\* meanwhile and the handler, leaving RXNE set, runs for ever (RxStuck,
\* which CallsReturn is about).
FlushReturns == hpc = "flush" ~> (hpc = "idle" \/ RxStuck)

\* Every driver call returns to the application.  usart_read is the only
\* way bytes leave the receive ring, so a ring that fills while no call
\* is taking bytes must not keep the interrupt pending for ever.
CallsReturn == hpc # "idle" ~> hpc = "idle"

\* After usart_open, usart_read returns only bytes that arrived after it:
\* nothing received before or during the last usart_close, and no slot
\* of a reused buffer, reaches the reader of the new session.
NoStaleAfterReopen ==
    \A k \in (openGot + 1)..Len(got) : got[k] > openArrived

\* The interrupt stores a received byte only into a buffer that is still
\* allocated, also while usart_close runs.
IsrUsesLiveBuffers ==
    [][ rxData' # rxData => rxBuf = "live" ]_vars

====
