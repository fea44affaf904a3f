----------------------------- MODULE SerialFifo -----------------------------
(***************************************************************************)
(* What the interrupt-fed USART driver promises the engine above it: two  *)
(* bounded first-in first-out channels.  Bytes arriving from the line are  *)
(* numbered in arrival order; one is kept when the receiver is on and the  *)
(* receive queue has room, and is otherwise lost.  The reader takes kept   *)
(* bytes in order.  The writer queues bytes while the transmitter is on    *)
(* and the queue has room, and the line sends them in order.  Nothing is   *)
(* duplicated, reordered or invented; closing may discard what is queued, *)
(* and switching off the newest byte.                                      *)
(***************************************************************************)
EXTENDS Naturals, Sequences

CONSTANTS
    Cap,      \* bytes each queue holds
    MaxIn,    \* bytes that arrive from the line
    MaxOut    \* bytes the writer offers

VARIABLES
    on,        \* receiver and transmitter enabled
    arrived,   \* bytes that have arrived from the line so far
    rxq,       \* bytes kept and not yet taken by the reader
    got,       \* bytes the reader has taken, in order
    accepted,  \* bytes the writer has queued so far
    txq,       \* bytes queued and not yet sent
    sent       \* bytes put on the line, in order

vars == <<on, arrived, rxq, got, accepted, txq, sent>>

Init ==
    /\ on = FALSE
    /\ arrived = 0 /\ rxq = <<>> /\ got = <<>>
    /\ accepted = 0 /\ txq = <<>> /\ sent = <<>>

\* Byte arrived + 1 comes in: kept if on and there is room, else lost.
Receive ==
    /\ arrived < MaxIn
    /\ arrived' = arrived + 1
    /\ rxq' = IF on /\ Len(rxq) < Cap THEN Append(rxq, arrived + 1) ELSE rxq
    /\ UNCHANGED <<on, got, accepted, txq, sent>>

Deliver ==
    /\ rxq # <<>>
    /\ got' = Append(got, Head(rxq))
    /\ rxq' = Tail(rxq)
    /\ UNCHANGED <<on, arrived, accepted, txq, sent>>

Accept ==
    /\ on /\ Len(txq) < Cap /\ accepted < MaxOut
    /\ accepted' = accepted + 1
    /\ txq' = Append(txq, accepted + 1)
    /\ UNCHANGED <<on, arrived, rxq, got, sent>>

Transmit ==
    /\ txq # <<>>
    /\ sent' = Append(sent, Head(txq))
    /\ txq' = Tail(txq)
    /\ UNCHANGED <<on, arrived, rxq, got, accepted>>

\* Closing the channel throws away what is queued in one direction.
DiscardRx ==
    /\ rxq' = <<>>
    /\ UNCHANGED <<on, arrived, got, accepted, txq, sent>>

DiscardTx ==
    /\ txq' = <<>>
    /\ UNCHANGED <<on, arrived, rxq, got, accepted, sent>>

\* Opening the channel starts both directions empty.
Restart ==
    /\ ~on /\ on' = TRUE /\ rxq' = <<>> /\ txq' = <<>>
    /\ UNCHANGED <<arrived, got, accepted, sent>>

\* Switching the channel on or off; switching it off may lose the byte
\* that came in last.
Switch ==
    /\ on' = ~on
    /\ rxq' \in IF on THEN {rxq, SubSeq(rxq, 1, Len(rxq) - 1)} ELSE {rxq}
    /\ UNCHANGED <<arrived, got, accepted, txq, sent>>

Next ==
    \/ Receive \/ Deliver \/ Accept \/ Transmit
    \/ DiscardRx \/ DiscardTx \/ Restart \/ Switch

Safety == Init /\ [][Next]_vars

\* A queued byte is eventually sent.
TxLive == WF_vars(Transmit)

=============================================================================
