----------------------------- MODULE PCSCAccess -----------------------------
(***************************************************************************)
(* PCSCAccess (pcsc/src/PCSCAccess.cpp): open, transmitApdu and close of  *)
(* the card-reader backend, one caller.  open makes the PC/SC calls one   *)
(* after the other and returns false at the first that fails, keeping     *)
(* what the earlier ones acquired; close makes its three calls whatever   *)
(* each returns.  The caller transmits only after open returned true and  *)
(* calls close after every open; transmitApdu is PCSCTransmit.            *)
(***************************************************************************)
EXTENDS Naturals

CONSTANTS Commands, DataIns, Avail, CardErrors, MaxDepth,
          MaxOpens    \* calls of open the caller makes

VARIABLES
    pc, orig, apdu, apduLen, oob, depth, response, result,
    want, pending, pendCh, cardErr,
    ses,       \* "closed", "opening", "open" (open returned true), "failed"
    opc,       \* the PC/SC call open makes next
    ctx,       \* hContext holds an established context
    conn,      \* hCard is connected
    txn,       \* a transaction is begun on hCard
    lists,     \* reader lists SCardListReaders allocated and not freed
    tables,    \* readers[] tables calloc'd and not freed
    opens      \* calls of open so far

T == INSTANCE PCSCTransmit

tvars == <<pc, orig, apdu, apduLen, oob, depth, response, result,
           want, pending, pendCh, cardErr>>
svars == <<ses, opc, ctx, conn, txn, lists, tables, opens>>
vars == <<tvars, svars>>

Init ==
    /\ T!Init
    /\ ses = "closed" /\ opc = "establish"
    /\ ctx = FALSE /\ conn = FALSE /\ txn = FALSE
    /\ lists = 0 /\ tables = 0 /\ opens = 0

\* One PC/SC call of open: on success go on to step next with the changes
\* ok; on failure return false with nothing undone.
OpenCall(step, next, ok) ==
    /\ ses = "opening" /\ opc = step
    /\ \/ ok /\ opc' = next
          /\ ses' = IF next = "done" THEN "open" ELSE "opening"
       \/ ses' = "failed" /\ UNCHANGED <<opc, ctx, conn, txn, lists, tables>>
    /\ UNCHANGED <<tvars, opens>>

\* The caller calls open on a closed session.
Open ==
    /\ ses = "closed" /\ opens < MaxOpens
    /\ ses' = "opening" /\ opc' = "establish" /\ opens' = opens + 1
    /\ UNCHANGED <<tvars, ctx, conn, txn, lists, tables>>

\* SCardEstablishContext.
OpenEstablish ==
    OpenCall("establish", "list", ctx' = TRUE /\ UNCHANGED <<conn, txn, lists, tables>>)

\* SCardListReaders with SCARD_AUTOALLOCATE; count the readers.  The
\* library reports no reader as an error, so the count is never 0.
OpenList ==
    OpenCall("list", "alloc", lists' = lists + 1 /\ UNCHANGED <<ctx, conn, txn, tables>>)

\* calloc the readers table and fill it.
OpenAlloc ==
    OpenCall("alloc", "connect", tables' = tables + 1 /\ UNCHANGED <<ctx, conn, txn, lists>>)

\* SCardConnect to the first reader, then SCardFreeMemory and free.
OpenConnect ==
    OpenCall("connect", "status",
             /\ conn' = TRUE /\ lists' = lists - 1 /\ tables' = tables - 1
             /\ UNCHANGED <<ctx, txn>>)

\* SCardStatus (its results printed before rv is tested).
OpenStatus ==
    OpenCall("status", "begin", UNCHANGED <<ctx, conn, txn, lists, tables>>)

\* SCardBeginTransaction, ignoring what it returns.
OpenBeginIgnoresRv ==
    /\ ses = "opening" /\ opc = "begin"
    /\ \/ txn' = TRUE \/ UNCHANGED txn
    /\ opc' = "done" /\ ses' = "open"
    /\ UNCHANGED <<tvars, opens, ctx, conn, lists, tables>>

\* SCardBeginTransaction; open returns true.
OpenBegin ==
    OpenCall("begin", "done", txn' = TRUE /\ UNCHANGED <<ctx, conn, lists, tables>>)

\* The caller's transmitApdu on an open session.
Transmit ==
    \/ ses = "open" /\ T!Call /\ UNCHANGED svars
    \/ T!TransmitApdu /\ UNCHANGED svars

\* close: SCardEndTransaction, SCardDisconnect, SCardReleaseContext, each
\* made whatever the one before returned (an error is printed).  The first
\* fails when no transaction was begun.
Close ==
    /\ ses \in {"open", "failed"} /\ pc # "call"
    /\ txn' = FALSE /\ conn' = FALSE /\ ctx' = FALSE
    /\ ses' = "closed"
    /\ UNCHANGED <<tvars, opc, lists, tables, opens>>

Next ==
    \/ Open \/ OpenEstablish \/ OpenList \/ OpenAlloc \/ OpenConnect
    \/ OpenStatus \/ OpenBegin \/ Transmit \/ Close

\* The caller waits inside transmitApdu, which never blocks but in
\* SCardTransmit, and the card always answers.
Spec == Init /\ [][Next]_vars /\ WF_vars(T!TransmitApdu /\ UNCHANGED svars)

-----------------------------------------------------------------------------
(* Properties *)

TypeOK ==
    /\ T!TypeOK
    /\ ses \in {"closed", "opening", "open", "failed"}
    /\ {ctx, conn, txn} \subseteq BOOLEAN
    /\ lists \in 0..MaxOpens /\ tables \in 0..MaxOpens /\ opens \in 0..MaxOpens

\* Every SCardTransmit is made on a connected card inside the transaction
\* open began: open returns true only once all of its calls succeeded.
TransmitInTransaction == pc = "call" => ctx /\ conn /\ txn

\* The transmitApdu properties hold for a caller that opens and closes.
RecursionBounded == T!RecursionBounded
ImplementsApduExchange == T!ImplementsApduExchange

====
