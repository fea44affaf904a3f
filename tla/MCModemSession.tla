--------------------------- MODULE MCModemSession ---------------------------
EXTENDS ModemSession

\* The SIM answers 90 00 to every APDU.
MCCardResponses == {<<"9", "0", "0", "0">>}

=============================================================================
