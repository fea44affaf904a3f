----------------------------- MODULE ModemEvents -----------------------------
(***************************************************************************)
(* The events and the dispatch table m_modem_generic_table of modem.c.    *)
(* The table is given twice: at token level, as used by ModemSession, and  *)
(* at byte level, as the (hash, event) pairs the engine compares djb2      *)
(* values against, as used by ATProcessRecv.  A 32-bit hash is the pair    *)
(* <<high 16 bits, low 16 bits>> so that TLC's integers never overflow.    *)
(***************************************************************************)
EXTENDS ATParser

MODEM_SYSLOADING_EVENT   == "SYSLOADING"
MODEM_SYSSTART_EVENT     == "SYSSTART"
MODEM_CME_ERROR_EVENT    == "CME_ERROR"
MODEM_CPIN_READY_EVENT   == "CPIN_READY"
MODEM_CPIN_SIM_PIN_EVENT == "CPIN_SIM_PIN"
MODEM_CREG_EVENT         == "CREG"
MODEM_SISI_1_EVENT       == "SISI_1"
MODEM_SISR_1_EVENT       == "SISR_1"
MODEM_SISW_1_EVENT       == "SISW_1"
MODEM_CSIM_EVENT         == "CSIM"

\* m_modem_generic_table in source order.  "+CME ERROR:" is bound to
\* AT_COMMAND_FAILURE_EVENT (MODEM_CME_ERROR_EVENT is commented out there).
m_modem_generic_table ==
    << [hash |-> <<\h7c89, \ha236>>, evt |-> AT_COMMAND_SUCCESS_EVENT],
       [hash |-> <<\h8871, \h8ac6>>, evt |-> AT_COMMAND_FAILURE_EVENT],
       [hash |-> <<\hca2f, \h91d7>>, evt |-> MODEM_SYSLOADING_EVENT],
       [hash |-> <<\h0956, \h5007>>, evt |-> MODEM_SYSSTART_EVENT],
       [hash |-> <<\h5e22, \h4a29>>, evt |-> AT_COMMAND_FAILURE_EVENT],
       [hash |-> <<\h8f0a, \hd8e0>>, evt |-> MODEM_CPIN_READY_EVENT],
       [hash |-> <<\he9e8, \ha4fb>>, evt |-> MODEM_CPIN_SIM_PIN_EVENT],
       [hash |-> <<\h7117, \h678b>>, evt |-> MODEM_CREG_EVENT],
       [hash |-> <<\h0b66, \he692>>, evt |-> MODEM_SISI_1_EVENT],
       [hash |-> <<\h0c09, \hc31b>>, evt |-> MODEM_SISR_1_EVENT],
       [hash |-> <<\h0c64, \h3da0>>, evt |-> MODEM_SISW_1_EVENT],
       [hash |-> <<\h7118, \h05b6>>, evt |-> MODEM_CSIM_EVENT] >>

\* The same table at token level: the line each entry is written for
\* (its comment in modem.c) named by a token.
ModemTokenTable ==
    [ t \in {"OK", "ERROR", "SYSLOADING", "SYSSTART", "CME", "CPIN_READY",
             "CPIN_SIM_PIN", "CREG", "SISI1", "SISR1", "SISW1", "CSIM"} |->
        CASE t = "OK"           -> AT_COMMAND_SUCCESS_EVENT
          [] t = "ERROR"        -> AT_COMMAND_FAILURE_EVENT
          [] t = "SYSLOADING"   -> MODEM_SYSLOADING_EVENT
          [] t = "SYSSTART"     -> MODEM_SYSSTART_EVENT
          [] t = "CME"          -> AT_COMMAND_FAILURE_EVENT
          [] t = "CPIN_READY"   -> MODEM_CPIN_READY_EVENT
          [] t = "CPIN_SIM_PIN" -> MODEM_CPIN_SIM_PIN_EVENT
          [] t = "CREG"         -> MODEM_CREG_EVENT
          [] t = "SISI1"        -> MODEM_SISI_1_EVENT
          [] t = "SISR1"        -> MODEM_SISR_1_EVENT
          [] t = "SISW1"        -> MODEM_SISW_1_EVENT
          [] t = "CSIM"         -> MODEM_CSIM_EVENT ]

=============================================================================
