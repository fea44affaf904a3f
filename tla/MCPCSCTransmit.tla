--------------------------- MODULE MCPCSCTransmit ---------------------------
(* transmitApdu alone, for the runs that look at one command.              *)
EXTENDS PCSCTransmit, PCSCApdus
====
