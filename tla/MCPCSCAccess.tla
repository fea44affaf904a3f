---------------------------- MODULE MCPCSCAccess ----------------------------
(* open, transmitApdu and close with the commands of PCSCApdus.            *)
EXTENDS PCSCAccess, PCSCApdus
====
