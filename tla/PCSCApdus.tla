----------------------------- MODULE PCSCApdus -----------------------------
(* The APDUs a caller passes to PCSCAccess::transmitApdu in the checked    *)
(* models: [cla, ins, p1p2, p3, len] with p3 = apdu[4] when len >= 5.     *)

\* SELECT (case 4, Lc = 2) on channel 1; READ BINARY (case 2, Le = 256) on
\* channel 3; GET DATA of the proprietary class on channel 2 (case 2,
\* Le = 10); VERIFY (case 3, Lc = 4) on channel 0.
MCCommands ==
    {[cla |-> 1, ins |-> 164, p1p2 |-> 1024, p3 |-> 2, len |-> 7],
     [cla |-> 3, ins |-> 176, p1p2 |-> 0, p3 |-> 0, len |-> 5],
     [cla |-> 130, ins |-> 202, p1p2 |-> 0, p3 |-> 10, len |-> 5],
     [cla |-> 0, ins |-> 32, p1p2 |-> 1, p3 |-> 4, len |-> 9]}
MCDataIns == {164, 176, 202}

\* GET CHALLENGE (00 84 00 00) passed as 4 bytes, without its Le.
ShortLeCommands == {[cla |-> 0, ins |-> 132, p1p2 |-> 0, p3 |-> 0, len |-> 4]}
ShortLeDataIns == {132}

\* SELECT (case 4) on logical channel 5, CLA 0x41 of the further
\* interindustry class.
FurtherChannelCommands == {[cla |-> 65, ins |-> 164, p1p2 |-> 1024, p3 |-> 2, len |-> 7]}
====
