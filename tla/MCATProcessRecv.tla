--------------------------- MODULE MCATProcessRecv ---------------------------
(***************************************************************************)
(* The lines the modem of ModemSession sends, spelled byte by byte, for   *)
(* checking at_process_recv and the token abstraction of ATParser.         *)
(***************************************************************************)
EXTENDS ATProcessRecv

\* ASCII 32 to 126; a character's code is its index here plus 31 (the
\* grave accent, which no line uses, is spelled "GRAVE").
Printable ==
    << " ", "!", "\"", "#", "$", "%", "&", "'", "(", ")", "*", "+", ",",
       "-", ".", "/", "0", "1", "2", "3", "4", "5", "6", "7", "8", "9",
       ":", ";", "<", "=", ">", "?", "@", "A", "B", "C", "D", "E", "F",
       "G", "H", "I", "J", "K", "L", "M", "N", "O", "P", "Q", "R", "S",
       "T", "U", "V", "W", "X", "Y", "Z", "[", "\\", "]", "^", "_", "GRAVE",
       "a", "b", "c", "d", "e", "f", "g", "h", "i", "j", "k", "l", "m",
       "n", "o", "p", "q", "r", "s", "t", "u", "v", "w", "x", "y", "z",
       "{", "|", "}", "~" >>
Ord(ch) ==
    IF ch = "\r" THEN 13
    ELSE IF ch = "\n" THEN 10
    ELSE 31 + CHOOSE i \in 1..Len(Printable) : Printable[i] = ch

Bytes(chars) == [i \in 1..Len(chars) |-> Ord(chars[i])]

Dig(d) == Printable[17 + d]

CRLF == <<"\r", "\n">>

\* A line given as characters, its token and the bytes a matching call
\* consumes.
L(tok, chars, used) == [tok |-> tok, bytes |-> Bytes(chars), used |-> used]

CREG  == <<"+", "C", "R", "E", "G", ":">>
SISI  == <<"^", "S", "I", "S", "I", ":", " ">>
SISR  == <<"^", "S", "I", "S", "R", ":", " ", "1", ",">>
SISW  == <<"^", "S", "I", "S", "W", ":", " ", "1", ",">>
Words == <<" ", "o", "p", "e", "r", "a", "t", "i", "o", "n", " ", "n", "o",
           "t", " ", "a", "l", "l", "o", "w", "e", "d">>

FixedLines == {
    L("OK", <<"O", "K">> \o CRLF, 4),
    L("ERROR", <<"E", "R", "R", "O", "R">> \o CRLF, 7),
    L("SYSLOADING", <<"^", "S", "Y", "S", "L", "O", "A", "D", "I", "N", "G">>
                    \o CRLF, 13),
    L("SYSSTART", <<"^", "S", "Y", "S", "S", "T", "A", "R", "T">> \o CRLF, 11),
    L("CME", <<"+", "C", "M", "E", " ", "E", "R", "R", "O", "R", ":">>
             \o Words \o CRLF, 11),
    L("CPIN_READY", <<"+", "C", "P", "I", "N", ":", " ", "R", "E", "A", "D",
                      "Y">> \o CRLF, 14),
    L("CPIN_SIM_PIN", <<"+", "C", "P", "I", "N", ":", " ", "S", "I", "M",
                        " ", "P", "I", "N">> \o CRLF, 16),
    L("CSIM", <<"+", "C", "S", "I", "M", ":", " ", "4", ",", "\"", "9",
                "0", "0", "0", "\"">> \o CRLF, 6),
    L("CSIM", <<"+", "C", "S", "I", "M", ":", " ", "6", ",", "\"", "6",
                "A", "8", "2", "1", "F", "\"">> \o CRLF, 6),
    L("BLANK", CRLF, 1),
    L("ECHO", <<"A", "T", "\r">> \o CRLF, 5),
    L("ECHO", <<"A", "T", "E", "0", "\r">> \o CRLF, 7),
    L("REST", Words \o CRLF, 1),
    L("REST", Tail(Words) \o CRLF, 23),
    L("CGREG", <<"+", "C", "G", "R", "E", "G", ":", " ", "0", ",", "1">>
               \o CRLF, 7),
    L("NODATA", <<>>, 0) }

ParamLines ==
       { L("CREG", CREG \o <<" ", Dig(n), ",", Dig(s)>> \o CRLF, 6) :
            n \in 0..2, s \in 0..5 }
    \cup { L("CREG", CREG \o <<" ", Dig(s)>> \o CRLF, 6) : s \in 0..5 }
    \cup { L("REST", <<Dig(s)>> \o CRLF, 3) : s \in 0..5 }
    \cup { L("SISI1", SISI \o <<"1", ",", Dig(s), ",", "0", ",", "0">>
                      \o CRLF, 9) : s \in 0..6 }
    \cup { L("SISI_OTHER", SISI \o <<Dig(p), ",", Dig(s), ",", "0", ",", "0">>
                      \o CRLF, 15) : p \in {0, 2, 9}, s \in {2, 4, 6} }
    \cup { L("SISR1", SISR \o <<Dig(m)>> \o CRLF, 9) : m \in 0..9 }
    \cup { L("SISR1", SISR \o <<"1", "5", "0", "0">> \o CRLF, 9) }
    \cup { L("SISW1", SISW \o <<Dig(k), ",", "0">> \o CRLF, 9) : k \in 0..9 }

MCLines == FixedLines \cup ParamLines

\* A specific table that binds the hash of "OK\r\n" (0x7c89a236) to another
\* event and that of "+CGREG:" (0x934465b2) to an event of its own.
MCSpecificTable ==
    << [hash |-> <<31881, 41526>>, evt |-> "SPECIFIC_OK"],
       [hash |-> <<37700, 26034>>, evt |-> "CGREG"] >>

MCSpecificTokens == [t \in {"CGREG"} |-> "CGREG"]

=============================================================================
