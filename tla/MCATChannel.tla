----------------------------- MODULE MCATChannel -----------------------------
(* Small instances of ATChannel for TLC.                                    *)
EXTENDS ATChannel

\* Texts of the callers and reports of the modem; a text's prefix is that of
\* its own reports, as extractCommandPrefix has it.
MCText == {"AT", "AT+CREG?", "AT+CMGS=20", "AT+CMGS=21", "ATD1"}
MCPrefix == {"+CREG", "+CMGS", "NO CARRIER"}
MCPrefixOf == [t \in MCText |-> CASE t = "AT+CREG?" -> "+CREG"
                                  [] t \in {"AT+CMGS=20", "AT+CMGS=21"} -> "+CMGS"
                                  [] OTHER -> "none"]
MCURCPrefix == {"+CREG", "NO CARRIER"}
MCDial == {"ATD1"}

\* A query, two messages, a dial and a probe.
QueryText == [c \in Command |->
                CASE c = "q" -> "AT+CREG?" [] c = "s" -> "AT+CMGS=20"
                  [] c = "s2" -> "AT+CMGS=21"
                  [] c = "d" -> "ATD1" [] OTHER -> "AT"]
\* Probes, all with the same text.
ProbeText == [c \in Command |-> "AT"]
=============================================================================
