--------------------------- MODULE MCChatRecords ---------------------------
(***************************************************************************)
(* ChatManager with one socket and one HTTP request over two               *)
(* conversations: what is recorded, saved, lost by a restart and loaded    *)
(* again, while messages and escalations alternate.                        *)
(***************************************************************************)
EXTENDS ChatManager

CONSTANTS s1, u1, c1, c2

MCSockets == {s1}
MCConvOf == [ws \in MCSockets |-> c1]
MCUserOf == [ws \in MCSockets |-> u1]

=============================================================================
