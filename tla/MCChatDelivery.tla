--------------------------- MODULE MCChatDelivery ---------------------------
(***************************************************************************)
(* ChatManager with three sockets of two users in one conversation, two    *)
(* delivery loops at once: enough for a loop to be overtaken by another,   *)
(* and to lose and gain list elements behind and ahead of its iterator.    *)
(* Only events are sent: a message adds nothing to what a loop does.       *)
(***************************************************************************)
EXTENDS ChatManager

CONSTANTS s1, s2, s3, u1, u2, c1

MCSockets == {s1, s2, s3}
MCConvOf == [ws \in MCSockets |-> c1]
MCUserOf == [ws \in MCSockets |-> IF ws = s3 THEN u2 ELSE u1]

=============================================================================
