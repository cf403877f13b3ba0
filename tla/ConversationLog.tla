-------------------------- MODULE ConversationLog --------------------------
(***************************************************************************)
(* What the chat service promises the readers of a conversation's history: *)
(* a log per conversation.  A message is accepted at the end, and its row  *)
(* may or may not reach the table; a read of a conversation of which the   *)
(* process holds nothing recalls the newest of its rows, never others in   *)
(* their place; a restart keeps the rows and nothing else.                 *)
(*                                                                         *)
(* ChatManager implements this specification.                              *)
(***************************************************************************)
EXTENDS Naturals, Sequences

CONSTANT Convs  \* conversation ids

VARIABLES
    messageHistory,  \* messageHistory[c]: what a reader of c is shown
    chatMessages,    \* chatMessages[c]: the rows of c
    lastMessage      \* messages are numbered as they are accepted, ever

logVars == <<messageHistory, chatMessages, lastMessage>>

Init ==
    /\ messageHistory = [c \in Convs |-> <<>>]
    /\ chatMessages = [c \in Convs |-> <<>>]
    /\ lastMessage = 0

Accept(c) ==
    /\ lastMessage' = lastMessage + 1
    /\ messageHistory' = [messageHistory EXCEPT ![c] = Append(@, lastMessage')]
    /\ \/ chatMessages' = [chatMessages EXCEPT ![c] = Append(@, lastMessage')]
       \/ UNCHANGED chatMessages

Recall(c) ==
    /\ messageHistory[c] = <<>>
    /\ \E first \in DOMAIN chatMessages[c] :
          messageHistory' = [messageHistory EXCEPT ![c] =
              SubSeq(chatMessages[c], first, Len(chatMessages[c]))]
    /\ UNCHANGED <<chatMessages, lastMessage>>

Restart ==
    /\ messageHistory' = [c \in Convs |-> <<>>]
    /\ UNCHANGED <<chatMessages, lastMessage>>

Next == Restart \/ \E c \in Convs : Accept(c) \/ Recall(c)

Spec == Init /\ [][Next]_logVars

-----------------------------------------------------------------------------

\* Messages up to the latest one, each after the one before it.
InOrder(s, latest) ==
    /\ \A i \in DOMAIN s : s[i] \in 1..latest
    /\ \A i, j \in DOMAIN s : i < j => s[i] < s[j]

\* Nobody is ever shown a message twice or out of order, although what is shown
\* comes from memory and from the table, and goes on from one when it began
\* with the other (get_message_history).
MessagesInOrder == \A c \in Convs : InOrder(messageHistory[c], lastMessage)
=============================================================================
