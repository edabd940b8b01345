-------------------------- MODULE ConversationLog --------------------------
(***************************************************************************)
(* What the conversations of DatabaseManager promise: each has a log of    *)
(* messages that only grows at its end, and a message is in one log, once. *)
(***************************************************************************)
EXTENDS Naturals, Sequences

CONSTANTS Conversations, Messages

VARIABLE log  \* log[c]: the messages of conversation c, oldest first

Init == log = [c \in Conversations |-> <<>>]

Stored(m) == \E c \in Conversations : \E i \in DOMAIN log[c] : log[c][i] = m

\* A message becomes the last one of a conversation
Add(c, m) == /\ ~Stored(m)
             /\ log' = [log EXCEPT ![c] = Append(@, m)]

Next == \E c \in Conversations, m \in Messages : Add(c, m)

Spec == Init /\ [][Next]_log
=============================================================================
