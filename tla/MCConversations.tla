-------------------------- MODULE MCConversations --------------------------
(* Conversations with named messages and agents.                           *)
EXTENDS Conversations

CONSTANTS a, b, m1, m2
=============================================================================
