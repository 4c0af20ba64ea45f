--------------------------- MODULE MCConversations ---------------------------
(* Small instances of Conversations: two requests, a few messages.           *)
EXTENDS Conversations
=============================================================================
