--------------------------- MODULE MCConversation ---------------------------
(* Small instances of Conversation: pages, requests and texts are alike.   *)
EXTENDS Conversation, TLC

Symmetry == Permutations(Calls) \cup Permutations(Tabs) \cup Permutations(Texts)
=============================================================================
