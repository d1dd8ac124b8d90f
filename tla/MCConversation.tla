--------------------------- MODULE MCConversation ---------------------------
(* Conversation on small sets of messages and conversations. *)
EXTENDS Conversation, TLC

\* Messages, conversations and flows are interchangeable.
Symmetry == Permutations(Msgs) \cup Permutations(Convs) \cup Permutations(Flows)
=============================================================================
