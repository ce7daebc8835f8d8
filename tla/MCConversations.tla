---------------------------- MODULE MCConversations ----------------------------
EXTENDS Conversations, TLC

CONSTANTS a1, a2, s1, s2, s3

MCAttachments == {a1, a2}

MCSlots == {s1, s2, s3}

Symmetry == Permutations(MCAttachments) \cup Permutations(MCSlots)

===============================================================================
