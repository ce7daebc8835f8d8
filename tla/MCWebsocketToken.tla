---------------------------- MODULE MCWebsocketToken ----------------------------
EXTENDS WebsocketToken, TLC

CONSTANTS f1, f2, u1, u2, c1, c2, r1, k1, k2

MCFlows == {f1, f2}
MCSubjects == {u1, u2}
MCCallbacks == {c1, c2}
MCRequests == {r1}
MCConversations == {k1, k2}

Symmetry == Permutations(MCFlows) \cup Permutations(MCSubjects) \cup Permutations(MCCallbacks)
              \cup Permutations(MCConversations)

===============================================================================
