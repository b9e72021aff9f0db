--------------------------- MODULE MCStateManager ---------------------------
(***************************************************************************)
(* Small instances of StateManager for TLC.                                *)
(***************************************************************************)
EXTENDS StateManager, TLC

CONSTANTS a1, a2, w1, w2, d1, d2, d3, c1, c2, r1, i1, i2, i3, i4

\* One customer sends w1 (of which the queue has one copy, d1, or two, d1 and
\* d2) and w2.
OneCustomer == [w \in Wamids |-> a1]
SecondCopy == [d \in Deliveries |-> IF d = d3 THEN w2 ELSE w1]
OneConversationOwner == [c \in Conversations |-> a1]
RepliesInFirst == [r \in Replies |-> c1]

\* Two customers, a1 with w1 and c1, a2 with w2 and c2.
TwoCustomers == [w \in Wamids |-> IF w = w1 THEN a1 ELSE a2]
TwoOwners == [c \in Conversations |-> IF c = c1 THEN a1 ELSE a2]

IdSymmetry == Permutations(MappingIds)
=============================================================================
