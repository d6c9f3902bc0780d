---------------------------- MODULE MCSlotEngine ----------------------------
EXTENDS SlotEngine, TLC

CONSTANTS r1, r2, r3, r4, a, b

Only(f) == [r \in Requests |-> f[r]]

\* Two conversations: the first turn of each, then a user turn and tool results.
MCConv == Only(r1 :> a @@ r2 :> b @@ r3 :> a @@ r4 :> b)
MCTurn == Only(r1 :> 1 @@ r2 :> 1 @@ r3 :> 2 @@ r4 :> 1)
MCKind == Only(r1 :> "cold" @@ r2 :> "cold" @@ r3 :> "user" @@ r4 :> "tool")
MCGrant == Only(r1 :> 1 @@ r2 :> 2 @@ r3 :> 2 @@ r4 :> 1)
MCSlots == {0, 1}

\* The tool results fit no budget.
HugeLast == Only(r1 :> 1 @@ r2 :> 1 @@ r3 :> 1 @@ r4 :> 9)

\* Unrelated requests of one slot; the second fits no budget.
OneSlot == {0}
FreshKind == [r \in Requests |-> "cold"]
FreshTurn == [r \in Requests |-> 1]
HugeSecond == Only(r1 :> 1 @@ r2 :> 9 @@ r3 :> 1 @@ r4 :> 1)
=============================================================================
