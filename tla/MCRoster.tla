------------------------------ MODULE MCRoster ------------------------------
(* Small rosters for TLC: which executors there are, and what they take.    *)
EXTENDS Roster, TLC

CONSTANTS a, b

BothRoles == [e \in Executors |-> Roles]
OneSlot == [e \in Executors |-> 1]

\* a keeps a slot for reasoning, b has one slot for either role.
TwoAndOne == a :> 2 @@ b :> 1
OneCoderEach == [e \in Executors |-> 1]

\* b is preferred for reasoning only.
Ranks == a :> ("coder" :> 0 @@ "reviewer" :> 1) @@ b :> ("coder" :> 0 @@ "reviewer" :> 0)

Symmetry == Permutations(Contexts)
=============================================================================
