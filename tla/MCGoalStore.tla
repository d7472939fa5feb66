---------------------------- MODULE MCGoalStore ----------------------------
\* Two turns of one session over a ledger of two goals.
EXTENDS GoalStore, TLC

MCSessionOf == [t \in Turns |-> CHOOSE s \in Sessions : TRUE]
Symmetric == Permutations(Goals) \cup Permutations(Evidence) \cup Permutations(Turns)
=============================================================================
