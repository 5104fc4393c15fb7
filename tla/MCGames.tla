------------------------------ MODULE MCGames --------------------------------
(***************************************************************************)
(* Small instances of Games: two items that pay 2 and 3 chips for one.     *)
(***************************************************************************)
EXTENDS Games, TLC

CONSTANTS apple, mango

TwoItems == {apple, mango}
OneItem == {apple}
Multipliers == [k \in {apple, mango} |-> IF k = apple THEN 2 ELSE 3]
OneMultiplier == [k \in {apple} |-> 2]

Symmetry == Permutations(Bets) \cup Permutations(Tasks)
==============================================================================
