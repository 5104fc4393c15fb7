------------------------------ MODULE MCLuckyBag ------------------------------
(***************************************************************************)
(* Small instances of LuckyBag, and of LuckyBagSplit: small pools cut into *)
(* up to four slots, one of 2000 coins cut in two, and tiers at the edges  *)
(* of what the configuration accepts, with no share below zero.            *)
(* A behaviour of SideBySide is one of either, the other idle.             *)
(***************************************************************************)
EXTENDS LuckyBag, LuckyBagSplit, TLC

VARIABLE part

FromZero(s) == [k \in 0 .. Len(s) - 1 |-> s[k + 1]]

MCSlots == 1 .. 4
SmallTotals == 0 .. 9
MCTotals == SmallTotals \cup {2000}

\* Of 4 coins: one that leaves a slot empty, and one that hands out more than there was.
MCCuts == {<<1, 0>>, <<3, 2>>}
OneSlot == {<<2>>}

MCTiers == {FromZero(s) : s \in
    {<<1000>>, <<600, 400>>, <<999, 1>>, <<500, 499>>, <<500, 300, 200>>,
     <<998, 1, 1>>, <<501, 500>>, <<333, 333, 333>>, <<400, 300, 200, 100>>, <<997, 1, 1, 1>>}}

SideInit ==
    /\ part \in {"bag", "split"} /\ Init /\ SplitInit
    /\ part = "bag" => total = 0 /\ slots = 1
    /\ total \in SmallTotals \/ slots = 2

SideNext ==
    \/ part = "bag" /\ Next /\ UNCHANGED <<splitVars, part>>
    \/ part = "split" /\ SplitNext /\ UNCHANGED <<vars, part>>

SideBySide == SideInit /\ [][SideNext]_<<vars, splitVars, part>>

Symmetry == Permutations(Users) \cup Permutations(Requests) \cup Permutations(Bags)
==============================================================================
