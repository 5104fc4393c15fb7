---------------------------- MODULE LuckyBagSplit ----------------------------
(***************************************************************************)
(* How a lucky bag's pool is cut into slots: distributeRandom, one action  *)
(* per random draw, and distributeFixedTier, which draws nothing and is    *)
(* one action (modules/lucky-bag/lucky-bag.service.ts).                    *)
(*                                                                         *)
(* A fixed tier's percentages are in thousandths; updateConfig takes any   *)
(* tier whose percentages add up to 1 give or take 0.001.  The pool may be *)
(* smaller than the number of slots: the code compares the slots with the  *)
(* coins there are before the commission.                                  *)
(* Definitions named Mutant... are faults to check the properties with.    *)
(***************************************************************************)
EXTENDS Integers, Functions, FiniteSetsExt

CONSTANTS
    Totals,     \* the pools to cut
    Slots,      \* the slot counts
    Tiers       \* percentages: functions from 0 .. n - 1 to thousandths

ASSUME SizesAssumption == Totals \subseteq Nat /\ Slots \subseteq Nat \ {0}

VARIABLES
    total, slots,   \* the arguments
    stage,          \* "draw", "shuffle" or "done"
    i,              \* the loop counter
    remaining,      \* what is left of the pool
    out             \* the amounts so far, indexed from 0

splitVars == <<total, slots, stage, i, remaining, out>>

AtLeastOne(n) == IF n < 1 THEN 1 ELSE n

------------------------------------------------------------------------------
\* distributeRandom

\* The largest draw leaves a coin for each slot after this one: at most twice
\* the average of what is not reserved.
MutantLargest(rem, remainingSlots) == AtLeastOne((rem * 2) \div remainingSlots)

largest(rem, remainingSlots) ==
    AtLeastOne(((rem - (remainingSlots - 1)) * 2) \div remainingSlots)

Draw ==
    /\ stage = "draw" /\ i < slots - 1
    /\ \E amount \in 1 .. largest(remaining, slots - i) :
          /\ out' = [out EXCEPT ![i] = amount]
          /\ remaining' = remaining - amount
    /\ i' = i + 1
    /\ UNCHANGED <<total, slots, stage>>

\* The last slot takes what is left.
LastSlot ==
    /\ stage = "draw" /\ i = slots - 1
    /\ out' = [out EXCEPT ![i] = AtLeastOne(remaining)]
    /\ stage' = "shuffle"
    /\ UNCHANGED <<total, slots, i, remaining>>

\* Fisher-Yates, from the last slot down.
MutantShuffle ==
    /\ stage = "shuffle" /\ i > 0
    /\ \E j \in 0 .. i : out' = [out EXCEPT ![i] = out[j]]
    /\ i' = i - 1
    /\ UNCHANGED <<total, slots, stage, remaining>>

Shuffle ==
    /\ stage = "shuffle" /\ i > 0
    /\ \E j \in 0 .. i : out' = [out EXCEPT ![i] = out[j], ![j] = out[i]]
    /\ i' = i - 1
    /\ UNCHANGED <<total, slots, stage, remaining>>

Shuffled ==
    /\ stage = "shuffle" /\ i = 0
    /\ stage' = "done"
    /\ UNCHANGED <<total, slots, i, remaining, out>>

------------------------------------------------------------------------------
\* distributeFixedTier

\* updateConfig's test of a tier.
ValidTier(p) == SumFunction(p) \in 999 .. 1001

\* Each share rounded down, none below zero; what rounding left goes to slot 0.
Floored(p) == [k \in DOMAIN p |-> Max({0, (total * p[k]) \div 1000})]

WithLeftover(f) ==
    IF total > SumFunction(f) THEN [f EXCEPT ![0] = @ + total - SumFunction(f)] ELSE f

MutantNoTopUp(f) == f

\* Slots that rounded to nothing get a coin of slot 0, in order, while it has two.
ToppedUp(f) ==
    LET zeros == {k \in DOMAIN f \ {0} : f[k] = 0}
        rank(k) == Cardinality({z \in zeros : z < k})
        lucky == {k \in zeros : f[0] - rank(k) > 1}
    IN  [k \in DOMAIN f |->
            IF k = 0 THEN f[0] - Cardinality(lucky)
            ELSE IF k \in lucky THEN 1 ELSE f[k]]

FixedTier ==
    /\ stage = "draw" /\ i = 0
    /\ \E p \in Tiers :
          /\ DOMAIN p = 0 .. slots - 1 /\ ValidTier(p)
          /\ out' = ToppedUp(WithLeftover(Floored(p)))
    /\ stage' = "done"
    /\ UNCHANGED <<total, slots, i, remaining>>

SplitNext == Draw \/ LastSlot \/ Shuffle \/ Shuffled \/ FixedTier

SplitInit ==
    /\ total \in Totals /\ slots \in Slots
    /\ stage = "draw" /\ i = 0
    /\ remaining = total
    /\ out = [k \in 0 .. slots - 1 |-> 0]

SplitSpec == SplitInit /\ [][SplitNext]_splitVars

------------------------------------------------------------------------------
\* The properties.

\* While there are draws to come the rest of the pool covers a coin for each slot
\* to come, so the last slot takes exactly the rest and the clamps to one coin
\* never invent a coin.
RemainingCoversSlots ==
    total >= slots /\ stage = "draw" => remaining >= slots - i

\* What a tier may hand out over the pool: the code takes tiers of 100.1 percent.
surplus == IF \E p \in Tiers : SumFunction(p) > 1000 THEN total \div 1000 ELSE 0

\* The slots sum to the pool, whatever is drawn and however it is shuffled.  Only a
\* pool with fewer coins than slots is exceeded, by a coin in each slot, and one cut
\* by a tier of more than 100 percent.
ExactCut ==
    /\ stage = "shuffle" => SumFunction(out) = Max({slots, total})
    /\ stage = "done" => SumFunction(out) \in total .. Max({slots, total + surplus})

\* No slot of a random cut is empty; a slot of a tier is empty only if the biggest
\* is down to its last coin.
NoEmptySlot ==
    stage = "done" => \A k \in DOMAIN out : out[k] >= 1 \/ out[0] <= 1

\* A bag hands out its pool, all of it and no more than ExactCut allows, and something in
\* every slot.
PoolHandedOut == ExactCut /\ NoEmptySlot
==============================================================================
