------------------------------- MODULE MCWallet -------------------------------
(***************************************************************************)
(* Small instances of Wallet: two users, three requests that may retry the *)
(* same call, and one call of every kind.                                  *)
(***************************************************************************)
EXTENDS Wallet, TLC

CONSTANTS u1, u2

Ask(op, user, to, cur, amount, reward, type, key) ==
    [op |-> op, user |-> user, to |-> to, cur |-> cur, amount |-> amount,
     reward |-> reward, type |-> type, key |-> key]

\* A recharge, a purchase, and one that only a recharge applied twice can pay.
Recharge == Ask("credit", u1, u1, "coins", 2, 0, "recharge", "k1")
Purchase == Ask("debit", u1, u1, "coins", 2, 0, "other", "k2")
Splurge  == Ask("debit", u1, u1, "coins", 4, 0, "other", "k8")
Withdraw == Ask("debit", u1, u1, "diamonds", 1, 0, "withdrawal", "k3")
Refused  == Ask("credit", u1, u1, "coins", -1, 0, "other", "k4")
Gift     == Ask("gift", u1, u2, "coins", 1, 1, "gift_send", "k5")
SelfGift == Ask("gift", u1, u1, "coins", 2, 1, "gift_send", "k6")
Convert  == Ask("convert", u1, u1, "diamonds", 1, 1, "conversion", "k7")

MCUsers == {u1, u2}
MCOpening == [u \in MCUsers |-> [m \in Currency |-> 1]]

MCCalls == {Recharge, Purchase, Splurge, Withdraw, Refused, Gift, SelfGift, Convert}

RequestSymmetry == Permutations(Requests)
==============================================================================
