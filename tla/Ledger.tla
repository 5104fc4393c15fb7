-------------------------------- MODULE Ledger --------------------------------
(***************************************************************************)
(* What the wallet promises its callers, without round trips, retries or   *)
(* crashes: a key is posted at most once, and posting it moves the         *)
(* balances by what one of the calls that carry it asks for, all at once.  *)
(***************************************************************************)
EXTENDS Integers

CONSTANTS
    Users, Currency,
    Calls,              \* calls, each with its `key`
    Opening,            \* opening balances
    Credited(_, _, _),  \* what a call adds to a balance of a user
    Debited(_, _, _)    \* what it takes from it

VARIABLES
    balance,            \* [Users -> [Currency -> Int]]
    posted              \* the keys posted so far

vars == <<balance, posted>>

Init == balance = Opening /\ posted = {}

Post(c) ==
    /\ c.key \notin posted
    /\ posted' = posted \cup {c.key}
    /\ balance' = [u \in Users |-> [m \in Currency |->
                     balance[u][m] + Credited(c, u, m) - Debited(c, u, m)]]

Next == \E c \in Calls : Post(c)

Spec == Init /\ [][Next]_vars
==============================================================================
