-------------------------------- MODULE Wallet --------------------------------
(***************************************************************************)
(* The coin and diamond wallets (modules/wallet/wallet.service.ts) over    *)
(* MongoDB.  A request is one call of credit, debit, transferGift or       *)
(* convertDiamondsToCoins; its actions are its database round trips, so    *)
(* any two requests interleave between them.  MongoDB makes one document   *)
(* update atomic; only transferGift runs in a transaction and is one step. *)
(*                                                                         *)
(* A retry is another request that carries the same key.  A wallet         *)
(* document that does not exist yet reads as an empty, unfrozen wallet.    *)
(* The definitions named Mutant... are faults to check the properties with *)
(* and are no part of the specification.                                   *)
(***************************************************************************)
EXTENDS Integers, FiniteSets, Functions

CONSTANTS
    Users,      \* wallet owners
    Requests,   \* calls of the service, retries included
    Calls,      \* what a call may ask for
    Opening     \* balances before the first modelled request

Currency == {"coins", "diamonds"}

LifetimeField == {"lifetimeCoinsRecharged", "lifetimeCoinsSpent",
                  "lifetimeDiamondsEarned", "lifetimeDiamondsWithdrawn"}

Recharges == {"recharge", "recharge_bonus", "mint", "reseller_topup"}

TxnType == Recharges \cup {"gift_send", "gift_receive", "withdrawal",
                           "conversion", "other"}

\* `amount` leaves the wallet of `user` (enters it, for a credit); `reward` is
\* what a gift brings to `to` or a conversion brings back to `user`.
Call == [op : {"credit", "debit", "gift", "convert"}, user : Users, to : Users,
         cur : Currency, amount : Int, reward : Int, type : TxnType,
         key : STRING]

\* The entry of credit or debit is keyed by the caller's key; transferGift and
\* convertDiamondsToCoins write two, whose keys have a suffix.
Leg == {"only", "debit", "credit", "diamond", "coin"}

Entry == [key : STRING, leg : Leg, user : Users, cur : Currency,
          dir : {"credit", "debit"}, amount : Nat, type : TxnType]

ASSUME CallsAssumption == Calls \subseteq Call /\ Calls # {}
ASSUME RequestsAssumption == IsFiniteSet(Requests)
ASSUME OpeningAssumption == Opening \in [Users -> [Currency -> Nat]]

\* Keys are drawn at random or prefixed by their issuer, so that calls of
\* different operations never share one; the callers' own retries do.
ASSUME KeysAssumption ==
    \A c, d \in Calls : c.key = d.key => c.op = d.op

VARIABLES
    balance,    \* [Users -> [Currency -> Int]]: the two balances of a wallet
    lifetime,   \* [Users -> [LifetimeField -> Int]]: its running totals
    frozen,     \* the users whose wallet an admin has frozen
    ledger,     \* the set of transaction documents
    call,       \* what each request asks for
    walletPc,         \* where each request is
    stopped,    \* requests that stopped half-way: process death, lost connection
    rolledBack  \* history: what rolling back took out of each balance

walletVars == <<balance, lifetime, frozen, ledger, call, walletPc, stopped, rolledBack>>

\* "ok" and "failed" are the caller's answers.
Pc == {"idle", "check", "apply", "insert", "insertCoin", "reverse", "reread",
       "ok", "failed"}

------------------------------------------------------------------------------
\* What a call does to the wallets and writes to the ledger.

\* The lifetime total a single credit or debit moves, "none" for most.
lifetimeFieldFor(cur, dir, type) ==
    CASE cur = "coins" /\ dir = "credit" /\ type \in Recharges
            -> "lifetimeCoinsRecharged"
      [] cur = "coins" /\ dir = "debit" /\ type = "gift_send"
            -> "lifetimeCoinsSpent"
      [] cur = "diamonds" /\ dir = "credit" /\ type = "gift_receive"
            -> "lifetimeDiamondsEarned"
      [] cur = "diamonds" /\ dir = "debit" /\ type = "withdrawal"
            -> "lifetimeDiamondsWithdrawn"
      [] OTHER -> "none"

Valid(c) ==
    /\ c.amount > 0
    /\ c.op = "gift" => c.reward >= 0
    /\ c.op = "convert" => c.reward > 0

\* What a call takes from and adds to balance m of user u.
Debited(c, u, m) ==
    IF u = c.user /\ \/ c.op = "debit" /\ m = c.cur
                     \/ c.op = "gift" /\ m = "coins"
                     \/ c.op = "convert" /\ m = "diamonds"
    THEN c.amount ELSE 0

Credited(c, u, m) ==
    CASE c.op = "credit" /\ u = c.user /\ m = c.cur -> c.amount
      [] c.op = "gift" /\ u = c.to /\ m = "diamonds" -> c.reward
      [] c.op = "convert" /\ u = c.user /\ m = "coins" -> c.reward
      [] OTHER -> 0

\* What it adds to the lifetime total f of user u; a conversion adds nothing.
Counted(c, u, f) ==
    CASE /\ c.op \in {"credit", "debit"}
         /\ u = c.user /\ f = lifetimeFieldFor(c.cur, c.op, c.type) -> c.amount
      [] c.op = "gift" /\ u = c.user /\ f = "lifetimeCoinsSpent" -> c.amount
      [] c.op = "gift" /\ u = c.to /\ f = "lifetimeDiamondsEarned" -> c.reward
      [] OTHER -> 0

\* The $inc of a call on the wallets, and the same $inc with the signs turned.
Inc(c) ==
    /\ balance' = [u \in Users |-> [m \in Currency |->
                     balance[u][m] + Credited(c, u, m) - Debited(c, u, m)]]
    /\ lifetime' = [u \in Users |-> [f \in LifetimeField |->
                     lifetime[u][f] + Counted(c, u, f)]]

MutantIncBack(c) ==
    /\ balance' = [u \in Users |-> [m \in Currency |->
                     balance[u][m] - Credited(c, u, m) + Debited(c, u, m)]]
    /\ UNCHANGED lifetime

IncBack(c) ==
    /\ balance' = [u \in Users |-> [m \in Currency |->
                     balance[u][m] - Credited(c, u, m) + Debited(c, u, m)]]
    /\ lifetime' = [u \in Users |-> [f \in LifetimeField |->
                     lifetime[u][f] - Counted(c, u, f)]]

\* The filter of the guarded update: an unfrozen wallet that covers the debit.
MutantEnoughDiamonds(c) ==
    /\ c.user \notin frozen
    /\ c.op = "debit" => balance[c.user][c.cur] >= c.amount
    /\ c.op = "gift" => balance[c.user]["coins"] >= c.amount

MutantEnoughFrozen(c) ==
    /\ c.op = "debit" => balance[c.user][c.cur] >= c.amount
    /\ c.op = "gift" => balance[c.user]["coins"] >= c.amount
    /\ c.op = "convert" => balance[c.user]["diamonds"] >= c.amount

Enough(c) ==
    /\ c.user \notin frozen
    /\ c.op = "debit" => balance[c.user][c.cur] >= c.amount
    /\ c.op = "gift" => balance[c.user]["coins"] >= c.amount
    /\ c.op = "convert" => balance[c.user]["diamonds"] >= c.amount

entry(c, leg, user, cur, dir, amount, type) ==
    [key |-> c.key, leg |-> leg, user |-> user, cur |-> cur, dir |-> dir,
     amount |-> amount, type |-> type]

FirstLeg(c) ==
    CASE c.op = "gift" ->
            entry(c, "debit", c.user, "coins", "debit", c.amount, "gift_send")
      [] c.op = "convert" ->
            entry(c, "diamond", c.user, "diamonds", "debit", c.amount, "conversion")
      [] OTHER -> entry(c, "only", c.user, c.cur, c.op, c.amount, c.type)

SecondLeg(c) ==
    IF c.op = "gift"
    THEN entry(c, "credit", c.to, "diamonds", "credit", c.reward, "gift_receive")
    ELSE entry(c, "coin", c.user, "coins", "credit", c.reward, "conversion")

\* The unique index on idempotencyKey.
Booked(e) == \E d \in ledger : d.key = e.key /\ d.leg = e.leg

\* The idempotency check: the entry of the key, or the pair it correlates.
Existing(c) ==
    IF c.op \in {"gift", "convert"}
    THEN Booked(FirstLeg(c)) /\ Booked(SecondLeg(c))
    ELSE Booked(FirstLeg(c))

------------------------------------------------------------------------------
\* The actions.

Live(r, at) == walletPc[r] = at /\ r \notin stopped

Goto(r, to) == walletPc' = [walletPc EXCEPT ![r] = to]

\* A caller enters; amounts that are not positive are refused at once.
Begin(r, c) ==
    /\ Live(r, "idle")
    /\ call' = [call EXCEPT ![r] = c]
    /\ Goto(r, IF Valid(c) THEN "check" ELSE "failed")
    /\ UNCHANGED <<balance, lifetime, frozen, ledger, stopped, rolledBack>>

\* 1. A booked key answers without doing anything.
Check(r) ==
    /\ Live(r, "check")
    /\ Goto(r, IF Existing(call[r]) THEN "ok" ELSE "apply")
    /\ UNCHANGED <<balance, lifetime, frozen, ledger, call, stopped, rolledBack>>

\* 2. The guarded update of one wallet document (credit, debit, convert).
Apply(r) ==
    /\ Live(r, "apply") /\ call[r].op # "gift"
    /\ Enough(call[r])
    /\ Inc(call[r])
    /\ Goto(r, "insert")
    /\ UNCHANGED <<frozen, ledger, call, stopped, rolledBack>>

MutantTransfer(r) ==
    LET c == call[r] IN
    /\ Live(r, "apply") /\ c.op = "gift"
    /\ Enough(c) /\ c.to \notin frozen
    /\ Inc(c)
    /\ ledger' = ledger \cup {FirstLeg(c), SecondLeg(c)}
    /\ Goto(r, "ok")
    /\ UNCHANGED <<frozen, call, stopped, rolledBack>>

\* 2. transferGift: both wallets and both entries, or nothing.
Transfer(r) ==
    LET c == call[r] IN
    /\ Live(r, "apply") /\ c.op = "gift"
    /\ Enough(c) /\ c.to \notin frozen
    /\ ~Booked(FirstLeg(c)) /\ ~Booked(SecondLeg(c))
    /\ Inc(c)
    /\ ledger' = ledger \cup {FirstLeg(c), SecondLeg(c)}
    /\ Goto(r, "ok")
    /\ UNCHANGED <<frozen, call, stopped, rolledBack>>

\* The filter matches nothing, or the gift's transaction aborts.
Refuse(r) ==
    LET c == call[r] IN
    /\ Live(r, "apply")
    /\ \/ ~Enough(c)
       \/ c.op = "gift" /\ \/ c.to \in frozen
                           \/ Booked(FirstLeg(c)) \/ Booked(SecondLeg(c))
    /\ Goto(r, "failed")
    /\ UNCHANGED <<balance, lifetime, frozen, ledger, call, stopped, rolledBack>>

MutantInsert(r) ==
    LET c == call[r] IN
    /\ Live(r, "insert")
    /\ ledger' = ledger \cup {FirstLeg(c)}
    /\ Goto(r, IF c.op = "convert" THEN "insertCoin" ELSE "ok")
    /\ UNCHANGED <<balance, lifetime, frozen, call, stopped, rolledBack>>

\* 3. The ledger entry.  The second entry of a conversion is a write of its own.
Insert(r) ==
    LET c == call[r] IN
    /\ Live(r, "insert")
    /\ ~Booked(FirstLeg(c))
    /\ ledger' = ledger \cup {FirstLeg(c)}
    /\ Goto(r, IF c.op = "convert" THEN "insertCoin" ELSE "ok")
    /\ UNCHANGED <<balance, lifetime, frozen, call, stopped, rolledBack>>

InsertCoin(r) ==
    LET c == call[r] IN
    /\ Live(r, "insertCoin")
    /\ ~Booked(SecondLeg(c))
    /\ ledger' = ledger \cup {SecondLeg(c)}
    /\ Goto(r, "ok")
    /\ UNCHANGED <<balance, lifetime, frozen, call, stopped, rolledBack>>

MutantDuplicateKey(r) ==
    LET c == call[r] IN
    /\ \/ Live(r, "insert") /\ Booked(FirstLeg(c))
       \/ Live(r, "insertCoin") /\ Booked(SecondLeg(c))
    /\ Goto(r, "reread")
    /\ UNCHANGED <<balance, lifetime, frozen, ledger, call, stopped, rolledBack>>

\* The unique index refuses the entry: a request with the same key came first.
DuplicateKey(r) ==
    LET c == call[r] IN
    /\ \/ Live(r, "insert") /\ Booked(FirstLeg(c))
       \/ Live(r, "insertCoin") /\ Booked(SecondLeg(c))
    /\ Goto(r, "reverse")
    /\ UNCHANGED <<balance, lifetime, frozen, ledger, call, stopped, rolledBack>>

\* Undo the wallet update, whatever the balance is by now.
Reverse(r) ==
    /\ Live(r, "reverse")
    /\ IncBack(call[r])
    /\ rolledBack' = [u \in Users |-> [m \in Currency |->
                        rolledBack[u][m] + Credited(call[r], u, m)]]
    /\ Goto(r, "reread")
    /\ UNCHANGED <<frozen, ledger, call, stopped>>

MutantReread(r) ==
    /\ Live(r, "reread")
    /\ Goto(r, "ok")
    /\ UNCHANGED <<balance, lifetime, frozen, ledger, call, stopped, rolledBack>>

\* Answer with the entries of the request that won, if they are all there.
Reread(r) ==
    /\ Live(r, "reread")
    /\ Goto(r, IF Existing(call[r]) THEN "ok" ELSE "failed")
    /\ UNCHANGED <<balance, lifetime, frozen, ledger, call, stopped, rolledBack>>

\* The process dies, or a database call throws something else than a duplicate
\* key, before the request's next step: what it did so far stays.
Stop(r) ==
    /\ walletPc[r] \notin {"idle", "ok", "failed"} /\ r \notin stopped
    /\ stopped' = stopped \cup {r}
    /\ UNCHANGED <<balance, lifetime, frozen, ledger, call, walletPc, rolledBack>>

freeze(u) ==
    /\ frozen' = frozen \cup {u}
    /\ UNCHANGED <<balance, lifetime, ledger, call, walletPc, stopped, rolledBack>>

unfreeze(u) ==
    /\ frozen' = frozen \ {u}
    /\ UNCHANGED <<balance, lifetime, ledger, call, walletPc, stopped, rolledBack>>

Step(r) ==
    \/ \E c \in Calls : Begin(r, c)
    \/ Check(r)
    \/ Apply(r)
    \/ Transfer(r)
    \/ Refuse(r)
    \/ Insert(r)
    \/ InsertCoin(r)
    \/ DuplicateKey(r)
    \/ Reverse(r)
    \/ Reread(r)
    \/ Stop(r)

WalletNext ==
    \/ \E r \in Requests : Step(r)
    \/ \E u \in Users : freeze(u) \/ unfreeze(u)

WalletInit ==
    /\ balance = Opening
    /\ lifetime = [u \in Users |-> [f \in LifetimeField |-> 0]]
    /\ frozen = {}
    /\ ledger = {}
    /\ call = [r \in Requests |-> CHOOSE c \in Calls : TRUE]
    /\ walletPc = [r \in Requests |-> "idle"]
    /\ stopped = {}
    /\ rolledBack = [u \in Users |-> [m \in Currency |-> 0]]

WalletSpec == WalletInit /\ [][WalletNext]_walletVars

------------------------------------------------------------------------------
\* The properties.

WalletTypeOK ==
    /\ balance \in [Users -> [Currency -> Int]]
    /\ lifetime \in [Users -> [LifetimeField -> Int]]
    /\ frozen \subseteq Users
    /\ ledger \subseteq Entry
    /\ call \in [Requests -> Calls]
    /\ walletPc \in [Requests -> Pc]
    /\ stopped \subseteq Requests
    /\ rolledBack \in [Users -> [Currency -> Nat]]

\* What a request has done to balance m of u that its entries do not show: all
\* of it before the first entry or until it is reversed, the coins of a
\* conversion between its two entries.
Held(r, u, m) ==
    CASE walletPc[r] \in {"insert", "reverse"}
            -> Credited(call[r], u, m) - Debited(call[r], u, m)
      [] walletPc[r] = "insertCoin" -> Credited(call[r], u, m)
      [] OTHER -> 0

\* The same, where a key counts as posted from its first entry on.
HeldUnposted(r, u, m) == IF walletPc[r] = "insertCoin" THEN 0 ELSE Held(r, u, m)

HeldCount(r, u, f) ==
    IF walletPc[r] \in {"insert", "reverse"} THEN Counted(call[r], u, f) ELSE 0

Signed(e) == IF e.dir = "credit" THEN e.amount ELSE -e.amount

\* The sums of the entries L of one balance and of one lifetime total, and of what
\* the requests hold of them.
bookedSum(L, u, m) ==
    SumFunction([e \in {d \in L : d.user = u /\ d.cur = m} |-> Signed(e)])

countedSum(L, u, f) ==
    SumFunction([e \in {d \in L : d.user = u /\ lifetimeFieldFor(d.cur, d.dir, d.type) = f}
                   |-> e.amount])

heldSum(u, m) == SumFunction([r \in Requests |-> Held(r, u, m)])
unpostedSum(u, m) == SumFunction([r \in Requests |-> HeldUnposted(r, u, m)])
heldCountSum(u, f) == SumFunction([r \in Requests |-> HeldCount(r, u, f)])

\* Every coin and diamond is accounted for: a balance is the opening balance,
\* plus the entries of the ledger, plus exactly what the requests between
\* their wallet update and their entry (or stopped there) hold.  No request
\* is ever applied twice, reversed twice, or reversed after it was booked.
Reconciled ==
    \A u \in Users, m \in Currency :
        balance[u][m] = Opening[u][m] + bookedSum(ledger, u, m) + heldSum(u, m)

\* The lifetime totals, which the honours and levels read, are the totals of
\* the entries of their kind: the fields that transferGift names itself are
\* those lifetimeFieldFor gives its entries, and a reversal takes them back.
LifetimeReconciled ==
    \A u \in Users, f \in LifetimeField :
        lifetime[u][f] = countedSum(ledger, u, f) + heldCountSum(u, f)

\* The books balance, in well-typed states: neither the balances nor the lifetime totals of a wallet drift
\* from the ledger, whatever is retried, rolled back or left half way.
BooksBalance == WalletTypeOK /\ Reconciled /\ LifetimeReconciled

\* A wallet is overdrawn by no more than what was rolled back from it: the
\* guarded debits alone never overdraw, whatever their interleaving.
DebtBoundedByReversals ==
    \A u \in Users, m \in Currency : balance[u][m] >= -rolledBack[u][m]

\* A caller that is told its call succeeded finds every entry of it in the
\* ledger, the pair for a gift or a conversion.
AckedMeansBooked ==
    \A r \in Requests : walletPc[r] = "ok" => Existing(call[r])

\* One key, one effect: the entries of a key are never rewritten, no key gets
\* a second entry of one leg, and a conversion's coin entry has its diamond
\* entry.
OneEntryPerKey ==
    /\ \A d, e \in ledger : d.key = e.key /\ d.leg = e.leg => d = e
    /\ \A e \in ledger : e.leg = "coin" =>
           \E d \in ledger : d.key = e.key /\ d.leg = "diamond"
    /\ \A r \in Requests : walletPc[r] = "insertCoin" => ~Booked(SecondLeg(call[r]))

\* What the callers and the keys see of the ledger is one effect per call.
BookedOnce == AckedMeansBooked /\ OneEntryPerKey

\* While a wallet is frozen its balances move only when a duplicate that was
\* applied before the freeze is taken back.
FrozenMovesOnlyBack ==
    [][\A u \in frozen :
          balance'[u] # balance[u] =>
              \E r \in Requests : walletPc[r] = "reverse" /\ walletPc'[r] = "reread"]_walletVars

------------------------------------------------------------------------------
\* The wallet implements the abstract ledger: what in-flight requests hold is
\* taken out of the balances, and a key is posted when its first entry is.

bookedBalance ==
    [u \in Users |-> [m \in Currency |->
        balance[u][m] - unpostedSum(u, m)]]

Abstract == INSTANCE Ledger WITH
    balance <- bookedBalance,
    posted  <- {e.key : e \in ledger}

\* Whatever the interleaving, retries and crashes, each step of the wallet is
\* one posting of one fresh key in full, or is invisible.
ImplementsLedger == Abstract!Spec
==============================================================================
