--------------------------- MODULE WalletGamesProofs ---------------------------
(***************************************************************************)
(* Theorems about Wallet, then about Games: two specifications with no     *)
(* name in common, each proved on its own.                                 *)
(*                                                                         *)
(* Wallet, for every set of users, every finite set of requests and every  *)
(* set of calls: types, the bound on the debt of a wallet, the answers,    *)
(* the uniqueness of entries, the freeze, that the books balance, and that *)
(* the wallet implements Ledger.                                           *)
(*                                                                         *)
(* Games, for any sets of bets, items and tasks, any odds, and any number  *)
(* of rounds and crashes: what holds however many clients and admins       *)
(* interfere with the loop, then what holds of the loop alone.             *)
(***************************************************************************)
EXTENDS Wallet, Games, SumProofs, TLAPS

------------------------------------------------------------------------------
\* Wallet.

\* A call writes well-formed entries, and the legs say which call wrote them.
LEMMA EntryType ==
    ASSUME NEW c \in Calls
    PROVE  /\ Valid(c) => FirstLeg(c) \in Entry
           /\ Valid(c) /\ c.op \in {"gift", "convert"} => SecondLeg(c) \in Entry
           /\ FirstLeg(c).key = c.key /\ SecondLeg(c).key = c.key
           /\ FirstLeg(c).leg # "coin" /\ SecondLeg(c).leg # FirstLeg(c).leg
           /\ c.op = "convert" => FirstLeg(c).leg = "diamond"
           /\ c.op # "gift" => SecondLeg(c).leg = "coin"
           /\ c.op = "gift" => SecondLeg(c).leg = "credit"
    <1>1. c \in Call
        BY CallsAssumption
    <1>2. CASE c.op = "gift"
        BY <1>1, <1>2 DEF FirstLeg, SecondLeg, entry, Entry, Call, Leg, Currency,
                          TxnType, Recharges, Valid
    <1>3. CASE c.op = "convert"
        BY <1>1, <1>3 DEF FirstLeg, SecondLeg, entry, Entry, Call, Leg, Currency,
                          TxnType, Recharges, Valid
    <1>4. CASE c.op \in {"credit", "debit"}
        BY <1>1, <1>4 DEF FirstLeg, SecondLeg, entry, Entry, Call, Leg, Currency,
                          TxnType, Recharges, Valid
    <1> QED  BY <1>1, <1>2, <1>3, <1>4 DEF Call

\* What a valid call moves is an integer, and what it adds is no less than zero.
LEMMA AmountType ==
    ASSUME NEW c \in Calls, NEW u \in Users
    PROVE  /\ \A m \in Currency : Debited(c, u, m) \in Int /\ Credited(c, u, m) \in Int
           /\ \A f \in LifetimeField : Counted(c, u, f) \in Int
           /\ Valid(c) => \A m \in Currency : Debited(c, u, m) >= 0 /\ Credited(c, u, m) >= 0
    <1>1. c \in Call
        BY CallsAssumption
    <1>2. c.amount \in Int /\ c.reward \in Int
        BY <1>1 DEF Call
    <1> QED  BY <1>2 DEF Debited, Credited, Counted, Valid

\* What the theorems need to know of the requests: one past its checks carries a
\* valid call, a gift never sits between two round trips, a conversion that
\* waits for its coin entry has its diamond entry, and owns the key: no other
\* request waits for the coin entry of the same key.
ValidOnceChecked ==
    \A r \in Requests : walletPc[r] \notin {"idle", "failed"} => Valid(call[r])

GiftsAreAtomic ==
    \A r \in Requests : walletPc[r] \in {"insert", "insertCoin"} => call[r].op # "gift"

DiamondBeforeCoin ==
    \A r \in Requests : walletPc[r] = "insertCoin" =>
        call[r].op = "convert" /\ Booked(FirstLeg(call[r]))

CoinKeyOwned ==
    \A r, s \in Requests :
        walletPc[r] = "insertCoin" /\ walletPc[s] = "insertCoin" /\ r # s =>
            call[r].key # call[s].key

\* The inductive invariant.
IInv ==
    /\ WalletTypeOK
    /\ DebtBoundedByReversals
    /\ AckedMeansBooked
    /\ OneEntryPerKey
    /\ ValidOnceChecked
    /\ GiftsAreAtomic
    /\ DiamondBeforeCoin
    /\ CoinKeyOwned

\* Every step keeps the variables in their types.
LEMMA TypeStep ==
    ASSUME WalletTypeOK, ValidOnceChecked, DiamondBeforeCoin, [WalletNext]_walletVars
    PROVE  WalletTypeOK'
    <1> USE DEF WalletTypeOK, Pc
    <1>1. ASSUME NEW r \in Requests, NEW c \in Calls, Begin(r, c)  PROVE WalletTypeOK'
        BY <1>1 DEF Begin, Goto
    <1>2. ASSUME NEW r \in Requests, Check(r)  PROVE WalletTypeOK'
        BY <1>2 DEF Check, Goto
    <1>3. ASSUME NEW r \in Requests, Apply(r)  PROVE WalletTypeOK'
        <2>1. balance' \in [Users -> [Currency -> Int]]
            BY <1>3, AmountType DEF Apply, Inc
        <2>2. lifetime' \in [Users -> [LifetimeField -> Int]]
            BY <1>3, AmountType DEF Apply, Inc
        <2> QED  BY <1>3, <2>1, <2>2 DEF Apply, Goto
    <1>4. ASSUME NEW r \in Requests, Transfer(r)  PROVE WalletTypeOK'
        <2>1. balance' \in [Users -> [Currency -> Int]]
            BY <1>4, AmountType DEF Transfer, Inc
        <2>2. lifetime' \in [Users -> [LifetimeField -> Int]]
            BY <1>4, AmountType DEF Transfer, Inc
        <2>3. ledger' \subseteq Entry
            BY <1>4, EntryType DEF Transfer, Live, ValidOnceChecked
        <2> QED  BY <1>4, <2>1, <2>2, <2>3 DEF Transfer, Goto
    <1>5. ASSUME NEW r \in Requests, Refuse(r)  PROVE WalletTypeOK'
        BY <1>5 DEF Refuse, Goto
    <1>6. ASSUME NEW r \in Requests, Insert(r)  PROVE WalletTypeOK'
        BY <1>6, EntryType DEF Insert, Goto, Live, ValidOnceChecked
    <1>7. ASSUME NEW r \in Requests, InsertCoin(r)  PROVE WalletTypeOK'
        BY <1>7, EntryType DEF InsertCoin, Goto, Live, ValidOnceChecked,
                               DiamondBeforeCoin
    <1>8. ASSUME NEW r \in Requests, DuplicateKey(r)  PROVE WalletTypeOK'
        BY <1>8 DEF DuplicateKey, Goto
    <1>9. ASSUME NEW r \in Requests, Reverse(r)  PROVE WalletTypeOK'
        <2>. Valid(call[r])
            BY <1>9 DEF Reverse, Live, ValidOnceChecked
        <2>1. balance' \in [Users -> [Currency -> Int]]
            BY <1>9, AmountType DEF Reverse, IncBack
        <2>2. lifetime' \in [Users -> [LifetimeField -> Int]]
            BY <1>9, AmountType DEF Reverse, IncBack
        <2>3. rolledBack' \in [Users -> [Currency -> Nat]]
            <3>1. \A u \in Users, m \in Currency :
                     rolledBack[u][m] + Credited(call[r], u, m) \in Nat
                BY <1>9, AmountType
            <3> QED  BY <1>9, <3>1 DEF Reverse
        <2> QED  BY <1>9, <2>1, <2>2, <2>3 DEF Reverse, Goto
    <1>10. ASSUME NEW r \in Requests, Reread(r)  PROVE WalletTypeOK'
        BY <1>10 DEF Reread, Goto
    <1>11. ASSUME NEW r \in Requests, Stop(r)  PROVE WalletTypeOK'
        BY <1>11 DEF Stop
    <1>12. ASSUME NEW u \in Users, freeze(u) \/ unfreeze(u)  PROVE WalletTypeOK'
        BY <1>12 DEF freeze, unfreeze
    <1>13. CASE UNCHANGED walletVars
        BY <1>13 DEF walletVars
    <1> QED
        BY <1>1, <1>2, <1>3, <1>4, <1>5, <1>6, <1>7, <1>8, <1>9, <1>10, <1>11,
           <1>12, <1>13 DEF WalletNext, Step

\* Only Begin touches the call of a request, and entries are never removed: an
\* entry that is booked stays booked.
LEMMA LedgerGrows ==
    ASSUME WalletTypeOK, [WalletNext]_walletVars
    PROVE  /\ ledger \subseteq ledger'
           /\ \A r \in Requests : walletPc[r] # "idle" => call'[r] = call[r]
           /\ \A r \in Requests : walletPc[r] = "idle" =>
                 walletPc'[r] \in {"idle", "check", "failed"}
    <1>1. ASSUME NEW r \in Requests, NEW c \in Calls, Begin(r, c)
          PROVE  /\ ledger = ledger' /\ walletPc[r] = "idle"
                 /\ call' = [call EXCEPT ![r] = c]
                 /\ \E to \in {"check", "failed"} : walletPc' = [walletPc EXCEPT ![r] = to]
        BY <1>1 DEF Begin, Live, Goto
    <1>2. ASSUME NEW r \in Requests,
                 \/ Check(r) \/ Apply(r) \/ Transfer(r) \/ Refuse(r) \/ Insert(r)
                 \/ InsertCoin(r) \/ DuplicateKey(r) \/ Reverse(r) \/ Reread(r)
          PROVE  /\ ledger \subseteq ledger' /\ call' = call /\ walletPc[r] # "idle"
                 /\ \E to \in Pc : walletPc' = [walletPc EXCEPT ![r] = to]
        BY <1>2 DEF Check, Apply, Transfer, Refuse, Insert, InsertCoin,
                    DuplicateKey, Reverse, Reread, Live, Goto, Pc
    <1>3. ASSUME \/ \E r \in Requests : Stop(r)
                 \/ \E u \in Users : freeze(u) \/ unfreeze(u)
                 \/ UNCHANGED walletVars
          PROVE  ledger = ledger' /\ call' = call /\ walletPc' = walletPc
        BY <1>3 DEF Stop, freeze, unfreeze, walletVars
    <1>4. CASE \E r \in Requests, c \in Calls : Begin(r, c)
        BY <1>1, <1>4 DEF WalletTypeOK
    <1>5. CASE \E r \in Requests :
                 \/ Check(r) \/ Apply(r) \/ Transfer(r) \/ Refuse(r) \/ Insert(r)
                 \/ InsertCoin(r) \/ DuplicateKey(r) \/ Reverse(r) \/ Reread(r)
        BY <1>2, <1>5 DEF WalletTypeOK
    <1> QED
        BY <1>3, <1>4, <1>5 DEF WalletNext, Step

\* Debits are guarded by the balance; only a reversal takes without looking, and
\* it adds what it takes to rolledBack.
LEMMA DebtStep ==
    ASSUME IInv, [WalletNext]_walletVars
    PROVE  DebtBoundedByReversals'
    <1> USE DEF IInv, WalletTypeOK, DebtBoundedByReversals
    <1>1. ASSUME NEW r \in Requests, Apply(r) \/ Transfer(r)
          PROVE  DebtBoundedByReversals'
        <2> SUFFICES ASSUME NEW u \in Users, NEW m \in Currency
                     PROVE  balance'[u][m] >= -rolledBack'[u][m]
            OBVIOUS
        <2> DEFINE c == call[r]
        <2>1. c \in Calls /\ c \in Call /\ Valid(c)
            BY <1>1, CallsAssumption DEF Apply, Transfer, Live, ValidOnceChecked
        <2>2. /\ balance'[u][m] = balance[u][m] + Credited(c, u, m) - Debited(c, u, m)
              /\ rolledBack' = rolledBack /\ Enough(c)
            BY <1>1 DEF Apply, Transfer, Inc
        <2>3. /\ Debited(c, u, m) \in Int /\ Credited(c, u, m) \in Int
              /\ Debited(c, u, m) >= 0 /\ Credited(c, u, m) >= 0
            BY <2>1, AmountType
        <2>4. Debited(c, u, m) # 0 => balance[u][m] >= Debited(c, u, m)
            BY <2>1, <2>2 DEF Enough, Debited, Call
        <2>5. balance[u][m] \in Int /\ rolledBack[u][m] \in Nat
            OBVIOUS
        <2> HIDE DEF c
        <2> QED  BY <2>2, <2>3, <2>4, <2>5
    <1>2. ASSUME NEW r \in Requests, Reverse(r)
          PROVE  DebtBoundedByReversals'
        <2> SUFFICES ASSUME NEW u \in Users, NEW m \in Currency
                     PROVE  balance'[u][m] >= -rolledBack'[u][m]
            OBVIOUS
        <2> DEFINE c == call[r]
        <2>1. c \in Calls /\ Valid(c)
            BY <1>2 DEF Reverse, Live, ValidOnceChecked
        <2>2. /\ balance'[u][m] = balance[u][m] - Credited(c, u, m) + Debited(c, u, m)
              /\ rolledBack'[u][m] = rolledBack[u][m] + Credited(c, u, m)
            BY <1>2 DEF Reverse, IncBack
        <2>3. /\ Debited(c, u, m) \in Int /\ Credited(c, u, m) \in Int
              /\ Debited(c, u, m) >= 0 /\ Credited(c, u, m) >= 0
            BY <2>1, AmountType
        <2>4. balance[u][m] \in Int /\ rolledBack[u][m] \in Nat
            OBVIOUS
        <2> HIDE DEF c
        <2> QED  BY <2>2, <2>3, <2>4
    <1>3. CASE UNCHANGED <<balance, rolledBack>>
        BY <1>3
    <1> QED
        BY <1>1, <1>2, <1>3 DEF WalletNext, Step, walletVars, Begin, Check, Refuse, Insert,
           InsertCoin, DuplicateKey, Reread, Stop, freeze, unfreeze

\* An answered call has its entries: single entries are booked by the step that
\* answers, a pair by the transaction or by the second insert after the first.
LEMMA AckStep ==
    ASSUME IInv, [WalletNext]_walletVars
    PROVE  AckedMeansBooked'
    <1> SUFFICES ASSUME NEW q \in Requests, walletPc'[q] = "ok"
                 PROVE  Existing(call[q])' 
        BY DEF AckedMeansBooked
    <1> USE DEF IInv, WalletTypeOK
    <1>1. /\ ledger \subseteq ledger'
          /\ walletPc[q] # "idle" /\ call'[q] = call[q]
          /\ call[q] \in Calls /\ call[q] \in Call
        BY LedgerGrows, CallsAssumption
    <1>2. Existing(call[q]) => Existing(call[q])'
        BY <1>1 DEF Existing, Booked
    <1>3. CASE walletPc[q] = "ok"
        BY <1>2, <1>3 DEF AckedMeansBooked
    <1>4. ASSUME NEW r \in Requests, Check(r) \/ Reread(r)  PROVE Existing(call[q])'
        <2>1. CASE q = r /\ ~Existing(call[r])
            <3>1. walletPc'[q] # "ok"
                BY <1>4, <2>1 DEF Check, Reread, Goto
            <3> QED  BY <3>1
        <2>2. CASE q = r /\ Existing(call[r])
            BY <1>2, <2>2
        <2>3. CASE q # r
            BY <1>3, <1>4, <2>3 DEF Check, Reread, Goto
        <2> QED  BY <2>1, <2>2, <2>3
    <1>5. ASSUME NEW r \in Requests, Transfer(r)  PROVE Existing(call[q])'
        <2>1. CASE q = r
            <3>1. FirstLeg(call[q]) \in ledger' /\ SecondLeg(call[q]) \in ledger'
                BY <1>5, <2>1 DEF Transfer
            <3> QED  BY <1>1, <3>1 DEF Existing, Booked
        <2> QED  BY <1>3, <1>5, <2>1 DEF Transfer, Goto
    <1>6. ASSUME NEW r \in Requests, Insert(r)  PROVE Existing(call[q])'
        <2>1. CASE q = r
            <3>1. FirstLeg(call[q]) \in ledger'
                BY <1>6, <2>1 DEF Insert
            <3>2. call[q].op \notin {"gift", "convert"}
                BY <1>6, <2>1 DEF Insert, Goto, Live, GiftsAreAtomic
            <3> QED  BY <1>1, <3>1, <3>2 DEF Existing, Booked
        <2> QED  BY <1>3, <1>6, <2>1 DEF Insert, Goto
    <1>7. ASSUME NEW r \in Requests, InsertCoin(r)  PROVE Existing(call[q])'
        <2>1. CASE q = r
            <3>1. SecondLeg(call[q]) \in ledger' /\ Booked(FirstLeg(call[q]))
                BY <1>7, <2>1 DEF InsertCoin, Live, DiamondBeforeCoin
            <3> QED  BY <1>1, <3>1 DEF Existing, Booked
        <2> QED  BY <1>3, <1>7, <2>1 DEF InsertCoin, Goto
    <1>8. CASE UNCHANGED walletPc
        BY <1>3, <1>8
    <1>9. ASSUME NEW r \in Requests,
                 \/ \E c \in Calls : Begin(r, c)
                 \/ Apply(r) \/ Refuse(r) \/ DuplicateKey(r) \/ Reverse(r)
          PROVE  Existing(call[q])'
        <2>1. walletPc[q] = "ok"
            BY <1>9 DEF Begin, Apply, Refuse, DuplicateKey, Reverse, Goto
        <2> QED  BY <1>3, <2>1
    <1> QED
        BY <1>4, <1>5, <1>6, <1>7, <1>8, <1>9 DEF WalletNext, Step, Stop, freeze,
           unfreeze, walletVars

\* Which steps move a request to the inserts, and what the guards give there.
LEMMA RequestStep ==
    ASSUME IInv, [WalletNext]_walletVars
    PROVE  ValidOnceChecked' /\ GiftsAreAtomic'
    <1> USE DEF IInv, WalletTypeOK
    <1>1. ASSUME NEW r \in Requests, NEW c \in Calls, Begin(r, c)
          PROVE  ValidOnceChecked' /\ GiftsAreAtomic'
        BY <1>1 DEF Begin, Live, Goto, ValidOnceChecked, GiftsAreAtomic
    <1>2. ASSUME NEW r \in Requests,
                 \/ Check(r) \/ Apply(r) \/ Transfer(r) \/ Refuse(r) \/ Insert(r)
                 \/ InsertCoin(r) \/ DuplicateKey(r) \/ Reverse(r) \/ Reread(r)
          PROVE  ValidOnceChecked' /\ GiftsAreAtomic'
        BY <1>2 DEF Check, Apply, Transfer, Refuse, Insert, InsertCoin,
           DuplicateKey, Reverse, Reread, Live, Goto, ValidOnceChecked, GiftsAreAtomic
    <1>3. CASE UNCHANGED <<walletPc, call>>
        BY <1>3 DEF ValidOnceChecked, GiftsAreAtomic
    <1> QED
        BY <1>1, <1>2, <1>3 DEF WalletNext, Step, Stop, freeze, unfreeze, walletVars

\* The unique index, the order of a conversion's two inserts and the ownership of
\* its key hold together: none of the three is inductive alone.
LEMMA EntryStep ==
    ASSUME IInv, [WalletNext]_walletVars
    PROVE  OneEntryPerKey' /\ DiamondBeforeCoin' /\ CoinKeyOwned'
    <1> USE DEF IInv, WalletTypeOK, OneEntryPerKey, DiamondBeforeCoin, CoinKeyOwned
    <1>1. ASSUME NEW r \in Requests, Insert(r)
          PROVE  OneEntryPerKey' /\ DiamondBeforeCoin' /\ CoinKeyOwned'
        <2> DEFINE c == call[r]
        <2>1. c \in Calls /\ c.op # "gift" /\ ~Booked(FirstLeg(c))
            BY <1>1 DEF Insert, Live, GiftsAreAtomic
        <2>2. ledger' = ledger \cup {FirstLeg(c)} /\ call' = call
            BY <1>1 DEF Insert
        <2>3. walletPc' = [walletPc EXCEPT ![r] = IF c.op = "convert" THEN "insertCoin" ELSE "ok"]
            BY <1>1 DEF Insert, Goto
        <2>4. \A q \in Requests : walletPc[q] = "insertCoin" => call[q].key # c.key \/ c.op # "convert"
            BY <2>1, EntryType DEF Booked
        <2>5. CoinKeyOwned'
            BY <2>2, <2>3, <2>4
        <2>6. DiamondBeforeCoin'
            BY <2>2, <2>3 DEF Booked
        <2>7. \A q \in Requests : walletPc'[q] = "insertCoin" => ~Booked(SecondLeg(call[q]))'
            <3> SUFFICES ASSUME NEW q \in Requests, walletPc'[q] = "insertCoin"
                         PROVE  ~Booked(SecondLeg(call[q]))'
                OBVIOUS
            <3>1. call[q] \in Calls /\ call[q].op = "convert"
                BY <2>3
            <3>2. SecondLeg(call[q]).leg = "coin" /\ FirstLeg(c).leg # "coin"
                BY <2>1, <3>1, EntryType
            <3>3. ~Booked(SecondLeg(call[q]))
                BY <2>1, <2>3, <3>1, <3>2, EntryType DEF Booked
            <3> QED  BY <2>2, <3>2, <3>3 DEF Booked
        <2>8. \A d, e \in ledger' : d.key = e.key /\ d.leg = e.leg => d = e
            BY <2>1, <2>2 DEF Booked
        <2>9. \A e \in ledger' : e.leg = "coin" =>
                 \E d \in ledger' : d.key = e.key /\ d.leg = "diamond"
            BY <2>1, <2>2, EntryType
        <2> QED  BY <2>5, <2>6, <2>7, <2>8, <2>9
    <1>2. ASSUME NEW r \in Requests, InsertCoin(r)
          PROVE  OneEntryPerKey' /\ DiamondBeforeCoin' /\ CoinKeyOwned'
        <2> DEFINE c == call[r]
        <2>1. /\ c \in Calls /\ c.op = "convert" /\ ~Booked(SecondLeg(c))
              /\ Booked(FirstLeg(c)) /\ walletPc[r] = "insertCoin"
            BY <1>2 DEF InsertCoin, Live
        <2>2. ledger' = ledger \cup {SecondLeg(c)} /\ call' = call
            BY <1>2 DEF InsertCoin
        <2>3. walletPc' = [walletPc EXCEPT ![r] = "ok"]
            BY <1>2 DEF InsertCoin, Goto
        <2>4. CoinKeyOwned' /\ DiamondBeforeCoin'
            BY <2>2, <2>3 DEF Booked
        <2>5. \A q \in Requests : walletPc'[q] = "insertCoin" => ~Booked(SecondLeg(call[q]))'
            BY <2>1, <2>2, <2>3, EntryType DEF Booked
        <2>6. \A d, e \in ledger' : d.key = e.key /\ d.leg = e.leg => d = e
            BY <2>1, <2>2 DEF Booked
        <2>7. \A e \in ledger' : e.leg = "coin" =>
                 \E d \in ledger' : d.key = e.key /\ d.leg = "diamond"
            BY <2>1, <2>2, EntryType DEF Booked
        <2> QED  BY <2>2, <2>4, <2>5, <2>6, <2>7
    <1>3. ASSUME NEW r \in Requests, Transfer(r)
          PROVE  OneEntryPerKey' /\ DiamondBeforeCoin' /\ CoinKeyOwned'
        <2> DEFINE c == call[r]
        <2>1. c \in Calls /\ c.op = "gift" /\ ~Booked(FirstLeg(c)) /\ ~Booked(SecondLeg(c))
            BY <1>3 DEF Transfer
        <2>2. ledger' = ledger \cup {FirstLeg(c), SecondLeg(c)} /\ call' = call
            BY <1>3 DEF Transfer
        <2>3. walletPc' = [walletPc EXCEPT ![r] = "ok"]
            BY <1>3 DEF Transfer, Goto
        <2>4. CoinKeyOwned' /\ DiamondBeforeCoin'
            BY <2>2, <2>3 DEF Booked
        <2>5. FirstLeg(c).leg # "coin" /\ SecondLeg(c).leg # "coin"
            BY <2>1, EntryType
        <2>6. \A q \in Requests : walletPc'[q] = "insertCoin" => ~Booked(SecondLeg(call[q]))'
            BY <2>1, <2>2, <2>3, <2>5, EntryType DEF Booked
        <2>7. \A d, e \in ledger' : d.key = e.key /\ d.leg = e.leg => d = e
            BY <2>1, <2>2, EntryType DEF Booked
        <2>8. \A e \in ledger' : e.leg = "coin" =>
                 \E d \in ledger' : d.key = e.key /\ d.leg = "diamond"
            BY <2>2, <2>5
        <2> QED  BY <2>2, <2>4, <2>6, <2>7, <2>8
    <1>4. ASSUME NEW r \in Requests, NEW c \in Calls, Begin(r, c)
          PROVE  OneEntryPerKey' /\ DiamondBeforeCoin' /\ CoinKeyOwned'
        <2>1. /\ ledger' = ledger
              /\ \A q \in Requests : walletPc'[q] = "insertCoin" =>
                    walletPc[q] = "insertCoin" /\ call'[q] = call[q]
            BY <1>4 DEF Begin, Live, Goto
        <2> QED  BY <2>1 DEF Booked
    <1>5. ASSUME NEW r \in Requests,
                 \/ Check(r) \/ Apply(r) \/ Refuse(r) \/ DuplicateKey(r)
                 \/ Reverse(r) \/ Reread(r)
          PROVE  OneEntryPerKey' /\ DiamondBeforeCoin' /\ CoinKeyOwned'
        <2>1. /\ ledger' = ledger /\ call' = call
              /\ \A q \in Requests : walletPc'[q] = "insertCoin" => walletPc[q] = "insertCoin"
            BY <1>5 DEF Check, Apply, Refuse, DuplicateKey, Reverse, Reread, Goto
        <2> QED  BY <2>1 DEF Booked
    <1>6. CASE UNCHANGED <<ledger, call, walletPc>>
        BY <1>6 DEF Booked
    <1> QED
        BY <1>1, <1>2, <1>3, <1>4, <1>5, <1>6 DEF WalletNext, Step, Stop, freeze,
           unfreeze, walletVars

\* Initially nothing has happened, and the opening balances owe nothing.
LEMMA InitIInv == WalletInit => IInv
    <1> SUFFICES ASSUME WalletInit PROVE IInv
        OBVIOUS
    <1> USE CallsAssumption, OpeningAssumption
    <1>1. (CHOOSE c \in Calls : TRUE) \in Calls
        OBVIOUS
    <1>2. WalletTypeOK
        BY <1>1 DEF WalletInit, WalletTypeOK, Pc
    <1>3. DebtBoundedByReversals
        BY DEF WalletInit, DebtBoundedByReversals
    <1>4. AckedMeansBooked /\ OneEntryPerKey
        BY DEF WalletInit, AckedMeansBooked, OneEntryPerKey
    <1>5. ValidOnceChecked /\ GiftsAreAtomic /\ DiamondBeforeCoin /\ CoinKeyOwned
        BY DEF WalletInit, ValidOnceChecked, GiftsAreAtomic, DiamondBeforeCoin, CoinKeyOwned
    <1> QED  BY <1>2, <1>3, <1>4, <1>5 DEF IInv

LEMMA NextIInv == IInv /\ [WalletNext]_walletVars => IInv'
    BY TypeStep, DebtStep, AckStep, RequestStep, EntryStep DEF IInv

THEOREM InductiveInvariant == WalletSpec => []IInv
    BY InitIInv, NextIInv, PTL DEF WalletSpec

\* Types, for every instance.
THEOREM WalletTyped == WalletSpec => []WalletTypeOK
    BY InductiveInvariant, PTL DEF IInv

\* However many retries race, a wallet owes at most what was rolled back from it:
\* without a duplicate key no balance is ever negative.
THEOREM DebtBounded == WalletSpec => []DebtBoundedByReversals
    BY InductiveInvariant, PTL DEF IInv

\* A call answered with success has all its entries in the ledger.
THEOREM AckedIsBooked == WalletSpec => []AckedMeansBooked
    BY InductiveInvariant, PTL DEF IInv

\* A key has one entry per leg, and never the coins of a conversion alone.
THEOREM KeysUnique == WalletSpec => []OneEntryPerKey
    BY InductiveInvariant, PTL DEF IInv

\* However requests with one key race, retry and crash, the key has one effect, and a
\* caller that is told so finds it booked.
THEOREM BookedExactlyOnce == WalletSpec => []BookedOnce
    BY AckedIsBooked, KeysUnique, PTL DEF BookedOnce

\* Freezing a wallet stops every movement of its balances but the taking back of
\* a duplicate.
LEMMA FrozenStep ==
    ASSUME IInv, [WalletNext]_walletVars, NEW u \in Users, u \in frozen, balance'[u] # balance[u]
    PROVE  \E r \in Requests : walletPc[r] = "reverse" /\ walletPc'[r] = "reread"
    <1> USE DEF IInv, WalletTypeOK
    <1>1. ASSUME NEW r \in Requests, Apply(r) \/ Transfer(r)
          PROVE  FALSE
        <2> DEFINE c == call[r]
        <2>1. \A m \in Currency : Credited(c, u, m) = 0 /\ Debited(c, u, m) = 0
            BY <1>1 DEF Apply, Transfer, Enough, Credited, Debited
        <2>2. balance'[u] = [m \in Currency |-> balance[u][m]]
            BY <1>1, <2>1 DEF Apply, Transfer, Inc
        <2> QED  BY <2>2
    <1>2. ASSUME NEW r \in Requests, Reverse(r)
          PROVE  walletPc[r] = "reverse" /\ walletPc'[r] = "reread"
        BY <1>2 DEF Reverse, Live, Goto
    <1>3. ~ UNCHANGED balance
        OBVIOUS
    <1> QED
        BY <1>1, <1>2, <1>3 DEF WalletNext, Step, walletVars, Begin, Check, Refuse, Insert,
           InsertCoin, DuplicateKey, Reread, Stop, freeze, unfreeze

THEOREM FrozenIsStill == WalletSpec => FrozenMovesOnlyBack
    <1>1. IInv /\ [WalletNext]_walletVars =>
            [\A u \in frozen :
                balance'[u] # balance[u] =>
                    \E r \in Requests : walletPc[r] = "reverse" /\ walletPc'[r] = "reread"]_walletVars
        BY FrozenStep DEF IInv, WalletTypeOK
    <1> QED  BY <1>1, InductiveInvariant, PTL DEF WalletSpec, FrozenMovesOnlyBack

------------------------------------------------------------------------------
\* The books.

\* What an entry adds to balance m of u, and to the lifetime total f.
Weight(e, u, m) == IF e.user = u /\ e.cur = m THEN Signed(e) ELSE 0
CountWeight(e, u, f) ==
    IF e.user = u /\ lifetimeFieldFor(e.cur, e.dir, e.type) = f THEN e.amount ELSE 0

\* One more entry adds its weight to both sums.
LEMMA BookedSumAdd ==
    ASSUME NEW L, IsFiniteSet(L), L \subseteq Entry, NEW x \in Entry, x \notin L,
           NEW u, NEW m
    PROVE  bookedSum(L \cup {x}, u, m) = bookedSum(L, u, m) + Weight(x, u, m)
    <1> DEFINE S == {d \in L : d.user = u /\ d.cur = m}
               T == {d \in L \cup {x} : d.user = u /\ d.cur = m}
               f == [e \in S |-> Signed(e)]
               g == [e \in T |-> Signed(e)]
    <1>1. IsFiniteSet(S)
        BY FS_Subset
    <1>2. \A e \in L \cup {x} : Signed(e) \in Int
        BY DEF Signed, Entry
    <1>3. CASE x.user = u /\ x.cur = m
        <2>1. T = S \cup {x} /\ x \notin S
            BY <1>3
        <2>2. /\ \A e \in S : f[e] \in Int /\ g[e] = f[e]
              /\ \A e \in S \cup {x} : g[e] \in Int
              /\ g[x] = Signed(x)
            BY <1>2, <2>1
        <2> HIDE DEF S, T, f, g
        <2>3. SumFunctionOnSet(g, T) = SumFunctionOnSet(g, S) + Signed(x)
            BY <1>1, <2>1, <2>2, SumAddElement
        <2>4. SumFunctionOnSet(g, S) = SumFunctionOnSet(f, S)
            BY <1>1, <2>2, SumSame
        <2>5. SumFunction(f) = SumFunctionOnSet(f, S) /\ SumFunction(g) = SumFunctionOnSet(g, T)
            BY DEF SumFunction, f, g
        <2>6. Weight(x, u, m) = Signed(x)
            BY <1>3 DEF Weight
        <2> QED  BY <2>3, <2>4, <2>5, <2>6 DEF bookedSum, f, g, S, T
    <1>4. CASE ~(x.user = u /\ x.cur = m)
        <2>1. T = S
            BY <1>4
        <2>2. bookedSum(L \cup {x}, u, m) = bookedSum(L, u, m)
            BY <2>1 DEF bookedSum
        <2>3. SumFunctionOnSet(f, S) \in Int
            BY <1>1, <1>2, SumType
        <2>4. bookedSum(L, u, m) = SumFunctionOnSet(f, S)
            BY DEF bookedSum, SumFunction
        <2> QED  BY <1>4, <2>2, <2>3, <2>4 DEF Weight
    <1> QED  BY <1>3, <1>4

LEMMA CountedSumAdd ==
    ASSUME NEW L, IsFiniteSet(L), L \subseteq Entry, NEW x \in Entry, x \notin L,
           NEW u, NEW f
    PROVE  countedSum(L \cup {x}, u, f) = countedSum(L, u, f) + CountWeight(x, u, f)
    <1> DEFINE S == {d \in L : d.user = u /\ lifetimeFieldFor(d.cur, d.dir, d.type) = f}
               T == {d \in L \cup {x} :
                        d.user = u /\ lifetimeFieldFor(d.cur, d.dir, d.type) = f}
               a == [e \in S |-> e.amount]
               b == [e \in T |-> e.amount]
    <1>1. IsFiniteSet(S)
        BY FS_Subset
    <1>2. \A e \in L \cup {x} : e.amount \in Int
        BY DEF Entry
    <1>3. CASE x.user = u /\ lifetimeFieldFor(x.cur, x.dir, x.type) = f
        <2>1. T = S \cup {x} /\ x \notin S
            BY <1>3
        <2>2. /\ \A e \in S : a[e] \in Int /\ b[e] = a[e]
              /\ \A e \in S \cup {x} : b[e] \in Int
              /\ b[x] = x.amount
            BY <1>2, <2>1
        <2> HIDE DEF S, T, a, b
        <2>3. SumFunctionOnSet(b, T) = SumFunctionOnSet(b, S) + x.amount
            BY <1>1, <2>1, <2>2, SumAddElement
        <2>4. SumFunctionOnSet(b, S) = SumFunctionOnSet(a, S)
            BY <1>1, <2>2, SumSame
        <2>5. SumFunction(a) = SumFunctionOnSet(a, S) /\ SumFunction(b) = SumFunctionOnSet(b, T)
            BY DEF SumFunction, a, b
        <2>6. CountWeight(x, u, f) = x.amount
            BY <1>3 DEF CountWeight
        <2> QED  BY <2>3, <2>4, <2>5, <2>6 DEF countedSum, a, b, S, T
    <1>4. CASE ~(x.user = u /\ lifetimeFieldFor(x.cur, x.dir, x.type) = f)
        <2>1. T = S
            BY <1>4
        <2>2. countedSum(L \cup {x}, u, f) = countedSum(L, u, f)
            BY <2>1 DEF countedSum
        <2>3. SumFunctionOnSet(a, S) \in Int
            BY <1>1, <1>2, SumType
        <2>4. countedSum(L, u, f) = SumFunctionOnSet(a, S)
            BY DEF countedSum, SumFunction
        <2> QED  BY <1>4, <2>2, <2>3, <2>4 DEF CountWeight
    <1> QED  BY <1>3, <1>4

\* The sums are integers.
LEMMA LedgerSumType ==
    ASSUME NEW L, IsFiniteSet(L), L \subseteq Entry, NEW u
    PROVE  /\ \A m : bookedSum(L, u, m) \in Int
           /\ \A f : countedSum(L, u, f) \in Int
    <1>1. \A e \in L : Signed(e) \in Int /\ e.amount \in Int
        BY DEF Signed, Entry
    <1>2. ASSUME NEW m  PROVE bookedSum(L, u, m) \in Int
        <2> DEFINE S == {d \in L : d.user = u /\ d.cur = m}
                   f == [e \in S |-> Signed(e)]
        <2>1. IsFiniteSet(S) /\ \A e \in S : f[e] \in Int
            BY <1>1, FS_Subset
        <2>2. bookedSum(L, u, m) = SumFunctionOnSet(f, S)
            BY DEF bookedSum, SumFunction
        <2> HIDE DEF S, f
        <2> QED  BY <2>1, <2>2, SumType
    <1>3. ASSUME NEW f  PROVE countedSum(L, u, f) \in Int
        <2> DEFINE S == {d \in L : d.user = u /\ lifetimeFieldFor(d.cur, d.dir, d.type) = f}
                   a == [e \in S |-> e.amount]
        <2>1. IsFiniteSet(S) /\ \A e \in S : a[e] \in Int
            BY <1>1, FS_Subset
        <2>2. countedSum(L, u, f) = SumFunctionOnSet(a, S)
            BY DEF countedSum, SumFunction
        <2> HIDE DEF S, a
        <2> QED  BY <2>1, <2>2, SumType
    <1> QED  BY <1>2, <1>3

\* The entries of a call weigh what it moves: a single entry or the pair all of it, the
\* diamond entry of a conversion what it takes, its coin entry what it brings.
LEMMA LegsWeighTheCall ==
    ASSUME NEW c \in Calls, Valid(c), NEW u \in Users
    PROVE  /\ \A m \in Currency :
              /\ c.op \in {"credit", "debit"} =>
                    Weight(FirstLeg(c), u, m) = Credited(c, u, m) - Debited(c, u, m)
              /\ c.op = "gift" => Weight(FirstLeg(c), u, m) + Weight(SecondLeg(c), u, m)
                                    = Credited(c, u, m) - Debited(c, u, m)
              /\ c.op = "convert" =>
                    /\ Weight(FirstLeg(c), u, m) = -Debited(c, u, m)
                    /\ Weight(SecondLeg(c), u, m) = Credited(c, u, m)
           /\ \A f \in LifetimeField :
              /\ c.op \in {"credit", "debit"} => CountWeight(FirstLeg(c), u, f) = Counted(c, u, f)
              /\ c.op = "gift" =>
                    CountWeight(FirstLeg(c), u, f) + CountWeight(SecondLeg(c), u, f)
                        = Counted(c, u, f)
              /\ c.op = "convert" =>
                    /\ Counted(c, u, f) = 0
                    /\ CountWeight(FirstLeg(c), u, f) = 0
                    /\ CountWeight(SecondLeg(c), u, f) = 0
    <1>1. c \in Call /\ c.amount \in Int /\ c.reward \in Int
        BY CallsAssumption DEF Call
    <1> USE DEF FirstLeg, SecondLeg, entry
    <1>2. ASSUME NEW m \in Currency, c.op \in {"credit", "debit"}
          PROVE  Weight(FirstLeg(c), u, m) = Credited(c, u, m) - Debited(c, u, m)
        BY <1>1, <1>2 DEF Weight, Signed, Credited, Debited
    <1>3. ASSUME NEW m \in Currency, c.op = "gift"
          PROVE  Weight(FirstLeg(c), u, m) + Weight(SecondLeg(c), u, m)
                    = Credited(c, u, m) - Debited(c, u, m)
        BY <1>1, <1>3 DEF Weight, Signed, Credited, Debited
    <1>4. ASSUME NEW m \in Currency, c.op = "convert"
          PROVE  /\ Weight(FirstLeg(c), u, m) = -Debited(c, u, m)
                 /\ Weight(SecondLeg(c), u, m) = Credited(c, u, m)
        BY <1>1, <1>4 DEF Weight, Signed, Credited, Debited
    <1>5. ASSUME NEW f \in LifetimeField, c.op \in {"credit", "debit"}
          PROVE  CountWeight(FirstLeg(c), u, f) = Counted(c, u, f)
        BY <1>1, <1>5 DEF CountWeight, Counted
    <1> USE DEF lifetimeFieldFor, LifetimeField, Recharges
    <1>6. ASSUME NEW f \in LifetimeField, c.op = "gift"
          PROVE  CountWeight(FirstLeg(c), u, f) + CountWeight(SecondLeg(c), u, f)
                    = Counted(c, u, f)
        BY <1>1, <1>6 DEF CountWeight, Counted
    <1>7. ASSUME NEW f \in LifetimeField, c.op = "convert"
          PROVE  /\ Counted(c, u, f) = 0
                 /\ CountWeight(FirstLeg(c), u, f) = 0
                 /\ CountWeight(SecondLeg(c), u, f) = 0
        BY <1>1, <1>7 DEF CountWeight, Counted
    <1> QED  BY <1>2, <1>3, <1>4, <1>5, <1>6, <1>7

\* What the requests hold is a number.
LEMMA HeldType ==
    ASSUME WalletTypeOK, NEW r \in Requests, NEW u \in Users
    PROVE  /\ \A m \in Currency : Held(r, u, m) \in Int /\ HeldUnposted(r, u, m) \in Int
           /\ \A f \in LifetimeField : HeldCount(r, u, f) \in Int
    <1>1. call[r] \in Calls
        BY DEF WalletTypeOK
    <1>2. \A m \in Currency : Debited(call[r], u, m) \in Int /\ Credited(call[r], u, m) \in Int
        BY <1>1, AmountType
    <1>3. \A f \in LifetimeField : Counted(call[r], u, f) \in Int
        BY <1>1, AmountType
    <1> QED  BY <1>2, <1>3 DEF Held, HeldUnposted, HeldCount

\* A step of one request changes what the requests hold by what that one does.
LEMMA HeldSumStep ==
    ASSUME WalletTypeOK, WalletTypeOK', NEW r \in Requests,
           \A q \in Requests \ {r} : walletPc'[q] = walletPc[q] /\ call'[q] = call[q],
           NEW u \in Users
    PROVE  /\ \A m \in Currency :
                /\ heldSum(u, m)' = heldSum(u, m) - Held(r, u, m) + Held(r, u, m)'
                /\ unpostedSum(u, m)'
                      = unpostedSum(u, m) - HeldUnposted(r, u, m) + HeldUnposted(r, u, m)'
           /\ \A f \in LifetimeField :
                heldCountSum(u, f)'
                      = heldCountSum(u, f) - HeldCount(r, u, f) + HeldCount(r, u, f)'
    <1>0. \A q \in Requests :
            /\ \A m \in Currency :
                /\ Debited(call'[q], u, m) \in Int /\ Credited(call'[q], u, m) \in Int
            /\ \A f \in LifetimeField : Counted(call'[q], u, f) \in Int
        <2>1. \A q \in Requests : call'[q] \in Calls
            BY DEF WalletTypeOK
        <2> QED  BY <2>1, AmountType
    <1>1. ASSUME NEW m \in Currency
          PROVE  heldSum(u, m)' = heldSum(u, m) - Held(r, u, m) + Held(r, u, m)'
        <2> DEFINE a == [q \in Requests |-> Held(q, u, m)]
                   b == [q \in Requests |-> Held(q, u, m)']
        <2>1. \A q \in Requests : a[q] \in Int /\ b[q] \in Int
            BY <1>0, HeldType DEF Held
        <2>2. \A q \in Requests \ {r} : b[q] = a[q]
            BY DEF Held
        <2>3. /\ heldSum(u, m) = SumFunctionOnSet(a, Requests)
              /\ heldSum(u, m)' = SumFunctionOnSet(b, Requests)
            BY DEF heldSum, SumFunction
        <2>4. a[r] = Held(r, u, m) /\ b[r] = Held(r, u, m)'
            OBVIOUS
        <2> HIDE DEF a, b
        <2> QED  BY <2>1, <2>2, <2>3, <2>4, SumUpdate, RequestsAssumption
    <1>2. ASSUME NEW m \in Currency
          PROVE  unpostedSum(u, m)' = unpostedSum(u, m) - HeldUnposted(r, u, m) + HeldUnposted(r, u, m)'
        <2> DEFINE a == [q \in Requests |-> HeldUnposted(q, u, m)]
                   b == [q \in Requests |-> HeldUnposted(q, u, m)']
        <2>1. \A q \in Requests : a[q] \in Int /\ b[q] \in Int
            BY <1>0, HeldType DEF HeldUnposted, Held
        <2>2. \A q \in Requests \ {r} : b[q] = a[q]
            BY DEF HeldUnposted, Held
        <2>3. /\ unpostedSum(u, m) = SumFunctionOnSet(a, Requests)
              /\ unpostedSum(u, m)' = SumFunctionOnSet(b, Requests)
            BY DEF unpostedSum, SumFunction
        <2>4. a[r] = HeldUnposted(r, u, m) /\ b[r] = HeldUnposted(r, u, m)'
            OBVIOUS
        <2> HIDE DEF a, b
        <2> QED  BY <2>1, <2>2, <2>3, <2>4, SumUpdate, RequestsAssumption
    <1>3. ASSUME NEW f \in LifetimeField
          PROVE  heldCountSum(u, f)' = heldCountSum(u, f) - HeldCount(r, u, f) + HeldCount(r, u, f)'
        <2> DEFINE a == [q \in Requests |-> HeldCount(q, u, f)]
                   b == [q \in Requests |-> HeldCount(q, u, f)']
        <2>1. \A q \in Requests : a[q] \in Int /\ b[q] \in Int
            BY <1>0, HeldType DEF HeldCount
        <2>2. \A q \in Requests \ {r} : b[q] = a[q]
            BY DEF HeldCount
        <2>3. /\ heldCountSum(u, f) = SumFunctionOnSet(a, Requests)
              /\ heldCountSum(u, f)' = SumFunctionOnSet(b, Requests)
            BY DEF heldCountSum, SumFunction
        <2>4. a[r] = HeldCount(r, u, f) /\ b[r] = HeldCount(r, u, f)'
            OBVIOUS
        <2> HIDE DEF a, b
        <2> QED  BY <2>1, <2>2, <2>3, <2>4, SumUpdate, RequestsAssumption
    <1> QED  BY <1>1, <1>2, <1>3

\* Which request a step is of: nobody else moves.
LEMMA OthersStand ==
    ASSUME WalletTypeOK, NEW r \in Requests,
           \/ \E c \in Calls : Begin(r, c)
           \/ Check(r) \/ Apply(r) \/ Transfer(r) \/ Refuse(r) \/ Insert(r) \/ InsertCoin(r)
           \/ DuplicateKey(r) \/ Reverse(r) \/ Reread(r)
    PROVE  \A q \in Requests \ {r} : walletPc'[q] = walletPc[q] /\ call'[q] = call[q]
    BY DEF WalletTypeOK, Begin, Check, Apply, Transfer, Refuse, Insert, InsertCoin,
           DuplicateKey, Reverse, Reread, Goto

\* A step that writes no entry moves the wallets by what the request holds more, or
\* less, after it.
LEMMA UnbookedStep ==
    ASSUME IInv, NEW r \in Requests,
           \/ \E c \in Calls : Begin(r, c)
           \/ Check(r) \/ Apply(r) \/ Refuse(r) \/ DuplicateKey(r) \/ Reverse(r) \/ Reread(r),
           NEW u \in Users
    PROVE  /\ ledger' = ledger
           /\ \A m \in Currency :
                /\ balance'[u][m] = balance[u][m] + Held(r, u, m)' - Held(r, u, m)
                /\ balance'[u][m] = balance[u][m] + HeldUnposted(r, u, m)'
                                       - HeldUnposted(r, u, m)
           /\ \A f \in LifetimeField :
                lifetime'[u][f] = lifetime[u][f] + HeldCount(r, u, f)' - HeldCount(r, u, f)
    <1> USE DEF IInv, WalletTypeOK
    <1>1. /\ \A m \in Currency : balance[u][m] \in Int
          /\ \A f \in LifetimeField : lifetime[u][f] \in Int
        OBVIOUS
    <1>2. \A c \in Calls :
            /\ \A m \in Currency : Debited(c, u, m) \in Int /\ Credited(c, u, m) \in Int
            /\ \A f \in LifetimeField : Counted(c, u, f) \in Int
        BY AmountType
    <1>3. CASE \/ \E c \in Calls : Begin(r, c)
               \/ Check(r) \/ Refuse(r) \/ Reread(r)
        <2>1. /\ ledger' = ledger /\ balance' = balance /\ lifetime' = lifetime
              /\ walletPc[r] \in {"idle", "check", "apply", "reread"}
              /\ walletPc'[r] \in {"check", "apply", "ok", "failed"}
            BY <1>3 DEF Begin, Check, Refuse, Reread, Live, Goto
        <2> QED  BY <1>1, <2>1 DEF Held, HeldUnposted, HeldCount
    <1>4. CASE DuplicateKey(r)
        <2>1. /\ ledger' = ledger /\ balance' = balance /\ lifetime' = lifetime
              /\ call' = call
            BY <1>4 DEF DuplicateKey
        <2>2. walletPc[r] = "insert" /\ walletPc'[r] = "reverse"
            BY <1>4 DEF DuplicateKey, Live, Goto, OneEntryPerKey
        <2> QED  BY <1>1, <1>2, <2>1, <2>2 DEF Held, HeldUnposted, HeldCount
    <1>5. CASE Apply(r)
        <2>1. /\ ledger' = ledger /\ call' = call /\ walletPc[r] = "apply" /\ walletPc'[r] = "insert"
            BY <1>5 DEF Apply, Live, Goto
        <2>2. /\ \A m \in Currency : balance'[u][m] =
                    balance[u][m] + Credited(call[r], u, m) - Debited(call[r], u, m)
              /\ \A f \in LifetimeField : lifetime'[u][f] =
                    lifetime[u][f] + Counted(call[r], u, f)
            BY <1>5 DEF Apply, Inc
        <2> QED  BY <1>1, <1>2, <2>1, <2>2 DEF Held, HeldUnposted, HeldCount
    <1>6. CASE Reverse(r)
        <2>1. /\ ledger' = ledger /\ call' = call /\ walletPc[r] = "reverse" /\ walletPc'[r] = "reread"
            BY <1>6 DEF Reverse, Live, Goto
        <2>2. /\ \A m \in Currency : balance'[u][m] =
                    balance[u][m] - Credited(call[r], u, m) + Debited(call[r], u, m)
              /\ \A f \in LifetimeField : lifetime'[u][f] =
                    lifetime[u][f] - Counted(call[r], u, f)
            BY <1>6 DEF Reverse, IncBack
        <2> QED  BY <1>1, <1>2, <2>1, <2>2 DEF Held, HeldUnposted, HeldCount
    <1> QED  BY <1>3, <1>4, <1>5, <1>6

\* A step that writes one entry leaves the wallets alone: the entry weighs what the
\* request no longer holds.
LEMMA InsertStep ==
    ASSUME IInv, NEW r \in Requests, Insert(r) \/ InsertCoin(r)
    PROVE  \E x \in Entry :
              /\ x \notin ledger /\ ledger' = ledger \cup {x}
              /\ balance' = balance /\ lifetime' = lifetime
              /\ \A u \in Users :
                    /\ \A m \in Currency : Weight(x, u, m) = Held(r, u, m) - Held(r, u, m)'
                    /\ \A f \in LifetimeField :
                          CountWeight(x, u, f) = HeldCount(r, u, f) - HeldCount(r, u, f)'
    <1> USE DEF IInv, WalletTypeOK
    <1> DEFINE c == call[r]
    <1>1. c \in Calls /\ Valid(c) /\ call' = call
        BY DEF Insert, InsertCoin, Live, ValidOnceChecked
    <1>2. \A u \in Users :
            /\ \A m \in Currency : Debited(c, u, m) \in Int /\ Credited(c, u, m) \in Int
            /\ \A f \in LifetimeField : Counted(c, u, f) \in Int
        BY <1>1, AmountType
    <1>3. CASE Insert(r)
        <2>1. /\ FirstLeg(c) \in Entry /\ FirstLeg(c) \notin ledger
              /\ ledger' = ledger \cup {FirstLeg(c)}
              /\ balance' = balance /\ lifetime' = lifetime
              /\ walletPc[r] = "insert" /\ c.op # "gift"
              /\ walletPc'[r] = IF c.op = "convert" THEN "insertCoin" ELSE "ok"
            BY <1>1, <1>3, EntryType DEF Insert, Live, Goto, Booked, GiftsAreAtomic
        <2>2. c.op \in {"credit", "debit", "convert"}
            BY <1>1, <2>1, CallsAssumption DEF Call
        <2>3. ASSUME NEW u \in Users
              PROVE  /\ \A m \in Currency :
                          Weight(FirstLeg(c), u, m) = Held(r, u, m) - Held(r, u, m)'
                     /\ \A f \in LifetimeField :
                          CountWeight(FirstLeg(c), u, f) = HeldCount(r, u, f) - HeldCount(r, u, f)'
            <3>1. CASE c.op \in {"credit", "debit"}
                BY <1>1, <1>2, <2>1, <3>1, LegsWeighTheCall DEF Held, HeldCount
            <3>2. CASE c.op = "convert"
                BY <1>1, <1>2, <2>1, <3>2, LegsWeighTheCall DEF Held, HeldCount
            <3> QED  BY <2>2, <3>1, <3>2
        <2> QED  BY <2>1, <2>3
    <1>4. CASE InsertCoin(r)
        <2>1. /\ c.op = "convert" /\ SecondLeg(c) \in Entry /\ SecondLeg(c) \notin ledger
              /\ ledger' = ledger \cup {SecondLeg(c)}
              /\ balance' = balance /\ lifetime' = lifetime
              /\ walletPc[r] = "insertCoin" /\ walletPc'[r] = "ok"
            BY <1>1, <1>4, EntryType DEF InsertCoin, Live, Goto, Booked, DiamondBeforeCoin
        <2>2. ASSUME NEW u \in Users
              PROVE  /\ \A m \in Currency :
                          Weight(SecondLeg(c), u, m) = Held(r, u, m) - Held(r, u, m)'
                     /\ \A f \in LifetimeField :
                          CountWeight(SecondLeg(c), u, f) = HeldCount(r, u, f) - HeldCount(r, u, f)'
            BY <1>1, <1>2, <2>1, LegsWeighTheCall DEF Held, HeldCount
        <2> QED  BY <2>1, <2>2
    <1> QED  BY <1>3, <1>4

\* The transaction of a gift writes two entries that together weigh what it moves.
LEMMA TransferStep ==
    ASSUME IInv, NEW r \in Requests, Transfer(r)
    PROVE  /\ FirstLeg(call[r]) \in Entry /\ SecondLeg(call[r]) \in Entry
           /\ FirstLeg(call[r]) \notin ledger
           /\ SecondLeg(call[r]) \notin ledger \cup {FirstLeg(call[r])}
           /\ ledger' = (ledger \cup {FirstLeg(call[r])}) \cup {SecondLeg(call[r])}
           /\ \A u \in Users :
                /\ \A m \in Currency :
                    /\ balance'[u][m] = balance[u][m] + Weight(FirstLeg(call[r]), u, m)
                                           + Weight(SecondLeg(call[r]), u, m)
                    /\ Held(r, u, m) = 0 /\ Held(r, u, m)' = 0
                /\ \A f \in LifetimeField :
                    /\ lifetime'[u][f] = lifetime[u][f] + CountWeight(FirstLeg(call[r]), u, f)
                                           + CountWeight(SecondLeg(call[r]), u, f)
                    /\ HeldCount(r, u, f) = 0 /\ HeldCount(r, u, f)' = 0
    <1> USE DEF IInv, WalletTypeOK
    <1> DEFINE c == call[r]
    <1>1. /\ c \in Calls /\ c.op = "gift" /\ Valid(c)
          /\ walletPc[r] = "apply" /\ walletPc'[r] = "ok"
        BY DEF Transfer, Live, Goto, ValidOnceChecked
    <1>2. /\ FirstLeg(c) \in Entry /\ SecondLeg(c) \in Entry /\ FirstLeg(c) # SecondLeg(c)
        BY <1>1, EntryType
    <1>3. FirstLeg(c) \notin ledger /\ SecondLeg(c) \notin ledger
        BY DEF Transfer, Booked
    <1>4. ledger' = (ledger \cup {FirstLeg(c)}) \cup {SecondLeg(c)}
        BY DEF Transfer
    <1>5. ASSUME NEW u \in Users
          PROVE  /\ \A m \in Currency :
                    balance'[u][m] = balance[u][m] + Weight(FirstLeg(c), u, m)
                                       + Weight(SecondLeg(c), u, m)
                 /\ \A f \in LifetimeField :
                    lifetime'[u][f] = lifetime[u][f] + CountWeight(FirstLeg(c), u, f)
                                        + CountWeight(SecondLeg(c), u, f)
        <2>1. /\ \A m \in Currency :
                    /\ balance'[u][m] = balance[u][m] + Credited(c, u, m) - Debited(c, u, m)
                    /\ balance[u][m] \in Int
                    /\ Debited(c, u, m) \in Int /\ Credited(c, u, m) \in Int
              /\ \A f \in LifetimeField :
                    /\ lifetime'[u][f] = lifetime[u][f] + Counted(c, u, f)
                    /\ lifetime[u][f] \in Int /\ Counted(c, u, f) \in Int
            BY <1>1, AmountType DEF Transfer, Inc
        <2>2. \A m : Weight(FirstLeg(c), u, m) \in Int /\ Weight(SecondLeg(c), u, m) \in Int
            BY <1>2 DEF Weight, Signed, Entry
        <2>3. \A f : /\ CountWeight(FirstLeg(c), u, f) \in Int
                     /\ CountWeight(SecondLeg(c), u, f) \in Int
            BY <1>2 DEF CountWeight, Entry
        <2>4. /\ \A m \in Currency : Weight(FirstLeg(c), u, m) + Weight(SecondLeg(c), u, m)
                                        = Credited(c, u, m) - Debited(c, u, m)
              /\ \A f \in LifetimeField :
                    CountWeight(FirstLeg(c), u, f) + CountWeight(SecondLeg(c), u, f)
                        = Counted(c, u, f)
            BY <1>1, LegsWeighTheCall
        <2> HIDE DEF c
        <2> QED  BY <2>1, <2>2, <2>3, <2>4
    <1> QED  BY <1>1, <1>2, <1>3, <1>4, <1>5 DEF Held, HeldCount

\* The inductive invariant of the books: the sums are of finitely many entries.
BooksInv ==
    /\ IInv
    /\ IsFiniteSet(ledger)
    /\ Reconciled
    /\ LifetimeReconciled

LEMMA BooksInit == WalletInit => BooksInv
    <1> SUFFICES ASSUME WalletInit PROVE BooksInv
        OBVIOUS
    <1>1. IInv /\ IsFiniteSet(ledger)
        BY InitIInv, FS_EmptySet DEF WalletInit
    <1>2. ASSUME NEW u \in Users, NEW m \in Currency
          PROVE  balance[u][m] = Opening[u][m] + bookedSum(ledger, u, m) + heldSum(u, m)
        <2>1. balance[u][m] = Opening[u][m] /\ Opening[u][m] \in Int
            BY OpeningAssumption DEF WalletInit
        <2>2. bookedSum(ledger, u, m) = 0
            <3>1. {d \in ledger : d.user = u /\ d.cur = m} = {}
                BY DEF WalletInit
            <3> QED  BY <3>1, SumEmpty DEF bookedSum, SumFunction
        <2>3. heldSum(u, m) = 0
            <3> DEFINE a == [r \in Requests |-> Held(r, u, m)]
            <3>1. \A r \in Requests : a[r] = 0
                BY DEF WalletInit, Held
            <3>2. heldSum(u, m) = SumFunctionOnSet(a, Requests)
                BY DEF heldSum, SumFunction
            <3> HIDE DEF a
            <3> QED  BY <3>1, <3>2, SumZero, RequestsAssumption
        <2> QED  BY <2>1, <2>2, <2>3
    <1>3. ASSUME NEW u \in Users, NEW f \in LifetimeField
          PROVE  lifetime[u][f] = countedSum(ledger, u, f) + heldCountSum(u, f)
        <2>1. lifetime[u][f] = 0
            BY <1>3 DEF WalletInit
        <2>2. countedSum(ledger, u, f) = 0
            <3>1. {d \in ledger : d.user = u /\ lifetimeFieldFor(d.cur, d.dir, d.type) = f} = {}
                BY DEF WalletInit
            <3> QED  BY <3>1, SumEmpty DEF countedSum, SumFunction
        <2>3. heldCountSum(u, f) = 0
            <3> DEFINE a == [r \in Requests |-> HeldCount(r, u, f)]
            <3>1. \A r \in Requests : a[r] = 0
                BY DEF WalletInit, HeldCount
            <3>2. heldCountSum(u, f) = SumFunctionOnSet(a, Requests)
                BY DEF heldCountSum, SumFunction
            <3> HIDE DEF a
            <3> QED  BY <3>1, <3>2, SumZero, RequestsAssumption
        <2> QED  BY <2>1, <2>2, <2>3
    <1> QED  BY <1>1, <1>2, <1>3 DEF BooksInv, Reconciled, LifetimeReconciled

\* What the requests hold of a balance or a total is a number.
LEMMA HeldSumType ==
    ASSUME WalletTypeOK, NEW u \in Users
    PROVE  /\ \A m \in Currency : heldSum(u, m) \in Int /\ unpostedSum(u, m) \in Int
           /\ \A f \in LifetimeField : heldCountSum(u, f) \in Int
    <1>1. ASSUME NEW m \in Currency  PROVE heldSum(u, m) \in Int
        <2> DEFINE a == [r \in Requests |-> Held(r, u, m)]
        <2>1. \A r \in Requests : a[r] \in Int
            BY HeldType
        <2>2. heldSum(u, m) = SumFunctionOnSet(a, Requests)
            BY DEF heldSum, SumFunction
        <2> HIDE DEF a
        <2> QED  BY <2>1, <2>2, SumType, RequestsAssumption
    <1>2. ASSUME NEW m \in Currency  PROVE unpostedSum(u, m) \in Int
        <2> DEFINE a == [r \in Requests |-> HeldUnposted(r, u, m)]
        <2>1. \A r \in Requests : a[r] \in Int
            BY HeldType
        <2>2. unpostedSum(u, m) = SumFunctionOnSet(a, Requests)
            BY DEF unpostedSum, SumFunction
        <2> HIDE DEF a
        <2> QED  BY <2>1, <2>2, SumType, RequestsAssumption
    <1>3. ASSUME NEW f \in LifetimeField  PROVE heldCountSum(u, f) \in Int
        <2> DEFINE a == [r \in Requests |-> HeldCount(r, u, f)]
        <2>1. \A r \in Requests : a[r] \in Int
            BY HeldType
        <2>2. heldCountSum(u, f) = SumFunctionOnSet(a, Requests)
            BY DEF heldCountSum, SumFunction
        <2> HIDE DEF a
        <2> QED  BY <2>1, <2>2, SumType, RequestsAssumption
    <1> QED  BY <1>1, <1>2, <1>3

\* No step moves a balance or a total away from its entries and what is held.
LEMMA BooksNext == BooksInv /\ [WalletNext]_walletVars => BooksInv'
    <1> SUFFICES ASSUME BooksInv, [WalletNext]_walletVars  PROVE BooksInv'
        OBVIOUS
    <1>1. IInv /\ WalletTypeOK /\ IInv' /\ WalletTypeOK' /\ IsFiniteSet(ledger) /\ ledger \subseteq Entry
        BY NextIInv DEF BooksInv, IInv, WalletTypeOK
    <1>2. \A u \in Users :
            /\ \A m \in Currency :
                /\ balance[u][m] = Opening[u][m] + bookedSum(ledger, u, m) + heldSum(u, m)
                /\ Opening[u][m] \in Int /\ heldSum(u, m) \in Int
                /\ bookedSum(ledger, u, m) \in Int
            /\ \A f \in LifetimeField :
                /\ lifetime[u][f] = countedSum(ledger, u, f) + heldCountSum(u, f)
                /\ heldCountSum(u, f) \in Int /\ countedSum(ledger, u, f) \in Int
        <2>1. ASSUME NEW u \in Users, NEW m \in Currency
              PROVE  /\ Opening[u][m] \in Int /\ heldSum(u, m) \in Int
                     /\ bookedSum(ledger, u, m) \in Int
            BY <1>1, HeldSumType, LedgerSumType, OpeningAssumption
        <2>2. ASSUME NEW u \in Users, NEW f \in LifetimeField
              PROVE  heldCountSum(u, f) \in Int /\ countedSum(ledger, u, f) \in Int
            BY <1>1, HeldSumType, LedgerSumType
        <2> QED  BY <2>1, <2>2 DEF BooksInv, Reconciled, LifetimeReconciled
    <1> DEFINE BooksOf(u) ==
                  /\ \A m \in Currency :
                       balance'[u][m] = Opening[u][m] + bookedSum(ledger', u, m) + heldSum(u, m)'
                  /\ \A f \in LifetimeField :
                       lifetime'[u][f] = countedSum(ledger', u, f) + heldCountSum(u, f)'
    <1>3. SUFFICES ASSUME NEW u \in Users
                   PROVE  IsFiniteSet(ledger') /\ BooksOf(u)
        <2>1. Users # {}
            BY CallsAssumption DEF Call
        <2>2. SUFFICES ASSUME \A u \in Users : BooksOf(u)
                       PROVE  Reconciled' /\ LifetimeReconciled'
            BY <1>1, <1>3, <2>1 DEF BooksInv
        <2>3. Reconciled'
            BY <2>2 DEF Reconciled, bookedSum
        <2>4. LifetimeReconciled'
            BY <2>2 DEF LifetimeReconciled, countedSum
        <2> QED  BY <2>3, <2>4
    <1>4. ASSUME NEW r \in Requests
          PROVE  /\ \A m \in Currency : Held(r, u, m) \in Int /\ Held(r, u, m)' \in Int
                 /\ \A f \in LifetimeField : HeldCount(r, u, f) \in Int /\ HeldCount(r, u, f)' \in Int
        <2>1. \A c \in Calls :
                /\ \A m \in Currency : Debited(c, u, m) \in Int /\ Credited(c, u, m) \in Int
                /\ \A f \in LifetimeField : Counted(c, u, f) \in Int
            BY AmountType
        <2>2. call[r] \in Calls /\ call'[r] \in Calls
            BY <1>1 DEF WalletTypeOK
        <2> QED  BY <2>1, <2>2 DEF Held, HeldCount
    <1>5. ASSUME NEW r \in Requests,
                 \/ \E c \in Calls : Begin(r, c)
                 \/ Check(r) \/ Apply(r) \/ Refuse(r) \/ DuplicateKey(r) \/ Reverse(r) \/ Reread(r)
          PROVE  IsFiniteSet(ledger') /\ BooksOf(u)
        <2>1. /\ ledger' = ledger
              /\ \A m \in Currency :
                    balance'[u][m] = balance[u][m] + Held(r, u, m)' - Held(r, u, m)
              /\ \A f \in LifetimeField :
                    lifetime'[u][f] = lifetime[u][f] + HeldCount(r, u, f)' - HeldCount(r, u, f)
            BY <1>1, <1>5, UnbookedStep
        <2>2. \A q \in Requests \ {r} : walletPc'[q] = walletPc[q] /\ call'[q] = call[q]
            BY <1>1, <1>5, OthersStand
        <2>3. /\ \A m \in Currency :
                    heldSum(u, m)' = heldSum(u, m) - Held(r, u, m) + Held(r, u, m)'
              /\ \A f \in LifetimeField : heldCountSum(u, f)'
                        = heldCountSum(u, f) - HeldCount(r, u, f) + HeldCount(r, u, f)'
            BY <1>1, <2>2, HeldSumStep
        <2> QED  BY <1>1, <1>2, <1>4, <2>1, <2>3
    <1>6. ASSUME NEW r \in Requests, Insert(r) \/ InsertCoin(r)
          PROVE  IsFiniteSet(ledger') /\ BooksOf(u)
        <2>1. PICK x \in Entry :
              /\ x \notin ledger /\ ledger' = ledger \cup {x}
              /\ balance' = balance /\ lifetime' = lifetime
              /\ \A m \in Currency : Weight(x, u, m) = Held(r, u, m) - Held(r, u, m)'
              /\ \A f \in LifetimeField :
                    CountWeight(x, u, f) = HeldCount(r, u, f) - HeldCount(r, u, f)'
            BY <1>1, <1>6, InsertStep
        <2>2. \A q \in Requests \ {r} : walletPc'[q] = walletPc[q] /\ call'[q] = call[q]
            BY <1>1, <1>6, OthersStand
        <2>3. /\ \A m \in Currency :
                    heldSum(u, m)' = heldSum(u, m) - Held(r, u, m) + Held(r, u, m)'
              /\ \A f \in LifetimeField : heldCountSum(u, f)'
                        = heldCountSum(u, f) - HeldCount(r, u, f) + HeldCount(r, u, f)'
            BY <1>1, <2>2, HeldSumStep
        <2>4. /\ \A m \in Currency :
                    bookedSum(ledger', u, m) = bookedSum(ledger, u, m) + Weight(x, u, m)
              /\ \A f \in LifetimeField :
                    countedSum(ledger', u, f) = countedSum(ledger, u, f) + CountWeight(x, u, f)
            BY <1>1, <2>1, BookedSumAdd, CountedSumAdd
        <2>5. IsFiniteSet(ledger')
            BY <1>1, <2>1, FS_AddElement
        <2>6. ASSUME NEW m \in Currency
              PROVE  balance'[u][m] = Opening[u][m] + bookedSum(ledger', u, m) + heldSum(u, m)'
            <3>1. /\ balance[u][m] = Opening[u][m] + bookedSum(ledger, u, m) + heldSum(u, m)
                  /\ Opening[u][m] \in Int /\ heldSum(u, m) \in Int
                  /\ bookedSum(ledger, u, m) \in Int
                BY <1>2
            <3>2. Held(r, u, m) \in Int /\ Held(r, u, m)' \in Int
                BY <1>4
            <3>3. /\ balance' = balance
                  /\ heldSum(u, m)' = heldSum(u, m) - Held(r, u, m) + Held(r, u, m)'
                  /\ bookedSum(ledger', u, m)
                        = bookedSum(ledger, u, m) + (Held(r, u, m) - Held(r, u, m)')
                BY <2>1, <2>3, <2>4
            <3> QED  BY <3>1, <3>2, <3>3
        <2>7. ASSUME NEW f \in LifetimeField
              PROVE  lifetime'[u][f] = countedSum(ledger', u, f) + heldCountSum(u, f)'
            <3>1. /\ lifetime[u][f] = countedSum(ledger, u, f) + heldCountSum(u, f)
                  /\ heldCountSum(u, f) \in Int /\ countedSum(ledger, u, f) \in Int
                BY <1>2
            <3>2. HeldCount(r, u, f) \in Int /\ HeldCount(r, u, f)' \in Int
                BY <1>4
            <3>3. /\ lifetime' = lifetime
                  /\ heldCountSum(u, f)'
                        = heldCountSum(u, f) - HeldCount(r, u, f) + HeldCount(r, u, f)'
                  /\ countedSum(ledger', u, f)
                        = countedSum(ledger, u, f) + (HeldCount(r, u, f) - HeldCount(r, u, f)')
                BY <2>1, <2>3, <2>4
            <3> QED  BY <3>1, <3>2, <3>3
        <2> QED  BY <2>5, <2>6, <2>7
    <1>7. ASSUME NEW r \in Requests, Transfer(r)
          PROVE  IsFiniteSet(ledger') /\ BooksOf(u)
        <2> DEFINE x == FirstLeg(call[r])
                   y == SecondLeg(call[r])
                   L == ledger \cup {x}
        <2>1. /\ x \in Entry /\ y \in Entry /\ x \notin ledger /\ y \notin L
              /\ ledger' = L \cup {y}
              /\ \A m \in Currency :
                    /\ balance'[u][m] = balance[u][m] + Weight(x, u, m) + Weight(y, u, m)
                    /\ Held(r, u, m) = 0 /\ Held(r, u, m)' = 0
              /\ \A f \in LifetimeField :
                    /\ lifetime'[u][f] = lifetime[u][f] + CountWeight(x, u, f) + CountWeight(y, u, f)
                    /\ HeldCount(r, u, f) = 0 /\ HeldCount(r, u, f)' = 0
            BY <1>1, <1>7, TransferStep
        <2>2. \A q \in Requests \ {r} : walletPc'[q] = walletPc[q] /\ call'[q] = call[q]
            BY <1>1, <1>7, OthersStand
        <2>3. /\ \A m \in Currency :
                    heldSum(u, m)' = heldSum(u, m) - Held(r, u, m) + Held(r, u, m)'
              /\ \A f \in LifetimeField : heldCountSum(u, f)'
                        = heldCountSum(u, f) - HeldCount(r, u, f) + HeldCount(r, u, f)'
            BY <1>1, <2>2, HeldSumStep
        <2>4. \A m : Weight(x, u, m) \in Int /\ Weight(y, u, m) \in Int
            BY <2>1 DEF Weight, Signed, Entry
        <2>5. \A f : CountWeight(x, u, f) \in Int /\ CountWeight(y, u, f) \in Int
            BY <2>1 DEF CountWeight, Entry
        <2> HIDE DEF x, y
        <2>6. IsFiniteSet(L) /\ L \subseteq Entry /\ IsFiniteSet(ledger')
            BY <1>1, <2>1, FS_AddElement
        <2>7. /\ \A m : bookedSum(L, u, m) = bookedSum(ledger, u, m) + Weight(x, u, m)
              /\ \A f : countedSum(L, u, f) = countedSum(ledger, u, f) + CountWeight(x, u, f)
            BY <1>1, <2>1, BookedSumAdd, CountedSumAdd
        <2> HIDE DEF L
        <2>8. /\ \A m : bookedSum(ledger', u, m) = bookedSum(L, u, m) + Weight(y, u, m)
              /\ \A f : countedSum(ledger', u, f) = countedSum(L, u, f) + CountWeight(y, u, f)
            BY <2>1, <2>6, BookedSumAdd, CountedSumAdd
        <2>9. ASSUME NEW m \in Currency
              PROVE  balance'[u][m] = Opening[u][m] + bookedSum(ledger', u, m) + heldSum(u, m)'
            <3>1. /\ balance[u][m] = Opening[u][m] + bookedSum(ledger, u, m) + heldSum(u, m)
                  /\ Opening[u][m] \in Int /\ heldSum(u, m) \in Int
                  /\ bookedSum(ledger, u, m) \in Int
                BY <1>2
            <3>2. /\ balance'[u][m] = balance[u][m] + Weight(x, u, m) + Weight(y, u, m)
                  /\ Weight(x, u, m) \in Int /\ Weight(y, u, m) \in Int
                  /\ heldSum(u, m)' = heldSum(u, m) - 0 + 0
                BY <2>1, <2>3, <2>4
            <3>3. /\ bookedSum(L, u, m) = bookedSum(ledger, u, m) + Weight(x, u, m)
                  /\ bookedSum(ledger', u, m) = bookedSum(L, u, m) + Weight(y, u, m)
                BY <2>7, <2>8
            <3> QED  BY <3>1, <3>2, <3>3
        <2>10. ASSUME NEW f \in LifetimeField
               PROVE  lifetime'[u][f] = countedSum(ledger', u, f) + heldCountSum(u, f)'
            <3>1. /\ lifetime[u][f] = countedSum(ledger, u, f) + heldCountSum(u, f)
                  /\ heldCountSum(u, f) \in Int /\ countedSum(ledger, u, f) \in Int
                BY <1>2
            <3>2. /\ lifetime'[u][f] = lifetime[u][f] + CountWeight(x, u, f) + CountWeight(y, u, f)
                  /\ CountWeight(x, u, f) \in Int /\ CountWeight(y, u, f) \in Int
                  /\ heldCountSum(u, f)' = heldCountSum(u, f) - 0 + 0
                BY <2>1, <2>3, <2>5
            <3>3. /\ countedSum(L, u, f) = countedSum(ledger, u, f) + CountWeight(x, u, f)
                  /\ countedSum(ledger', u, f) = countedSum(L, u, f) + CountWeight(y, u, f)
                BY <2>7, <2>8
            <3> QED  BY <3>1, <3>2, <3>3
        <2> QED  BY <2>6, <2>9, <2>10
    <1>8. CASE UNCHANGED <<balance, lifetime, ledger, call, walletPc>>
        <2>1. /\ \A m \in Currency : heldSum(u, m)' = heldSum(u, m)
              /\ \A f \in LifetimeField : heldCountSum(u, f)' = heldCountSum(u, f)
            BY <1>8 DEF heldSum, heldCountSum, Held, HeldCount
        <2> QED  BY <1>1, <1>2, <1>8, <2>1
    <1> QED
        BY <1>5, <1>6, <1>7, <1>8 DEF WalletNext, Step, Stop, freeze, unfreeze, walletVars

\* Whatever is retried, rolled back or left half way, every coin and diamond of a wallet
\* is its opening balance, its entries and what the unfinished requests hold.
THEOREM BooksAlwaysBalance == WalletSpec => []BooksBalance
    <1>1. WalletSpec => []BooksInv
        BY BooksInit, BooksNext, PTL DEF WalletSpec
    <1>2. BooksInv => BooksBalance
        BY DEF BooksInv, IInv, BooksBalance
    <1> QED  BY <1>1, <1>2, PTL

------------------------------------------------------------------------------
\* The wallet implements the ledger.

\* Every entry is one a call writes: what its leg says of its operation.
EntriesOfCalls ==
    \A e \in ledger : \E c \in Calls :
        \/ e = FirstLeg(c)
        \/ c.op \in {"gift", "convert"} /\ e = SecondLeg(c)

LEMMA EntriesOfCallsStep == IInv /\ EntriesOfCalls /\ [WalletNext]_walletVars => EntriesOfCalls'
    <1> SUFFICES ASSUME IInv, EntriesOfCalls, [WalletNext]_walletVars  PROVE EntriesOfCalls'
        OBVIOUS
    <1> USE DEF EntriesOfCalls
    <1>1. ASSUME NEW r \in Requests, Insert(r)  PROVE EntriesOfCalls'
        <2>1. call[r] \in Calls /\ ledger' = ledger \cup {FirstLeg(call[r])}
            BY <1>1 DEF Insert, IInv, WalletTypeOK
        <2> QED  BY <2>1
    <1>2. ASSUME NEW r \in Requests, InsertCoin(r)  PROVE EntriesOfCalls'
        <2>1. /\ call[r] \in Calls /\ ledger' = ledger \cup {SecondLeg(call[r])}
              /\ call[r].op = "convert"
            BY <1>2 DEF InsertCoin, Live, IInv, WalletTypeOK, DiamondBeforeCoin
        <2> QED  BY <2>1
    <1>3. ASSUME NEW r \in Requests, Transfer(r)  PROVE EntriesOfCalls'
        <2>1. /\ call[r] \in Calls /\ call[r].op = "gift"
              /\ ledger' = ledger \cup {FirstLeg(call[r]), SecondLeg(call[r])}
            BY <1>3 DEF Transfer, IInv, WalletTypeOK
        <2> QED  BY <2>1
    <1>4. CASE UNCHANGED ledger
        BY <1>4
    <1> QED
        BY <1>1, <1>2, <1>3, <1>4 DEF WalletNext, Step, Begin, Check, Apply, Refuse, DuplicateKey,
           Reverse, Reread, Stop, freeze, unfreeze, walletVars

\* A call whose first leg is not booked, nor its second for a gift, has posted nothing.
LEMMA KeyIsFresh ==
    ASSUME IInv, EntriesOfCalls, NEW c \in Calls, ~Booked(FirstLeg(c)),
           c.op = "gift" => ~Booked(SecondLeg(c))
    PROVE  c.key \notin {e.key : e \in ledger}
    <1> SUFFICES ASSUME NEW e \in ledger, e.key = c.key  PROVE FALSE
        OBVIOUS
    <1>1. PICK d \in Calls : \/ e = FirstLeg(d)
                             \/ d.op \in {"gift", "convert"} /\ e = SecondLeg(d)
        BY DEF EntriesOfCalls
    <1>2. d.op = c.op /\ d \in Call
        BY <1>1, EntryType, KeysAssumption, CallsAssumption
    <1>3. e.leg # FirstLeg(c).leg /\ (c.op = "gift" => e.leg # SecondLeg(c).leg)
        BY EntryType DEF Booked
    <1>4. c.op = "convert" /\ e.leg = "coin"
        BY <1>1, <1>2, <1>3 DEF FirstLeg, SecondLeg, entry, Call
    <1>5. PICK x \in ledger : x.key = e.key /\ x.leg = "diamond"
        BY <1>4 DEF IInv, OneEntryPerKey
    <1> QED  BY <1>4, <1>5, EntryType DEF Booked

\* Initially nothing is held, so that the booked balances are the opening ones.
LEMMA RefinementInit == WalletInit => Abstract!Init
    <1> SUFFICES ASSUME WalletInit PROVE Abstract!Init
        OBVIOUS
    <1>1. {e.key : e \in ledger} = {}
        BY DEF WalletInit
    <1>2. ASSUME NEW u \in Users, NEW m \in Currency
          PROVE  balance[u][m] - unpostedSum(u, m) = Opening[u][m]
        <2>1. balance[u][m] = Opening[u][m] /\ Opening[u][m] \in Int
            BY OpeningAssumption DEF WalletInit
        <2>2. unpostedSum(u, m) = 0
            <3> DEFINE a == [r \in Requests |-> HeldUnposted(r, u, m)]
            <3>1. \A r \in Requests : a[r] = 0
                BY DEF WalletInit, Held, HeldUnposted
            <3>2. unpostedSum(u, m) = SumFunctionOnSet(a, Requests)
                BY DEF unpostedSum, SumFunction
            <3> HIDE DEF a
            <3> QED  BY <3>1, <3>2, SumZero, RequestsAssumption
        <2> QED  BY <2>1, <2>2
    <1>3. bookedBalance = [u \in Users |-> [m \in Currency |-> Opening[u][m]]]
        BY <1>2 DEF bookedBalance
    <1>4. Opening = [u \in Users |-> [m \in Currency |-> Opening[u][m]]]
        BY OpeningAssumption
    <1> QED  BY <1>1, <1>3, <1>4 DEF Abstract!Init

\* Every step posts one fresh key in full, or changes nothing the ledger shows.
LEMMA RefinementStep ==
    ASSUME IInv, IInv', EntriesOfCalls, [WalletNext]_walletVars
    PROVE  [Abstract!Next]_(Abstract!vars)
    <1> DEFINE unposted(u, m) == balance[u][m] - unpostedSum(u, m)
               posted == {e.key : e \in ledger}
    <1>1. WalletTypeOK /\ WalletTypeOK'
        BY DEF IInv
    <1>2. SUFFICES \/ /\ \A u \in Users, m \in Currency : unposted(u, m)' = unposted(u, m)
                      /\ posted' = posted
                   \/ \E c \in Calls :
                      /\ c.key \notin posted /\ posted' = posted \cup {c.key}
                      /\ \A u \in Users, m \in Currency :
                            unposted(u, m)' = unposted(u, m) + Credited(c, u, m) - Debited(c, u, m)
        <2>1. CASE /\ \A u \in Users, m \in Currency : unposted(u, m)' = unposted(u, m)
                   /\ posted' = posted
            BY <2>1 DEF bookedBalance, Abstract!vars
        <2>2. ASSUME NEW c \in Calls,
                     c.key \notin posted, posted' = posted \cup {c.key},
                     \A u \in Users, m \in Currency :
                        unposted(u, m)' = unposted(u, m) + Credited(c, u, m) - Debited(c, u, m)
              PROVE  Abstract!Next
            <3>1. bookedBalance' = [u \in Users |-> [m \in Currency |->
                        bookedBalance[u][m] + Credited(c, u, m) - Debited(c, u, m)]]
                BY <2>2 DEF bookedBalance
            <3> QED  BY <2>2, <3>1 DEF Abstract!Next, Abstract!Post
        <2> QED  BY <1>2, <2>1, <2>2
    <1>3. \A u \in Users, m \in Currency :
            /\ balance[u][m] \in Int /\ unpostedSum(u, m) \in Int
        BY <1>1, HeldSumType DEF WalletTypeOK
    <1>4. \A u \in Users, m \in Currency, c \in Calls :
            Debited(c, u, m) \in Int /\ Credited(c, u, m) \in Int
        BY AmountType
    <1>5. \A r \in Requests : call[r] \in Calls /\ call'[r] \in Calls
        BY <1>1 DEF WalletTypeOK
    <1>6. \A r \in Requests, u \in Users, m \in Currency :
            HeldUnposted(r, u, m) \in Int /\ HeldUnposted(r, u, m)' \in Int
        BY <1>4, <1>5 DEF Held, HeldUnposted
    <1>7. ASSUME NEW r \in Requests,
                 \/ \E c \in Calls : Begin(r, c)
                 \/ Check(r) \/ Apply(r) \/ Refuse(r) \/ DuplicateKey(r) \/ Reverse(r) \/ Reread(r)
          PROVE  /\ \A u \in Users, m \in Currency : unposted(u, m)' = unposted(u, m)
                 /\ posted' = posted
        <2>1. \A u \in Users :
                /\ ledger' = ledger
                /\ \A m \in Currency : balance'[u][m]
                      = balance[u][m] + HeldUnposted(r, u, m)' - HeldUnposted(r, u, m)
            BY <1>7, UnbookedStep
        <2>2. \A q \in Requests \ {r} : walletPc'[q] = walletPc[q] /\ call'[q] = call[q]
            BY <1>1, <1>7, OthersStand
        <2>3. \A u \in Users, m \in Currency : unpostedSum(u, m)'
                = unpostedSum(u, m) - HeldUnposted(r, u, m) + HeldUnposted(r, u, m)'
            BY <1>1, <2>2, HeldSumStep
        <2>4. Users # {}
            BY CallsAssumption DEF Call
        <2> QED  BY <1>3, <1>6, <2>1, <2>3, <2>4
    <1>8. ASSUME NEW r \in Requests, Insert(r)
          PROVE  /\ call[r].key \notin posted /\ posted' = posted \cup {call[r].key}
                 /\ \A u \in Users, m \in Currency :
                       unposted(u, m)'
                         = unposted(u, m) + Credited(call[r], u, m) - Debited(call[r], u, m)
        <2>1. /\ ledger' = ledger \cup {FirstLeg(call[r])} /\ balance' = balance
              /\ ~Booked(FirstLeg(call[r])) /\ call[r].op # "gift"
              /\ walletPc[r] = "insert" /\ walletPc'[r] \in {"insertCoin", "ok"}
            BY <1>1, <1>8 DEF Insert, Live, Goto, IInv, GiftsAreAtomic, WalletTypeOK
        <2>2. FirstLeg(call[r]).key = call[r].key
            BY <1>5, EntryType
        <2>3. \A q \in Requests \ {r} : walletPc'[q] = walletPc[q] /\ call'[q] = call[q]
            BY <1>1, <1>8, OthersStand
        <2>4. \A u \in Users, m \in Currency : unpostedSum(u, m)'
                = unpostedSum(u, m) - HeldUnposted(r, u, m) + HeldUnposted(r, u, m)'
            BY <1>1, <2>3, HeldSumStep
        <2>5. \A u \in Users, m \in Currency :
                /\ HeldUnposted(r, u, m) = Credited(call[r], u, m) - Debited(call[r], u, m)
                /\ HeldUnposted(r, u, m)' = 0
            BY <2>1 DEF Held, HeldUnposted
        <2>6. \A u \in Users, m \in Currency :
                 unposted(u, m)'
                    = unposted(u, m) + Credited(call[r], u, m) - Debited(call[r], u, m)
            BY <1>3, <1>4, <1>5, <2>1, <2>4, <2>5
        <2>7. call[r].key \notin posted
            BY <1>5, <2>1, KeyIsFresh
        <2>8. posted' = posted \cup {call[r].key}
            BY <2>1, <2>2
        <2> QED  BY <2>6, <2>7, <2>8
    <1>9. ASSUME NEW r \in Requests, InsertCoin(r)
          PROVE  /\ \A u \in Users, m \in Currency : unposted(u, m)' = unposted(u, m)
                 /\ posted' = posted
        <2>1. /\ ledger' = ledger \cup {SecondLeg(call[r])} /\ balance' = balance
              /\ Booked(FirstLeg(call[r]))
              /\ walletPc[r] = "insertCoin" /\ walletPc'[r] = "ok"
            BY <1>1, <1>9 DEF InsertCoin, Live, Goto, IInv, DiamondBeforeCoin, WalletTypeOK
        <2>2. FirstLeg(call[r]).key = SecondLeg(call[r]).key
            BY <1>5, EntryType
        <2>3. posted' = posted
            BY <2>1, <2>2 DEF Booked
        <2>4. \A q \in Requests \ {r} : walletPc'[q] = walletPc[q] /\ call'[q] = call[q]
            BY <1>1, <1>9, OthersStand
        <2>5. \A u \in Users, m \in Currency : unpostedSum(u, m)'
                = unpostedSum(u, m) - HeldUnposted(r, u, m) + HeldUnposted(r, u, m)'
            BY <1>1, <2>4, HeldSumStep
        <2>6. \A u \in Users, m \in Currency :
                HeldUnposted(r, u, m) = 0 /\ HeldUnposted(r, u, m)' = 0
            BY <2>1 DEF Held, HeldUnposted
        <2>7. ASSUME NEW u \in Users, NEW m \in Currency
              PROVE  unposted(u, m)' = unposted(u, m)
            BY <1>3, <2>1, <2>5, <2>6
        <2> QED  BY <2>3, <2>7
    <1>10. ASSUME NEW r \in Requests, Transfer(r)
          PROVE  /\ call[r].key \notin posted /\ posted' = posted \cup {call[r].key}
                 /\ \A u \in Users, m \in Currency :
                       unposted(u, m)'
                         = unposted(u, m) + Credited(call[r], u, m) - Debited(call[r], u, m)
        <2>1. /\ ledger' = ledger \cup {FirstLeg(call[r]), SecondLeg(call[r])}
              /\ ~Booked(FirstLeg(call[r])) /\ ~Booked(SecondLeg(call[r]))
              /\ walletPc[r] = "apply" /\ walletPc'[r] = "ok"
              /\ \A u \in Users, m \in Currency : balance'[u][m]
                    = balance[u][m] + Credited(call[r], u, m) - Debited(call[r], u, m)
            BY <1>1, <1>10 DEF Transfer, Live, Goto, Inc, WalletTypeOK
        <2>2. FirstLeg(call[r]).key = call[r].key /\ SecondLeg(call[r]).key = call[r].key
            BY <1>5, EntryType
        <2>3. \A q \in Requests \ {r} : walletPc'[q] = walletPc[q] /\ call'[q] = call[q]
            BY <1>1, <1>10, OthersStand
        <2>4. \A u \in Users, m \in Currency : unpostedSum(u, m)'
                = unpostedSum(u, m) - HeldUnposted(r, u, m) + HeldUnposted(r, u, m)'
            BY <1>1, <2>3, HeldSumStep
        <2>5. \A u \in Users, m \in Currency :
                HeldUnposted(r, u, m) = 0 /\ HeldUnposted(r, u, m)' = 0
            BY <2>1 DEF Held, HeldUnposted
        <2>6. \A u \in Users, m \in Currency :
                 unposted(u, m)'
                    = unposted(u, m) + Credited(call[r], u, m) - Debited(call[r], u, m)
            BY <1>3, <1>4, <1>5, <2>1, <2>4, <2>5
        <2>7. call[r].key \notin posted
            BY <1>5, <2>1, KeyIsFresh
        <2>8. posted' = posted \cup {call[r].key}
            BY <2>1, <2>2
        <2> QED  BY <2>6, <2>7, <2>8
    <1>11. CASE UNCHANGED <<balance, ledger, call, walletPc>>
        <2>1. \A u \in Users, m \in Currency : unpostedSum(u, m)' = unpostedSum(u, m)
            BY <1>11 DEF unpostedSum, Held, HeldUnposted
        <2> QED  BY <1>11, <2>1
    <1> HIDE DEF unposted, posted
    <1> QED
        BY <1>5, <1>7, <1>8, <1>9, <1>10, <1>11
           DEF WalletNext, Step, Stop, freeze, unfreeze, walletVars

\* Whatever the interleaving, retries and crashes, the wallet is the ledger its callers
\* see: each step posts one fresh key in full or is invisible.
THEOREM WalletImplementsLedger == WalletSpec => ImplementsLedger
    <1>1. WalletSpec => [](IInv /\ EntriesOfCalls)
        <2>1. WalletInit => IInv /\ EntriesOfCalls
            BY InitIInv DEF WalletInit, EntriesOfCalls
        <2>2. IInv /\ EntriesOfCalls /\ [WalletNext]_walletVars => (IInv /\ EntriesOfCalls)'
            BY NextIInv, EntriesOfCallsStep
        <2> QED  BY <2>1, <2>2, PTL DEF WalletSpec
    <1>2. IInv /\ IInv' /\ EntriesOfCalls /\ [WalletNext]_walletVars => [Abstract!Next]_(Abstract!vars)
        BY RefinementStep
    <1> QED  BY <1>1, <1>2, RefinementInit, PTL DEF WalletSpec, ImplementsLedger, Abstract!Spec

------------------------------------------------------------------------------
\* Games.
------------------------------------------------------------------------------
\* The inductive form of TypeOK: what a task or a bet in flight remembers is there.

RoundsOK == rounds \in Seq(Round) /\ Len(rounds) <= MaxRounds

TimersOK ==
    /\ IsFiniteSet(timers) /\ handle \in Nat
    /\ \A x \in timers : x.kind \in {"open", "spin", "draw", "result"} /\ x.round \in 0 .. Len(rounds)

\* A task at `at` with locals l, while the round documents are R.
TaskOK(R, at, l) ==
    /\ at \in TaskPc /\ l \in Loc
    /\ at \in {"scheduleResult", "spinFlip", "spinWrite", "resultFlip", "payFind", "pay",
               "resultComplete", "healComplete"} => l.round \in DOMAIN R
    /\ at \in {"spinFlip", "spinWrite"} => l.winner \in Items
    /\ at = "openWrite" => l.number # 0

TasksOK ==
    /\ pc \in [Tasks -> TaskPc] /\ loc \in [Tasks -> Loc]
    /\ \A t \in Tasks : TaskOK(rounds, pc[t], loc[t])

BetsOK ==
    /\ betPc \in [Bets -> BetPc] /\ rows \in SUBSET Bets
    /\ bet \in [Bets -> [round : 0 .. Len(rounds), item : Items \cup {NoItem},
                         inTime : BOOLEAN]]
    /\ payout \in [Bets -> {"none", "paid", "failed"}]
    /\ \A b \in Bets :
          /\ betPc[b] \in {"debit", "insert", "count"} \/ b \in rows =>
                bet[b].round \in DOMAIN rounds /\ bet[b].item \in Items
          /\ betPc[b] \in {"new", "debit", "insert"} => b \notin rows

EnvOK == enabled \in BOOLEAN /\ up \in BOOLEAN /\ crashes \in 0 .. MaxCrashes

Typed == RoundsOK /\ TimersOK /\ TasksOK /\ BetsOK /\ EnvOK

------------------------------------------------------------------------------
\* Sequences, ids and winners.

\* Every element of a sequence is replaced.
LEMMA MapSeq ==
    ASSUME NEW S, NEW s \in Seq(S), NEW f, DOMAIN f = DOMAIN s, f = [k \in DOMAIN s |-> f[k]],
           \A k \in DOMAIN s : f[k] \in S
    PROVE  f \in Seq(S) /\ Len(f) = Len(s)
    OBVIOUS

\* An element of a sequence is replaced.
LEMMA ReplacedSeq ==
    ASSUME NEW S, NEW s \in Seq(S), NEW i, NEW r, i \in DOMAIN s => r \in S
    PROVE  /\ [s EXCEPT ![i] = r] \in Seq(S)
           /\ Len([s EXCEPT ![i] = r]) = Len(s)
           /\ DOMAIN [s EXCEPT ![i] = r] = DOMAIN s
    <1> DEFINE t == [s EXCEPT ![i] = r]
    <1>1. Len(s) \in Nat /\ DOMAIN s = 1 .. Len(s) /\ \A k \in 1 .. Len(s) : s[k] \in S
        OBVIOUS
    <1>2. t = [k \in 1 .. Len(s) |-> IF k = i THEN r ELSE s[k]]
        BY <1>1
    <1>3. \A k \in 1 .. Len(s) : t[k] \in S
        BY <1>1, <1>2
    <1>4. DOMAIN t = DOMAIN s /\ t = [k \in DOMAIN s |-> t[k]] /\ \A k \in DOMAIN s : t[k] \in S
        BY <1>1, <1>2, <1>3
    <1> HIDE DEF t
    <1>5. t \in Seq(S) /\ Len(t) = Len(s)
        BY <1>4, MapSeq
    <1> QED  BY <1>4, <1>5 DEF t

LEMMA AppendSeq ==
    ASSUME NEW S, NEW s \in Seq(S), NEW r \in S
    PROVE  /\ Append(s, r) \in Seq(S) /\ Len(Append(s, r)) = Len(s) + 1
           /\ DOMAIN Append(s, r) = DOMAIN s \cup {Len(s) + 1}
    OBVIOUS

\* Finitely many timers leave an id free.
LEMMA NewIdIsFresh ==
    ASSUME IsFiniteSet(timers)
    PROVE  NewId \in Nat \ {0} /\ \A x \in timers : x.id # NewId
    <1> DEFINE n == Cardinality(timers)
               I == {x.id : x \in timers}
    <1>1. n \in Nat
        BY FS_CardinalityType
    <1>2. IsFiniteSet(I) /\ Cardinality(I) <= n
        <2> DEFINE f == [x \in timers |-> x.id]
        <2>1. f \in Surjection(timers, I)
            BY DEF Surjection
        <2> QED  BY <2>1, FS_Surjection
    <1>3. IsFiniteSet(1 .. n + 1) /\ Cardinality(1 .. n + 1) = n + 1
        <2>1. 1 \in Int /\ n + 1 \in Int
            BY <1>1
        <2> QED  BY <1>1, <2>1, FS_Interval
    <1>4. ~ (1 .. n + 1 \subseteq I)
        <2> SUFFICES ASSUME 1 .. n + 1 \subseteq I  PROVE FALSE
            OBVIOUS
        <2>1. Cardinality(1 .. n + 1) <= Cardinality(I) /\ Cardinality(I) \in Nat
            BY <1>2, FS_Subset, FS_CardinalityType
        <2> HIDE DEF n, I
        <2> QED  BY <1>1, <1>2, <1>3, <2>1
    <1>5. \E k \in 1 .. n + 1 : \A x \in timers : x.id # k
        BY <1>4
    <1> HIDE DEF n
    <1>6. NewId \in 1 .. n + 1 /\ \A x \in timers : x.id # NewId
        BY <1>5 DEF NewId, n
    <1> QED  BY <1>1, <1>6

LEMMA WinnerIsItem ==
    ASSUME NEW r, NEW w \in selectWinner(r)
    PROVE  w \in Items
    BY DEF selectWinner

LEMMA RoundFields ==
    ASSUME RoundsOK
    PROVE  /\ Len(rounds) \in Nat /\ DOMAIN rounds = 1 .. Len(rounds)
           /\ \A k \in DOMAIN rounds :
                 /\ rounds[k] \in Round /\ rounds[k].number \in Nat
                 /\ rounds[k].phase \in Phase
                 /\ rounds[k].winningItem \in Items \cup {NoItem}
                 /\ rounds[k].betsByItem \in [Items -> Nat]
    <1>1. Len(rounds) \in Nat /\ DOMAIN rounds = 1 .. Len(rounds)
        BY DEF RoundsOK
    <1>2. \A k \in 1 .. Len(rounds) : rounds[k] \in Round
        BY DEF RoundsOK
    <1> QED  BY <1>1, <1>2 DEF Round

\* The newest rounds have one number, and the next one is greater.
LEMMA NextNumber ==
    ASSUME RoundsOK, Latest # {}
    PROVE  \A j \in Latest : Max({rounds[k].number : k \in Latest}) = rounds[j].number
    <1> SUFFICES ASSUME NEW j \in Latest
                 PROVE  Max({rounds[k].number : k \in Latest}) = rounds[j].number
        OBVIOUS
    <1>1. \A k \in DOMAIN rounds : rounds[k] \in Round /\ rounds[k].number \in Nat
        BY RoundFields
    <1>2. \A k \in Latest : rounds[k].number = rounds[j].number
        BY <1>1 DEF Latest
    <1>3. {rounds[k].number : k \in Latest} = {rounds[j].number}
        BY <1>2
    <1>4. rounds[j].number \in Nat
        BY <1>1 DEF Latest
    <1> HIDE DEF Latest
    <1> QED  BY <1>3, <1>4 DEF Max

------------------------------------------------------------------------------
\* What the parts of an action keep.

\* No round is lost.
Grown ==
    /\ RoundsOK' /\ Len(rounds) <= Len(rounds') /\ DOMAIN rounds \subseteq DOMAIN rounds'

LEMMA RoundsKept ==
    ASSUME RoundsOK, rounds' = rounds
    PROVE  Grown
    BY RoundFields DEF RoundsOK, Grown

LEMMA RoundChanged ==
    ASSUME RoundsOK, NEW i, NEW r, i \in DOMAIN rounds => r \in Round,
           rounds' = [rounds EXCEPT ![i] = r]
    PROVE  Grown /\ DOMAIN rounds' = DOMAIN rounds
    <1>1. /\ rounds' \in Seq(Round) /\ Len(rounds') = Len(rounds)
          /\ DOMAIN rounds' = DOMAIN rounds
        BY ReplacedSeq DEF RoundsOK
    <1> QED  BY <1>1, RoundFields DEF RoundsOK, Grown

\* A phase or a winner is written to a round.
LEMMA PhaseChanged ==
    ASSUME RoundsOK, NEW i, NEW p \in Phase,
           rounds' = [rounds EXCEPT ![i].phase = p]
    PROVE  Grown /\ DOMAIN rounds' = DOMAIN rounds
    <1> DEFINE r == [rounds[i] EXCEPT !.phase = p]
    <1>1. i \in DOMAIN rounds => r \in Round
        BY RoundFields DEF Round
    <1>2. rounds' = [rounds EXCEPT ![i] = r]
        OBVIOUS
    <1> HIDE DEF r
    <1> QED  BY <1>1, <1>2, RoundChanged

LEMMA WinnerWritten ==
    ASSUME RoundsOK, NEW i, NEW p \in Phase, NEW w \in Items \cup {NoItem},
           rounds' = [rounds EXCEPT ![i].phase = p, ![i].winningItem = w]
    PROVE  Grown /\ DOMAIN rounds' = DOMAIN rounds
    <1> DEFINE r == [rounds[i] EXCEPT !.phase = p, !.winningItem = w]
    <1>1. i \in DOMAIN rounds => r \in Round
        BY RoundFields DEF Round
    <1>2. rounds' = [rounds EXCEPT ![i] = r]
        BY RoundFields
    <1> HIDE DEF r
    <1> QED  BY <1>1, <1>2, RoundChanged

LEMMA TaskMoved ==
    ASSUME TasksOK, Grown, NEW t \in Tasks, NEW to, NEW l,
           pc' = [pc EXCEPT ![t] = to], loc' = [loc EXCEPT ![t] = l],
           TaskOK(rounds', to, l)
    PROVE  TasksOK'
    <1>1. \A u \in Tasks : TaskOK(rounds', pc'[u], loc'[u])
        BY DEF TasksOK, TaskOK, Grown
    <1> QED  BY <1>1 DEF TasksOK, TaskOK

LEMMA TasksKept ==
    ASSUME TasksOK, Grown, UNCHANGED taskVars
    PROVE  TasksOK'
    BY DEF TasksOK, TaskOK, Grown, taskVars

LEMMA BetsKept ==
    ASSUME RoundsOK, BetsOK, Grown, UNCHANGED <<betVars, payout>>
    PROVE  BetsOK'
    <1>1. 0 .. Len(rounds) \subseteq 0 .. Len(rounds')
        BY RoundFields DEF Grown, RoundsOK
    <1> QED  BY <1>1 DEF BetsOK, Grown, betVars

LEMMA TimersKept ==
    ASSUME RoundsOK, TimersOK, Grown, timers' \subseteq timers, handle' \in Nat
    PROVE  TimersOK'
    <1>1. 0 .. Len(rounds) \subseteq 0 .. Len(rounds')
        BY RoundFields DEF Grown, RoundsOK
    <1>2. IsFiniteSet(timers')
        BY FS_Subset DEF TimersOK
    <1> QED  BY <1>1, <1>2 DEF TimersOK

LEMMA ClearKept ==
    ASSUME RoundsOK, TimersOK, Grown, Clear
    PROVE  TimersOK'
    BY TimersKept DEF Clear

LEMMA TimerArmed ==
    ASSUME RoundsOK, TimersOK, Grown, NEW kind \in {"open", "spin", "draw", "result"},
           NEW i \in {0} \cup DOMAIN rounds, Arm(kind, i)
    PROVE  TimersOK'
    <1>1. 0 .. Len(rounds) \subseteq 0 .. Len(rounds') /\ i \in 0 .. Len(rounds)
        BY RoundFields DEF Grown, RoundsOK
    <1>2. NewId \in Nat
        BY NewIdIsFresh DEF TimersOK
    <1>3. IsFiniteSet(timers')
        BY FS_AddElement DEF TimersOK, Arm
    <1> QED  BY <1>1, <1>2, <1>3 DEF TimersOK, Arm

\* A task at rest, or scheduling, remembers nothing.
LEMMA FreshOK ==
    ASSUME NEW R, NEW at \in {"idle", "scheduleRead", "enrich", "spinRead", "resultRead",
                              "openRead", "resetClose", "deleteConfig"},
           NEW end \in {"schedule", "end"}
    PROVE  TaskOK(R, at, Fresh) /\ TaskOK(R, at, [Fresh EXCEPT !.then = end])
    <1>1. Fresh \in Loc /\ [Fresh EXCEPT !.then = end] \in Loc
        BY DEF Fresh, Loc
    <1> QED  BY <1>1 DEF TaskOK, TaskPc

LEMMA Ended ==
    ASSUME TasksOK, Grown, NEW t \in Tasks, End(t)
    PROVE  TasksOK'
    <1>1. TaskOK(rounds', "idle", Fresh)
        BY FreshOK
    <1> QED  BY <1>1, TaskMoved DEF End, Go

LEMMA Scheduled ==
    ASSUME RoundsOK, TimersOK, TasksOK, Grown, NEW t \in Tasks, Schedule(t)
    PROVE  TimersOK' /\ TasksOK'
    <1>1. TaskOK(rounds', "scheduleRead", Fresh)
        BY FreshOK
    <1> QED  BY <1>1, TaskMoved, ClearKept DEF Schedule, Go

------------------------------------------------------------------------------
\* Every action keeps the types.

LEMMA TypedInit == Init => Typed
    <1> SUFFICES ASSUME Init  PROVE Typed
        OBVIOUS
    <1>1. RoundsOK
        BY BoundsAssumption DEF Init, RoundsOK
    <1>2. TimersOK
        BY FS_EmptySet DEF Init, TimersOK
    <1>3. TasksOK
        <2>1. TaskOK(rounds, "idle", Fresh) /\ Fresh \in Loc
            BY FreshOK DEF Fresh, Loc
        <2> QED  BY <2>1 DEF Init, TasksOK, TaskPc
    <1>4. BetsOK
        BY DEF Init, BetsOK, BetPc
    <1>5. EnvOK
        <2>1. 0 \in 0 .. MaxCrashes
            BY BoundsAssumption
        <2>2. enabled = TRUE /\ up = FALSE /\ crashes = 0
            BY DEF Init
        <2> QED  BY <2>1, <2>2 DEF EnvOK
    <1> QED  BY <1>1, <1>2, <1>3, <1>4, <1>5 DEF Typed

LEMMA LoopTyped ==
    ASSUME Typed, NEW t \in Tasks, Loop(t)
    PROVE  Typed'
    <1> USE DEF Typed
    <1>0. /\ pc[t] \in TaskPc /\ loc[t] \in Loc /\ TaskOK(rounds, pc[t], loc[t])
          /\ rounds' = rounds => Grown
        BY RoundsKept DEF TasksOK
    <1>1. CASE ScheduleRead(t)
        <2>1. Grown /\ UNCHANGED <<betVars, payout, envVars>>
            BY <1>0, <1>1 DEF ScheduleRead
        <2>2. CASE End(t) /\ UNCHANGED timerVars
            BY <2>1, <2>2, Ended, TimersKept, BetsKept DEF timerVars, EnvOK, envVars, Grown, TimersOK
        <2>3. ASSUME NEW kind \in {"open", "spin", "draw", "result"}, NEW i \in {0} \cup DOMAIN rounds,
                     Arm(kind, i), End(t)
              PROVE  Typed'
            BY <2>1, <2>3, Ended, TimerArmed, BetsKept DEF EnvOK, envVars, Grown
        <2>4. ASSUME NEW i \in Latest, UNCHANGED timerVars,
                     Go(t, "scheduleResult", [Fresh EXCEPT !.round = i])
              PROVE  Typed'
            <3>1. i \in DOMAIN rounds /\ i \in Nat
                BY RoundFields DEF Latest
            <3>2. TaskOK(rounds', "scheduleResult", [Fresh EXCEPT !.round = i])
                BY <2>1, <3>1 DEF TaskOK, TaskPc, Fresh, Loc, Grown
            <3> QED  BY <2>1, <2>4, <3>2, TaskMoved, TimersKept, BetsKept
                     DEF Go, timerVars, EnvOK, envVars, Grown, TimersOK
        <2>5. \A i \in Latest : i \in DOMAIN rounds /\ rounds[i].phase \in Phase
            BY RoundFields DEF Latest
        <2> QED  BY <1>1, <2>2, <2>3, <2>4, <2>5 DEF ScheduleRead, Phase
    <1>2. CASE ScheduleResult(t)
        <2>1. Grown
            BY <1>2, PhaseChanged DEF ScheduleResult, Phase
        <2> QED  BY <1>2, <2>1, Scheduled, BetsKept DEF ScheduleResult, EnvOK, envVars, Grown
    <1>3. CASE OpenRead(t)
        <2> DEFINE n == IF Latest = {} THEN 1 ELSE Max({rounds[i].number : i \in Latest}) + 1
                   l == [loc[t] EXCEPT !.number = n]
        <2>1. n \in Nat \ {0}
            <3>1. CASE Latest = {}
                BY <3>1
            <3>2. CASE Latest # {}
                <4>1. PICK j \in Latest : Max({rounds[i].number : i \in Latest}) = rounds[j].number
                    BY <3>2, NextNumber
                <4>2. rounds[j].number \in Nat
                    BY RoundFields DEF Latest
                <4> QED  BY <3>2, <4>1, <4>2
            <3> QED  BY <3>1, <3>2
        <2> HIDE DEF n
        <2>2. TaskOK(rounds', "openWrite", l)
            BY <1>0, <2>1 DEF TaskOK, TaskPc, Loc
        <2>3. Go(t, "openWrite", l) /\ Grown /\ UNCHANGED <<timerVars, betVars, payout, envVars>>
            BY <1>0, <1>3 DEF OpenRead, n
        <2> HIDE DEF l
        <2> QED  BY <2>2, <2>3, TaskMoved, TimersKept, BetsKept
                 DEF Go, timerVars, EnvOK, envVars, Grown, TimersOK
    <1>4. CASE OpenWrite(t)
        <2> DEFINE r == [number |-> loc[t].number, phase |-> "betting", winningItem |-> NoItem,
                         betsByItem |-> [k \in Items |-> 0], closing |-> FALSE, dead |-> FALSE]
        <2>1. r \in Round
            BY <1>0, <1>4 DEF Round, Phase, OpenWrite, At, TaskOK, Loc
        <2>2. rounds' = Append(rounds, r) /\ Len(rounds) < MaxRounds
            BY <1>4 DEF OpenWrite
        <2> HIDE DEF r
        <2>3. Grown
            <3>1. /\ rounds' \in Seq(Round) /\ Len(rounds') = Len(rounds) + 1
                  /\ DOMAIN rounds' = DOMAIN rounds \cup {Len(rounds) + 1}
                BY <2>1, <2>2, AppendSeq DEF RoundsOK
            <3>2. Len(rounds) \in Nat
                BY RoundFields
            <3> QED  BY <2>2, <3>1, <3>2, BoundsAssumption DEF RoundsOK, Grown
        <2>4. UNCHANGED <<betVars, payout, envVars>>
            BY <1>4 DEF OpenWrite
        <2>5. CASE Schedule(t)
            BY <2>3, <2>4, <2>5, Scheduled, BetsKept DEF EnvOK, envVars, Grown
        <2>6. CASE End(t) /\ UNCHANGED timerVars
            BY <2>3, <2>4, <2>6, Ended, TimersKept, BetsKept
               DEF EnvOK, envVars, Grown, timerVars, TimersOK
        <2> QED  BY <1>4, <2>5, <2>6 DEF OpenWrite
    <1>5. CASE SpinRead(t)
        <2>1. Grown /\ UNCHANGED <<betVars, payout, envVars>>
            BY <1>0, <1>5 DEF SpinRead
        <2>2. CASE Schedule(t)
            BY <2>1, <2>2, Scheduled, BetsKept DEF EnvOK, envVars, Grown
        <2>3. ASSUME NEW j \in Latest, NEW w \in selectWinner(rounds[j]), UNCHANGED timerVars,
                     Go(t, "spinFlip", [Fresh EXCEPT !.round = j, !.winner = w])
              PROVE  Typed'
            <3>1. j \in DOMAIN rounds /\ j \in Nat /\ w \in Items
                BY RoundFields, WinnerIsItem DEF Latest
            <3>2. TaskOK(rounds', "spinFlip", [Fresh EXCEPT !.round = j, !.winner = w])
                BY <2>1, <3>1 DEF TaskOK, TaskPc, Fresh, Loc, Grown
            <3> QED  BY <2>1, <2>3, <3>2, TaskMoved, TimersKept, BetsKept
                     DEF Go, timerVars, EnvOK, envVars, Grown, TimersOK
        <2> QED  BY <1>5, <2>2, <2>3 DEF SpinRead
    <1>6. CASE SpinFlip(t)
        <2> DEFINE j == loc[t].round
        <2>1. UNCHANGED <<timerVars, betVars, payout, envVars>> /\ At(t, "spinFlip")
            BY <1>6 DEF SpinFlip
        <2>2. Grown
            BY <1>0, <1>6, PhaseChanged DEF SpinFlip, Phase
        <2>3. PICK w \in Items : Go(t, "spinWrite", [loc[t] EXCEPT !.winner = w])
            <3>1. CASE rounds[j].phase = "betting"
                BY <1>6, <3>1, WinnerIsItem DEF SpinFlip
            <3>2. CASE rounds[j].phase # "betting"
                <4>1. loc[t] = [loc[t] EXCEPT !.winner = loc[t].winner]
                    BY <1>0 DEF Loc
                <4>2. loc[t].winner \in Items
                    BY <1>0, <2>1 DEF TaskOK, At
                <4> QED  BY <1>6, <3>2, <4>1, <4>2 DEF SpinFlip
            <3> QED  BY <3>1, <3>2
        <2>4. TaskOK(rounds', "spinWrite", [loc[t] EXCEPT !.winner = w])
            BY <1>0, <2>1, <2>2 DEF TaskOK, TaskPc, Loc, Grown, At
        <2> QED  BY <2>1, <2>2, <2>3, <2>4, TaskMoved, TimersKept, BetsKept
                 DEF Go, timerVars, EnvOK, envVars, Grown, TimersOK
    <1>7. CASE SpinWrite(t)
        <2>1. loc[t].winner \in Items /\ loc[t].round \in DOMAIN rounds
            BY <1>0, <1>7 DEF TaskOK, SpinWrite, At
        <2>2. Grown
            BY <1>7, <2>1, WinnerWritten DEF SpinWrite, Phase
        <2> QED  BY <1>7, <2>1, <2>2, TimerArmed, Ended, BetsKept
                 DEF SpinWrite, EnvOK, envVars, Grown
    <1>8. CASE ResultRead(t)
        <2>1. Grown /\ UNCHANGED <<betVars, payout, envVars>>
            BY <1>0, <1>8 DEF ResultRead
        <2>2. CASE Schedule(t)
            BY <2>1, <2>2, Scheduled, BetsKept DEF EnvOK, envVars, Grown
        <2>3. ASSUME NEW j \in Latest, UNCHANGED timerVars,
                     Go(t, "resultFlip", [Fresh EXCEPT !.round = j])
              PROVE  Typed'
            <3>1. j \in DOMAIN rounds /\ j \in Nat
                BY RoundFields DEF Latest
            <3>2. TaskOK(rounds', "resultFlip", [Fresh EXCEPT !.round = j])
                BY <2>1, <3>1 DEF TaskOK, TaskPc, Fresh, Loc, Grown
            <3> QED  BY <2>1, <2>3, <3>2, TaskMoved, TimersKept, BetsKept
                     DEF Go, timerVars, EnvOK, envVars, Grown, TimersOK
        <2> QED  BY <1>8, <2>2, <2>3 DEF ResultRead
    <1>9. CASE ResultFlip(t)
        <2> DEFINE j == loc[t].round
        <2>1. UNCHANGED <<betVars, payout, envVars>> /\ j \in DOMAIN rounds
            BY <1>0, <1>9 DEF ResultFlip, At, TaskOK
        <2>2. CASE Schedule(t) /\ UNCHANGED rounds
            BY <1>0, <2>1, <2>2, Scheduled, BetsKept DEF EnvOK, envVars, Grown
        <2>3. CASE /\ rounds' = [rounds EXCEPT ![j].phase = "result"] /\ UNCHANGED timerVars
                   /\ Go(t, "payFind", [loc[t] EXCEPT !.winner = rounds[j].winningItem])
            <3>1. Grown
                BY <2>3, PhaseChanged DEF Phase
            <3>2. TaskOK(rounds', "payFind", [loc[t] EXCEPT !.winner = rounds[j].winningItem])
                BY <1>0, <2>1, <3>1, RoundFields DEF TaskOK, TaskPc, Loc, Grown
            <3> QED  BY <2>1, <2>3, <3>1, <3>2, TaskMoved, TimersKept, BetsKept
                     DEF Go, timerVars, EnvOK, envVars, Grown, TimersOK
        <2> QED  BY <1>9, <2>2, <2>3 DEF ResultFlip
    <1>10. CASE PayFind(t)
        <2>1. UNCHANGED <<timerVars, betVars, payout, envVars>> /\ Grown /\ At(t, "payFind")
            BY <1>0, <1>10 DEF PayFind
        <2> DEFINE P == {b \in rows : bet[b].round = loc[t].round /\ bet[b].item = loc[t].winner}
        <2>2. TaskOK(rounds', "pay", [loc[t] EXCEPT !.toPay = P])
            BY <1>0, <2>1 DEF TaskOK, TaskPc, Loc, Grown, At, BetsOK
        <2>3. Go(t, "pay", [loc[t] EXCEPT !.toPay = P])
            BY <1>10 DEF PayFind
        <2> HIDE DEF P
        <2> QED  BY <2>1, <2>2, <2>3, TaskMoved, TimersKept, BetsKept
                 DEF Go, timerVars, EnvOK, envVars, Grown, TimersOK
    <1>11. CASE Pay(t)
        <2>1. /\ UNCHANGED <<timerVars, betVars, envVars>> /\ Grown /\ At(t, "pay")
            BY <1>0, <1>11 DEF Pay
        <2>2. PICK b \in loc[t].toPay : Go(t, "pay", [loc[t] EXCEPT !.toPay = @ \ {b}])
            BY <1>11 DEF Pay
        <2>3. TaskOK(rounds', "pay", [loc[t] EXCEPT !.toPay = @ \ {b}])
            BY <1>0, <2>1 DEF TaskOK, TaskPc, Loc, Grown, At
        <2>4. payout' \in [Bets -> {"none", "paid", "failed"}]
            BY <1>11 DEF Pay, BetsOK
        <2>5. BetsOK'
            BY <1>11, <2>1, <2>4 DEF BetsOK, betVars, Pay
        <2> QED  BY <2>1, <2>2, <2>3, <2>5, TaskMoved, TimersKept
                 DEF Go, timerVars, EnvOK, envVars, Grown, TimersOK
    <1>12. CASE PayEnd(t)
        <2>1. /\ UNCHANGED <<timerVars, betVars, payout, envVars>> /\ Grown /\ At(t, "pay")
              /\ Go(t, "resultComplete", loc[t])
            BY <1>0, <1>12 DEF PayEnd
        <2>2. TaskOK(rounds', "resultComplete", loc[t])
            BY <1>0, <2>1 DEF TaskOK, TaskPc, Grown, At
        <2> QED  BY <2>1, <2>2, TaskMoved, TimersKept, BetsKept
                 DEF Go, timerVars, EnvOK, envVars, Grown, TimersOK
    <1>13. CASE ResultComplete(t)
        <2>1. Grown
            BY <1>13, PhaseChanged DEF ResultComplete, Phase
        <2>2. TaskOK(rounds', "enrich", Fresh)
            BY FreshOK
        <2> QED  BY <1>13, <2>1, <2>2, TaskMoved, TimersKept, BetsKept
                 DEF ResultComplete, Go, timerVars, EnvOK, envVars, Grown, TimersOK
    <1>14. CASE Enrich(t)
        BY <1>0, <1>14, Scheduled, BetsKept DEF Enrich, EnvOK, envVars, Grown
    <1>15. CASE HealComplete(t)
        <2> DEFINE j == loc[t].round
        <2>1. UNCHANGED <<timerVars, betVars, payout, envVars>> /\ loc[t].winner \in Items \cup {NoItem}
            BY <1>0, <1>15 DEF HealComplete, Loc
        <2>2. PICK first \in Items : rounds' = [rounds EXCEPT ![j].phase = "completed",
                  ![j].winningItem = IF loc[t].winner = NoItem THEN first ELSE loc[t].winner]
            BY <1>15 DEF HealComplete
        <2>3. PICK w \in Items : rounds' = [rounds EXCEPT ![j].phase = "completed",
                                                          ![j].winningItem = w]
            BY <2>1, <2>2
        <2>4. Grown
            BY <2>3, WinnerWritten DEF Phase
        <2>5. TaskOK(rounds', "openRead", [Fresh EXCEPT !.then = "schedule"])
            BY FreshOK
        <2>6. TasksOK'
            BY <1>15, <2>4, <2>5, TaskMoved, Ended DEF HealComplete, Go
        <2> QED  BY <2>1, <2>4, <2>6, TimersKept, BetsKept
                 DEF timerVars, EnvOK, envVars, Grown, TimersOK
    <1>16. CASE ResetClose(t)
        <2> DEFINE f == [i \in DOMAIN rounds |-> [rounds[i] EXCEPT !.phase = "completed"]]
        <2>1. DOMAIN f = DOMAIN rounds /\ f = [k \in DOMAIN rounds |-> f[k]]
            OBVIOUS
        <2>2. \A k \in DOMAIN rounds : f[k] \in Round
            BY RoundFields DEF Round, Phase
        <2>3. rounds' = f
            BY <1>16 DEF ResetClose
        <2> HIDE DEF f
        <2>4. f \in Seq(Round) /\ Len(f) = Len(rounds)
            BY <2>1, <2>2, MapSeq DEF RoundsOK
        <2>5. Grown
            BY <2>1, <2>3, <2>4, RoundFields DEF Grown, RoundsOK
        <2>6. TaskOK(rounds', "openRead", [Fresh EXCEPT !.then = "schedule"])
            BY FreshOK
        <2> QED  BY <1>16, <2>5, <2>6, TaskMoved, TimersKept, BetsKept
                 DEF ResetClose, Go, timerVars, EnvOK, envVars, Grown, TimersOK
    <1>17. CASE DeleteConfig(t)
        BY <1>0, <1>17, Ended, TimersKept, BetsKept
           DEF DeleteConfig, timerVars, EnvOK, Grown, TimersOK
    <1> QED  BY <1>1, <1>2, <1>3, <1>4, <1>5, <1>6, <1>7, <1>8, <1>9, <1>10, <1>11, <1>12,
                <1>13, <1>14, <1>15, <1>16, <1>17 DEF Loop

LEMMA KickTyped ==
    ASSUME Typed, NEW t \in Tasks, Kick(t)
    PROVE  Typed'
    <1> USE DEF Typed
    <1>0. rounds' = rounds => Grown
        BY RoundsKept
    <1>1. CASE PollFirst(t)
        <2>1. TaskOK(rounds', "openRead", Fresh)
            BY FreshOK
        <2> QED  BY <1>0, <1>1, <2>1, TaskMoved, TimersKept, BetsKept
                 DEF PollFirst, Go, timerVars, EnvOK, envVars, Grown, TimersOK
    <1>2. CASE PollDead(t)
        <2>1. PICK j \in Latest :
                 Go(t, "healComplete", [Fresh EXCEPT !.round = j, !.winner = rounds[j].winningItem])
            BY <1>2 DEF PollDead
        <2>2. j \in DOMAIN rounds /\ j \in Nat /\ rounds[j].winningItem \in Items \cup {NoItem}
            BY RoundFields DEF Latest
        <2>3. TaskOK(rounds', "healComplete",
                     [Fresh EXCEPT !.round = j, !.winner = rounds[j].winningItem])
            BY <1>2, <2>2 DEF TaskOK, TaskPc, Fresh, Loc, PollDead
        <2> QED  BY <1>0, <1>2, <2>1, <2>3, TaskMoved, TimersKept, BetsKept
                 DEF PollDead, Go, timerVars, EnvOK, envVars, Grown, TimersOK
    <1>3. CASE PollStale(t)
        BY <1>0, <1>3, Scheduled, BetsKept DEF PollStale, EnvOK, envVars, Grown
    <1>4. CASE Enable(t)
        BY <1>0, <1>4, Scheduled, BetsKept DEF Enable, EnvOK, Grown
    <1>5. CASE resetRounds(t)
        <2>1. TaskOK(rounds', "resetClose", Fresh)
            BY FreshOK
        <2> QED  BY <1>0, <1>5, <2>1, TaskMoved, ClearKept, BetsKept
                 DEF resetRounds, Go, EnvOK, envVars, Grown
    <1>6. CASE deleteGame(t)
        <2>1. TaskOK(rounds', "deleteConfig", Fresh)
            BY FreshOK
        <2> QED  BY <1>0, <1>6, <2>1, TaskMoved, ClearKept, BetsKept
                 DEF deleteGame, Go, EnvOK, envVars, Grown
    <1> QED  BY <1>1, <1>2, <1>3, <1>4, <1>5, <1>6 DEF Kick

LEMMA FireTyped ==
    ASSUME Typed, NEW t \in Tasks, Fire(t)
    PROVE  Typed'
    <1> USE DEF Typed
    <1>1. /\ Grown /\ UNCHANGED <<betVars, envVars, payout>>
          /\ timers' \subseteq timers /\ handle' \in Nat
        BY RoundsKept DEF Fire, TimersOK
    <1>2. PICK at \in {"openRead", "spinRead", "resultRead"}, l \in {Fresh, [Fresh EXCEPT !.then = "schedule"]} :
             Go(t, at, l)
        BY DEF Fire, TimersOK
    <1>3. TaskOK(rounds', at, l)
        BY FreshOK
    <1> QED  BY <1>1, <1>2, <1>3, TaskMoved, TimersKept, BetsKept DEF Go, EnvOK, envVars, Grown

LEMMA BetsTyped ==
    ASSUME Typed, NEW b \in Bets, PlaceBet(b) \/ Betting(b)
    PROVE  Typed'
    <1> USE DEF Typed
    <1>0. /\ bet[b] \in [round : 0 .. Len(rounds), item : Items \cup {NoItem}, inTime : BOOLEAN]
          /\ rounds' = rounds => Grown
          /\ UNCHANGED <<timerVars, taskVars, envVars, payout>>
        BY RoundsKept DEF BetsOK, PlaceBet, Betting, BetDebit, BetInsert, BetCount
    <1>1. CASE PlaceBet(b)
        <2>1. UNCHANGED <<rounds, rows>> /\ betPc[b] = "new"
            BY <1>1 DEF PlaceBet
        <2>2. BetsOK'
            <3>1. CASE betPc' = [betPc EXCEPT ![b] = "refused"] /\ UNCHANGED bet
                BY <1>0, <2>1, <3>1 DEF BetsOK, BetPc
            <3>2. ASSUME NEW j \in Latest, NEW k \in Items,
                         bet' = [bet EXCEPT ![b] = [round |-> j, item |-> k, inTime |-> FALSE]],
                         betPc' = [betPc EXCEPT ![b] = "debit"]
                  PROVE  BetsOK'
                <4>1. j \in DOMAIN rounds /\ j \in 0 .. Len(rounds)
                    BY RoundFields DEF Latest
                <4> QED  BY <1>0, <2>1, <3>2, <4>1 DEF BetsOK, BetPc
            <3> QED  BY <1>1, <3>1, <3>2 DEF PlaceBet
        <2> QED  BY <1>0, <2>1, <2>2, TasksKept, TimersKept
                 DEF timerVars, EnvOK, envVars, Grown, TimersOK
    <1>2. CASE BetDebit(b)
        <2>1. BetsOK'
            BY <1>0, <1>2 DEF BetDebit, BetsOK, BetPc
        <2> QED  BY <1>0, <1>2, <2>1, TasksKept, TimersKept
                 DEF BetDebit, timerVars, EnvOK, envVars, Grown, TimersOK
    <1>3. CASE BetInsert(b)
        <2>1. BetsOK'
            BY <1>0, <1>3 DEF BetInsert, BetsOK, BetPc
        <2> QED  BY <1>0, <1>3, <2>1, TasksKept, TimersKept
                 DEF BetInsert, timerVars, EnvOK, envVars, Grown, TimersOK
    <1>4. CASE BetCount(b)
        <2> DEFINE j == bet[b].round
                   k == bet[b].item
                   r == [rounds[j] EXCEPT !.betsByItem = [rounds[j].betsByItem EXCEPT ![k] =
                                                             rounds[j].betsByItem[k] + 1]]
        <2>1. j \in DOMAIN rounds /\ k \in Items
            BY <1>4 DEF BetCount, BetsOK
        <2>2. rounds' = [rounds EXCEPT ![j] = r]
            BY <1>4 DEF BetCount
        <2>3. r \in Round
            <3>1. rounds[j] \in Round /\ rounds[j].betsByItem \in [Items -> Nat]
                BY <2>1, RoundFields
            <3> DEFINE m == [rounds[j].betsByItem EXCEPT ![k] = rounds[j].betsByItem[k] + 1]
            <3>2. m \in [Items -> Nat]
                BY <2>1, <3>1
            <3> HIDE DEF m, j, k
            <3>3. [rounds[j] EXCEPT !.betsByItem = m] \in Round
                BY <3>1, <3>2 DEF Round
            <3> QED  BY <3>3 DEF m
        <2> HIDE DEF j, k, r
        <2>4. Grown /\ DOMAIN rounds' = DOMAIN rounds
            BY <2>2, <2>3, RoundChanged
        <2>5. BetsOK'
            <3>1. 0 .. Len(rounds) \subseteq 0 .. Len(rounds')
                BY <2>4, RoundFields DEF Grown, RoundsOK
            <3>2. /\ UNCHANGED <<bet, rows, payout>> /\ betPc[b] = "count"
                  /\ betPc' = [betPc EXCEPT ![b] = "done"]
                BY <1>4 DEF BetCount
            <3> QED  BY <1>0, <2>4, <3>1, <3>2 DEF BetsOK, BetPc
        <2> QED  BY <1>0, <2>4, <2>5, TasksKept, TimersKept
                 DEF timerVars, EnvOK, envVars, Grown, TimersOK
    <1> QED  BY <1>1, <1>2, <1>3, <1>4 DEF Betting

LEMMA ClockTyped ==
    ASSUME Typed, NEW i, Tick(i) \/ Age(i)
    PROVE  Typed'
    <1> USE DEF Typed
    <1>1. UNCHANGED <<timerVars, taskVars, betVars, envVars, payout>> /\ i \in DOMAIN rounds
        BY DEF Tick, Age
    <1>2. PICK r \in {[rounds[i] EXCEPT !.closing = TRUE], [rounds[i] EXCEPT !.dead = TRUE]} :
             rounds' = [rounds EXCEPT ![i] = r]
        BY DEF Tick, Age
    <1>3. r \in Round
        BY <1>1, RoundFields DEF Round
    <1>4. Grown
        BY <1>2, <1>3, RoundChanged
    <1> QED  BY <1>1, <1>4, TasksKept, TimersKept, BetsKept
             DEF timerVars, EnvOK, envVars, Grown, TimersOK

LEMMA BootTyped ==
    ASSUME Typed, NEW t \in Tasks, Boot(t)
    PROVE  Typed'
    <1> USE DEF Typed
    <1>1. PICK long \in BOOLEAN :
             rounds' = [i \in DOMAIN rounds |->
                          [rounds[i] EXCEPT !.closing = @ \/ long, !.dead = @ \/ (long /\ ~Over(i))]]
        BY DEF Boot
    <1> DEFINE f == [i \in DOMAIN rounds |->
                       [rounds[i] EXCEPT !.closing = @ \/ long, !.dead = @ \/ (long /\ ~Over(i))]]
    <1>2. DOMAIN f = DOMAIN rounds /\ f = [k \in DOMAIN rounds |-> f[k]]
        OBVIOUS
    <1>3. \A k \in DOMAIN rounds : f[k] \in Round
        BY RoundFields DEF Round, Over
    <1>4. rounds' = f
        BY <1>1
    <1> HIDE DEF f
    <1>5. f \in Seq(Round) /\ Len(f) = Len(rounds)
        BY <1>2, <1>3, MapSeq DEF RoundsOK
    <1>6. Grown
        BY <1>2, <1>4, <1>5, RoundFields DEF Grown, RoundsOK
    <1>7. CASE Schedule(t)
        BY <1>6, <1>7, Scheduled, BetsKept DEF Boot, EnvOK, Grown
    <1>8. CASE UNCHANGED <<timerVars, taskVars>>
        BY <1>6, <1>8, TasksKept, TimersKept, BetsKept DEF Boot, EnvOK, Grown, timerVars, TimersOK
    <1> QED  BY <1>7, <1>8 DEF Boot

LEMMA CrashTyped ==
    ASSUME Typed, Crash
    PROVE  Typed'
    <1> USE DEF Typed
    <1>1. Grown
        BY RoundsKept DEF Crash
    <1>2. TimersOK'
        BY <1>1, FS_EmptySet DEF Crash, TimersOK
    <1>3. TasksOK'
        <2>1. TaskOK(rounds', "idle", Fresh) /\ Fresh \in Loc
            BY FreshOK DEF Fresh, Loc
        <2> QED  BY <2>1 DEF Crash, TasksOK, TaskPc
    <1>4. BetsOK'
        BY DEF Crash, BetsOK, BetPc
    <1>5. EnvOK'
        <2>1. MaxCrashes \in Nat
            BY BoundsAssumption
        <2>2. crashes \in 0 .. MaxCrashes /\ crashes < MaxCrashes /\ crashes' = crashes + 1
            BY DEF Crash, EnvOK
        <2>3. crashes' \in 0 .. MaxCrashes
            BY <2>1, <2>2
        <2>4. up' = FALSE /\ enabled' = enabled
            BY DEF Crash
        <2> QED  BY <2>3, <2>4 DEF EnvOK
    <1> QED  BY <1>1, <1>2, <1>3, <1>4, <1>5 DEF Grown

LEMMA TypedNext == Typed /\ [Next]_vars => Typed'
    <1> SUFFICES ASSUME Typed, [Next]_vars  PROVE Typed'
        OBVIOUS
    <1>1. CASE Pause
        BY <1>1, RoundsKept, TasksKept, TimersKept, BetsKept
           DEF Pause, Typed, EnvOK, Grown, timerVars, TimersOK
    <1>2. CASE UNCHANGED vars
        BY <1>2, RoundsKept, TasksKept, TimersKept, BetsKept
           DEF vars, Typed, EnvOK, envVars, Grown, timerVars, TimersOK
    <1> QED  BY <1>1, <1>2, LoopTyped, KickTyped, FireTyped, BetsTyped, ClockTyped, BootTyped,
                CrashTyped DEF Next

\* Every variable keeps its type, and no task or bet in flight refers to a round that
\* is not there, whoever interferes with the loop.
THEOREM TypeCorrect == Spec => []TypeOK
    <1>1. Typed => TypeOK
        BY DEF Typed, TypeOK, RoundsOK, TimersOK, TasksOK, BetsOK, EnvOK
    <1> QED  BY <1>1, TypedInit, TypedNext, PTL DEF Spec

------------------------------------------------------------------------------
\* What a step does to a round, whoever takes it.

Moves(r, s) ==
    /\ s.number = r.number
    /\ r.closing => s.closing
    /\ \/ s.phase = r.phase /\ s.winningItem = r.winningItem
       \/ r.phase = "betting" /\ s.phase = "closed" /\ s.winningItem = r.winningItem
       \/ s.phase = "spinning" /\ s.winningItem \in Items
       \/ /\ r.phase \in {"spinning", "closed"} /\ s.phase = "result"
          /\ s.winningItem = r.winningItem
       \/ s.phase = "completed" /\ s.winningItem \in Items \cup {r.winningItem}

RoundsMove ==
    /\ \A i \in DOMAIN rounds : i \in DOMAIN rounds' /\ Moves(rounds[i], rounds'[i])
    /\ \A i \in DOMAIN rounds' \ DOMAIN rounds :
          rounds'[i].phase = "betting" /\ rounds'[i].winningItem = NoItem

LEMMA OneMoves ==
    ASSUME RoundsOK, NEW i, NEW r, i \in DOMAIN rounds => Moves(rounds[i], r),
           rounds' = [rounds EXCEPT ![i] = r]
    PROVE  RoundsMove
    <1>1. DOMAIN rounds' = DOMAIN rounds
        OBVIOUS
    <1>2. \A k \in DOMAIN rounds : rounds'[k] = IF k = i THEN r ELSE rounds[k]
        OBVIOUS
    <1>3. \A k \in DOMAIN rounds : Moves(rounds[k], rounds[k])
        BY DEF Moves
    <1> QED  BY <1>1, <1>2, <1>3 DEF RoundsMove

LEMMA NoneMoves ==
    ASSUME rounds' = rounds
    PROVE  RoundsMove
    BY DEF RoundsMove, Moves

LEMMA RoundsMoveNext == Typed /\ [Next]_vars => RoundsMove
    <1> SUFFICES ASSUME Typed, [Next]_vars  PROVE RoundsMove
        OBVIOUS
    <1>0. RoundsOK
        BY DEF Typed
    <1>1. ASSUME NEW t \in Tasks, Loop(t)  PROVE RoundsMove
        <2> DEFINE j == loc[t].round
        <2>0. TaskOK(rounds, pc[t], loc[t])
            BY DEF Typed, TasksOK
        <2>1. CASE \/ ScheduleRead(t) \/ OpenRead(t) \/ SpinRead(t) \/ ResultRead(t)
                   \/ PayFind(t) \/ Pay(t) \/ PayEnd(t) \/ Enrich(t) \/ DeleteConfig(t)
            BY <2>1, NoneMoves DEF ScheduleRead, OpenRead, SpinRead, ResultRead, PayFind, Pay,
                                   PayEnd, Enrich, DeleteConfig
        <2>2. CASE ScheduleResult(t) \/ ResultComplete(t)
            <3> DEFINE r == [rounds[j] EXCEPT !.phase = "completed"]
            <3>1. rounds' = [rounds EXCEPT ![j] = r]
                BY <2>2 DEF ScheduleResult, ResultComplete
            <3>2. j \in DOMAIN rounds => Moves(rounds[j], r)
                BY <1>0, RoundFields DEF Moves, Round
            <3> HIDE DEF j, r
            <3> QED  BY <1>0, <3>1, <3>2, OneMoves
        <2>3. CASE OpenWrite(t)
            <3> DEFINE r == [number |-> loc[t].number, phase |-> "betting", winningItem |-> NoItem,
                             betsByItem |-> [k \in Items |-> 0], closing |-> FALSE, dead |-> FALSE]
            <3>1. rounds' = Append(rounds, r) /\ r.phase = "betting" /\ r.winningItem = NoItem
                BY <2>3 DEF OpenWrite
            <3> HIDE DEF r
            <3>2. /\ Len(rounds) \in Nat /\ DOMAIN rounds' = 1 .. Len(rounds) + 1
                  /\ \A k \in DOMAIN rounds : rounds'[k] = rounds[k]
                  /\ rounds'[Len(rounds) + 1] = r
                BY <1>0, <3>1 DEF RoundsOK
            <3>3. DOMAIN rounds' \ DOMAIN rounds = {Len(rounds) + 1}
                BY <1>0, <3>2, RoundFields
            <3>4. \A k \in DOMAIN rounds : k \in DOMAIN rounds' /\ Moves(rounds[k], rounds'[k])
                BY <1>0, <3>2, RoundFields DEF Moves
            <3> QED  BY <3>1, <3>2, <3>3, <3>4 DEF RoundsMove
        <2>4. CASE SpinFlip(t)
            <3> DEFINE r == [rounds[j] EXCEPT !.phase = "closed"]
            <3>1. CASE rounds[j].phase # "betting"
                BY <2>4, <3>1, NoneMoves DEF SpinFlip
            <3>2. CASE rounds[j].phase = "betting"
                <4>1. rounds' = [rounds EXCEPT ![j] = r]
                    BY <2>4, <3>2 DEF SpinFlip
                <4>2. j \in DOMAIN rounds => Moves(rounds[j], r)
                    BY <1>0, <3>2, RoundFields DEF Moves, Round
                <4> HIDE DEF j, r
                <4> QED  BY <1>0, <4>1, <4>2, OneMoves
            <3> QED  BY <3>1, <3>2
        <2>5. ASSUME NEW w \in Items, NEW p \in {"spinning", "completed"},
                     rounds' = [rounds EXCEPT ![j].phase = p, ![j].winningItem = w]
              PROVE  RoundsMove
            <3> DEFINE r == [rounds[j] EXCEPT !.phase = p, !.winningItem = w]
            <3>1. rounds' = [rounds EXCEPT ![j] = r]
                BY <1>0, <2>5, RoundFields
            <3>2. j \in DOMAIN rounds => Moves(rounds[j], r)
                BY <1>0, RoundFields DEF Moves, Round
            <3> HIDE DEF j, r
            <3> QED  BY <1>0, <3>1, <3>2, OneMoves
        <2>6. CASE SpinWrite(t)
            BY <2>0, <2>5, <2>6 DEF SpinWrite, At, TaskOK
        <2>7. CASE HealComplete(t)
            <3>1. loc[t].winner \in Items \cup {NoItem}
                BY DEF Typed, TasksOK, Loc
            <3>2. PICK first \in Items : rounds' = [rounds EXCEPT ![j].phase = "completed",
                      ![j].winningItem = IF loc[t].winner = NoItem THEN first ELSE loc[t].winner]
                BY <2>7 DEF HealComplete
            <3>3. PICK w \in Items : rounds' = [rounds EXCEPT ![j].phase = "completed",
                                                              ![j].winningItem = w]
                BY <3>1, <3>2
            <3> QED  BY <2>5, <3>3
        <2>8. CASE ResultFlip(t)
            <3> DEFINE r == [rounds[j] EXCEPT !.phase = "result"]
            <3>1. CASE rounds[j].phase \notin {"spinning", "closed"}
                BY <2>8, <3>1, NoneMoves DEF ResultFlip
            <3>2. CASE rounds[j].phase \in {"spinning", "closed"}
                <4>1. rounds' = [rounds EXCEPT ![j] = r]
                    BY <2>8, <3>2 DEF ResultFlip
                <4>2. j \in DOMAIN rounds => Moves(rounds[j], r)
                    BY <1>0, <3>2, RoundFields DEF Moves, Round
                <4> HIDE DEF j, r
                <4> QED  BY <1>0, <4>1, <4>2, OneMoves
            <3> QED  BY <3>1, <3>2
        <2>9. CASE ResetClose(t)
            BY <1>0, <2>9, RoundFields DEF ResetClose, RoundsMove, Moves, Round
        <2> QED  BY <1>1, <2>1, <2>2, <2>3, <2>4, <2>6, <2>7, <2>8, <2>9 DEF Loop
    <1>2. ASSUME NEW t \in Tasks, Fire(t) \/ Kick(t)  PROVE RoundsMove
        BY <1>2, NoneMoves
           DEF Fire, Kick, PollFirst, PollDead, PollStale, Enable, resetRounds, deleteGame
    <1>3. ASSUME NEW t \in Tasks, Boot(t)  PROVE RoundsMove
        <2>1. PICK long \in BOOLEAN :
                 rounds' = [i \in DOMAIN rounds |->
                   [rounds[i] EXCEPT !.closing = @ \/ long, !.dead = @ \/ (long /\ ~Over(i))]]
            BY <1>3 DEF Boot
        <2>2. DOMAIN rounds' = DOMAIN rounds
            BY <2>1
        <2>3. \A k \in DOMAIN rounds : rounds[k] \in Round
            BY <1>0, RoundFields
        <2>4. ASSUME NEW k \in DOMAIN rounds  PROVE Moves(rounds[k], rounds'[k])
            BY <2>1, <2>3 DEF Moves, Round
        <2> QED  BY <2>2, <2>4 DEF RoundsMove
    <1>4. ASSUME NEW b \in Bets, PlaceBet(b) \/ Betting(b)  PROVE RoundsMove
        <2>1. CASE BetCount(b)
            <3> DEFINE j == bet[b].round
                       r == [rounds[j] EXCEPT !.betsByItem[bet[b].item] = @ + 1]
            <3>1. rounds' = [rounds EXCEPT ![j] = r]
                BY <2>1 DEF BetCount
            <3>2. j \in DOMAIN rounds => Moves(rounds[j], r)
                BY <1>0, RoundFields DEF Moves, Round
            <3> HIDE DEF j, r
            <3> QED  BY <1>0, <3>1, <3>2, OneMoves
        <2> QED  BY <1>4, <2>1, NoneMoves DEF PlaceBet, Betting, BetDebit, BetInsert
    <1>5. ASSUME NEW i, Tick(i) \/ Age(i)  PROVE RoundsMove
        <2>1. PICK r \in {[rounds[i] EXCEPT !.closing = TRUE], [rounds[i] EXCEPT !.dead = TRUE]} :
                 rounds' = [rounds EXCEPT ![i] = r]
            BY <1>5 DEF Tick, Age
        <2>2. i \in DOMAIN rounds => Moves(rounds[i], r)
            BY <1>0, RoundFields DEF Moves, Round
        <2> QED  BY <1>0, <2>1, <2>2, OneMoves
    <1>6. CASE Pause \/ Crash \/ UNCHANGED vars
        BY <1>6, NoneMoves DEF Pause, Crash, vars
    <1> QED  BY <1>1, <1>2, <1>3, <1>4, <1>5, <1>6 DEF Next

------------------------------------------------------------------------------
\* The loop with clients and admins that interfere.

LEMMA LoopAliveNext == Typed /\ LoopAlive /\ [Next]_vars => LoopAlive'
    <1> SUFFICES ASSUME Typed, LoopAlive, [Next]_vars, up', enabled'
                 PROVE  timers' # {} \/ \E t \in Tasks : KeepsLoop(t)'
        BY DEF LoopAlive
    <1>0. pc \in [Tasks -> TaskPc] /\ loc \in [Tasks -> Loc]
        BY DEF Typed, TasksOK
    \* A task that goes on, to anywhere but a rest, keeps the loop.
    <1>1. ASSUME NEW t \in Tasks, NEW to, NEW l, Go(t, to, l), to # "idle",
                 to \in {"openRead", "openWrite"} => l.then # "end"
          PROVE  \E u \in Tasks : KeepsLoop(u)'
        <2>1. pc'[t] = to /\ loc'[t] = l
            BY <1>0, <1>1 DEF Go
        <2> QED  BY <1>1, <2>1 DEF KeepsLoop
    <1>2. ASSUME NEW t \in Tasks, Schedule(t)
          PROVE  \E u \in Tasks : KeepsLoop(u)'
        BY <1>1, <1>2 DEF Schedule
    <1>3. ASSUME NEW kind, NEW i, Arm(kind, i)
          PROVE  timers' # {}
        BY <1>3 DEF Arm
    \* The others go where they were going.
    <1>4. ASSUME NEW t \in Tasks, NEW to, NEW l, Go(t, to, l), ~KeepsLoop(t),
                 up, enabled, timers' = timers
          PROVE  timers' # {} \/ \E u \in Tasks : KeepsLoop(u)'
        <2>1. \A u \in Tasks \ {t} : pc'[u] = pc[u] /\ loc'[u] = loc[u]
            BY <1>0, <1>4 DEF Go
        <2> QED  BY <1>4, <2>1 DEF LoopAlive, KeepsLoop
    <1>5. ASSUME UNCHANGED taskVars, timers' = timers, up, enabled
          PROVE  timers' # {} \/ \E u \in Tasks : KeepsLoop(u)'
        BY <1>5 DEF LoopAlive, KeepsLoop, taskVars
    <1>6. ASSUME NEW t \in Tasks, Loop(t)
          PROVE  timers' # {} \/ \E u \in Tasks : KeepsLoop(u)'
        <2>0. \A i \in Latest : rounds[i].phase \in Phase
            BY RoundFields DEF Typed, Latest
        <2>1. CASE ScheduleRead(t)
            BY <1>1, <1>3, <2>0, <2>1 DEF ScheduleRead, Phase, envVars
        <2>2. CASE ScheduleResult(t) \/ SpinRead(t) \/ ResultRead(t) \/ Enrich(t) \/ ResultFlip(t)
            BY <1>1, <1>2, <2>2 DEF ScheduleResult, SpinRead, ResultRead, Enrich, ResultFlip
        <2>3. CASE SpinFlip(t) \/ PayFind(t) \/ Pay(t) \/ PayEnd(t) \/ ResultComplete(t)
            BY <1>1, <2>3 DEF SpinFlip, PayFind, Pay, PayEnd, ResultComplete
        <2>4. CASE SpinWrite(t)
            BY <1>3, <2>4 DEF SpinWrite
        <2>5. CASE OpenRead(t)
            <3>1. PICK n : Go(t, "openWrite", [loc[t] EXCEPT !.number = n])
                BY <2>5 DEF OpenRead
            <3>2. [loc[t] EXCEPT !.number = n].then = loc[t].then
                BY <1>0 DEF Loc
            <3>3. up /\ enabled /\ timers' = timers /\ pc[t] = "openRead"
                BY <2>5 DEF OpenRead, At, envVars, timerVars
            <3>4. CASE loc[t].then # "end"
                BY <1>1, <3>1, <3>2, <3>4
            <3>5. CASE loc[t].then = "end"
                BY <1>4, <3>1, <3>3, <3>5 DEF KeepsLoop
            <3> QED  BY <3>4, <3>5
        <2>6. CASE OpenWrite(t)
            <3>1. CASE loc[t].then = "schedule"
                BY <1>2, <2>6, <3>1 DEF OpenWrite
            <3>2. CASE loc[t].then # "schedule"
                <4>1. loc[t].then = "end"
                    BY <1>0, <3>2 DEF Loc
                <4> QED  BY <1>4, <2>6, <3>2, <4>1
                         DEF OpenWrite, End, At, KeepsLoop, envVars, timerVars
            <3> QED  BY <3>1, <3>2
        <2>7. CASE HealComplete(t)
            <3>1. Go(t, "openRead", [Fresh EXCEPT !.then = "schedule"])
                BY <2>7 DEF HealComplete, envVars
            <3> QED  BY <1>1, <3>1 DEF Fresh
        <2>8. CASE ResetClose(t)
            BY <1>1, <2>8 DEF ResetClose, Fresh
        <2>9. CASE DeleteConfig(t)
            BY <2>9 DEF DeleteConfig
        <2> QED  BY <1>6, <2>1, <2>2, <2>3, <2>4, <2>5, <2>6, <2>7, <2>8, <2>9 DEF Loop
    <1>7. ASSUME NEW t \in Tasks, Kick(t)
          PROVE  timers' # {} \/ \E u \in Tasks : KeepsLoop(u)'
        <2>1. CASE PollFirst(t)
            BY <1>4, <2>1 DEF PollFirst, At, KeepsLoop, envVars, timerVars
        <2>2. CASE PollDead(t) \/ resetRounds(t) \/ deleteGame(t)
            BY <1>1, <2>2 DEF PollDead, resetRounds, deleteGame
        <2>3. CASE PollStale(t) \/ Enable(t)
            BY <1>2, <2>3 DEF PollStale, Enable
        <2> QED  BY <1>7, <2>1, <2>2, <2>3 DEF Kick
    <1>8. ASSUME NEW t \in Tasks, Fire(t)
          PROVE  \E u \in Tasks : KeepsLoop(u)'
        <2>1. PICK at \in {"openRead", "spinRead", "resultRead"},
                   l \in {Fresh, [Fresh EXCEPT !.then = "schedule"]} :
                 Go(t, at, l) /\ (at = "openRead" => l.then = "schedule")
            BY <1>8 DEF Fire, Fresh, Typed, TimersOK
        <2> QED  BY <1>1, <2>1
    <1>9. ASSUME NEW t \in Tasks, Boot(t)
          PROVE  \E u \in Tasks : KeepsLoop(u)'
        BY <1>2, <1>9 DEF Boot
    <1>10. ASSUME NEW b \in Bets, PlaceBet(b) \/ Betting(b)
           PROVE  timers' # {} \/ \E u \in Tasks : KeepsLoop(u)'
        BY <1>5, <1>10 DEF PlaceBet, Betting, BetDebit, BetInsert, BetCount, envVars, timerVars
    <1>11. ASSUME NEW i, Tick(i) \/ Age(i)
           PROVE  timers' # {} \/ \E u \in Tasks : KeepsLoop(u)'
        BY <1>5, <1>11 DEF Tick, Age, envVars, timerVars
    <1>12. CASE Pause \/ Crash
        BY <1>12 DEF Pause, Crash
    <1>13. CASE UNCHANGED vars
        BY <1>5, <1>13 DEF vars, envVars, timerVars
    <1> QED  BY <1>6, <1>7, <1>8, <1>9, <1>10, <1>11, <1>12, <1>13 DEF Next

\* A round with a winner has been drawn, and what a task is paying belongs to it.
HasWinner(R, i) == R[i].winningItem # NoItem
DrawnPhase ==
    \A i \in DOMAIN rounds :
        HasWinner(rounds, i) => rounds[i].phase \in {"spinning", "result", "completed"}
Paying(R, at, l) ==
    /\ at = "payFind" /\ l.winner # NoItem => HasWinner(R, l.round)
    /\ at = "pay" => \A b \in l.toPay : b \in rows /\ HasWinner(R, bet[b].round)
PayingDrawn == \A t \in Tasks : Paying(rounds, pc[t], loc[t])

KickInv == Typed /\ LoopAlive /\ DrawnPhase /\ PayingDrawn /\ PaidAfterTheDraw

LEMMA KickNext == KickInv /\ [Next]_vars => KickInv'
    <1> SUFFICES ASSUME KickInv, [Next]_vars  PROVE KickInv'
        OBVIOUS
    <1>0. Typed /\ Typed' /\ LoopAlive' /\ RoundsMove
        BY TypedNext, LoopAliveNext, RoundsMoveNext DEF KickInv
    <1>1. \A i \in DOMAIN rounds : i \in DOMAIN rounds' /\
             (HasWinner(rounds, i) => HasWinner(rounds', i))
        BY <1>0, ItemsAssumption DEF RoundsMove, Moves, HasWinner
    <1>2. DrawnPhase'
        <2> SUFFICES ASSUME NEW i \in DOMAIN rounds', HasWinner(rounds', i)
                     PROVE  rounds'[i].phase \in {"spinning", "result", "completed"}
            BY DEF DrawnPhase
        <2>1. i \in DOMAIN rounds /\ Moves(rounds[i], rounds'[i])
            BY <1>0 DEF RoundsMove, HasWinner
        <2>2. HasWinner(rounds, i) => rounds[i].phase \in {"spinning", "result", "completed"}
            BY <2>1 DEF KickInv, DrawnPhase
        <2> QED  BY <2>1, <2>2 DEF Moves, HasWinner
    <1>3. rows \subseteq rows' /\ \A b \in rows : bet'[b].round = bet[b].round /\ bet[b].round \in DOMAIN rounds
        <2>1. \A b \in rows : b \in Bets /\ bet[b].round \in DOMAIN rounds /\ betPc[b] # "new"
            BY <1>0 DEF Typed, BetsOK
        <2>2. CASE UNCHANGED <<bet, rows>>
            BY <2>1, <2>2
        <2>3. ASSUME NEW b \in Bets, PlaceBet(b) \/ Betting(b)
              PROVE  rows \subseteq rows' /\ \A c \in rows : bet'[c].round = bet[c].round
            <3>1. bet \in [Bets -> [round : 0 .. Len(rounds), item : Items \cup {NoItem},
                                    inTime : BOOLEAN]]
                BY <1>0 DEF Typed, BetsOK
            <3> QED  BY <2>1, <2>3, <3>1 DEF PlaceBet, Betting, BetDebit, BetInsert, BetCount
        <2>4. UNCHANGED <<bet, rows>> \/ \E b \in Bets : PlaceBet(b) \/ Betting(b)
            BY DEF Next, Loop, ScheduleRead, ScheduleResult, OpenRead, OpenWrite, SpinRead,
                   SpinFlip, SpinWrite, ResultRead, ResultFlip, PayFind, Pay, PayEnd,
                   ResultComplete, Enrich, HealComplete, ResetClose, DeleteConfig, Fire, Kick,
                   PollFirst, PollDead, PollStale, Enable, resetRounds, deleteGame, Boot, Tick,
                   Age, Pause, Crash, vars, betVars
        <2> QED  BY <2>1, <2>2, <2>3, <2>4
    <1>4. PayingDrawn'
        <2> SUFFICES ASSUME NEW u \in Tasks  PROVE Paying(rounds, pc[u], loc[u])'
            BY DEF PayingDrawn
        <2>0. /\ pc \in [Tasks -> TaskPc] /\ loc \in [Tasks -> Loc]
              /\ TaskOK(rounds, pc[u], loc[u]) /\ Paying(rounds, pc[u], loc[u])
            BY <1>0 DEF KickInv, Typed, TasksOK, PayingDrawn
        <2>1. CASE pc'[u] \notin {"payFind", "pay"}
            BY <2>1 DEF Paying
        <2>2. CASE pc'[u] = pc[u] /\ loc'[u] = loc[u]
            <3>1. pc[u] = "payFind" => loc[u].round \in DOMAIN rounds
                BY <2>0 DEF TaskOK
            <3> QED  BY <1>1, <1>3, <2>0, <2>2, <3>1 DEF Paying
        <2>3. CASE ResultFlip(u)
            <3> DEFINE j == loc[u].round
            <3>1. CASE Schedule(u)
                BY <2>0, <2>1, <3>1 DEF Schedule, Go
            <3>2. CASE Go(u, "payFind", [loc[u] EXCEPT !.winner = rounds[j].winningItem])
                <4>1. /\ pc'[u] = "payFind" /\ loc'[u].round = j
                      /\ loc'[u].winner = rounds[j].winningItem
                    BY <2>0, <3>2 DEF Go, Loc
                <4>2. j \in DOMAIN rounds
                    BY <2>0, <2>3 DEF TaskOK, ResultFlip, At
                <4> QED  BY <1>1, <4>1, <4>2 DEF Paying, HasWinner
            <3> QED  BY <2>3, <3>1, <3>2 DEF ResultFlip
        <2>4. CASE PayFind(u)
            <3>1. pc[u] = "payFind" /\ UNCHANGED <<rounds, bet, rows>>
                BY <2>4 DEF PayFind, At, betVars
            <3>2. pc'[u] = "pay" /\
                  loc'[u].toPay = {b \in rows : bet[b].round = loc[u].round /\
                                                bet[b].item = loc[u].winner}
                BY <2>0, <2>4 DEF PayFind, Go, Loc
            <3>3. \A b \in rows : bet[b].item \in Items
                BY <1>0 DEF Typed, BetsOK
            <3> QED  BY <2>0, <3>1, <3>2, <3>3, ItemsAssumption DEF Paying
        <2>5. CASE Pay(u)
            <3>1. pc[u] = "pay" /\ UNCHANGED <<rounds, bet, rows>>
                BY <2>5 DEF Pay, At, betVars
            <3>2. pc'[u] = "pay" /\ loc'[u].toPay \subseteq loc[u].toPay
                BY <2>0, <2>5 DEF Pay, Go, Loc
            <3> QED  BY <2>0, <3>1, <3>2 DEF Paying
        <2>6. \/ pc'[u] \notin {"payFind", "pay"} \/ (pc'[u] = pc[u] /\ loc'[u] = loc[u])
              \/ ResultFlip(u) \/ PayFind(u) \/ Pay(u)
            <3>1. ASSUME NEW t \in Tasks, Loop(t), ~ResultFlip(t), ~PayFind(t), ~Pay(t)
                  PROVE  pc'[u] \notin {"payFind", "pay"} \/ (pc'[u] = pc[u] /\ loc'[u] = loc[u])
                <4>1. ASSUME NEW to \in TaskPc \ {"payFind", "pay"}, NEW l, Go(t, to, l)
                      PROVE  pc'[u] \notin {"payFind", "pay"} \/ (pc'[u] = pc[u] /\ loc'[u] = loc[u])
                    BY <2>0, <4>1 DEF Go
                <4>2. {"idle", "scheduleRead", "scheduleResult", "openRead", "openWrite",
                       "spinFlip", "spinWrite", "resultFlip", "resultComplete", "enrich"}
                      \subseteq TaskPc \ {"payFind", "pay"}
                    BY DEF TaskPc
                <4>3. CASE ScheduleRead(t) \/ ScheduleResult(t) \/ Enrich(t)
                    BY <4>1, <4>2, <4>3, RoundFields, <1>0
                       DEF ScheduleRead, ScheduleResult, Enrich, Schedule, End, Latest, Phase, Typed
                <4>4. CASE OpenRead(t) \/ OpenWrite(t) \/ SpinRead(t)
                    BY <4>1, <4>2, <4>4 DEF OpenRead, OpenWrite, SpinRead, Schedule, End
                <4>5. CASE SpinFlip(t) \/ SpinWrite(t) \/ ResultRead(t) \/ PayEnd(t)
                    BY <4>1, <4>2, <4>5 DEF SpinFlip, SpinWrite, ResultRead, PayEnd, Schedule, End
                <4>6. CASE ResultComplete(t) \/ HealComplete(t) \/ ResetClose(t) \/ DeleteConfig(t)
                    BY <4>1, <4>2, <4>6
                       DEF ResultComplete, HealComplete, ResetClose, DeleteConfig, End
                <4> QED  BY <3>1, <4>3, <4>4, <4>5, <4>6 DEF Loop
            <3>2. ASSUME NEW t \in Tasks, Kick(t) \/ Fire(t) \/ Boot(t)
                  PROVE  pc'[u] \notin {"payFind", "pay"} \/ (pc'[u] = pc[u] /\ loc'[u] = loc[u])
                <4>1. \/ UNCHANGED taskVars
                      \/ \E to \in TaskPc \ {"payFind", "pay"} : \E l : Go(t, to, l)
                    BY <1>0, <3>2 DEF Kick, Fire, Boot, PollFirst, PollDead, PollStale, Enable,
                        resetRounds, deleteGame, Schedule, TaskPc, Typed, TimersOK
                <4> QED  BY <2>0, <4>1 DEF Go, taskVars
            <3>3. ASSUME NEW t \in Tasks, t # u, ResultFlip(t) \/ PayFind(t) \/ Pay(t)
                  PROVE  pc'[u] = pc[u] /\ loc'[u] = loc[u]
                BY <2>0, <3>3 DEF ResultFlip, PayFind, Pay, Schedule, Go
            <3>4. CASE Crash
                BY <3>4 DEF Crash
            <3>5. ASSUME NEW b \in Bets, PlaceBet(b) \/ Betting(b)
                  PROVE  pc'[u] = pc[u] /\ loc'[u] = loc[u]
                BY <3>5 DEF PlaceBet, Betting, BetDebit, BetInsert, BetCount, taskVars
            <3>6. CASE Pause \/ UNCHANGED vars \/ \E i \in 1 .. MaxRounds : Tick(i) \/ Age(i)
                BY <3>6 DEF Pause, vars, Tick, Age, taskVars
            <3> QED  BY <3>1, <3>2, <3>3, <3>4, <3>5, <3>6 DEF Next
        <2> QED  BY <2>1, <2>2, <2>3, <2>4, <2>5, <2>6
    <1>5. PaidAfterTheDraw'
        <2>1. \A b \in Bets : payout'[b] # "none" =>
                 b \in rows /\ HasWinner(rounds, bet[b].round)
            <3>1. CASE payout' = payout
                BY <3>1 DEF KickInv, PaidAfterTheDraw, HasWinner
            <3>2. ASSUME NEW t \in Tasks, Pay(t)
                  PROVE  \A b \in Bets : payout'[b] # "none" =>
                            b \in rows /\ HasWinner(rounds, bet[b].round)
                <4>1. Paying(rounds, "pay", loc[t])
                    BY <3>2 DEF KickInv, PayingDrawn, Pay, At
                <4>2. PICK b \in loc[t].toPay, end \in {"paid", "failed"} :
                         payout' = [payout EXCEPT ![b] = IF @ = "paid" THEN @ ELSE end]
                    BY <3>2 DEF Pay
                <4>3. \A c \in Bets \ {b} : payout'[c] = payout[c]
                    BY <4>2, <1>0 DEF Typed, BetsOK
                <4>4. b \in rows /\ HasWinner(rounds, bet[b].round)
                    BY <4>1 DEF Paying
                <4> QED  BY <4>3, <4>4 DEF KickInv, PaidAfterTheDraw, HasWinner
            <3>3. payout' = payout \/ \E t \in Tasks : Pay(t)
                BY DEF Next, Loop, ScheduleRead, ScheduleResult, OpenRead, OpenWrite, SpinRead,
                       SpinFlip, SpinWrite, ResultRead, ResultFlip, PayFind, PayEnd,
                       ResultComplete, Enrich, HealComplete, ResetClose, DeleteConfig, Fire, Kick,
                       PollFirst, PollDead, PollStale, Enable, resetRounds, deleteGame, Boot, Tick,
                       Age, Pause, Crash, vars, PlaceBet, Betting, BetDebit, BetInsert, BetCount
            <3> QED  BY <3>1, <3>2, <3>3
        <2>2. \A b \in rows' : bet'[b].round \in DOMAIN rounds'
            BY <1>0 DEF Typed, BetsOK
        <2> QED  BY <1>1, <1>2, <1>3, <2>1, <2>2 DEF PaidAfterTheDraw, DrawnPhase, HasWinner
    <1> QED  BY <1>0, <1>2, <1>4, <1>5 DEF KickInv

\* Clients that poll and admins who pause, reset, delete and create the game may do so
\* at any moment, in any number, between any crashes: while it is switched on the loop is
\* never lost, and no bet is paid before its round has a winner.
THEOREM KickedRoundsAreSafe == Spec => []KickedRoundsHold
    <1>1. Init => KickInv
        <2> SUFFICES ASSUME Init  PROVE KickInv
            OBVIOUS
        <2>1. Typed
            BY TypedInit
        <2>2. LoopAlive /\ DrawnPhase /\ PayingDrawn /\ PaidAfterTheDraw
            BY DEF Init, LoopAlive, DrawnPhase, PayingDrawn, Paying, PaidAfterTheDraw
        <2> QED  BY <2>1, <2>2 DEF KickInv
    <1>2. KickInv => KickedRoundsHold
        BY DEF KickInv, KickedRoundsHold
    <1> QED  BY <1>1, <1>2, KickNext, PTL DEF Spec

------------------------------------------------------------------------------
\* The loop alone.  With no client and no admin to start another, it is one task or one
\* timer, and that one knows how far the newest round is.

TaskFits(R, c, at, l) ==
    LET n == Len(R) IN
    /\ at \notin {"idle", "healComplete", "resetClose", "deleteConfig"}
    /\ at = "scheduleRead" /\ n > 0 /\ R[n].phase = "result" => c > 0
    /\ at \in {"openRead", "openWrite"} =>
          l.then = "schedule" /\ (n > 0 => R[n].phase = "completed")
    /\ at = "openWrite" => l.number = n + 1
    /\ at \notin {"scheduleRead", "openRead", "openWrite"} => n > 0
    /\ at \in {"spinFlip", "spinWrite", "resultFlip", "payFind", "pay", "resultComplete",
               "scheduleResult"} => l.round = n
    /\ at \in {"spinRead", "spinFlip"} => R[n].phase \in {"betting", "closed"} /\ R[n].closing
    /\ at = "spinWrite" => R[n].phase = "closed" /\ R[n].closing
    /\ at \in {"resultRead", "resultFlip"} => R[n].phase = "spinning"
    /\ at \in {"payFind", "pay", "resultComplete", "scheduleResult"} => R[n].phase = "result"
    /\ at \in {"payFind", "pay"} => l.winner = R[n].winningItem
    /\ at = "scheduleResult" => c > 0
    /\ at = "enrich" => R[n].phase = "completed"

TimerFits(R, x) ==
    LET n == Len(R) IN
    /\ x.kind = "open" /\ n > 0 => R[n].phase = "completed"
    /\ x.kind = "spin" => n > 0 /\ x.round = n /\ R[n].phase \in {"betting", "closed"}
    /\ x.kind = "draw" => n > 0 /\ R[n].phase = "closed" /\ R[n].closing
    /\ x.kind = "result" => n > 0 /\ R[n].phase = "spinning"

OneInv ==
    \/ ~up /\ timers = {} /\ Busy = {} /\ (crashes = 0 => Len(rounds) = 0)
    \/ /\ up /\ timers = {}
       /\ \E t \in Tasks : Busy = {t} /\ TaskFits(rounds, crashes, pc[t], loc[t])
    \/ up /\ Busy = {} /\ \E x : timers = {x} /\ TimerFits(rounds, x)

\* A round has its place as its number, the older ones are over, and none is drawn early.
RoundFits(R, i) ==
    /\ R[i].number = i
    /\ i < Len(R) => R[i].phase = "completed"
    /\ HasWinner(R, i) => R[i].phase \in {"spinning", "result", "completed"}
    /\ HasWinner(R, i) \/ R[i].phase = "closed" => R[i].closing
RoundsInv == \A i \in DOMAIN rounds : RoundFits(rounds, i)

LoopInv == Typed /\ enabled /\ RoundsInv /\ OneInv

\* What the loop does to a round.
Later(r, s) ==
    /\ \/ s.phase = r.phase
       \/ r.phase = "betting" /\ s.phase = "closed"
       \/ r.phase = "closed" /\ s.phase = "spinning"
       \/ r.phase = "spinning" /\ s.phase = "result"
       \/ r.phase = "result" /\ s.phase = "completed"
    /\ \/ r.winningItem = NoItem /\ r.phase = "closed"
       \/ s.winningItem = r.winningItem
Forward == \A i \in DOMAIN rounds : i \in DOMAIN rounds' /\ Later(rounds[i], rounds'[i])

LEMMA TopOf ==
    ASSUME NEW n \in Nat, n # 0
    PROVE  n \in 1 .. n /\ \A i \in 1 .. n : i =< n /\ (n =< i => i = n)
    OBVIOUS

LEMMA NewestRound ==
    ASSUME RoundsOK, RoundsInv
    PROVE  Latest = IF Len(rounds) = 0 THEN {} ELSE {Len(rounds)}
    <1>1. \A i \in DOMAIN rounds : rounds[i].number = i
        BY DEF RoundsInv, RoundFits
    <1>2. Len(rounds) \in Nat /\ DOMAIN rounds = 1 .. Len(rounds)
        BY RoundFields
    <1>3. Latest = {i \in 1 .. Len(rounds) : \A j \in 1 .. Len(rounds) : j =< i}
        BY <1>1, <1>2 DEF Latest
    <1>4. CASE Len(rounds) = 0
        BY <1>3, <1>4
    <1>5. CASE Len(rounds) # 0
        <2>1. \A i : i \in Latest <=> i = Len(rounds)
            BY <1>2, <1>3, <1>5, TopOf, Zenon
        <2> QED  BY <1>5, <2>1
    <1> QED  BY <1>4, <1>5

\* The only busy task, or with none busy the one that starts, moves.
LEMMA BusyMoved ==
    ASSUME TasksOK, NEW t \in Tasks, NEW to, NEW l, Busy \subseteq {t}, Go(t, to, l)
    PROVE  /\ pc'[t] = to /\ loc'[t] = l
           /\ Busy' = IF to = "idle" THEN {} ELSE {t}
    <1>1. \A u \in Tasks \ {t} : pc[u] = "idle"
        BY DEF Busy
    <1>2. pc' = [u \in Tasks |-> IF u = t THEN to ELSE pc[u]] /\ loc'[t] = l
        BY DEF Go, TasksOK
    <1> QED  BY <1>1, <1>2 DEF Busy

LEMMA OneTask ==
    ASSUME TasksOK, NEW t \in Tasks, NEW to, NEW l, Busy \subseteq {t}, Go(t, to, l),
           up', timers' = {}, TaskFits(rounds', crashes', to, l)
    PROVE  OneInv'
    <1>1. pc'[t] = to /\ loc'[t] = l /\ Busy' = IF to = "idle" THEN {} ELSE {t}
        BY BusyMoved
    <1>2. to # "idle"
        BY DEF TaskFits
    <1> QED  BY <1>1, <1>2 DEF OneInv

LEMMA OneTimer ==
    ASSUME TasksOK, NEW t \in Tasks, Busy \subseteq {t}, End(t), timers = {}, up',
           NEW kind, NEW i, Arm(kind, i),
           TimerFits(rounds', [id |-> NewId, kind |-> kind, round |-> i])
    PROVE  OneInv'
    <1>1. Busy' = {}
        BY BusyMoved DEF End
    <1>2. timers' = {[id |-> NewId, kind |-> kind, round |-> i]}
        BY DEF Arm
    <1> QED  BY <1>1, <1>2 DEF OneInv

LEMMA OneSchedules ==
    ASSUME TasksOK, NEW t \in Tasks, Busy \subseteq {t}, Schedule(t), timers = {}, up',
           Len(rounds') > 0 /\ rounds'[Len(rounds')].phase = "result" => crashes' > 0
    PROVE  OneInv'
    <1>1. TaskFits(rounds', crashes', "scheduleRead", Fresh)
        BY DEF TaskFits
    <1>2. timers' = {} /\ Go(t, "scheduleRead", Fresh)
        BY DEF Schedule, Clear
    <1> QED  BY <1>1, <1>2, OneTask

\* The newest round changes.
LEMMA NewestChanged ==
    ASSUME RoundsOK, RoundsInv, Len(rounds) > 0, NEW s,
           rounds' = [rounds EXCEPT ![Len(rounds)] = s],
           s.number = rounds[Len(rounds)].number, Later(rounds[Len(rounds)], s),
           s.winningItem # NoItem => s.phase \in {"spinning", "result", "completed"},
           s.winningItem # NoItem \/ s.phase = "closed" => s.closing
    PROVE  RoundsInv' /\ Forward /\ Len(rounds') = Len(rounds) /\ rounds'[Len(rounds)] = s
    <1> DEFINE n == Len(rounds)
    <1>1. n \in Nat /\ DOMAIN rounds = 1 .. n
        BY RoundFields
    <1>2. Len(rounds') = n /\ DOMAIN rounds' = 1 .. n
        BY <1>1, ReplacedSeq DEF RoundsOK
    <1>3. \A k \in 1 .. n : rounds'[k] = IF k = n THEN s ELSE rounds[k]
        BY <1>1
    <1>4. n \in 1 .. n
        BY <1>1
    <1> HIDE DEF n
    <1>5. s.number = n /\ Later(rounds[n], s) /\ \A k \in 1 .. n : RoundFits(rounds, k)
        BY <1>1, <1>4 DEF n, RoundsInv, RoundFits
    <1>6. ASSUME NEW k \in 1 .. n  PROVE RoundFits(rounds', k)
        <2>1. Len(rounds') = n /\ Len(rounds) = n
            BY <1>2 DEF n
        <2>2. CASE k = n
            <3>1. rounds'[k] = s /\ ~(k < n)
                BY <1>1, <1>3, <2>2
            <3> QED  BY <1>5, <2>1, <2>2, <3>1 DEF RoundFits, HasWinner
        <2>3. CASE k # n
            <3>1. rounds'[k] = rounds[k]
                BY <1>3, <2>3
            <3> QED  BY <1>5, <2>1, <3>1 DEF RoundFits, HasWinner
        <2> QED  BY <2>2, <2>3
    <1>7. \A k \in 1 .. n : Later(rounds[k], rounds'[k])
        BY <1>3, <1>5 DEF Later
    <1> QED  BY <1>1, <1>2, <1>3, <1>4, <1>6, <1>7 DEF n, RoundsInv, Forward

\* Nothing the loop looks at changes.
Quiet ==
    /\ rounds' \in Seq(Round) /\ Len(rounds') = Len(rounds) /\ DOMAIN rounds' = DOMAIN rounds
    /\ \A i \in DOMAIN rounds :
          /\ rounds'[i].number = rounds[i].number /\ rounds'[i].phase = rounds[i].phase
          /\ rounds'[i].winningItem = rounds[i].winningItem
          /\ rounds[i].closing => rounds'[i].closing

LEMMA QuietKeeps ==
    ASSUME RoundsOK, RoundsInv, Quiet
    PROVE  /\ RoundsInv' /\ Forward
           /\ \A c, at, l : TaskFits(rounds, c, at, l) => TaskFits(rounds', c, at, l)
           /\ \A x : TimerFits(rounds, x) => TimerFits(rounds', x)
    <1>1. Len(rounds) \in Nat /\ DOMAIN rounds = 1 .. Len(rounds) /\ Len(rounds') = Len(rounds)
        BY RoundFields DEF Quiet
    <1>2. Len(rounds) > 0 => Len(rounds) \in DOMAIN rounds
        BY <1>1
    <1>3. RoundsInv' /\ Forward
        BY <1>1 DEF Quiet, RoundsInv, RoundFits, HasWinner, Forward, Later
    <1>4. ASSUME NEW c, NEW at, NEW l, TaskFits(rounds, c, at, l)
          PROVE  TaskFits(rounds', c, at, l)
        BY <1>1, <1>2, <1>4 DEF Quiet, TaskFits
    <1>5. ASSUME NEW x, TimerFits(rounds, x)  PROVE TimerFits(rounds', x)
        BY <1>1, <1>2, <1>5 DEF Quiet, TimerFits
    <1> QED  BY <1>3, <1>4, <1>5

LEMMA Unmoved ==
    ASSUME RoundsOK, rounds' = rounds
    PROVE  Quiet
    BY DEF RoundsOK, Quiet

\* The only task goes on, ends in a timer, or starts over.
LEMMA LoopGoesOn ==
    ASSUME LoopInv, NEW t \in Tasks, Loop(t)
    PROVE  RoundsInv' /\ OneInv' /\ Forward
    <1> DEFINE n == Len(rounds)
               l == loc[t]
    <1>0. /\ RoundsOK /\ TasksOK /\ RoundsInv /\ enabled /\ n \in Nat /\ DOMAIN rounds = 1 .. n
          /\ l \in Loc
        BY RoundFields DEF LoopInv, Typed, TasksOK
    <1>1. /\ up /\ timers = {} /\ Busy = {t} /\ Busy \subseteq {t} /\ pc[t] # "idle"
          /\ TaskFits(rounds, crashes, pc[t], l)
        <2>1. up /\ pc[t] # "idle"
            BY DEF Loop, ScheduleRead, ScheduleResult, OpenRead, OpenWrite, SpinRead, SpinFlip,
                   SpinWrite, ResultRead, ResultFlip, PayFind, Pay, PayEnd, ResultComplete, Enrich,
                   HealComplete, ResetClose, DeleteConfig, At
        <2>2. t \in Busy
            BY <2>1 DEF Busy
        <2> QED  BY <2>1, <2>2 DEF LoopInv, OneInv
    <1>2. UNCHANGED <<up, crashes>>
        BY DEF Loop, ScheduleRead, ScheduleResult, OpenRead, OpenWrite, SpinRead, SpinFlip,
               SpinWrite, ResultRead, ResultFlip, PayFind, Pay, PayEnd, ResultComplete, Enrich,
               HealComplete, ResetClose, DeleteConfig, envVars
    <1>3. n > 0 => n \in DOMAIN rounds /\ rounds[n] \in Round /\ RoundFits(rounds, n)
        BY <1>0, RoundFields DEF RoundsInv
    <1>4. Latest = IF n = 0 THEN {} ELSE {n}
        BY <1>0, NewestRound
    <1>5. rounds' = rounds => RoundsInv' /\ Forward
        BY <1>0, QuietKeeps, Unmoved
    <1> HIDE DEF n, l
    <1>6. CASE ScheduleRead(t)
        <2>1. rounds' = rounds /\ pc[t] = "scheduleRead"
            BY <1>6 DEF ScheduleRead, At
        <2>2. CASE n = 0
            <3>1. Arm("open", 0) /\ End(t)
                BY <1>0, <1>4, <1>6, <2>2 DEF ScheduleRead
            <3>2. TimerFits(rounds', [id |-> NewId, kind |-> "open", round |-> 0])
                BY <2>1, <2>2 DEF TimerFits, n
            <3> QED  BY <1>0, <1>1, <1>2, <1>5, <2>1, <3>1, <3>2, OneTimer
        <2>3. CASE n > 0
            <3>a. Latest = {n}
                BY <1>0, <1>4, <2>3
            <3>b. (CASE rounds[n].phase = "completed" -> Arm("open", n) /\ End(t)
                    [] rounds[n].phase = "betting" -> Arm("spin", n) /\ End(t)
                    [] rounds[n].phase = "closed" -> Arm("draw", n) /\ End(t)
                    [] rounds[n].phase = "spinning" -> Arm("result", n) /\ End(t)
                    [] rounds[n].phase = "result" ->
                          /\ Go(t, "scheduleResult", [Fresh EXCEPT !.round = n])
                          /\ UNCHANGED timerVars)
                BY <1>0, <1>6, <3>a DEF ScheduleRead
            <3>1. CASE rounds[n].phase = "completed"
                <4>1. Arm("open", n) /\ End(t)
                    BY <3>1, <3>b
                <4>2. TimerFits(rounds', [id |-> NewId, kind |-> "open", round |-> n])
                    BY <2>1, <3>1 DEF TimerFits, n
                <4> QED  BY <1>0, <1>1, <1>2, <1>5, <2>1, <4>1, <4>2, OneTimer
            <3>2. CASE rounds[n].phase = "betting"
                <4>1. Arm("spin", n) /\ End(t)
                    BY <3>2, <3>b
                <4>2. TimerFits(rounds', [id |-> NewId, kind |-> "spin", round |-> n])
                    BY <2>1, <2>3, <3>2 DEF TimerFits, n
                <4> QED  BY <1>0, <1>1, <1>2, <1>5, <2>1, <4>1, <4>2, OneTimer
            <3>5. CASE rounds[n].phase = "closed"
                <4>1. Arm("draw", n) /\ End(t)
                    BY <3>5, <3>b
                <4>2. rounds[n].closing
                    BY <1>3, <2>3, <3>5 DEF RoundFits
                <4>3. TimerFits(rounds', [id |-> NewId, kind |-> "draw", round |-> n])
                    BY <2>1, <2>3, <3>5, <4>2 DEF TimerFits, n
                <4> QED  BY <1>0, <1>1, <1>2, <1>5, <2>1, <4>1, <4>3, OneTimer
            <3>3. CASE rounds[n].phase = "spinning"
                <4>1. Arm("result", n) /\ End(t)
                    BY <3>3, <3>b
                <4>2. TimerFits(rounds', [id |-> NewId, kind |-> "result", round |-> n])
                    BY <2>1, <2>3, <3>3 DEF TimerFits, n
                <4> QED  BY <1>0, <1>1, <1>2, <1>5, <2>1, <4>1, <4>2, OneTimer
            <3>4. CASE rounds[n].phase = "result"
                <4>1. Go(t, "scheduleResult", [Fresh EXCEPT !.round = n]) /\ timers' = timers
                    BY <3>4, <3>b DEF timerVars
                <4>2. TaskFits(rounds', crashes', "scheduleResult", [Fresh EXCEPT !.round = n])
                    BY <1>1, <1>2, <2>1, <2>3, <3>4 DEF TaskFits, Fresh, n
                <4> QED  BY <1>0, <1>1, <1>2, <1>5, <2>1, <4>1, <4>2, OneTask
            <3> QED  BY <1>3, <2>3, <3>1, <3>2, <3>3, <3>4, <3>5 DEF Round, Phase
        <2> QED  BY <1>0, <2>2, <2>3
    <1>7. CASE ScheduleResult(t) \/ ResultComplete(t)
        <2> DEFINE s == [rounds[n] EXCEPT !.phase = "completed"]
        <2>1. n > 0 /\ l.round = n /\ rounds[n].phase = "result"
            BY <1>1, <1>7 DEF TaskFits, ScheduleResult, ResultComplete, At, n
        <2>2. rounds' = [rounds EXCEPT ![n] = s]
            BY <1>7, <2>1 DEF ScheduleResult, ResultComplete, l
        <2>3. /\ s.number = rounds[n].number /\ Later(rounds[n], s) /\ s.phase = "completed"
              /\ s.winningItem # NoItem => s.closing
            BY <1>3, <2>1 DEF Round, Later, RoundFits, HasWinner
        <2> HIDE DEF s
        <2>4. RoundsInv' /\ Forward /\ Len(rounds') = n /\ rounds'[n] = s
            BY <1>0, <2>1, <2>2, <2>3, NewestChanged DEF n
        <2>5. CASE Schedule(t)
            BY <1>0, <1>1, <1>2, <2>3, <2>4, <2>5, OneSchedules
        <2>6. CASE Go(t, "enrich", Fresh) /\ timers' = timers
            <3>1. TaskFits(rounds', crashes', "enrich", Fresh)
                BY <2>1, <2>3, <2>4 DEF TaskFits
            <3> QED  BY <1>0, <1>1, <1>2, <2>4, <2>6, <3>1, OneTask
        <2> QED  BY <1>7, <2>5, <2>6 DEF ScheduleResult, ResultComplete, timerVars
    <1>8. CASE OpenRead(t)
        <2>1. rounds' = rounds /\ pc[t] = "openRead" /\ timers' = timers
            BY <1>8 DEF OpenRead, At, timerVars
        <2>2. Go(t, "openWrite", [l EXCEPT !.number = n + 1])
            <3>1. CASE n = 0
                BY <1>4, <1>8, <3>1 DEF OpenRead, l
            <3>2. CASE n # 0
                <4>1. n \in Latest
                    BY <1>4, <3>2
                <4>2. Max({rounds[k].number : k \in Latest}) = rounds[n].number
                    BY <1>0, <4>1, NextNumber
                <4>3. rounds[n].number = n
                    BY <1>0, <1>3, <3>2 DEF RoundFits
                <4> QED  BY <1>8, <4>1, <4>2, <4>3 DEF OpenRead, l
            <3> QED  BY <3>1, <3>2
        <2>3. TaskFits(rounds', crashes', "openWrite", [l EXCEPT !.number = n + 1])
            BY <1>0, <1>1, <2>1 DEF TaskFits, Loc, n
        <2> QED  BY <1>0, <1>1, <1>2, <1>5, <2>1, <2>2, <2>3, OneTask
    <1>9. CASE OpenWrite(t)
        <2> DEFINE r == [number |-> l.number, phase |-> "betting", winningItem |-> NoItem,
                         betsByItem |-> [k \in Items |-> 0], closing |-> FALSE, dead |-> FALSE]
        <2>1. rounds' = Append(rounds, r) /\ r.phase = "betting" /\ r.winningItem = NoItem
            BY <1>9 DEF OpenWrite, l
        <2>2. /\ r.number = n + 1 /\ l.then = "schedule"
              /\ n > 0 => rounds[n].phase = "completed"
            BY <1>1, <1>9 DEF TaskFits, OpenWrite, At, n
        <2> HIDE DEF r
        <2>3. /\ Len(rounds') = n + 1 /\ DOMAIN rounds' = 1 .. n + 1
              /\ \A k \in 1 .. n : rounds'[k] = rounds[k]
              /\ rounds'[n + 1] = r
            BY <1>0, <2>1 DEF RoundsOK, n
        <2>4. RoundsInv'
            <3> SUFFICES ASSUME NEW k \in 1 .. n + 1  PROVE RoundFits(rounds', k)
                BY <2>3 DEF RoundsInv
            <3>1. CASE k = n + 1
                BY <1>0, <2>1, <2>2, <2>3, <3>1 DEF RoundFits, HasWinner
            <3>2. CASE k # n + 1
                <4>1. k \in 1 .. n /\ rounds'[k] = rounds[k] /\ RoundFits(rounds, k)
                    BY <1>0, <2>3, <3>2 DEF RoundsInv
                <4>2. rounds[k].phase = "completed"
                    BY <1>0, <2>2, <4>1 DEF RoundFits, n
                <4> QED  BY <4>1, <4>2 DEF RoundFits, HasWinner
            <3> QED  BY <3>1, <3>2
        <2>5. Forward
            BY <1>0, <2>3 DEF Forward, Later
        <2>6. Schedule(t)
            BY <1>9, <2>2 DEF OpenWrite, l
        <2> QED  BY <1>0, <1>1, <1>2, <2>1, <2>3, <2>4, <2>5, <2>6, OneSchedules
    <1>10. CASE SpinRead(t)
        <2>1. rounds' = rounds /\ pc[t] = "spinRead"
            BY <1>10 DEF SpinRead, At
        <2>2. n > 0 /\ rounds[n].phase \in {"betting", "closed"} /\ rounds[n].closing
            BY <1>1, <2>1 DEF TaskFits, n
        <2>3. PICK w : Go(t, "spinFlip", [Fresh EXCEPT !.round = n, !.winner = w]) /\ timers' = timers
            <3>1. Latest = {n} /\ ~Over(n)
                BY <1>0, <1>4, <2>2 DEF Over
            <3>2. PICK j \in Latest :
                     IF Over(j) THEN Schedule(t)
                     ELSE /\ \E w \in selectWinner(rounds[j]) :
                                Go(t, "spinFlip", [Fresh EXCEPT !.round = j, !.winner = w])
                          /\ UNCHANGED timerVars
                BY <1>10, <3>1 DEF SpinRead
            <3>3. j = n
                BY <3>1
            <3> QED  BY <3>1, <3>2, <3>3 DEF timerVars
        <2>4. TaskFits(rounds', crashes', "spinFlip", [Fresh EXCEPT !.round = n, !.winner = w])
            BY <2>1, <2>2 DEF TaskFits, Fresh, n
        <2> QED  BY <1>0, <1>1, <1>2, <1>5, <2>1, <2>3, <2>4, OneTask
    <1>11. CASE SpinFlip(t)
        <2>1. pc[t] = "spinFlip" /\ timers' = timers
            BY <1>11 DEF SpinFlip, At, timerVars
        <2>2. /\ n > 0 /\ l.round = n
              /\ rounds[n].phase \in {"betting", "closed"} /\ rounds[n].closing
            BY <1>1, <2>1 DEF TaskFits, n
        <2>3. PICK w : Go(t, "spinWrite", [l EXCEPT !.winner = w])
            <3>1. l = [l EXCEPT !.winner = l.winner]
                BY <1>0 DEF Loc
            <3> QED  BY <1>11, <3>1 DEF SpinFlip, l
        <2>4. [l EXCEPT !.winner = w].round = n
            BY <1>0, <2>2 DEF Loc
        <2>5. CASE rounds[n].phase = "closed"
            <3>1. rounds' = rounds
                BY <1>11, <2>2, <2>5 DEF SpinFlip, l
            <3>2. TaskFits(rounds', crashes', "spinWrite", [l EXCEPT !.winner = w])
                BY <2>2, <2>4, <2>5, <3>1 DEF TaskFits, n
            <3> QED  BY <1>0, <1>1, <1>2, <1>5, <2>1, <2>3, <3>1, <3>2, OneTask
        <2>6. CASE rounds[n].phase = "betting"
            <3> DEFINE s == [rounds[n] EXCEPT !.phase = "closed"]
            <3>1. rounds' = [rounds EXCEPT ![n] = s]
                BY <1>11, <2>2, <2>6 DEF SpinFlip, l
            <3>2. /\ s.number = rounds[n].number /\ Later(rounds[n], s) /\ s.phase = "closed"
                  /\ s.closing /\ s.winningItem = NoItem
                BY <1>3, <2>2, <2>6 DEF Round, Later, RoundFits, HasWinner
            <3> HIDE DEF s
            <3>3. RoundsInv' /\ Forward /\ Len(rounds') = n /\ rounds'[n] = s
                BY <1>0, <2>2, <3>1, <3>2, NewestChanged DEF n
            <3>4. TaskFits(rounds', crashes', "spinWrite", [l EXCEPT !.winner = w])
                BY <2>2, <2>4, <3>2, <3>3 DEF TaskFits
            <3> QED  BY <1>0, <1>1, <1>2, <2>1, <2>3, <3>3, <3>4, OneTask
        <2> QED  BY <2>2, <2>5, <2>6
    <1>12. CASE SpinWrite(t)
        <2> DEFINE s == [rounds[n] EXCEPT !.phase = "spinning", !.winningItem = l.winner]
        <2>1. /\ n > 0 /\ l.round = n /\ rounds[n].phase = "closed" /\ rounds[n].closing
            BY <1>1, <1>12 DEF TaskFits, SpinWrite, At, n
        <2>2. rounds' = [rounds EXCEPT ![n] = s]
            BY <1>0, <1>12, <2>1 DEF SpinWrite, l
        <2>3. /\ s.number = rounds[n].number /\ Later(rounds[n], s) /\ s.phase = "spinning"
              /\ s.closing
            BY <1>3, <2>1 DEF Round, Later, RoundFits, HasWinner
        <2> HIDE DEF s
        <2>4. RoundsInv' /\ Forward /\ Len(rounds') = n /\ rounds'[n] = s
            BY <1>0, <2>1, <2>2, <2>3, NewestChanged DEF n
        <2>5. Arm("result", n) /\ End(t)
            BY <1>12, <2>1 DEF SpinWrite, l
        <2>6. TimerFits(rounds', [id |-> NewId, kind |-> "result", round |-> n])
            BY <2>1, <2>3, <2>4 DEF TimerFits
        <2> QED  BY <1>0, <1>1, <1>2, <2>4, <2>5, <2>6, OneTimer
    <1>13. CASE ResultRead(t)
        <2>1. rounds' = rounds /\ pc[t] = "resultRead"
            BY <1>13 DEF ResultRead, At
        <2>2. n > 0 /\ rounds[n].phase = "spinning"
            BY <1>1, <2>1 DEF TaskFits, n
        <2>3. Go(t, "resultFlip", [Fresh EXCEPT !.round = n]) /\ timers' = timers
            <3>1. Latest = {n} /\ ~Over(n)
                BY <1>0, <1>4, <2>2 DEF Over
            <3>2. PICK j \in Latest :
                     IF Over(j) THEN Schedule(t)
                     ELSE /\ Go(t, "resultFlip", [Fresh EXCEPT !.round = j])
                          /\ UNCHANGED timerVars
                BY <1>13, <3>1 DEF ResultRead
            <3>3. j = n
                BY <3>1
            <3> QED  BY <3>1, <3>2, <3>3 DEF timerVars
        <2>4. TaskFits(rounds', crashes', "resultFlip", [Fresh EXCEPT !.round = n])
            BY <2>1, <2>2 DEF TaskFits, Fresh, n
        <2> QED  BY <1>0, <1>1, <1>2, <1>5, <2>1, <2>3, <2>4, OneTask
    <1>14. CASE ResultFlip(t)
        <2> DEFINE s == [rounds[n] EXCEPT !.phase = "result"]
                   m == [l EXCEPT !.winner = rounds[n].winningItem]
        <2>1. n > 0 /\ l.round = n /\ rounds[n].phase = "spinning"
            BY <1>1, <1>14 DEF TaskFits, ResultFlip, At, n
        <2>2. /\ rounds' = [rounds EXCEPT ![n] = s] /\ timers' = timers
              /\ Go(t, "payFind", m)
            BY <1>14, <2>1 DEF ResultFlip, timerVars, l
        <2>3. /\ s.number = rounds[n].number /\ Later(rounds[n], s) /\ s.phase = "result"
              /\ s.winningItem # NoItem => s.closing
              /\ m.round = n /\ m.winner = s.winningItem
            BY <1>0, <1>3, <2>1 DEF Round, Later, RoundFits, HasWinner, Loc
        <2> HIDE DEF s, m
        <2>4. RoundsInv' /\ Forward /\ Len(rounds') = n /\ rounds'[n] = s
            BY <1>0, <2>1, <2>2, <2>3, NewestChanged DEF n
        <2>5. TaskFits(rounds', crashes', "payFind", m)
            BY <2>1, <2>3, <2>4 DEF TaskFits
        <2> QED  BY <1>0, <1>1, <1>2, <2>2, <2>4, <2>5, OneTask
    <1>15. CASE PayFind(t) \/ Pay(t) \/ PayEnd(t)
        <2>1. rounds' = rounds /\ timers' = timers /\ pc[t] \in {"payFind", "pay"}
            BY <1>15 DEF PayFind, Pay, PayEnd, At, timerVars
        <2>2. PICK P : Go(t, "pay", [l EXCEPT !.toPay = P]) \/ Go(t, "resultComplete", l)
            BY <1>15 DEF PayFind, Pay, PayEnd, l
        <2>3. /\ TaskFits(rounds', crashes', "pay", [l EXCEPT !.toPay = P])
              /\ TaskFits(rounds', crashes', "resultComplete", l)
            BY <1>0, <1>1, <2>1 DEF TaskFits, Loc
        <2> QED  BY <1>0, <1>1, <1>2, <1>5, <2>1, <2>2, <2>3, OneTask
    <1>16. CASE Enrich(t)
        <2>1. rounds' = rounds /\ Schedule(t) /\ pc[t] = "enrich"
            BY <1>16 DEF Enrich, At
        <2>2. rounds[n].phase = "completed"
            BY <1>1, <2>1 DEF TaskFits, n
        <2> QED  BY <1>0, <1>1, <1>2, <1>5, <2>1, <2>2, OneSchedules DEF n
    <1>17. CASE HealComplete(t) \/ ResetClose(t) \/ DeleteConfig(t)
        BY <1>1, <1>17 DEF TaskFits, HealComplete, ResetClose, DeleteConfig, At
    <1> QED  BY <1>6, <1>7, <1>8, <1>9, <1>10, <1>11, <1>12, <1>13, <1>14, <1>15, <1>16, <1>17
             DEF Loop

\* The only timer fires.
LEMMA OneFires ==
    ASSUME LoopInv, NEW t \in Tasks, Fire(t)
    PROVE  RoundsInv' /\ OneInv' /\ Forward
    <1> DEFINE n == Len(rounds)
    <1>0. RoundsOK /\ TasksOK /\ RoundsInv /\ n \in Nat /\ TimersOK
        BY RoundFields DEF LoopInv, Typed
    <1>1. PICK x \in timers :
             /\ x.kind = "spin" => rounds[x.round].closing
             /\ timers' = timers \ {x}
             /\ CASE x.kind = "open" -> Go(t, "openRead", [Fresh EXCEPT !.then = "schedule"])
                  [] x.kind \in {"spin", "draw"} -> Go(t, "spinRead", Fresh)
                  [] x.kind = "result" -> Go(t, "resultRead", Fresh)
        BY DEF Fire
    <1>2. up /\ rounds' = rounds /\ UNCHANGED <<up, crashes>>
        BY DEF Fire, At, envVars
    <1>3. Busy = {} /\ timers = {x} /\ TimerFits(rounds, x)
        BY <1>1, <1>2 DEF LoopInv, OneInv
    <1>4. x.kind \in {"open", "spin", "draw", "result"}
        BY <1>0, <1>3 DEF TimersOK
    <1>5. RoundsInv' /\ Forward
        BY <1>0, <1>2, QuietKeeps, Unmoved
    <1>6. timers' = {} /\ up' /\ Busy \subseteq {t}
        BY <1>1, <1>2, <1>3
    <1> HIDE DEF n
    <1>7. CASE x.kind = "open"
        <2>1. TaskFits(rounds', crashes', "openRead", [Fresh EXCEPT !.then = "schedule"])
            BY <1>2, <1>3, <1>7 DEF TimerFits, TaskFits, Fresh
        <2> QED  BY <1>0, <1>1, <1>5, <1>6, <1>7, <2>1, OneTask
    <1>8. CASE x.kind \in {"spin", "draw"}
        <2>1. TaskFits(rounds', crashes', "spinRead", Fresh)
            BY <1>1, <1>2, <1>3, <1>8 DEF TimerFits, TaskFits
        <2> QED  BY <1>0, <1>1, <1>5, <1>6, <1>8, <2>1, OneTask
    <1>9. CASE x.kind = "result"
        <2>1. TaskFits(rounds', crashes', "resultRead", Fresh)
            BY <1>2, <1>3, <1>9 DEF TimerFits, TaskFits
        <2> QED  BY <1>0, <1>1, <1>5, <1>6, <1>9, <2>1, OneTask
    <1> QED  BY <1>4, <1>7, <1>8, <1>9

\* The loop starts again after a crash.
LEMMA OneBoots ==
    ASSUME LoopInv, NEW t \in Tasks, Boot(t)
    PROVE  RoundsInv' /\ OneInv' /\ Forward
    <1>0. RoundsOK /\ TasksOK /\ RoundsInv /\ Len(rounds) \in Nat
        BY RoundFields DEF LoopInv, Typed
    <1>1. PICK long \in BOOLEAN :
             rounds' = [i \in DOMAIN rounds |->
                          [rounds[i] EXCEPT !.closing = @ \/ long, !.dead = @ \/ (long /\ ~Over(i))]]
        BY DEF Boot
    <1> DEFINE f == [i \in DOMAIN rounds |->
                       [rounds[i] EXCEPT !.closing = @ \/ long, !.dead = @ \/ (long /\ ~Over(i))]]
    <1>2. DOMAIN f = DOMAIN rounds /\ f = [k \in DOMAIN rounds |-> f[k]]
        OBVIOUS
    <1>3. \A k \in DOMAIN rounds :
             /\ f[k] \in Round
             /\ f[k].number = rounds[k].number /\ f[k].phase = rounds[k].phase
             /\ f[k].winningItem = rounds[k].winningItem
             /\ rounds[k].closing => f[k].closing
        BY <1>0, RoundFields DEF Round, Over
    <1>4. rounds' = f
        BY <1>1
    <1> HIDE DEF f
    <1>5. f \in Seq(Round) /\ Len(f) = Len(rounds)
        BY <1>0, <1>2, <1>3, MapSeq DEF RoundsOK
    <1>6. Quiet
        BY <1>2, <1>3, <1>4, <1>5 DEF Quiet
    <1>7. RoundsInv' /\ Forward
        BY <1>0, <1>6, QuietKeeps
    <1>8. /\ ~up /\ up' /\ UNCHANGED crashes /\ Schedule(t)
          /\ timers = {} /\ Busy = {} /\ (crashes = 0 => Len(rounds) = 0)
        BY DEF Boot, LoopInv, OneInv
    <1>9. Busy \subseteq {t}
        BY <1>8
    <1>10. Len(rounds') > 0 /\ rounds'[Len(rounds')].phase = "result" => crashes' > 0
        <2>1. crashes \in Nat
            BY DEF LoopInv, Typed, EnvOK
        <2> QED  BY <1>0, <1>4, <1>5, <1>8, <2>1
    <1> QED  BY <1>0, <1>7, <1>8, <1>9, <1>10, OneSchedules

\* What leaves the loop's state alone.
LEMMA OneWaits ==
    ASSUME LoopInv, Quiet, UNCHANGED <<timers, pc, loc, up, crashes>>
    PROVE  RoundsInv' /\ OneInv' /\ Forward
    <1>0. RoundsOK /\ RoundsInv /\ OneInv
        BY DEF LoopInv, Typed
    <1>1. /\ RoundsInv' /\ Forward
          /\ \A c, at, l : TaskFits(rounds, c, at, l) => TaskFits(rounds', c, at, l)
          /\ \A x : TimerFits(rounds, x) => TimerFits(rounds', x)
        BY <1>0, QuietKeeps
    <1>2. Busy' = Busy
        BY DEF Busy
    <1>3. CASE ~up /\ timers = {} /\ Busy = {} /\ (crashes = 0 => Len(rounds) = 0)
        BY <1>1, <1>2, <1>3 DEF OneInv, Quiet
    <1>4. CASE /\ up /\ timers = {}
               /\ \E t \in Tasks : Busy = {t} /\ TaskFits(rounds, crashes, pc[t], loc[t])
        BY <1>1, <1>2, <1>4 DEF OneInv
    <1>5. CASE up /\ Busy = {} /\ \E x : timers = {x} /\ TimerFits(rounds, x)
        BY <1>1, <1>2, <1>5 DEF OneInv
    <1> QED  BY <1>0, <1>1, <1>3, <1>4, <1>5 DEF OneInv

\* A round's bets or its clock change.
LEMMA QuietChange ==
    ASSUME RoundsOK, NEW i \in DOMAIN rounds, NEW s \in Round,
           rounds' = [rounds EXCEPT ![i] = s],
           s.number = rounds[i].number, s.phase = rounds[i].phase,
           s.winningItem = rounds[i].winningItem, rounds[i].closing => s.closing
    PROVE  Quiet
    <1>1. /\ rounds' \in Seq(Round) /\ Len(rounds') = Len(rounds)
          /\ DOMAIN rounds' = DOMAIN rounds
        BY ReplacedSeq DEF RoundsOK
    <1>2. \A k \in DOMAIN rounds : rounds'[k] = IF k = i THEN s ELSE rounds[k]
        OBVIOUS
    <1> QED  BY <1>1, <1>2 DEF Quiet

LEMMA LoopNext ==
    ASSUME ~Polls, ~Admins, LoopInv, [Next]_vars
    PROVE  LoopInv' /\ Forward
    <1>0. Typed' /\ RoundsOK /\ RoundsInv /\ OneInv
        BY TypedNext DEF LoopInv, Typed
    <1>1. enabled'
        <2>1. ASSUME NEW t \in Tasks, Loop(t)  PROVE enabled' = enabled
            <3>1. ~DeleteConfig(t)
                <4> SUFFICES ASSUME pc[t] = "deleteConfig", up  PROVE FALSE
                    BY DEF DeleteConfig, At
                <4>1. t \in Busy
                    BY DEF Busy
                <4> QED  BY <1>0, <4>1 DEF OneInv, TaskFits
            <3> QED  BY <2>1, <3>1 DEF Loop, ScheduleRead, ScheduleResult, OpenRead, OpenWrite,
                     SpinRead, SpinFlip, SpinWrite, ResultRead, ResultFlip, PayFind, Pay, PayEnd,
                     ResultComplete, Enrich, HealComplete, ResetClose, envVars
        <2>2. ASSUME NEW t \in Tasks, Fire(t) \/ Kick(t) \/ Boot(t)
              PROVE  enabled' = enabled
            BY <2>2 DEF Fire, Kick, PollFirst, PollDead, PollStale, Enable, resetRounds,
                        deleteGame, Boot, envVars
        <2>3. ASSUME NEW b \in Bets, PlaceBet(b) \/ Betting(b)  PROVE enabled' = enabled
            BY <2>3 DEF PlaceBet, Betting, BetDebit, BetInsert, BetCount, envVars
        <2>4. ASSUME NEW i, Tick(i) \/ Age(i)  PROVE enabled' = enabled
            BY <2>4 DEF Tick, Age, envVars
        <2>5. ASSUME Pause \/ Crash \/ UNCHANGED vars  PROVE enabled' = enabled
            BY <2>5 DEF Pause, Crash, vars, envVars
        <2>6. enabled' = enabled
            BY <2>1, <2>2, <2>3, <2>4, <2>5 DEF Next
        <2> QED  BY <2>6 DEF LoopInv
    <1>2. ASSUME NEW t \in Tasks, Loop(t) \/ Fire(t) \/ Kick(t) \/ Boot(t)
          PROVE  RoundsInv' /\ OneInv' /\ Forward
        <2>1. ~Kick(t)
            BY DEF Kick, PollFirst, PollDead, PollStale, Enable, resetRounds, deleteGame
        <2> QED  BY <1>2, <2>1, LoopGoesOn, OneFires, OneBoots
    <1>3. ASSUME NEW b \in Bets, PlaceBet(b) \/ Betting(b)
          PROVE  RoundsInv' /\ OneInv' /\ Forward
        <2>1. UNCHANGED <<timers, pc, loc, up, crashes>>
            BY <1>3 DEF PlaceBet, Betting, BetDebit, BetInsert, BetCount, timerVars, taskVars, envVars
        <2>2. CASE BetCount(b)
            <3> DEFINE j == bet[b].round
                       s == [rounds[j] EXCEPT !.betsByItem[bet[b].item] = @ + 1]
            <3>1. rounds' = [rounds EXCEPT ![j] = s] /\ j \in DOMAIN rounds
                BY <2>2 DEF BetCount, LoopInv, Typed, BetsOK
            <3>2. /\ s.number = rounds[j].number /\ s.phase = rounds[j].phase
                  /\ s.winningItem = rounds[j].winningItem /\ s.closing = rounds[j].closing
                BY <1>0, <3>1, RoundFields DEF Round
            <3>3. s \in Round
                <4>1. rounds'[j] = s /\ rounds' \in Seq(Round) /\ j \in DOMAIN rounds'
                    BY <1>0, <3>1 DEF Typed, RoundsOK
                <4> HIDE DEF j, s
                <4> QED  BY <4>1
            <3> HIDE DEF j, s
            <3>4. Quiet
                BY <1>0, <3>1, <3>2, <3>3, QuietChange
            <3> QED  BY <2>1, <3>4, OneWaits
        <2>3. CASE ~BetCount(b)
            BY <1>0, <1>3, <2>1, <2>3, Unmoved, OneWaits DEF PlaceBet, Betting, BetDebit, BetInsert
        <2> QED  BY <2>2, <2>3
    <1>4. ASSUME NEW i, Tick(i)
          PROVE  RoundsInv' /\ OneInv' /\ Forward
        <2> DEFINE s == [rounds[i] EXCEPT !.closing = TRUE]
        <2>1. rounds' = [rounds EXCEPT ![i] = s] /\ i \in DOMAIN rounds
            BY <1>4 DEF Tick
        <2>2. /\ s \in Round /\ s.number = rounds[i].number /\ s.phase = rounds[i].phase
              /\ s.winningItem = rounds[i].winningItem /\ s.closing
            BY <1>0, <2>1, RoundFields DEF Round
        <2>3. UNCHANGED <<timers, pc, loc, up, crashes>>
            BY <1>4 DEF Tick, timerVars, taskVars, envVars
        <2> HIDE DEF s
        <2>4. Quiet
            BY <1>0, <2>1, <2>2, QuietChange
        <2> QED  BY <2>3, <2>4, OneWaits
    <1>5. ASSUME NEW i, Age(i)  PROVE FALSE
        BY <1>0, <1>5 DEF Age, OneInv, Busy
    <1>6. CASE Crash
        <2>1. RoundsInv' /\ Forward
            BY <1>0, <1>6, QuietKeeps, Unmoved DEF Crash
        <2>2. crashes' > 0
            BY <1>6 DEF Crash, LoopInv, Typed, EnvOK
        <2>3. ~up' /\ timers' = {} /\ Busy' = {}
            BY <1>6 DEF Crash, Busy
        <2> QED  BY <1>0, <1>1, <2>1, <2>2, <2>3 DEF OneInv, LoopInv
    <1>7. CASE UNCHANGED vars
        BY <1>0, <1>1, <1>7, Unmoved, OneWaits DEF vars, timerVars, taskVars, envVars, LoopInv
    <1>8. ~Pause
        BY DEF Pause
    <1> QED  BY <1>0, <1>1, <1>2, <1>3, <1>4, <1>5, <1>6, <1>7, <1>8 DEF Next, LoopInv

LEMMA LoopInit == Init => LoopInv
    <1> SUFFICES ASSUME Init  PROVE LoopInv
        OBVIOUS
    <1>1. Typed
        BY TypedInit
    <1>2. enabled /\ RoundsInv /\ OneInv
        BY DEF Init, RoundsInv, OneInv, Busy
    <1> QED  BY <1>1, <1>2 DEF LoopInv

\* With nobody else to start it there is exactly one loop, as a timer or as a task,
\* through every crash and boot, and no two rounds get one number.
THEOREM LoopStaysOne ==
    ASSUME ~Polls, ~Admins
    PROVE  Spec => []LoopIsOne
    <1>1. LoopInv /\ [Next]_vars => LoopInv'
        BY LoopNext
    <1>2. LoopInv => LoopIsOne
        <2> SUFFICES ASSUME LoopInv  PROVE LoopIsOne
            OBVIOUS
        <2>1. TypeOK
            BY DEF LoopInv, Typed, TypeOK, RoundsOK, TimersOK, TasksOK, BetsOK, EnvOK
        <2>2. OneLoop
            <3>1. Cardinality({}) = 0 /\ \A x : Cardinality({x}) = 1
                BY FS_EmptySet, FS_Singleton
            <3>2. up => \/ timers = {} /\ \E t : Busy = {t}
                        \/ Busy = {} /\ \E x : timers = {x}
                BY DEF LoopInv, OneInv
            <3>3. CASE timers = {} /\ \E t : Busy = {t}
                <4>1. Cardinality(timers) = 0 /\ Cardinality(Busy) = 1
                    BY <3>1, <3>3
                <4> QED  BY <4>1 DEF OneLoop
            <3>4. CASE Busy = {} /\ \E x : timers = {x}
                <4>1. Cardinality(timers) = 1 /\ Cardinality(Busy) = 0
                    BY <3>1, <3>4
                <4> QED  BY <4>1 DEF OneLoop
            <3> QED  BY <3>2, <3>3, <3>4 DEF OneLoop
        <2>3. UniqueRoundNumbers
            BY DEF LoopInv, RoundsInv, RoundFits, UniqueRoundNumbers
        <2> QED  BY <2>1, <2>2, <2>3 DEF LoopIsOne
    <1> QED  BY <1>1, <1>2, LoopInit, PTL DEF Spec

\* No round of the loop is drawn before its betting closed, late boots included.
THEOREM DrawnAfterClosing ==
    ASSUME ~Polls, ~Admins
    PROVE  Spec => []WindowIsKept
    <1>1. LoopInv /\ [Next]_vars => LoopInv'
        BY LoopNext
    <1>2. LoopInv => WindowIsKept
        BY DEF LoopInv, RoundsInv, RoundFits, HasWinner, WindowIsKept
    <1> QED  BY <1>1, <1>2, LoopInit, PTL DEF Spec

LEMMA RankValues ==
    /\ Rank("betting") = 1 /\ Rank("closed") = 2 /\ Rank("spinning") = 3
    /\ Rank("result") = 4 /\ Rank("completed") = 5
    <1>1. /\ DOMAIN PhaseOrder = 1 .. 5
          /\ PhaseOrder[1] = "betting" /\ PhaseOrder[2] = "closed" /\ PhaseOrder[3] = "spinning"
          /\ PhaseOrder[4] = "result" /\ PhaseOrder[5] = "completed"
        BY DEF PhaseOrder
    <1>2. ASSUME NEW n \in 1 .. 5  PROVE Rank(PhaseOrder[n]) = n
        <2>1. \A m \in DOMAIN PhaseOrder : PhaseOrder[m] = PhaseOrder[n] => m = n
            BY <1>1
        <2> QED  BY <1>1, <2>1 DEF Rank
    <1> QED  BY <1>1, <1>2

\* A round never goes back to an earlier phase, and a winner once written stays.
THEOREM RoundsOnlyAdvance ==
    ASSUME ~Polls, ~Admins
    PROVE  Spec => RoundsGoForward
    <1>1. LoopInv /\ [Next]_vars => LoopInv'
        BY LoopNext
    <1>2. LoopInv /\ [Next]_vars => [PhasesInOrder /\ WinnerIsFinal]_vars
        <2> SUFFICES ASSUME LoopInv, [Next]_vars  PROVE PhasesInOrder /\ WinnerIsFinal
            OBVIOUS
        <2>1. \A i \in DOMAIN rounds :
                 rounds[i].phase \in Phase /\ Later(rounds[i], rounds'[i])
            BY LoopNext, RoundFields DEF Forward, LoopInv, Typed
        <2>2. PhasesInOrder
            BY <2>1, RankValues DEF Later, Phase, PhasesInOrder
        <2>3. WinnerIsFinal
            BY <2>1 DEF Later, WinnerIsFinal
        <2> QED  BY <2>2, <2>3
    <1> QED  BY <1>1, <1>2, LoopInit, PTL DEF Spec, RoundsGoForward

------------------------------------------------------------------------------
\* What the loop pays.

InTimeWinner(b, i, winner) == bet[b].round = i /\ bet[b].item = winner /\ bet[b].inTime

\* While it pays, a task's list holds winners, and every winner in time that has not
\* had its turn; when the list is done, all had.
PayList(at, l) ==
    /\ at = "pay" =>
          /\ \A b \in l.toPay : b \in rows /\ bet[b].round = l.round /\ bet[b].item = l.winner
          /\ crashes = 0 => \A b \in rows :
                InTimeWinner(b, l.round, l.winner) => payout[b] # "none" \/ b \in l.toPay
    /\ at = "resultComplete" /\ crashes = 0 => \A b \in rows :
          InTimeWinner(b, l.round, rounds[l.round].winningItem) => payout[b] # "none"
PayLists == \A t \in Tasks : PayList(pc[t], loc[t])

PayInv ==
    /\ LoopInv /\ PayLists /\ WinnersArePaid
    /\ \A b \in Bets : payout[b] # "none" => b \in rows

\* Only the task that paid a round completes it, unless there was a crash.
LEMMA OnlyPayerCompletes ==
    ASSUME LoopInv, Next, NEW i \in DOMAIN rounds, ~Over(i), Over(i)'
    PROVE  \E t \in Tasks : /\ At(t, "resultComplete") \/ (At(t, "scheduleResult") /\ crashes > 0)
                            /\ loc[t].round = i
    <1>0. RoundsOK /\ TasksOK
        BY DEF LoopInv, Typed
    <1>1. \A k \in DOMAIN rounds : rounds[k] \in Round
        BY <1>0, RoundFields
    <1>2. rounds' # rounds
        BY DEF Over
    <1>3. ASSUME NEW t \in Tasks, Loop(t)
          PROVE  /\ At(t, "resultComplete") \/ (At(t, "scheduleResult") /\ crashes > 0)
                 /\ loc[t].round = i
        <2>0. TaskFits(rounds, crashes, pc[t], loc[t]) /\ loc[t].round \in Nat
            <3>1. up /\ pc[t] # "idle"
                BY <1>3 DEF Loop, ScheduleRead, ScheduleResult, OpenRead, OpenWrite, SpinRead,
                       SpinFlip, SpinWrite, ResultRead, ResultFlip, PayFind, Pay, PayEnd,
                       ResultComplete, Enrich, HealComplete, ResetClose, DeleteConfig, At
            <3>2. t \in Busy
                BY <3>1 DEF Busy
            <3> QED  BY <1>0, <3>1, <3>2 DEF LoopInv, OneInv, TasksOK, Loc
        <2>1. CASE ScheduleRead(t) \/ OpenRead(t) \/ SpinRead(t) \/ ResultRead(t) \/ PayFind(t)
                   \/ Pay(t) \/ PayEnd(t) \/ Enrich(t)
            BY <1>2, <2>1 DEF ScheduleRead, OpenRead, SpinRead, ResultRead, PayFind, Pay, PayEnd,
                              Enrich
        <2>2. CASE ScheduleResult(t) \/ ResultComplete(t)
            <3>1. rounds' = [rounds EXCEPT ![loc[t].round].phase = "completed"]
                BY <2>2 DEF ScheduleResult, ResultComplete
            <3>2. loc[t].round = i
                BY <3>1 DEF Over
            <3>3. At(t, "scheduleResult") => crashes > 0
                BY <2>0 DEF TaskFits, At
            <3> QED  BY <2>2, <3>2, <3>3 DEF ScheduleResult, ResultComplete
        <2>3. CASE OpenWrite(t)
            <3>1. rounds'[i] = rounds[i]
                BY <1>0, <2>3, RoundFields DEF OpenWrite, RoundsOK
            <3> QED  BY <3>1 DEF Over
        <2>4. CASE SpinFlip(t) \/ SpinWrite(t) \/ ResultFlip(t)
            <3>1. \E p \in {"closed", "spinning", "result"} : \E w :
                     \/ rounds' = rounds
                     \/ rounds' = [rounds EXCEPT ![loc[t].round].phase = p]
                     \/ rounds' = [rounds EXCEPT ![loc[t].round].phase = p,
                                                 ![loc[t].round].winningItem = w]
                BY <2>4 DEF SpinFlip, SpinWrite, ResultFlip
            <3> QED  BY <1>1, <3>1 DEF Over, Round
        <2>5. CASE HealComplete(t) \/ ResetClose(t) \/ DeleteConfig(t)
            BY <2>0, <2>5 DEF TaskFits, HealComplete, ResetClose, DeleteConfig, At
        <2> QED  BY <1>3, <2>1, <2>2, <2>3, <2>4, <2>5 DEF Loop
    <1>4. ASSUME NEW t \in Tasks, Fire(t) \/ Kick(t) \/ Boot(t)  PROVE FALSE
        <2>1. CASE Boot(t)
            <3>1. PICK long \in BOOLEAN :
                     rounds' = [k \in DOMAIN rounds |->
                       [rounds[k] EXCEPT !.closing = @ \/ long, !.dead = @ \/ (long /\ ~Over(k))]]
                BY <2>1 DEF Boot
            <3> QED  BY <1>1, <3>1 DEF Over, Round
        <2> QED  BY <1>2, <1>4, <2>1
                 DEF Fire, Kick, PollFirst, PollDead, PollStale, Enable, resetRounds, deleteGame
    <1>5. ASSUME NEW b \in Bets, PlaceBet(b) \/ Betting(b)  PROVE FALSE
        <2>1. CASE BetCount(b)
            <3>1. rounds' = [rounds EXCEPT ![bet[b].round].betsByItem[bet[b].item] = @ + 1]
                BY <2>1 DEF BetCount
            <3> QED  BY <1>1, <3>1 DEF Over, Round
        <2> QED  BY <1>2, <1>5, <2>1 DEF PlaceBet, Betting, BetDebit, BetInsert
    <1>6. ASSUME NEW k, Tick(k) \/ Age(k)  PROVE FALSE
        BY <1>1, <1>6 DEF Tick, Age, Over, Round
    <1>7. ~Pause /\ ~Crash
        BY <1>2 DEF Pause, Crash
    <1> QED  BY <1>3, <1>4, <1>5, <1>6, <1>7 DEF Next

\* A bet's document does not change, and what became of its payout stays.
BetsStay ==
    /\ rows \subseteq rows' /\ \A b \in rows : bet'[b] = bet[b]
    /\ \A b \in rows' \ rows : bet'[b].inTime =>
          rounds' = rounds /\ rounds[bet'[b].round].phase = "betting"
    /\ \A b \in Bets : payout[b] # "none" => payout'[b] # "none"

LEMMA BetsStayNext == Typed /\ [Next]_vars => BetsStay
    <1> SUFFICES ASSUME Typed, [Next]_vars  PROVE BetsStay
        OBVIOUS
    <1>0. /\ bet \in [Bets -> [round : 0 .. Len(rounds), item : Items \cup {NoItem},
                               inTime : BOOLEAN]]
          /\ payout \in [Bets -> {"none", "paid", "failed"}]
          /\ \A b \in Bets : betPc[b] \in {"new", "debit", "insert"} => b \notin rows
        BY DEF Typed, BetsOK
    <1>1. CASE UNCHANGED <<bet, rows, payout>>
        BY <1>1 DEF BetsStay
    <1>2. ASSUME NEW b \in Bets, PlaceBet(b) \/ Betting(b)  PROVE BetsStay
        <2>1. CASE PlaceBet(b)
            <3>1. UNCHANGED <<rows, payout>> /\ b \notin rows /\ rows \subseteq Bets
                BY <1>0, <2>1 DEF PlaceBet, Typed, BetsOK
            <3>2. \A c \in Bets \ {b} : bet'[c] = bet[c]
                BY <1>0, <2>1 DEF PlaceBet
            <3> QED  BY <3>1, <3>2 DEF BetsStay
        <2>2. CASE BetInsert(b)
            <3>1. /\ rows' = rows \cup {b} /\ rounds' = rounds /\ payout' = payout
                  /\ b \notin rows
                  /\ bet'[b].inTime = (rounds[bet[b].round].phase = "betting")
                  /\ bet'[b].round = bet[b].round
                  /\ \A c \in Bets \ {b} : bet'[c] = bet[c]
                BY <1>0, <2>2 DEF BetInsert
            <3>2. rows \subseteq Bets
                BY DEF Typed, BetsOK
            <3> QED  BY <3>1, <3>2 DEF BetsStay
        <2>3. CASE BetDebit(b) \/ BetCount(b)
            BY <1>1, <2>3 DEF BetDebit, BetCount
        <2> QED  BY <1>2, <2>1, <2>2, <2>3 DEF Betting
    <1>3. ASSUME NEW t \in Tasks, Pay(t)  PROVE BetsStay
        BY <1>0, <1>3 DEF Pay, betVars, BetsStay
    <1>4. ASSUME NEW t \in Tasks, Loop(t) \/ Fire(t) \/ Kick(t) \/ Boot(t)
          PROVE  UNCHANGED <<bet, rows, payout>> \/ Pay(t)
        <2>1. CASE Loop(t)
            BY <2>1 DEF Loop, ScheduleRead, ScheduleResult, OpenRead, OpenWrite, SpinRead,
                   SpinFlip, SpinWrite, ResultRead, ResultFlip, PayFind, PayEnd,
                   ResultComplete, Enrich, HealComplete, ResetClose, DeleteConfig, betVars
        <2>2. CASE Fire(t) \/ Boot(t)
            BY <2>2 DEF Fire, Boot, betVars
        <2>3. CASE Kick(t)
            BY <2>3 DEF Kick, PollFirst, PollDead, PollStale, Enable, resetRounds, deleteGame,
                   betVars
        <2> QED  BY <1>4, <2>1, <2>2, <2>3
    <1>5. ASSUME \/ \E i \in 1 .. MaxRounds : Tick(i) \/ Age(i)
                 \/ Pause \/ Crash \/ UNCHANGED vars
          PROVE  UNCHANGED <<bet, rows, payout>>
        BY <1>5 DEF Tick, Age, Pause, Crash, vars, betVars
    <1>6. \/ UNCHANGED <<bet, rows, payout>> \/ \E t \in Tasks : Pay(t)
          \/ \E b \in Bets : PlaceBet(b) \/ Betting(b)
        BY <1>4, <1>5 DEF Next
    <1> QED  BY <1>1, <1>2, <1>3, <1>6

\* A task is where it was, or has just found the list, paid one of it or ended it.
LEMMA PayerMoves ==
    ASSUME Typed, [Next]_vars, NEW u \in Tasks, pc'[u] \in {"pay", "resultComplete"}
    PROVE  \/ pc'[u] = pc[u] /\ loc'[u] = loc[u] /\ payout' = payout /\ crashes' = crashes
           \/ PayFind(u) \/ Pay(u) \/ PayEnd(u)
           \/ pc'[u] = pc[u] /\ loc'[u] = loc[u] /\ \E t \in Tasks \ {u} : Pay(t)
    <1>0. pc \in [Tasks -> TaskPc] /\ loc \in [Tasks -> Loc]
        BY DEF Typed, TasksOK
    <1>1. ASSUME NEW t \in Tasks, NEW to \in TaskPc \ {"pay", "resultComplete"}, NEW l,
                 Go(t, to, l)
          PROVE  pc'[u] = pc[u] /\ loc'[u] = loc[u]
        BY <1>0, <1>1 DEF Go
    <1>2. {"idle", "scheduleRead", "scheduleResult", "openRead", "openWrite", "spinRead",
           "spinFlip", "spinWrite", "resultRead", "resultFlip", "payFind", "enrich",
           "healComplete", "resetClose", "deleteConfig"} \subseteq TaskPc \ {"pay", "resultComplete"}
        BY DEF TaskPc
    <1>3. ASSUME NEW t \in Tasks, Loop(t), ~PayFind(t), ~Pay(t), ~PayEnd(t)
          PROVE  pc'[u] = pc[u] /\ loc'[u] = loc[u] /\ payout' = payout /\ crashes' = crashes
        <2>1. payout' = payout /\ crashes' = crashes
            BY <1>3 DEF Loop, ScheduleRead, ScheduleResult, OpenRead, OpenWrite, SpinRead,
                   SpinFlip, SpinWrite, ResultRead, ResultFlip, ResultComplete, Enrich,
                   HealComplete, ResetClose, DeleteConfig, envVars
        <2>2. CASE ScheduleRead(t) \/ ScheduleResult(t) \/ Enrich(t)
            <3>1. \A i \in Latest : rounds[i].phase \in Phase
                BY RoundFields DEF Latest, Typed
            <3> QED  BY <1>1, <1>2, <2>1, <2>2, <3>1
                     DEF ScheduleRead, ScheduleResult, Enrich, Schedule, End, Phase
        <2>3. CASE OpenRead(t) \/ OpenWrite(t) \/ SpinRead(t)
            BY <1>1, <1>2, <2>1, <2>3 DEF OpenRead, OpenWrite, SpinRead, Schedule, End
        <2>4. CASE SpinFlip(t) \/ SpinWrite(t) \/ ResultRead(t) \/ ResultFlip(t)
            BY <1>1, <1>2, <2>1, <2>4 DEF SpinFlip, SpinWrite, ResultRead, ResultFlip, Schedule, End
        <2>5. CASE ResultComplete(t) \/ HealComplete(t) \/ ResetClose(t) \/ DeleteConfig(t)
            BY <1>1, <1>2, <2>1, <2>5 DEF ResultComplete, HealComplete, ResetClose, DeleteConfig, End
        <2> QED  BY <1>3, <2>2, <2>3, <2>4, <2>5 DEF Loop
    <1>4. ASSUME NEW t \in Tasks, Fire(t) \/ Kick(t) \/ Boot(t)
          PROVE  pc'[u] = pc[u] /\ loc'[u] = loc[u] /\ payout' = payout /\ crashes' = crashes
        <2>1. payout' = payout /\ crashes' = crashes
            BY <1>4 DEF Fire, Kick, PollFirst, PollDead, PollStale, Enable, resetRounds,
                   deleteGame, Boot, envVars
        <2>2. \/ UNCHANGED taskVars
              \/ \E to \in TaskPc \ {"pay", "resultComplete"} : \E l : Go(t, to, l)
            BY <1>2, <1>4 DEF Kick, Fire, Boot, PollFirst, PollDead, PollStale, Enable,
                   resetRounds, deleteGame, Schedule, Typed, TimersOK
        <2> QED  BY <1>1, <2>1, <2>2 DEF taskVars
    <1>5. ASSUME NEW t \in Tasks \ {u}, PayFind(t) \/ Pay(t) \/ PayEnd(t)
          PROVE  /\ pc'[u] = pc[u] /\ loc'[u] = loc[u]
                 /\ Pay(t) \/ (payout' = payout /\ crashes' = crashes)
        BY <1>0, <1>5 DEF PayFind, Pay, PayEnd, Go, envVars
    <1>6. ASSUME NEW b \in Bets, PlaceBet(b) \/ Betting(b)
          PROVE  pc'[u] = pc[u] /\ loc'[u] = loc[u] /\ payout' = payout /\ crashes' = crashes
        BY <1>6 DEF PlaceBet, Betting, BetDebit, BetInsert, BetCount, taskVars, envVars
    <1>7. ASSUME Pause \/ UNCHANGED vars \/ \E i \in 1 .. MaxRounds : Tick(i) \/ Age(i)
          PROVE  pc'[u] = pc[u] /\ loc'[u] = loc[u] /\ payout' = payout /\ crashes' = crashes
        BY <1>7 DEF Pause, vars, Tick, Age, taskVars, envVars
    <1>8. ~Crash
        BY DEF Crash
    <1> QED  BY <1>3, <1>4, <1>5, <1>6, <1>7, <1>8 DEF Next

LEMMA PayNext ==
    ASSUME ~Polls, ~Admins, PayInv, [Next]_vars
    PROVE  PayInv'
    <1>0. LoopInv /\ LoopInv' /\ Forward /\ BetsStay /\ Typed /\ Typed'
        BY LoopNext, BetsStayNext DEF PayInv, LoopInv
    <1>1. /\ rows \subseteq Bets /\ rows' \subseteq Bets
          /\ \A b \in rows : bet[b].round \in DOMAIN rounds /\ bet[b].item \in Items
          /\ pc \in [Tasks -> TaskPc] /\ loc \in [Tasks -> Loc]
          /\ payout \in [Bets -> {"none", "paid", "failed"}]
          /\ crashes \in Nat /\ crashes' \in Nat
        BY <1>0 DEF Typed, BetsOK, TasksOK, EnvOK
    <1>2. crashes' = 0 => crashes = 0
        <2>1. ASSUME NEW t \in Tasks, Loop(t)  PROVE crashes' = crashes
            BY <2>1 DEF Loop, ScheduleRead, ScheduleResult, OpenRead, OpenWrite, SpinRead,
               SpinFlip, SpinWrite, ResultRead, ResultFlip, PayFind, Pay, PayEnd,
               ResultComplete, Enrich, HealComplete, ResetClose, DeleteConfig, envVars
        <2>2. ASSUME NEW t \in Tasks, Fire(t) \/ Kick(t) \/ Boot(t)  PROVE crashes' = crashes
            BY <2>2 DEF Fire, Kick, PollFirst, PollDead, PollStale, Enable, resetRounds,
                        deleteGame, Boot, envVars
        <2>3. ASSUME NEW b \in Bets, PlaceBet(b) \/ Betting(b)  PROVE crashes' = crashes
            BY <2>3 DEF PlaceBet, Betting, BetDebit, BetInsert, BetCount, envVars
        <2>4. ASSUME NEW i, Tick(i) \/ Age(i)  PROVE crashes' = crashes
            BY <2>4 DEF Tick, Age, envVars
        <2>5. ASSUME Pause \/ UNCHANGED vars  PROVE crashes' = crashes
            BY <2>5 DEF Pause, vars, envVars
        <2>6. Crash => crashes' = crashes + 1
            BY DEF Crash
        <2>7. crashes' = crashes \/ crashes' = crashes + 1
            BY <2>1, <2>2, <2>3, <2>4, <2>5, <2>6 DEF Next
        <2> QED  BY <1>1, <2>7
    \* A task that pays works on the newest round, whose winner it knows.
    <1>3. ASSUME NEW t \in Tasks, up, pc[t] # "idle"
          PROVE  TaskFits(rounds, crashes, pc[t], loc[t])
        <2>1. t \in Busy
            BY <1>3 DEF Busy
        <2> QED  BY <1>0, <1>3, <2>1 DEF LoopInv, OneInv
    <1>3a. ASSUME NEW t \in Tasks, pc[t] # "idle"  PROVE up
        BY <1>0, <1>3a DEF LoopInv, OneInv, Busy
    <1>4. ASSUME NEW t \in Tasks, pc[t] \in {"payFind", "pay", "resultComplete"}
          PROVE  /\ loc[t].round \in DOMAIN rounds
                 /\ rounds[loc[t].round].phase = "result"
                 /\ pc[t] # "resultComplete" => loc[t].winner = rounds[loc[t].round].winningItem
                 /\ rounds'[loc[t].round].winningItem = rounds[loc[t].round].winningItem
        <2>1. TaskFits(rounds, crashes, pc[t], loc[t])
            BY <1>3, <1>3a, <1>4
        <2>2. loc[t].round \in DOMAIN rounds
            BY <1>0, <1>4 DEF Typed, TasksOK, TaskOK
        <2>3. Later(rounds[loc[t].round], rounds'[loc[t].round])
            BY <1>0, <2>2 DEF Forward
        <2> QED  BY <1>4, <2>1, <2>2, <2>3 DEF TaskFits, Later
    <1>5. \A t \in Tasks : PayList(pc[t], loc[t])
        BY DEF PayInv, PayLists
    <1>6. \A b \in Bets : payout'[b] # "none" => b \in rows'
        <2>1. CASE payout' = payout
            BY <1>0, <2>1 DEF PayInv, BetsStay
        <2>2. ASSUME NEW t \in Tasks, Pay(t)
              PROVE  \A b \in Bets : payout'[b] # "none" => b \in rows'
            <3>1. PICK b \in loc[t].toPay, end \in {"paid", "failed"} :
                     payout' = [payout EXCEPT ![b] = IF @ = "paid" THEN @ ELSE end]
                BY <2>2 DEF Pay
            <3>2. b \in rows
                BY <1>5, <2>2 DEF PayList, Pay, At
            <3> QED  BY <1>0, <1>1, <3>1, <3>2 DEF PayInv, BetsStay
        <2>3. payout' = payout \/ \E t \in Tasks : Pay(t)
            BY DEF Next, Loop, ScheduleRead, ScheduleResult, OpenRead, OpenWrite, SpinRead,
                   SpinFlip, SpinWrite, ResultRead, ResultFlip, PayFind, PayEnd,
                   ResultComplete, Enrich, HealComplete, ResetClose, DeleteConfig, Fire, Kick,
                   PollFirst, PollDead, PollStale, Enable, resetRounds, deleteGame, Boot, Tick,
                   Age, Pause, Crash, vars, PlaceBet, Betting, BetDebit, BetInsert, BetCount
        <2> QED  BY <2>1, <2>2, <2>3
    <1>7. OneWinnerPaid'
        <2> SUFFICES ASSUME NEW b \in Bets, payout'[b] = "paid"  PROVE Winner(bet[b].round, b)'
            BY DEF OneWinnerPaid
        <2>1. b \in rows /\ Winner(bet[b].round, b)
            <3>1. CASE payout[b] = "paid"
                BY <3>1 DEF PayInv, WinnersArePaid, OneWinnerPaid
            <3>2. CASE payout[b] # "paid"
                <4>1. PICK t \in Tasks : Pay(t)
                    BY <3>2 DEF Next, Loop, ScheduleRead, ScheduleResult, OpenRead, OpenWrite,
                       SpinRead, SpinFlip, SpinWrite, ResultRead, ResultFlip, PayFind, PayEnd,
                       ResultComplete, Enrich, HealComplete, ResetClose, DeleteConfig, Fire, Kick,
                       PollFirst, PollDead, PollStale, Enable, resetRounds, deleteGame, Boot, Tick,
                       Age, Pause, Crash, vars, PlaceBet, Betting, BetDebit, BetInsert, BetCount
                <4>2. b \in loc[t].toPay /\ pc[t] = "pay"
                    BY <1>1, <3>2, <4>1 DEF Pay, At
                <4> QED  BY <1>4, <1>5, <4>2 DEF PayList, Winner
            <3> QED  BY <3>1, <3>2
        <2>2. Later(rounds[bet[b].round], rounds'[bet[b].round])
            BY <1>0, <1>1, <2>1 DEF Forward
        <2>3. rounds[bet[b].round].winningItem # NoItem
            BY <1>1, <2>1, ItemsAssumption DEF Winner
        <2> QED  BY <1>0, <2>1, <2>2, <2>3 DEF Winner, Later, BetsStay
    <1>8. TimelyWinnersPaid'
        <2> SUFFICES ASSUME crashes' = 0, NEW i \in DOMAIN rounds', NEW b \in rows',
                            Over(i)', Winner(i, b)', bet'[b].inTime
                     PROVE  payout'[b] # "none"
            BY DEF TimelyWinnersPaid, Settled
        <2>0. crashes = 0 /\ bet'[b].round = i
            BY <1>2 DEF Winner
        <2>1. b \in rows
            BY <1>0, <2>0 DEF BetsStay, Over
        <2>2. bet[b] = bet'[b] /\ i \in DOMAIN rounds /\ bet[b].inTime /\ bet[b].round = i
            BY <1>0, <1>1, <2>0, <2>1 DEF BetsStay
        <2>3. Later(rounds[i], rounds'[i])
            BY <1>0, <2>2 DEF Forward
        <2>4. rounds'[i].winningItem = rounds[i].winningItem
            BY <2>3 DEF Later, Over
        <2>5. Winner(i, b)
            BY <2>2, <2>4 DEF Winner
        <2>6. payout[b] # "none"
            <3>1. CASE Over(i)
                BY <2>0, <2>1, <2>2, <2>5, <3>1
                   DEF PayInv, WinnersArePaid, TimelyWinnersPaid, Settled
            <3>2. CASE ~Over(i)
                <4>1. Next
                    BY <3>2 DEF vars, Over
                <4>2. PICK t \in Tasks :
                         /\ At(t, "resultComplete") \/ (At(t, "scheduleResult") /\ crashes > 0)
                         /\ loc[t].round = i
                    BY <1>0, <2>2, <3>2, <4>1, OnlyPayerCompletes
                <4>3. pc[t] = "resultComplete" /\ loc[t].round = i
                    BY <2>0, <4>2 DEF At
                <4> QED  BY <1>5, <2>0, <2>1, <2>2, <2>5, <4>3 DEF PayList, InTimeWinner, Winner
            <3> QED  BY <3>1, <3>2
        <2> QED  BY <1>0, <1>1, <2>1, <2>6 DEF BetsStay
    \* Nobody bets in time on a round whose bets are being paid.
    <1>10. ASSUME NEW j, NEW w, NEW b \in rows', j \in DOMAIN rounds,
                  rounds[j].phase = "result",
                  bet'[b].round = j /\ bet'[b].item = w /\ bet'[b].inTime
           PROVE  b \in rows /\ InTimeWinner(b, j, w)
        <2>1. b \in rows
            BY <1>0, <1>10 DEF BetsStay
        <2> QED  BY <1>0, <1>10, <2>1 DEF BetsStay, InTimeWinner
    <1>11. PayLists'
        <2> SUFFICES ASSUME NEW u \in Tasks, pc'[u] \in {"pay", "resultComplete"}
                     PROVE  PayList(pc[u], loc[u])'
            BY DEF PayLists, PayList
        <2>0. PayList(pc[u], loc[u])
            BY <1>5
        <2>1. CASE pc'[u] = pc[u] /\ loc'[u] = loc[u]
            <3> DEFINE j == loc[u].round
            <3>1. /\ j \in DOMAIN rounds /\ rounds[j].phase = "result"
                  /\ rounds'[j].winningItem = rounds[j].winningItem
                BY <1>4, <2>1
            <3>2. \A b \in loc[u].toPay :
                     pc[u] = "pay" => b \in rows /\ b \in rows' /\ bet'[b] = bet[b]
                BY <1>0, <2>0 DEF PayList, BetsStay
            <3>3. ASSUME NEW w, NEW b \in rows', InTimeWinner(b, j, w)'
                  PROVE  b \in rows /\ b \in Bets /\ InTimeWinner(b, j, w)
                BY <1>1, <1>10, <2>1, <3>1, <3>3 DEF InTimeWinner
            <3>4. \A b \in Bets : payout[b] # "none" => payout'[b] # "none"
                BY <1>0 DEF BetsStay
            <3> QED  BY <1>2, <2>0, <2>1, <3>1, <3>2, <3>3, <3>4 DEF PayList
        <2>2. CASE PayFind(u)
            <3>1. pc[u] = "payFind" /\ UNCHANGED <<rounds, bet, rows, payout>>
                BY <2>2 DEF PayFind, At, betVars
            <3>2. /\ pc'[u] = "pay" /\ loc'[u].round = loc[u].round
                  /\ loc'[u].winner = loc[u].winner
                  /\ loc'[u].toPay = {b \in rows : bet[b].round = loc[u].round /\
                                                   bet[b].item = loc[u].winner}
                BY <1>1, <2>2 DEF PayFind, Go, Loc
            <3> QED  BY <3>1, <3>2 DEF PayList, InTimeWinner
        <2>3. CASE Pay(u)
            <3>1. pc[u] = "pay" /\ UNCHANGED <<rounds, bet, rows, crashes>>
                BY <2>3 DEF Pay, At, betVars, envVars
            <3>2. PICK b \in loc[u].toPay :
                     /\ Go(u, "pay", [loc[u] EXCEPT !.toPay = @ \ {b}])
                     /\ \E end \in {"paid", "failed"} :
                           payout' = [payout EXCEPT ![b] = IF @ = "paid" THEN @ ELSE end]
                BY <2>3 DEF Pay
            <3>3. /\ pc'[u] = "pay" /\ loc'[u].round = loc[u].round
                  /\ loc'[u].winner = loc[u].winner /\ loc'[u].toPay = loc[u].toPay \ {b}
                BY <1>1, <3>2 DEF Go, Loc
            <3>4. b \in Bets /\ payout'[b] # "none" /\ \A c \in Bets \ {b} : payout'[c] = payout[c]
                BY <1>1, <2>0, <3>1, <3>2 DEF PayList
            <3> QED  BY <1>1, <2>0, <3>1, <3>3, <3>4 DEF PayList, InTimeWinner
        <2>4. CASE PayEnd(u)
            <3>1. /\ pc[u] = "pay" /\ UNCHANGED <<rounds, bet, rows, payout, crashes>>
                  /\ pc'[u] = "resultComplete" /\ loc'[u] = loc[u] /\ loc[u].toPay = {}
                BY <1>1, <2>4 DEF PayEnd, At, Go, betVars, envVars
            <3>2. loc[u].winner = rounds[loc[u].round].winningItem
                BY <1>4, <3>1
            <3> QED  BY <2>0, <3>1, <3>2 DEF PayList, InTimeWinner
        <2> QED  BY <1>0, <2>1, <2>2, <2>3, <2>4, PayerMoves
    <1> QED  BY <1>0, <1>6, <1>7, <1>8, <1>11 DEF PayInv, WinnersArePaid

\* A round pays bets on its winning item only, and a loop that has not crashed has tried
\* to pay every such bet that was there in time before it completes the round.
THEOREM EveryWinnerPaid ==
    ASSUME ~Polls, ~Admins
    PROVE  Spec => []WinnersArePaid
    <1>1. Init => PayInv
        <2> SUFFICES ASSUME Init  PROVE PayInv
            OBVIOUS
        <2>1. LoopInv
            BY LoopInit
        <2>2. /\ PayLists /\ WinnersArePaid
              /\ \A b \in Bets : payout[b] # "none" => b \in rows
            BY DEF Init, PayLists, PayList, WinnersArePaid, OneWinnerPaid, TimelyWinnersPaid
        <2> QED  BY <2>1, <2>2 DEF PayInv
    <1>2. PayInv /\ [Next]_vars => PayInv'
        BY PayNext
    <1>3. PayInv => WinnersArePaid
        BY DEF PayInv
    <1> QED  BY <1>1, <1>2, <1>3, PTL DEF Spec
==============================================================================
