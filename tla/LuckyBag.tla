------------------------------- MODULE LuckyBag -------------------------------
(***************************************************************************)
(* Lucky bags of one room (modules/lucky-bag/lucky-bag.service.ts): a      *)
(* sender pays for a bag of slots, members claim one slot each while it is *)
(* open, the sender may cancel it.  A request is one call of create, claim *)
(* or cancel; its actions are its database round trips.                    *)
(*                                                                         *)
(* The wallet is the abstract one of Ledger: a credit or debit is one step *)
(* and happens at most once per key.  It may be refused (frozen wallet).   *)
(* How a pool is cut into slots is the business of LuckyBagSplit; here any *)
(* cut of the constant Cuts may come out, whatever it adds up to: the code *)
(* compares the slots with totalCoins before it takes the commission off,  *)
(* and a tier's percentages need not add up to one.                        *)
(* Definitions named Mutant... are faults to check the properties with.    *)
(***************************************************************************)
EXTENDS Integers, FiniteSets, Sequences, Functions, FiniteSetsExt

CONSTANTS
    Users, Bags, Requests,
    totalCoins, slotCount,      \* what every bag is created with
    Cuts,                       \* the slotAmounts that may come out
    maxConcurrentPerRoom,       \* the cap of the configuration
    Opening,                    \* the coins every user starts with
    NoUser, NoBag

ASSUME AmountsAssumption ==
    /\ totalCoins \in Nat /\ slotCount \in Nat \ {0}
    /\ slotCount <= totalCoins
    /\ Cuts \subseteq [1 .. slotCount -> Nat]
    /\ maxConcurrentPerRoom \in Nat \ {0}
    /\ Opening \in Nat
ASSUME NamesAssumption == NoUser \notin Users /\ NoBag \notin Bags

VARIABLES
    status,         \* [Bags -> Status]; "none" before the bag is created
    senderId,       \* [Bags -> Users \cup {NoUser}]
    slotAmounts,    \* [Bags -> Seq(Nat)], fixed when the bag is created
    nextSlotIndex,  \* [Bags -> Nat]
    claims,         \* [Bags -> Seq of [userId, slotIndex, amount]]
    window,         \* [Bags -> Window]: where the clock is for the bag
    coins,          \* [Users -> Int]: balances
    posted,         \* wallet postings: [kind, bag, user, amount]
    pc, job,        \* where each request is, and what it was asked
    refund          \* [Requests -> Nat]: refundAmount of a cancel in flight

bagVars == <<status, senderId, slotAmounts, nextSlotIndex, claims>>
vars == <<bagVars, window, coins, posted, pc, job, refund>>

Status == {"none", "pending", "deployed", "expired"}

\* now < availableAt; between availableAt and expiresAt; now > expiresAt.
Window == {"countdown", "open", "over"}

Pc == {"idle", "createDebit", "createBag", "claimGrab", "claimCredit",
       "cancelFlip", "cancelRefund", "done", "refused", "crashed"}

Job == [kind : {"create", "claim", "cancel"}, user : Users \cup {NoUser},
        bag : Bags \cup {NoBag}]

claimedAmount(b) ==
    SumFunction([i \in 1 .. Len(claims[b]) |-> claims[b][i].amount])

HasClaimed(u, b) == \E i \in 1 .. Len(claims[b]) : claims[b][i].userId = u

\* The bags the cap counts and the room shows.
Active == {b \in Bags : status[b] = "pending" /\ window[b] # "over"}

Goto(r, to) == pc' = [pc EXCEPT ![r] = to]

\* wallet.credit: once per (kind, bag, user).
Credit(kind, b, u, amount) ==
    IF \E p \in posted : p.kind = kind /\ p.bag = b /\ p.user = u
    THEN UNCHANGED <<coins, posted>>
    ELSE /\ coins' = [coins EXCEPT ![u] = @ + amount]
         /\ posted' = posted \cup {[kind |-> kind, bag |-> b, user |-> u,
                                    amount |-> amount]}

------------------------------------------------------------------------------
\* create: count the active bags, debit the sender, then write the bag.

Create(r, u) ==
    /\ pc[r] = "idle"
    /\ job' = [job EXCEPT ![r] = [kind |-> "create", user |-> u, bag |-> NoBag]]
    /\ Goto(r, IF Cardinality(Active) < maxConcurrentPerRoom
               THEN "createDebit" ELSE "refused")
    /\ UNCHANGED <<bagVars, window, coins, posted, refund>>

CreateDebit(r) ==
    LET u == job[r].user IN
    /\ pc[r] = "createDebit"
    /\ IF coins[u] >= totalCoins
       THEN coins' = [coins EXCEPT ![u] = @ - totalCoins] /\ Goto(r, "createBag")
       ELSE UNCHANGED coins /\ Goto(r, "refused")
    /\ UNCHANGED <<bagVars, window, posted, job, refund>>

CreateBag(r) ==
    /\ pc[r] = "createBag"
    /\ \E b \in Bags, cut \in Cuts :
          /\ status[b] = "none"
          /\ status' = [status EXCEPT ![b] = "pending"]
          /\ senderId' = [senderId EXCEPT ![b] = job[r].user]
          /\ slotAmounts' = [slotAmounts EXCEPT ![b] = cut]
          /\ window' = [window EXCEPT ![b] = "countdown"]
    /\ Goto(r, "done")
    /\ UNCHANGED <<nextSlotIndex, claims, coins, posted, job, refund>>

------------------------------------------------------------------------------
\* claim: read and check the bag, take a slot with a conditional update, credit.

Claim(r, u, b) ==
    /\ pc[r] = "idle" /\ status[b] # "none"
    /\ job' = [job EXCEPT ![r] = [kind |-> "claim", user |-> u, bag |-> b]]
    /\ Goto(r, IF /\ status[b] = "pending" /\ window[b] = "open"
                  /\ senderId[b] # u /\ ~HasClaimed(u, b)
               THEN "claimGrab" ELSE "refused")
    /\ UNCHANGED <<bagVars, window, coins, posted, refund>>

\* The update sees the bag as it is now; the clock is not looked at again.
MutantClaimGrab(r) ==
    LET u == job[r].user
        b == job[r].bag
        slot == nextSlotIndex[b] IN
    /\ pc[r] = "claimGrab"
    /\ IF status[b] = "pending" /\ slot < slotCount
       THEN /\ nextSlotIndex' = [nextSlotIndex EXCEPT ![b] = slot + 1]
            /\ claims' = [claims EXCEPT ![b] = Append(@,
                  [userId |-> u, slotIndex |-> slot,
                   amount |-> slotAmounts[b][slot + 1]])]
            /\ status' = [status EXCEPT ![b] =
                  IF slot + 1 >= slotCount THEN "deployed" ELSE "pending"]
            /\ Goto(r, "claimCredit")
       ELSE UNCHANGED bagVars /\ Goto(r, "refused")
    /\ UNCHANGED <<senderId, slotAmounts, window, coins, posted, job, refund>>

MutantClaimGrabStatus(r) ==
    LET u == job[r].user
        b == job[r].bag
        slot == nextSlotIndex[b] IN
    /\ pc[r] = "claimGrab"
    /\ IF ~HasClaimed(u, b) /\ slot < slotCount
       THEN /\ nextSlotIndex' = [nextSlotIndex EXCEPT ![b] = slot + 1]
            /\ claims' = [claims EXCEPT ![b] = Append(@,
                  [userId |-> u, slotIndex |-> slot,
                   amount |-> slotAmounts[b][slot + 1]])]
            /\ status' = [status EXCEPT ![b] =
                  IF slot + 1 >= slotCount THEN "deployed" ELSE "pending"]
            /\ Goto(r, "claimCredit")
       ELSE UNCHANGED bagVars /\ Goto(r, "refused")
    /\ UNCHANGED <<senderId, slotAmounts, window, coins, posted, job, refund>>

ClaimGrab(r) ==
    LET u == job[r].user
        b == job[r].bag
        slot == nextSlotIndex[b] IN
    /\ pc[r] = "claimGrab"
    /\ IF status[b] = "pending" /\ ~HasClaimed(u, b) /\ slot < slotCount
       THEN /\ nextSlotIndex' = [nextSlotIndex EXCEPT ![b] = slot + 1]
            /\ claims' = [claims EXCEPT ![b] = Append(@,
                  [userId |-> u, slotIndex |-> slot,
                   amount |-> slotAmounts[b][slot + 1]])]
            /\ status' = [status EXCEPT ![b] =
                  IF slot + 1 >= slotCount THEN "deployed" ELSE "pending"]
            /\ Goto(r, "claimCredit")
       ELSE UNCHANGED bagVars /\ Goto(r, "refused")
    /\ UNCHANGED <<senderId, slotAmounts, window, coins, posted, job, refund>>

MutantClaimCredit(r) ==
    LET u == job[r].user
        b == job[r].bag
        last == Len(claims[b]) IN
    /\ pc[r] = "claimCredit"
    /\ \/ /\ claims[b][last].amount > 0
          /\ Credit("claim", b, u, claims[b][last].amount)
          /\ Goto(r, "done")
       \/ UNCHANGED <<coins, posted>> /\ Goto(r, "refused")
    /\ UNCHANGED <<bagVars, window, job, refund>>

\* The credit of the slot the update gave this user; a refused credit, as one of
\* no coins is, is an error to the caller, and the slot stays taken.
ClaimCredit(r) ==
    LET u == job[r].user
        b == job[r].bag
        mine == CHOOSE i \in 1 .. Len(claims[b]) : claims[b][i].userId = u IN
    /\ pc[r] = "claimCredit"
    /\ \/ /\ claims[b][mine].amount > 0
          /\ Credit("claim", b, u, claims[b][mine].amount)
          /\ Goto(r, "done")
       \/ UNCHANGED <<coins, posted>> /\ Goto(r, "refused")
    /\ UNCHANGED <<bagVars, window, job, refund>>

------------------------------------------------------------------------------
\* cancel: read the bag and compute the refund, flip the status, refund.

Cancel(r, u, b) ==
    /\ pc[r] = "idle" /\ status[b] # "none"
    /\ job' = [job EXCEPT ![r] = [kind |-> "cancel", user |-> u, bag |-> b]]
    /\ IF senderId[b] = u /\ status[b] \in {"pending", "deployed"}
       THEN /\ refund' = [refund EXCEPT ![r] =
                            Max({0, totalCoins - claimedAmount(b)})]
            /\ Goto(r, "cancelFlip")
       ELSE UNCHANGED refund /\ Goto(r, "refused")
    /\ UNCHANGED <<bagVars, window, coins, posted>>

MutantCancelFlip(r) ==
    LET b == job[r].bag IN
    /\ pc[r] = "cancelFlip"
    /\ status' = [status EXCEPT ![b] = "expired"]
    /\ window' = [window EXCEPT ![b] = "over"]
    /\ Goto(r, "cancelRefund")
    /\ UNCHANGED <<senderId, slotAmounts, nextSlotIndex, claims, coins, posted,
                   job, refund>>

CancelFlip(r) ==
    LET b == job[r].bag IN
    /\ pc[r] = "cancelFlip"
    /\ IF status[b] \in {"pending", "deployed"}
       THEN /\ status' = [status EXCEPT ![b] = "expired"]
            /\ window' = [window EXCEPT ![b] = "over"]
            /\ Goto(r, "cancelRefund")
       ELSE UNCHANGED <<status, window>> /\ Goto(r, "refused")
    /\ UNCHANGED <<senderId, slotAmounts, nextSlotIndex, claims, coins, posted,
                   job, refund>>

\* A refused refund is logged, and the cancel succeeds all the same.
CancelRefund(r) ==
    /\ pc[r] = "cancelRefund"
    /\ \/ refund[r] > 0 /\ Credit("refund", job[r].bag, job[r].user, refund[r])
       \/ UNCHANGED <<coins, posted>>
    /\ Goto(r, "done")
    /\ UNCHANGED <<bagVars, window, job, refund>>

------------------------------------------------------------------------------
\* Time passes for a bag, and a request may die between two round trips.

Tick(b) ==
    /\ status[b] # "none" /\ window[b] # "over"
    /\ window' = [window EXCEPT ![b] = IF @ = "countdown" THEN "open" ELSE "over"]
    /\ UNCHANGED <<bagVars, coins, posted, pc, job, refund>>

Crash(r) ==
    /\ pc[r] \notin {"idle", "done", "refused", "crashed"}
    /\ Goto(r, "crashed")
    /\ UNCHANGED <<bagVars, window, coins, posted, job, refund>>

Serve(r) ==
    \/ CreateDebit(r) \/ CreateBag(r)
    \/ ClaimGrab(r) \/ ClaimCredit(r)
    \/ CancelFlip(r) \/ CancelRefund(r)

Next ==
    \/ \E r \in Requests, u \in Users :
          \/ Create(r, u)
          \/ \E b \in Bags : Claim(r, u, b) \/ Cancel(r, u, b)
    \/ \E r \in Requests : Serve(r) \/ Crash(r)
    \/ \E b \in Bags : Tick(b)

Init ==
    /\ status = [b \in Bags |-> "none"]
    /\ senderId = [b \in Bags |-> NoUser]
    /\ slotAmounts = [b \in Bags |-> <<>>]
    /\ nextSlotIndex = [b \in Bags |-> 0]
    /\ claims = [b \in Bags |-> <<>>]
    /\ window = [b \in Bags |-> "countdown"]
    /\ coins = [u \in Users |-> Opening]
    /\ posted = {}
    /\ pc = [r \in Requests |-> "idle"]
    /\ job = [r \in Requests |-> [kind |-> "create", user |-> NoUser, bag |-> NoBag]]
    /\ refund = [r \in Requests |-> 0]

Spec == Init /\ [][Next]_vars

------------------------------------------------------------------------------
\* The properties.

ClaimRecord == [userId : Users, slotIndex : Nat, amount : Nat]

Posting == [kind : {"claim", "refund"}, bag : Bags, user : Users, amount : Nat]

TypeOK ==
    /\ status \in [Bags -> Status]
    /\ senderId \in [Bags -> Users \cup {NoUser}]
    /\ \A b \in Bags : slotAmounts[b] \in {<<>>} \cup [1 .. slotCount -> Nat]
    /\ nextSlotIndex \in [Bags -> 0 .. slotCount]
    /\ \A b \in Bags : \A i \in 1 .. Len(claims[b]) : claims[b][i] \in ClaimRecord
    /\ window \in [Bags -> Window]
    /\ coins \in [Users -> Nat]
    /\ posted \subseteq Posting
    /\ pc \in [Requests -> Pc]
    /\ job \in [Requests -> Job]
    /\ refund \in [Requests -> 0 .. totalCoins]

\* However claims race, no slot and no member appears twice in a bag, the sender
\* never does, each claim has the amount of its slot, and the bag is depleted
\* exactly when the last slot goes, if it was not cancelled.
SlotsTakenOnce ==
    \A b \in Bags :
        /\ Len(claims[b]) = nextSlotIndex[b]
        /\ \A i \in 1 .. Len(claims[b]) :
              /\ claims[b][i].slotIndex = i - 1
              /\ claims[b][i].amount = slotAmounts[b][i]
              /\ claims[b][i].userId # senderId[b]
              /\ \A j \in 1 .. Len(claims[b]) :
                    claims[b][i].userId = claims[b][j].userId => i = j
        /\ status[b] = "deployed" => nextSlotIndex[b] = slotCount
        /\ status[b] = "pending" => nextSlotIndex[b] < slotCount

\* The wallet pays a member what the member's claim says, and nobody else.
MembersArePaid ==
    \A p \in posted : p.kind = "claim" =>
        \E i \in 1 .. Len(claims[p.bag]) :
            claims[p.bag][i].userId = p.user /\ claims[p.bag][i].amount = p.amount

\* What the slots of a bag hold, and what its members have been paid.
handedOut(b) == SumFunction(slotAmounts[b])
membersPaid(b) == SumFunction(
    [p \in {q \in posted : q.kind = "claim" /\ q.bag = b} |-> p.amount])

\* All of a bag's members together are paid no more than they claimed, and claim no
\* more than its slots hold, whatever that is; a depleted bag is claimed to the coin.
PaidAsClaimed ==
    /\ TypeOK
    /\ MembersArePaid
    /\ \A b \in Bags :
          /\ membersPaid(b) <= claimedAmount(b) /\ claimedAmount(b) <= handedOut(b)
          /\ status[b] = "deployed" => claimedAmount(b) = handedOut(b)

\* Of all the cancels of a bag one at most gets to the refund, after the flip.
OneCancelRefunds ==
    \A r, s \in Requests :
        /\ pc[r] = "cancelRefund" => status[job[r].bag] = "expired"
        /\ pc[r] = "cancelRefund" /\ pc[s] = "cancelRefund" /\ r # s =>
              job[r].bag # job[s].bag

\* A cancelled bag stays cancelled, and no claim that was under way enters it.
StayCancelled ==
    \A b \in Bags : status[b] = "expired" =>
        status'[b] = "expired" /\ claims'[b] = claims[b]

\* However cancels and claims of a bag overlap, one cancel refunds it, and from then on
\* it is over.
CancelsOnce == [][OneCancelRefunds' /\ StayCancelled]_vars

\* What a bag pays out, claims and refund together.
paidOut(b) == SumFunction([p \in {q \in posted : q.bag = b} |-> p.amount])

\* lucky-bag.schema.ts, LuckyBagClaim: the total never exceeds totalCoins.
NeverPaysMoreThanTotal == \A b \in Bags : paidOut(b) <= totalCoins
==============================================================================
