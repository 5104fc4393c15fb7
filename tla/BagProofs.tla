------------------------------- MODULE BagProofs -------------------------------
(***************************************************************************)
(* Theorems about LuckyBag for every set of users, bags and requests and   *)
(* for every pool, number of slots and cap, and about LuckyBagSplit for    *)
(* every pool and slot count.                                              *)
(***************************************************************************)
EXTENDS LuckyBag, LuckyBagSplit, SumProofs, TLAPS

Typed ==
    /\ status \in [Bags -> Status]
    /\ senderId \in [Bags -> Users \cup {NoUser}]
    /\ slotAmounts \in [Bags -> {<<>>} \cup [1 .. slotCount -> Nat]]
    /\ nextSlotIndex \in [Bags -> 0 .. slotCount]
    /\ claims \in [Bags -> Seq(ClaimRecord)]
    /\ pc \in [Requests -> Pc]
    /\ job \in [Requests -> Job]

\* A bag is cut when it is created, and nothing is claimed before.
Created ==
    \A b \in Bags : IF status[b] = "none" THEN nextSlotIndex[b] = 0
                    ELSE slotAmounts[b] \in [1 .. slotCount -> Nat]

\* What a request has learnt stays true: a bag is there, a sender is not changed.
Known ==
    \A r \in Requests :
        /\ pc[r] \in {"createDebit", "createBag"} => job[r].user \in Users
        /\ pc[r] \in {"claimGrab", "cancelFlip", "cancelRefund"} =>
              job[r].bag \in Bags /\ status[job[r].bag] # "none"
        /\ pc[r] = "claimGrab" =>
              job[r].user \in Users /\ job[r].user # senderId[job[r].bag]

\* SlotsTakenOnce of one bag.
Once(b) ==
    /\ Len(claims[b]) = nextSlotIndex[b]
    /\ \A k \in 1 .. Len(claims[b]) :
          /\ claims[b][k].slotIndex = k - 1
          /\ claims[b][k].amount = slotAmounts[b][k]
          /\ claims[b][k].userId # senderId[b]
          /\ \A j \in 1 .. Len(claims[b]) :
                claims[b][k].userId = claims[b][j].userId => k = j
    /\ status[b] = "deployed" => nextSlotIndex[b] = slotCount
    /\ status[b] = "pending" => nextSlotIndex[b] < slotCount

BagInv == Typed /\ Created /\ Known /\ SlotsTakenOnce /\ OneCancelRefunds

\* What Once says of the claims alone.
Fits(taken, amounts, sender) ==
    \A k \in 1 .. Len(taken) :
        /\ taken[k].slotIndex = k - 1
        /\ taken[k].amount = amounts[k]
        /\ taken[k].userId # sender
        /\ \A j \in 1 .. Len(taken) : taken[k].userId = taken[j].userId => k = j

\* The claim of a newcomer for the next slot fits.
LEMMA FitsAppend ==
    ASSUME NEW taken \in Seq(ClaimRecord), NEW amounts, NEW sender, NEW u,
           Fits(taken, amounts, sender), u # sender,
           \A k \in 1 .. Len(taken) : taken[k].userId # u,
           NEW new \in ClaimRecord,
           new.userId = u, new.slotIndex = Len(taken), new.amount = amounts[Len(taken) + 1]
    PROVE  Fits(Append(taken, new), amounts, sender)
    <1> DEFINE longer == Append(taken, new)
               n == Len(taken)
    <1>1. /\ n \in Nat /\ Len(longer) = n + 1 /\ longer[n + 1] = new
          /\ \A k \in 1 .. n : longer[k] = taken[k]
        OBVIOUS
    <1>2. \A k \in 1 .. n + 1 : k \in 1 .. n \/ k = n + 1
        BY <1>1
    <1>3. \A k \in 1 .. n : /\ longer[k].slotIndex = k - 1
                            /\ longer[k].amount = amounts[k]
                            /\ longer[k].userId # sender /\ longer[k].userId # u
                            /\ \A j \in 1 .. n : longer[k].userId = longer[j].userId => k = j
        BY <1>1 DEF Fits
    <1>4. /\ longer[n + 1].slotIndex = n + 1 - 1
          /\ longer[n + 1].amount = amounts[n + 1]
          /\ longer[n + 1].userId = u
        BY <1>1
    <1> HIDE DEF longer, n
    <1>5. ASSUME NEW k \in 1 .. n + 1
          PROVE  /\ longer[k].slotIndex = k - 1
                 /\ longer[k].amount = amounts[k]
                 /\ longer[k].userId # sender
                 /\ \A j \in 1 .. n + 1 : longer[k].userId = longer[j].userId => k = j
        <2>1. CASE k = n + 1
            <3>1. ASSUME NEW j \in 1 .. n + 1, longer[k].userId = longer[j].userId
                  PROVE  k = j
                BY <1>2, <1>3, <1>4, <2>1, <3>1
            <3>2. /\ longer[k].slotIndex = k - 1 /\ longer[k].amount = amounts[k]
                  /\ longer[k].userId # sender
                BY <1>1, <1>4, <2>1
            <3> QED  BY <3>1, <3>2
        <2>2. CASE k \in 1 .. n
            BY <1>2, <1>3, <1>4, <2>2
        <2> QED  BY <1>2, <2>1, <2>2
    <1> QED  BY <1>1, <1>5 DEF Fits, longer

LEMMA InitBagInv == Init => BagInv
    <1> SUFFICES ASSUME Init  PROVE BagInv
        OBVIOUS
    <1>1. <<>> \in Seq(ClaimRecord) /\ Len(<<>>) = 0
        OBVIOUS
    <1>2. slotCount \in Nat
        BY AmountsAssumption
    <1> QED  BY <1>1, <1>2 DEF Init, BagInv, Typed, Created, Known, SlotsTakenOnce,
                               OneCancelRefunds, Status, Pc, Job

\* A step that leaves the bags alone keeps what is known of them, if what the
\* stepping request learns is true.
LEMMA BagsAlone ==
    ASSUME BagInv, UNCHANGED bagVars,
           NEW r \in Requests, NEW to \in Pc, pc' = [pc EXCEPT ![r] = to],
           job' \in [Requests -> Job],
           \A s \in Requests \ {r} : job'[s] = job[s],
           to \in {"createDebit", "createBag"} => job'[r].user \in Users,
           to \in {"claimGrab", "cancelFlip"} =>
               job'[r].bag \in Bags /\ status[job'[r].bag] # "none",
           to = "claimGrab" =>
               job'[r].user \in Users /\ job'[r].user # senderId[job'[r].bag],
           to # "cancelRefund"
    PROVE  BagInv'
    <1> USE DEF BagInv, bagVars
    <1>1. Typed'
        BY DEF Typed
    <1>2. Created'
        BY DEF Created
    <1>3. pc' \in [Requests -> Pc] /\ pc'[r] = to /\ \A s \in Requests \ {r} : pc'[s] = pc[s]
        BY DEF Typed
    <1>4. Known'
        BY <1>3 DEF Known
    <1>5. SlotsTakenOnce'
        BY DEF SlotsTakenOnce
    <1>6. OneCancelRefunds'
        BY <1>3 DEF OneCancelRefunds
    <1> QED  BY <1>1, <1>2, <1>4, <1>5, <1>6

LEMMA CreateStep ==
    ASSUME BagInv, NEW r \in Requests, NEW u \in Users, Create(r, u)
    PROVE  BagInv'
    <1> DEFINE to == IF Cardinality(Active) < maxConcurrentPerRoom
                     THEN "createDebit" ELSE "refused"
    <1>1. job' \in [Requests -> Job] /\ job'[r].user = u
          /\ \A s \in Requests \ {r} : job'[s] = job[s]
        BY DEF BagInv, Typed, Create, Job
    <1>2. to \in {"createDebit", "refused"} /\ to \in Pc
        BY DEF Pc
    <1>3. pc' = [pc EXCEPT ![r] = to] /\ UNCHANGED bagVars
        BY DEF Create, Goto
    <1> HIDE DEF to
    <1> QED  BY <1>1, <1>2, <1>3, BagsAlone

LEMMA ClaimStep ==
    ASSUME BagInv, NEW r \in Requests, NEW u \in Users, NEW b \in Bags, Claim(r, u, b)
    PROVE  BagInv'
    <1> DEFINE to == IF /\ status[b] = "pending" /\ window[b] = "open"
                        /\ senderId[b] # u /\ ~HasClaimed(u, b)
                     THEN "claimGrab" ELSE "refused"
    <1>1. job' \in [Requests -> Job] /\ job'[r].user = u /\ job'[r].bag = b
          /\ \A s \in Requests \ {r} : job'[s] = job[s]
        BY DEF BagInv, Typed, Claim, Job
    <1>2. to \in {"claimGrab", "refused"} /\ to \in Pc
        BY DEF Pc
    <1>3. pc' = [pc EXCEPT ![r] = to] /\ UNCHANGED bagVars /\ status[b] # "none"
        BY DEF Claim, Goto
    <1>4. to = "claimGrab" => u # senderId[b]
        OBVIOUS
    <1> HIDE DEF to
    <1> QED  BY <1>1, <1>2, <1>3, <1>4, BagsAlone

LEMMA CancelStep ==
    ASSUME BagInv, NEW r \in Requests, NEW u \in Users, NEW b \in Bags, Cancel(r, u, b)
    PROVE  BagInv'
    <1>1. job' \in [Requests -> Job] /\ job'[r].user = u /\ job'[r].bag = b
          /\ \A s \in Requests \ {r} : job'[s] = job[s]
        BY DEF BagInv, Typed, Cancel, Job
    <1>2. PICK to \in {"cancelFlip", "refused"} : pc' = [pc EXCEPT ![r] = to]
        BY DEF Cancel, Goto
    <1>3. UNCHANGED bagVars /\ status[b] # "none"
        BY DEF Cancel
    <1>4. to \in Pc
        BY DEF Pc
    <1> QED  BY <1>1, <1>2, <1>3, <1>4, BagsAlone

\* The steps that only call the wallet, and crashes.
LEMMA WalletStep ==
    ASSUME BagInv, NEW r \in Requests,
           CreateDebit(r) \/ ClaimCredit(r) \/ CancelRefund(r) \/ Crash(r)
    PROVE  BagInv'
    <1>1. PICK to \in {"createBag", "done", "refused", "crashed"} :
             /\ pc' = [pc EXCEPT ![r] = to]
             /\ to = "createBag" => pc[r] = "createDebit"
        BY DEF CreateDebit, ClaimCredit, CancelRefund, Crash, Goto
    <1>2. UNCHANGED bagVars /\ job' = job
        BY DEF CreateDebit, ClaimCredit, CancelRefund, Crash
    <1>3. to \in Pc
        BY DEF Pc
    <1>4. job' \in [Requests -> Job] /\ \A s \in Requests \ {r} : job'[s] = job[s]
        BY <1>2 DEF BagInv, Typed
    <1>5. to = "createBag" => job'[r].user \in Users
        BY <1>1, <1>2 DEF BagInv, Known
    <1> QED  BY <1>1, <1>2, <1>3, <1>4, <1>5, BagsAlone

\* A cut of the pool is one amount for each slot.
LEMMA CutType == \A cut \in Cuts : cut \in [1 .. slotCount -> Nat]
    BY AmountsAssumption

LEMMA CreateBagStep ==
    ASSUME BagInv, NEW r \in Requests, CreateBag(r)
    PROVE  BagInv'
    <1>1. PICK b \in Bags, cut \in Cuts :
             /\ status[b] = "none"
             /\ status' = [status EXCEPT ![b] = "pending"]
             /\ senderId' = [senderId EXCEPT ![b] = job[r].user]
             /\ slotAmounts' = [slotAmounts EXCEPT ![b] = cut]
        BY DEF CreateBag
    <1>2. /\ pc[r] = "createBag" /\ pc' = [pc EXCEPT ![r] = "done"]
          /\ UNCHANGED <<nextSlotIndex, claims, job>>
        BY DEF CreateBag, Goto
    <1>3. cut \in [1 .. slotCount -> Nat]
        BY CutType
    <1>4. job[r].user \in Users
        BY <1>2 DEF BagInv, Known
    <1>5. Typed'
        BY <1>1, <1>2, <1>3, <1>4 DEF BagInv, Typed, Status, Pc
    <1>6. Created'
        BY <1>1, <1>2, <1>3 DEF BagInv, Typed, Created
    <1>7. \A s \in Requests : pc'[s] # "done" => pc'[s] = pc[s]
        BY <1>2 DEF BagInv, Typed
    <1>8. /\ \A c \in Bags \ {b} : /\ status'[c] = status[c] /\ senderId'[c] = senderId[c]
                                  /\ slotAmounts'[c] = slotAmounts[c]
          /\ status'[b] = "pending"
        BY <1>1 DEF BagInv, Typed
    <1>9. Known'
        BY <1>1, <1>2, <1>7, <1>8 DEF BagInv, Known
    <1>10. nextSlotIndex[b] = 0 /\ Len(claims[b]) = 0
        BY <1>1 DEF BagInv, Created, SlotsTakenOnce
    <1>11. SlotsTakenOnce'
        BY <1>2, <1>8, <1>10, AmountsAssumption DEF BagInv, SlotsTakenOnce
    <1>12. OneCancelRefunds'
        BY <1>1, <1>2, <1>7, <1>8 DEF BagInv, OneCancelRefunds
    <1> QED  BY <1>5, <1>6, <1>9, <1>11, <1>12 DEF BagInv

\* The conditional update: the claimer is new, and takes the next slot.
LEMMA ClaimGrabStep ==
    ASSUME BagInv, NEW r \in Requests, NEW b, b = job[r].bag, ClaimGrab(r)
    PROVE  BagInv'
    <1> DEFINE u == job[r].user
               slot == nextSlotIndex[b]
               new == [userId |-> u, slotIndex |-> slot, amount |-> slotAmounts[b][slot + 1]]
    <1>1. /\ pc[r] = "claimGrab" /\ UNCHANGED <<senderId, slotAmounts, job>>
        BY DEF ClaimGrab
    <1>2. /\ u \in Users /\ b \in Bags /\ u # senderId[b] /\ status[b] # "none"
        BY <1>1 DEF BagInv, Known
    <1>3. CASE ~(status[b] = "pending" /\ ~HasClaimed(u, b) /\ slot < slotCount)
        <2>1. UNCHANGED bagVars /\ pc' = [pc EXCEPT ![r] = "refused"]
            BY <1>3 DEF ClaimGrab, Goto
        <2>2. "refused" \in Pc /\ job' \in [Requests -> Job]
              /\ \A s \in Requests \ {r} : job'[s] = job[s]
            BY <1>1 DEF Pc, BagInv, Typed
        <2> QED  BY <2>1, <2>2, BagsAlone
    <1>4. CASE status[b] = "pending" /\ ~HasClaimed(u, b) /\ slot < slotCount
        <2>1. /\ nextSlotIndex' = [nextSlotIndex EXCEPT ![b] = slot + 1]
              /\ claims' = [claims EXCEPT ![b] = Append(claims[b], new)]
              /\ status' = [status EXCEPT ![b] =
                    IF slot + 1 >= slotCount THEN "deployed" ELSE "pending"]
              /\ pc' = [pc EXCEPT ![r] = "claimCredit"]
            BY <1>4 DEF ClaimGrab, Goto
        <2>2. slot \in Nat /\ slotAmounts[b] \in [1 .. slotCount -> Nat] /\ slotCount \in Nat
            BY <1>2, AmountsAssumption DEF BagInv, Typed, Created
        <2>3. new \in ClaimRecord
            <3>1. slot + 1 \in 1 .. slotCount
                BY <1>4, <2>2
            <3> QED  BY <1>2, <2>2, <3>1 DEF ClaimRecord
        <2>4. claims[b] \in Seq(ClaimRecord) /\ Len(claims[b]) = slot
            BY <1>2 DEF BagInv, Typed, SlotsTakenOnce
        <2> HIDE DEF new
        <2>5. /\ Append(claims[b], new) \in Seq(ClaimRecord)
              /\ Len(Append(claims[b], new)) = slot + 1
              /\ \A k \in 1 .. slot : Append(claims[b], new)[k] = claims[b][k]
              /\ Append(claims[b], new)[slot + 1] = new
            BY <2>3, <2>4
        <2>6. Typed'
            BY <1>1, <1>2, <1>4, <2>1, <2>2, <2>5 DEF BagInv, Typed, Status, Pc
        <2>7. /\ \A c \in Bags \ {b} : /\ status'[c] = status[c] /\ claims'[c] = claims[c]
                                      /\ nextSlotIndex'[c] = nextSlotIndex[c]
              /\ status'[b] = IF slot + 1 >= slotCount THEN "deployed" ELSE "pending"
              /\ nextSlotIndex'[b] = slot + 1
              /\ claims'[b] = Append(claims[b], new)
            BY <1>2, <2>1 DEF BagInv, Typed
        <2>8. Created'
            BY <1>1, <2>2, <2>7 DEF BagInv, Created
        <2>9. \A s \in Requests : pc'[s] # "claimCredit" => pc'[s] = pc[s]
            BY <2>1 DEF BagInv, Typed
        <2>10. Known'
            BY <1>1, <2>7, <2>9 DEF BagInv, Known
        <2>11. OneCancelRefunds'
            BY <1>1, <1>4, <2>7, <2>9 DEF BagInv, OneCancelRefunds, Known
        <2>12. SlotsTakenOnce'
            <3>1. \A c \in Bags : Once(c)
                BY DEF BagInv, SlotsTakenOnce, Once
            <3>2. \A c \in Bags \ {b} : Once(c)'
                BY <1>1, <2>7, <3>1 DEF Once
            <3>3. Fits(claims[b], slotAmounts[b], senderId[b])
                BY <1>2, <3>1 DEF Once, Fits
            <3>4. \A k \in 1 .. Len(claims[b]) : claims[b][k].userId # u
                BY <1>4 DEF HasClaimed
            <3>5. Fits(Append(claims[b], new), slotAmounts[b], senderId[b])
                <4> HIDE DEF u
                <4> QED  BY <1>2, <2>3, <2>4, <3>3, <3>4, FitsAppend DEF new
            <3>6. (slot + 1 >= slotCount) => slot + 1 = slotCount
                <4>1. slot < slotCount /\ slot \in Nat /\ slotCount \in Nat
                    BY <1>4, <2>2
                <4> HIDE DEF slot
                <4> QED  BY <4>1
            <3>7. ~(slot + 1 >= slotCount) => slot + 1 < slotCount
                <4>1. slot \in Nat /\ slotCount \in Nat
                    BY <2>2
                <4> HIDE DEF slot
                <4> QED  BY <4>1
            <3>8. Once(b)'
                <4>1. slotAmounts'[b] = slotAmounts[b] /\ senderId'[b] = senderId[b]
                    BY <1>1
                <4>2. Fits(claims'[b], slotAmounts'[b], senderId'[b])
                    BY <2>7, <3>5, <4>1
                <4>3. Len(claims'[b]) = nextSlotIndex'[b]
                    BY <2>5, <2>7
                <4>4. /\ status'[b] = "deployed" => nextSlotIndex'[b] = slotCount
                      /\ status'[b] = "pending" => nextSlotIndex'[b] < slotCount
                    BY <2>7, <3>6, <3>7
                <4> QED  BY <4>2, <4>3, <4>4 DEF Once, Fits
            <3>9. \A c \in Bags : Once(c)'
                BY <3>2, <3>8
            <3> QED  BY <3>9 DEF SlotsTakenOnce, Once
        <2> QED  BY <2>6, <2>8, <2>10, <2>11, <2>12 DEF BagInv
    <1> QED  BY <1>3, <1>4

\* The flip: only the first cancel of a bag gets to the refund.
LEMMA CancelFlipStep ==
    ASSUME BagInv, NEW r \in Requests, CancelFlip(r)
    PROVE  BagInv'
    <1> DEFINE b == job[r].bag
    <1>1. /\ pc[r] = "cancelFlip"
          /\ UNCHANGED <<senderId, slotAmounts, nextSlotIndex, claims, job>>
        BY DEF CancelFlip
    <1>2. b \in Bags /\ status[b] # "none"
        BY <1>1 DEF BagInv, Known
    <1>3. CASE status[b] \notin {"pending", "deployed"}
        <2>1. UNCHANGED bagVars /\ pc' = [pc EXCEPT ![r] = "refused"]
            BY <1>1, <1>3 DEF CancelFlip, Goto, bagVars
        <2>2. "refused" \in Pc /\ job' \in [Requests -> Job]
              /\ \A s \in Requests \ {r} : job'[s] = job[s]
            BY <1>1 DEF Pc, BagInv, Typed
        <2> QED  BY <2>1, <2>2, BagsAlone
    <1>4. CASE status[b] \in {"pending", "deployed"}
        <2>1. /\ status' = [status EXCEPT ![b] = "expired"]
              /\ pc' = [pc EXCEPT ![r] = "cancelRefund"]
            BY <1>4 DEF CancelFlip, Goto
        <2>2. Typed'
            BY <1>1, <2>1 DEF BagInv, Typed, Status, Pc
        <2>3. /\ status'[b] = "expired" /\ \A c \in Bags \ {b} : status'[c] = status[c]
              /\ pc'[r] = "cancelRefund" /\ \A s \in Requests \ {r} : pc'[s] = pc[s]
            BY <1>2, <2>1 DEF BagInv, Typed
        <2>4. Created'
            BY <1>1, <1>2, <2>3 DEF BagInv, Created
        <2>5. Known'
            BY <1>1, <1>2, <2>3 DEF BagInv, Known
        <2>6. SlotsTakenOnce'
            BY <1>1, <2>3 DEF BagInv, SlotsTakenOnce
        <2>7. \A s \in Requests \ {r} : pc[s] = "cancelRefund" => job[s].bag # b
            BY <1>4 DEF BagInv, OneCancelRefunds
        <2>8. OneCancelRefunds'
            BY <1>1, <2>3, <2>7 DEF BagInv, OneCancelRefunds, Known
        <2> QED  BY <2>2, <2>4, <2>5, <2>6, <2>8 DEF BagInv
    <1> QED  BY <1>3, <1>4

\* Whoever steps, and when the clock does.
LEMMA NextBagInv == BagInv /\ [Next]_vars => BagInv'
    <1> SUFFICES ASSUME BagInv, [Next]_vars  PROVE BagInv'
        OBVIOUS
    <1>1. ASSUME NEW r \in Requests, NEW u \in Users,
                 Create(r, u) \/ \E b \in Bags : Claim(r, u, b) \/ Cancel(r, u, b)
          PROVE  BagInv'
        BY <1>1, CreateStep, ClaimStep, CancelStep
    <1>2. ASSUME NEW r \in Requests, Serve(r) \/ Crash(r)
          PROVE  BagInv'
        BY <1>2, WalletStep, CreateBagStep, ClaimGrabStep, CancelFlipStep DEF Serve
    <1>3. CASE (\E b \in Bags : Tick(b)) \/ UNCHANGED vars
        <2>1. UNCHANGED <<bagVars, pc, job>>
            BY <1>3 DEF Tick, vars
        <2> QED  BY <2>1 DEF BagInv, Typed, Created, Known, SlotsTakenOnce,
                             OneCancelRefunds, bagVars
    <1> QED  BY <1>1, <1>2, <1>3 DEF Next

\* The invariant the theorems below rest on: the types, what creation leaves, what
\* a request knows of its bag, and the two facts about slots and refunds.
THEOREM BagInvariant == Spec => []BagInv
    BY InitBagInv, NextBagInv, PTL DEF Spec

\* However claims race, for any number of members, slots and requests, each slot
\* goes to one member with its own amount, and no member gets two.
THEOREM TakenOnce == Spec => []SlotsTakenOnce
    BY BagInvariant, PTL DEF BagInv

\* However often a bag is cancelled at once, one cancel refunds.
THEOREM RefundedOnce == Spec => []OneCancelRefunds
    BY BagInvariant, PTL DEF BagInv

\* Nothing revives a cancelled bag, and no claim enters it.
THEOREM StaysCancelled == Spec => [][StayCancelled]_vars
    <1>1. BagInv /\ [Next]_vars => [StayCancelled]_vars
        <2> SUFFICES ASSUME BagInv, Next, NEW b \in Bags, status[b] = "expired"
                     PROVE  status'[b] = "expired" /\ claims'[b] = claims[b]
            BY DEF StayCancelled
        <2> USE DEF BagInv, Typed
        <2>1. ASSUME NEW r \in Requests, NEW u \in Users,
                     Create(r, u) \/ \E c \in Bags : Claim(r, u, c) \/ Cancel(r, u, c)
              PROVE  status' = status /\ claims' = claims
            BY <2>1 DEF Create, Claim, Cancel, bagVars
        <2>2. ASSUME NEW r \in Requests,
                     CreateDebit(r) \/ ClaimCredit(r) \/ CancelRefund(r) \/ Crash(r)
              PROVE  status' = status /\ claims' = claims
            BY <2>2 DEF CreateDebit, ClaimCredit, CancelRefund, Crash, bagVars
        <2>3. ASSUME NEW r \in Requests, CreateBag(r)
              PROVE  status'[b] = "expired" /\ claims' = claims
            BY <2>3 DEF CreateBag
        <2>4. ASSUME NEW r \in Requests, ClaimGrab(r)
              PROVE  status'[b] = "expired" /\ claims'[b] = claims[b]
            BY <2>4 DEF ClaimGrab, bagVars
        <2>5. ASSUME NEW r \in Requests, CancelFlip(r)
              PROVE  status'[b] = "expired" /\ claims' = claims
            BY <2>5 DEF CancelFlip
        <2>6. ASSUME NEW c \in Bags, Tick(c)
              PROVE  status' = status /\ claims' = claims
            BY <2>6 DEF Tick, bagVars
        <2> QED  BY <2>1, <2>2, <2>3, <2>4, <2>5, <2>6 DEF Next, Serve
    <1> QED  BY <1>1, BagInvariant, PTL DEF Spec

\* However cancels and claims of a bag overlap, it is refunded once and then over.
THEOREM CancelledOnce == Spec => CancelsOnce
    BY RefundedOnce, StaysCancelled, PTL DEF CancelsOnce

------------------------------------------------------------------------------
\* The claim that a posting, or a request about to credit one, is about.
ClaimOf(u, b) == \E k \in 1 .. Len(claims[b]) : claims[b][k].userId = u

\* Whoever is about to be credited has a claim.
Owed ==
    \A r \in Requests : pc[r] = "claimCredit" =>
        job[r].bag \in Bags /\ ClaimOf(job[r].user, job[r].bag)

\* A posting of a claim is of a bag that there is.
PostedBags == \A p \in posted : p.kind = "claim" => p.bag \in Bags

PaidInv == Owed /\ PostedBags /\ MembersArePaid

\* Claims are only added.
LEMMA ClaimsGrow ==
    ASSUME BagInv, [Next]_vars, NEW b \in Bags
    PROVE  /\ Len(claims[b]) \in Nat /\ Len(claims'[b]) \in Nat
           /\ Len(claims[b]) <= Len(claims'[b])
           /\ \A k \in 1 .. Len(claims[b]) : claims'[b][k] = claims[b][k]
    <1>1. Len(claims[b]) \in Nat /\ claims[b] \in Seq(ClaimRecord)
        BY DEF BagInv, Typed
    <1>2. CASE claims' = claims
        BY <1>1, <1>2
    <1>3. ASSUME NEW r \in Requests, ClaimGrab(r), claims' # claims
          PROVE  \E new : claims'[b] = claims[b] \/ claims'[b] = Append(claims[b], new)
        <2>1. PICK c, new : claims' = [claims EXCEPT ![c] = Append(claims[c], new)]
            BY <1>3 DEF ClaimGrab, bagVars
        <2> QED  BY <2>1 DEF BagInv, Typed
    <1>4. ASSUME NEW new, claims'[b] = Append(claims[b], new)
          PROVE  /\ Len(claims'[b]) = Len(claims[b]) + 1
                 /\ \A k \in 1 .. Len(claims[b]) : claims'[b][k] = claims[b][k]
        BY <1>1, <1>4
    <1>5. ASSUME NEW r \in Requests, NEW u \in Users,
                 Create(r, u) \/ \E c \in Bags : Claim(r, u, c) \/ Cancel(r, u, c)
          PROVE  claims' = claims
        BY <1>5 DEF Create, Claim, Cancel, bagVars
    <1>6. ASSUME NEW r \in Requests,
                 CreateDebit(r) \/ ClaimCredit(r) \/ CancelRefund(r) \/ Crash(r)
                 \/ CreateBag(r) \/ CancelFlip(r)
          PROVE  claims' = claims
        BY <1>6 DEF CreateDebit, ClaimCredit, CancelRefund, Crash, CreateBag, CancelFlip, bagVars
    <1>7. CASE (\E c \in Bags : Tick(c)) \/ UNCHANGED vars
        BY <1>1, <1>7 DEF Tick, vars, bagVars
    <1> QED  BY <1>1, <1>2, <1>3, <1>4, <1>5, <1>6, <1>7 DEF Next, Serve

\* A step that posts no claim keeps them paid, if it sends nobody to a credit.
LEMMA NoCreditKeeps ==
    ASSUME BagInv, PaidInv, [Next]_vars,
           \A p \in posted' : p.kind = "claim" => p \in posted,
           \A r \in Requests : pc'[r] = "claimCredit" =>
               pc[r] = "claimCredit" /\ job'[r] = job[r]
    PROVE  PaidInv'
    <1>1. \A b \in Bags : \A k \in 1 .. Len(claims[b]) :
             k \in 1 .. Len(claims'[b]) /\ claims'[b][k] = claims[b][k]
        BY ClaimsGrow
    <1>2. \A b \in Bags : \A u : ClaimOf(u, b) => ClaimOf(u, b)'
        BY <1>1 DEF ClaimOf
    <1>3. ASSUME NEW r \in Requests, pc'[r] = "claimCredit"
          PROVE  job'[r].bag \in Bags /\ ClaimOf(job[r].user, job[r].bag)' /\ job'[r] = job[r]
        BY <1>2, <1>3 DEF PaidInv, Owed
    <1>4. Owed'
        BY <1>3 DEF Owed, ClaimOf
    <1>5. PostedBags'
        BY DEF PaidInv, PostedBags
    <1>6. MembersArePaid'
        BY <1>1 DEF PaidInv, PostedBags, MembersArePaid
    <1> QED  BY <1>4, <1>5, <1>6 DEF PaidInv

\* The grab: a request goes to its credit with its claim at the end of the list.
LEMMA GrabKeepsPaid ==
    ASSUME BagInv, PaidInv, [Next]_vars, NEW r \in Requests, ClaimGrab(r)
    PROVE  PaidInv'
    <1> DEFINE b == job[r].bag
    <1>1. UNCHANGED <<posted, job>> /\ pc[r] = "claimGrab"
        BY DEF ClaimGrab
    <1>2. b \in Bags /\ claims[b] \in Seq(ClaimRecord)
        BY <1>1 DEF BagInv, Known, Typed
    <1>3. CASE pc' = [pc EXCEPT ![r] = "refused"]
        <2>1. \A s \in Requests : pc'[s] = "claimCredit" =>
                 pc[s] = "claimCredit" /\ job'[s] = job[s]
            BY <1>1, <1>3 DEF BagInv, Typed
        <2> QED  BY <1>1, <2>1, NoCreditKeeps
    <1>4. ASSUME NEW new, new.userId = job[r].user,
                 claims' = [claims EXCEPT ![b] = Append(claims[b], new)],
                 pc' = [pc EXCEPT ![r] = "claimCredit"]
          PROVE  PaidInv'
        <2>1. claims'[b] = Append(claims[b], new)
            BY <1>2, <1>4 DEF BagInv, Typed
        <2>2. Len(claims'[b]) = Len(claims[b]) + 1 /\ claims'[b][Len(claims[b]) + 1] = new
            BY <1>2, <2>1
        <2>3. Len(claims[b]) + 1 \in 1 .. Len(claims'[b])
            BY <1>2, <2>2
        <2>4. ClaimOf(job[r].user, b)'
            BY <1>1, <1>4, <2>2, <2>3 DEF ClaimOf
        <2>5. \A c \in Bags : \A k \in 1 .. Len(claims[c]) :
                 k \in 1 .. Len(claims'[c]) /\ claims'[c][k] = claims[c][k]
            BY ClaimsGrow
        <2>6. \A s \in Requests : pc'[s] = "claimCredit" => s = r \/ pc[s] = "claimCredit"
            BY <1>4 DEF BagInv, Typed
        <2>7. Owed'
            BY <1>1, <1>2, <2>4, <2>5, <2>6 DEF PaidInv, Owed, ClaimOf
        <2>8. PostedBags'
            BY <1>1 DEF PaidInv, PostedBags
        <2>9. MembersArePaid'
            BY <1>1, <2>5 DEF PaidInv, PostedBags, MembersArePaid
        <2> QED  BY <2>7, <2>8, <2>9 DEF PaidInv
    <1>5. \/ pc' = [pc EXCEPT ![r] = "refused"]
          \/ \E new : /\ new.userId = job[r].user
                      /\ claims' = [claims EXCEPT ![b] = Append(claims[b], new)]
                      /\ pc' = [pc EXCEPT ![r] = "claimCredit"]
        <2> DEFINE new == [userId |-> job[r].user, slotIndex |-> nextSlotIndex[b],
                           amount |-> slotAmounts[b][nextSlotIndex[b] + 1]]
        <2>1. new.userId = job[r].user
            OBVIOUS
        <2>2. \/ pc' = [pc EXCEPT ![r] = "refused"]
              \/ /\ claims' = [claims EXCEPT ![b] = Append(claims[b], new)]
                 /\ pc' = [pc EXCEPT ![r] = "claimCredit"]
            BY DEF ClaimGrab, Goto
        <2> QED  BY <2>1, <2>2
    <1> QED  BY <1>3, <1>4, <1>5

\* The credit: what is posted is the amount of the claim that is there.
LEMMA CreditKeepsPaid ==
    ASSUME BagInv, PaidInv, [Next]_vars, NEW r \in Requests, ClaimCredit(r)
    PROVE  PaidInv'
    <1> DEFINE u == job[r].user
               b == job[r].bag
               mine == CHOOSE k \in 1 .. Len(claims[b]) : claims[b][k].userId = u
               new == [kind |-> "claim", bag |-> b, user |-> u,
                       amount |-> claims[b][mine].amount]
    <1>1. /\ UNCHANGED <<claims, job>> /\ pc[r] = "claimCredit"
          /\ posted' = posted \/ posted' = posted \cup {new}
          /\ \E to \in {"done", "refused"} : pc' = [pc EXCEPT ![r] = to]
        BY DEF ClaimCredit, Credit, Goto, bagVars
    <1>2. b \in Bags /\ mine \in 1 .. Len(claims[b]) /\ claims[b][mine].userId = u
        BY <1>1 DEF PaidInv, Owed, ClaimOf
    <1>3. \A s \in Requests : pc'[s] = "claimCredit" => pc[s] = "claimCredit"
        BY <1>1 DEF BagInv, Typed
    <1>4. Owed'
        BY <1>1, <1>3 DEF PaidInv, Owed, ClaimOf
    <1>5. new.kind = "claim" /\ new.bag = b /\ new.user = u
          /\ new.amount = claims[b][mine].amount
        OBVIOUS
    <1> HIDE DEF new, mine
    <1>6. PostedBags'
        BY <1>1, <1>2, <1>5 DEF PaidInv, PostedBags
    <1>7. MembersArePaid'
        BY <1>1, <1>2, <1>5 DEF PaidInv, PostedBags, MembersArePaid
    <1> QED  BY <1>4, <1>6, <1>7 DEF PaidInv

LEMMA NextPaid == BagInv /\ PaidInv /\ [Next]_vars => PaidInv'
    <1> SUFFICES ASSUME BagInv, PaidInv, [Next]_vars  PROVE PaidInv'
        OBVIOUS
    <1> USE DEF BagInv, Typed
    <1>1. ASSUME NEW r \in Requests, NEW u \in Users,
                 Create(r, u) \/ \E c \in Bags : Claim(r, u, c) \/ Cancel(r, u, c)
          PROVE  PaidInv'
        <2>1. posted' = posted /\ pc[r] = "idle"
              /\ \E to \in {"createDebit", "claimGrab", "cancelFlip", "refused"} :
                    pc' = [pc EXCEPT ![r] = to]
              /\ \E new : job' = [job EXCEPT ![r] = new]
            BY <1>1 DEF Create, Claim, Cancel, Goto
        <2> QED  BY <2>1, NoCreditKeeps
    <1>2. ASSUME NEW r \in Requests,
                 CreateDebit(r) \/ CreateBag(r) \/ CancelFlip(r) \/ Crash(r)
          PROVE  PaidInv'
        <2>1. posted' = posted /\ job' = job
              /\ \E to \in {"createBag", "cancelRefund", "done", "refused", "crashed"} :
                    pc' = [pc EXCEPT ![r] = to]
            BY <1>2 DEF CreateDebit, CreateBag, CancelFlip, Crash, Goto
        <2> QED  BY <2>1, NoCreditKeeps
    <1>3. ASSUME NEW r \in Requests, CancelRefund(r)
          PROVE  PaidInv'
        <2> DEFINE back == [kind |-> "refund", bag |-> job[r].bag, user |-> job[r].user,
                            amount |-> refund[r]]
        <2>1. /\ posted' = posted \/ posted' = posted \cup {back}
              /\ job' = job /\ pc' = [pc EXCEPT ![r] = "done"]
            BY <1>3 DEF CancelRefund, Credit, Goto
        <2>2. back.kind = "refund"
            OBVIOUS
        <2> HIDE DEF back
        <2> QED  BY <2>1, <2>2, NoCreditKeeps
    <1>4. CASE (\E c \in Bags : Tick(c)) \/ UNCHANGED vars
        <2>1. posted' = posted /\ job' = job /\ pc' = pc
            BY <1>4 DEF Tick, vars
        <2> QED  BY <2>1, NoCreditKeeps
    <1> QED  BY <1>1, <1>2, <1>3, <1>4, GrabKeepsPaid, CreditKeepsPaid DEF Next, Serve

\* However claims, cancels and crashes interleave, a member is paid what the member's
\* claim of that bag says, the middle part of PaidAsClaimed.
THEOREM PaidWhatTheyClaimed == Spec => []MembersArePaid
    <1>1. Init => PaidInv
        BY DEF Init, PaidInv, Owed, PostedBags, MembersArePaid
    <1>2. PaidInv => MembersArePaid
        BY DEF PaidInv
    <1> QED  BY <1>1, <1>2, NextPaid, BagInvariant, PTL DEF Spec

------------------------------------------------------------------------------
\* The money: the rest of the types, and what the slots and the postings add up to.

CancelsKnown ==
    \A r \in Requests : pc[r] \in {"cancelFlip", "cancelRefund"} => job[r].user \in Users

MoneyInv ==
    /\ window \in [Bags -> Window]
    /\ coins \in [Users -> Nat]
    /\ posted \subseteq Posting /\ IsFiniteSet(posted)
    /\ refund \in [Requests -> 0 .. totalCoins]
    /\ CancelsKnown

\* What is claimed of a bag is the amounts of its first slots, and of all when it is
\* depleted.
LEMMA ClaimsWithinSlots ==
    ASSUME BagInv, NEW b \in Bags
    PROVE  /\ claimedAmount(b) \in Nat /\ claimedAmount(b) <= handedOut(b)
           /\ status[b] = "deployed" => claimedAmount(b) = handedOut(b)
           /\ \A k \in 1 .. Len(claims[b]) : claims[b][k].amount \in Nat
    <1> DEFINE n == Len(claims[b])
               f == [k \in 1 .. n |-> claims[b][k].amount]
               a == slotAmounts[b]
    <1>1. /\ n \in Nat /\ n <= slotCount /\ slotCount \in Nat
          /\ \A k \in 1 .. n : claims[b][k].amount = a[k]
          /\ status[b] = "none" => n = 0
          /\ status[b] # "none" => a \in [1 .. slotCount -> Nat]
          /\ status[b] = "deployed" => n = slotCount
          /\ a \in {<<>>} \cup [1 .. slotCount -> Nat]
        BY AmountsAssumption DEF BagInv, Typed, Created, SlotsTakenOnce
    <1>2. claimedAmount(b) = SumFunctionOnSet(f, 1 .. n)
        BY DEF claimedAmount, SumFunction
    <1>3. IsFiniteSet(1 .. n) /\ IsFiniteSet(1 .. slotCount)
        <2>1. 1 \in Int /\ n \in Int /\ slotCount \in Int
            BY <1>1
        <2> HIDE DEF n
        <2> QED  BY <2>1, FS_Interval
    <1>4. CASE status[b] = "none"
        <2>1. 1 .. n = {}
            BY <1>1, <1>4
        <2>2. SumFunctionOnSet(f, 1 .. n) = 0
            <3> HIDE DEF f
            <3> QED  BY <2>1, SumEmpty
        <2>3. handedOut(b) \in Nat
            <3>1. handedOut(b) = SumFunctionOnSet(a, DOMAIN a)
                BY DEF handedOut, SumFunction
            <3>2. CASE a = <<>>
                <4>1. DOMAIN a = {}
                    BY <3>2
                <4> HIDE DEF a
                <4> QED  BY <3>1, <4>1, SumEmpty
            <3>3. CASE a \in [1 .. slotCount -> Nat]
                <4>1. DOMAIN a = 1 .. slotCount /\ \A k \in 1 .. slotCount : a[k] \in Nat
                    BY <3>3
                <4> HIDE DEF a
                <4>2. 1 .. slotCount \in SUBSET (1 .. slotCount)
                    OBVIOUS
                <4> QED  BY <1>3, <3>1, <4>1, <4>2, SumPart
            <3> QED  BY <1>1, <3>2, <3>3
        <2> QED  BY <1>1, <1>2, <1>4, <2>1, <2>2, <2>3
    <1>5. CASE status[b] # "none"
        <2>1. /\ \A k \in 1 .. slotCount : a[k] \in Nat
              /\ 1 .. n \in SUBSET (1 .. slotCount)
              /\ \A k \in 1 .. n : a[k] \in Int /\ a[k] \in Nat /\ f[k] = a[k]
              /\ DOMAIN a = 1 .. slotCount
            BY <1>1, <1>5
        <2>2. handedOut(b) = SumFunctionOnSet(a, 1 .. slotCount)
            BY <2>1 DEF handedOut, SumFunction
        <2>3. status[b] = "deployed" => 1 .. n = 1 .. slotCount
            BY <1>1
        <2>4. \A k \in 1 .. n : claims[b][k].amount \in Nat
            BY <1>1, <2>1
        <2> HIDE DEF f, a, n
        <2>5. SumFunctionOnSet(f, 1 .. n) = SumFunctionOnSet(a, 1 .. n)
            BY <1>3, <2>1, SumSame
        <2>6. /\ SumFunctionOnSet(a, 1 .. n) \in Nat
              /\ SumFunctionOnSet(a, 1 .. n) <= SumFunctionOnSet(a, 1 .. slotCount)
            BY <1>3, <2>1, SumPart
        <2> QED  BY <1>2, <2>2, <2>3, <2>4, <2>5, <2>6 DEF n
    <1> QED  BY <1>4, <1>5

\* The claims that are paid are among those that are made, one posting for each.
LEMMA PaidWithinClaims ==
    ASSUME BagInv, PaidInv, posted \subseteq Posting, IsFiniteSet(posted), NEW b \in Bags
    PROVE  membersPaid(b) <= claimedAmount(b)
    <1> DEFINE n == Len(claims[b])
               P == {q \in posted : q.kind = "claim" /\ q.bag = b}
               g == [p \in P |-> p.amount]
               f == [k \in 1 .. n |-> claims[b][k].amount]
               m == [p \in P |-> CHOOSE k \in 1 .. n :
                        claims[b][k].userId = p.user /\ claims[b][k].amount = p.amount]
    <1>1. IsFiniteSet(P)
        BY FS_Subset
    <1>2. \A p \in P : /\ m[p] \in 1 .. n /\ claims[b][m[p]].userId = p.user
                       /\ claims[b][m[p]].amount = p.amount
        <2> TAKE p \in P
        <2> DEFINE ok(k) == claims[b][k].userId = p.user /\ claims[b][k].amount = p.amount
        <2>1. \E k \in 1 .. n : ok(k)
            BY DEF PaidInv, MembersArePaid
        <2>2. m[p] = CHOOSE k \in 1 .. n : ok(k)
            OBVIOUS
        <2> HIDE DEF ok, m, n
        <2>3. m[p] \in 1 .. n /\ ok(m[p])
            BY <2>1, <2>2
        <2> QED  BY <2>3 DEF ok
    <1>3. \A p, q \in P : m[p] = m[q] => p = q
        <2> TAKE p, q \in P
        <2> HAVE m[p] = m[q]
        <2>1. p.user = q.user /\ p.amount = q.amount
            BY <1>2
        <2>2. /\ p \in Posting /\ q \in Posting
              /\ p.kind = q.kind /\ p.bag = q.bag
            OBVIOUS
        <2> HIDE DEF m, P
        <2> QED  BY <2>1, <2>2 DEF Posting
    <1>4. n \in Nat /\ IsFiniteSet(1 .. n)
        <2>1. n \in Nat
            BY DEF BagInv, Typed
        <2> HIDE DEF n
        <2> QED  BY <2>1, FS_Interval
    <1>5. \A k \in 1 .. n : f[k] \in Nat
        BY ClaimsWithinSlots
    <1>6. \A p \in P : g[p] = f[m[p]] /\ g[p] \in Int /\ m[p] \in 1 .. n
        <2>1. \A p \in P : g[p] = p.amount
            OBVIOUS
        <2>2. \A k \in 1 .. n : f[k] = claims[b][k].amount
            OBVIOUS
        <2> HIDE DEF m, g, f, P
        <2> QED  BY <1>2, <1>5, <2>1, <2>2
    <1>7. /\ membersPaid(b) = SumFunctionOnSet(g, P)
          /\ claimedAmount(b) = SumFunctionOnSet(f, 1 .. n)
        BY DEF membersPaid, claimedAmount, SumFunction
    <1> HIDE DEF m, g, f, P
    <1>8. LET I == {m[x] : x \in P}
          IN  IsFiniteSet(I) /\ SumFunctionOnSet(f, I) = SumFunctionOnSet(g, P)
        BY <1>1, <1>3, <1>6, SumRenamed
    <1> DEFINE I == {m[x] : x \in P}
    <1>9. I \in SUBSET (1 .. n)
        BY <1>6
    <1> HIDE DEF I, n
    <1>10. SumFunctionOnSet(f, I) <= SumFunctionOnSet(f, 1 .. n)
        BY <1>4, <1>5, <1>9, SumPart
    <1> QED  BY <1>7, <1>8, <1>10 DEF I

LEMMA InitMoney == Init => MoneyInv
    BY AmountsAssumption, FS_EmptySet DEF Init, MoneyInv, Window, CancelsKnown

\* A refund is what the members have not claimed of the total.
LEMMA RefundType ==
    ASSUME NEW c \in Nat
    PROVE  Max({0, totalCoins - c}) \in 0 .. totalCoins
    <1>1. totalCoins \in Nat /\ totalCoins - c \in Int /\ totalCoins - c <= totalCoins
        BY AmountsAssumption
    <1> DEFINE rest == totalCoins - c
    <1> HIDE DEF rest
    <1>2. \E x \in {0, rest} : \A y \in {0, rest} : x >= y
        BY <1>1 DEF rest
    <1>3. /\ Max({0, rest}) \in {0, rest}
          /\ \A y \in {0, rest} : Max({0, rest}) >= y
        BY <1>2 DEF Max
    <1> QED  BY <1>1, <1>3 DEF rest

LEMMA NextMoney == BagInv /\ PaidInv /\ MoneyInv /\ [Next]_vars => MoneyInv'
    <1> SUFFICES ASSUME BagInv, PaidInv, MoneyInv, [Next]_vars  PROVE MoneyInv'
        OBVIOUS
    <1> USE DEF MoneyInv
    <1>1. job \in [Requests -> Job] /\ pc \in [Requests -> Pc] /\ claims \in [Bags -> Seq(ClaimRecord)]
          /\ status \in [Bags -> Status]
        BY DEF BagInv, Typed
    <1>2. ASSUME NEW r \in Requests, NEW u \in Users, Create(r, u)  PROVE MoneyInv'
        <2>1. /\ UNCHANGED <<bagVars, window, coins, posted, refund>>
              /\ \A s \in Requests : pc'[s] \in {"cancelFlip", "cancelRefund"} =>
                    pc[s] = pc'[s] /\ job'[s] = job[s]
            BY <1>1, <1>2 DEF Create, Goto
        <2> QED  BY <2>1 DEF CancelsKnown, bagVars
    <1>3. ASSUME NEW r \in Requests, NEW u \in Users, NEW b \in Bags, Claim(r, u, b)
          PROVE  MoneyInv'
        <2>1. /\ UNCHANGED <<bagVars, window, coins, posted, refund>>
              /\ \A s \in Requests : pc'[s] \in {"cancelFlip", "cancelRefund"} =>
                    pc[s] = pc'[s] /\ job'[s] = job[s]
            BY <1>1, <1>3 DEF Claim, Goto
        <2> QED  BY <2>1 DEF CancelsKnown, bagVars
    <1>4. ASSUME NEW r \in Requests, NEW u \in Users, NEW b \in Bags, Cancel(r, u, b)
          PROVE  MoneyInv'
        <2>1. UNCHANGED <<bagVars, window, coins, posted>>
            BY <1>4 DEF Cancel
        <2>2. \A s \in Requests : s = r \/ (pc'[s] = pc[s] /\ job'[s] = job[s])
            BY <1>1, <1>4 DEF Cancel, Goto
        <2>3. job'[r].user = u
            BY <1>1, <1>4 DEF Cancel
        <2>4. CancelsKnown'
            BY <2>2, <2>3 DEF CancelsKnown
        <2>5. claimedAmount(b) \in Nat
            BY ClaimsWithinSlots
        <2>6. refund' \in [Requests -> 0 .. totalCoins]
            BY <1>4, <2>5, RefundType DEF Cancel
        <2> QED  BY <2>1, <2>4, <2>6 DEF bagVars
    <1>5. ASSUME NEW r \in Requests, CreateDebit(r)  PROVE MoneyInv'
        <2>1. /\ UNCHANGED <<bagVars, window, posted, refund, job>> /\ job[r].user \in Users
              /\ \A s \in Requests : pc'[s] \in {"cancelFlip", "cancelRefund"} => pc[s] = pc'[s]
            BY <1>1, <1>5 DEF CreateDebit, Goto, BagInv, Known
        <2>2. coins' \in [Users -> Nat]
            BY <1>5, <2>1, AmountsAssumption DEF CreateDebit
        <2> QED  BY <2>1, <2>2 DEF CancelsKnown, bagVars
    <1>6. ASSUME NEW r \in Requests, CreateBag(r)  PROVE MoneyInv'
        <2>1. window' \in [Bags -> Window]
            BY <1>6 DEF CreateBag, Window
        <2>2. /\ UNCHANGED <<coins, posted, refund, job>>
              /\ \A s \in Requests : pc'[s] \in {"cancelFlip", "cancelRefund"} => pc[s] = pc'[s]
            BY <1>1, <1>6 DEF CreateBag, Goto
        <2> QED  BY <2>1, <2>2 DEF CancelsKnown
    <1>7. ASSUME NEW r \in Requests, ClaimGrab(r)  PROVE MoneyInv'
        <2>1. /\ UNCHANGED <<slotAmounts, window, coins, posted, refund, job>>
              /\ \A s \in Requests : pc'[s] \in {"cancelFlip", "cancelRefund"} => pc[s] = pc'[s]
            BY <1>1, <1>7 DEF ClaimGrab, Goto
        <2> QED  BY <2>1 DEF CancelsKnown
    <1>8. ASSUME NEW kind \in {"claim", "refund"}, NEW b \in Bags, NEW u \in Users,
                 NEW amount \in Nat, Credit(kind, b, u, amount)
          PROVE  coins' \in [Users -> Nat] /\ posted' \subseteq Posting /\ IsFiniteSet(posted')
        <2>1. coins' \in [Users -> Nat]
            BY <1>8 DEF Credit
        <2> DEFINE new == [kind |-> kind, bag |-> b, user |-> u, amount |-> amount]
        <2>2. posted' = posted \/ posted' = posted \cup {new}
            BY <1>8 DEF Credit
        <2>3. new \in Posting
            BY <1>8 DEF Posting
        <2> HIDE DEF new
        <2> QED  BY <2>1, <2>2, <2>3, FS_AddElement
    <1>9. ASSUME NEW r \in Requests, ClaimCredit(r)  PROVE MoneyInv'
        <2> DEFINE u == job[r].user
                   b == job[r].bag
                   mine == CHOOSE k \in 1 .. Len(claims[b]) : claims[b][k].userId = u
        <2>1. /\ UNCHANGED <<bagVars, window, refund, job>> /\ pc[r] = "claimCredit"
              /\ \A s \in Requests : pc'[s] \in {"cancelFlip", "cancelRefund"} => pc[s] = pc'[s]
            BY <1>1, <1>9 DEF ClaimCredit, Goto
        <2>2. b \in Bags /\ mine \in 1 .. Len(claims[b]) /\ claims[b][mine].userId = u
            BY <2>1 DEF PaidInv, Owed, ClaimOf
        <2>3. claims[b] \in Seq(ClaimRecord)
            BY <1>1, <2>2
        <2>4. claims[b][mine] \in ClaimRecord
            <3> HIDE DEF mine, b
            <3> QED  BY <2>2, <2>3
        <2>5. u \in Users /\ claims[b][mine].amount \in Nat
            BY <2>2, <2>4 DEF ClaimRecord
        <2>6. Credit("claim", b, u, claims[b][mine].amount) \/ UNCHANGED <<coins, posted>>
            BY <1>9 DEF ClaimCredit
        <2>7. coins' \in [Users -> Nat] /\ posted' \subseteq Posting /\ IsFiniteSet(posted')
            <3> HIDE DEF mine, b, u
            <3> QED  BY <1>8, <2>2, <2>5, <2>6
        <2> QED  BY <2>1, <2>7 DEF CancelsKnown, bagVars
    <1>10. ASSUME NEW r \in Requests, CancelFlip(r)  PROVE MoneyInv'
        <2>1. /\ UNCHANGED <<slotAmounts, coins, posted, refund, job>> /\ pc[r] = "cancelFlip"
              /\ \A s \in Requests : pc'[s] \in {"cancelFlip", "cancelRefund"} =>
                    pc[s] \in {"cancelFlip", "cancelRefund"}
            BY <1>1, <1>10 DEF CancelFlip, Goto
        <2>2. window' \in [Bags -> Window]
            BY <1>10 DEF CancelFlip, Window
        <2> QED  BY <2>1, <2>2 DEF CancelsKnown
    <1>11. ASSUME NEW r \in Requests, CancelRefund(r)  PROVE MoneyInv'
        <2>1. /\ UNCHANGED <<bagVars, window, refund, job>> /\ pc[r] = "cancelRefund"
              /\ \A s \in Requests : pc'[s] \in {"cancelFlip", "cancelRefund"} => pc[s] = pc'[s]
            BY <1>1, <1>11 DEF CancelRefund, Goto
        <2>2. job[r].user \in Users /\ job[r].bag \in Bags /\ refund[r] \in Nat
            BY <2>1 DEF CancelsKnown, BagInv, Known
        <2>3. coins' \in [Users -> Nat] /\ posted' \subseteq Posting /\ IsFiniteSet(posted')
            BY <1>8, <1>11, <2>2 DEF CancelRefund
        <2> QED  BY <2>1, <2>3 DEF CancelsKnown, bagVars
    <1>12. ASSUME NEW r \in Requests, Crash(r)  PROVE MoneyInv'
        <2>1. /\ UNCHANGED <<bagVars, window, coins, posted, refund, job>>
              /\ \A s \in Requests : pc'[s] \in {"cancelFlip", "cancelRefund"} => pc[s] = pc'[s]
            BY <1>1, <1>12 DEF Crash, Goto
        <2> QED  BY <2>1 DEF CancelsKnown, bagVars
    <1>13. ASSUME NEW b \in Bags, Tick(b)  PROVE MoneyInv'
        BY <1>13 DEF Tick, Window, CancelsKnown, bagVars
    <1>14. CASE UNCHANGED vars
        BY <1>14 DEF vars, CancelsKnown, bagVars
    <1> QED
        BY <1>2, <1>3, <1>4, <1>5, <1>6, <1>7, <1>9, <1>10, <1>11, <1>12, <1>13, <1>14
           DEF Next, Serve

\* However claims, cancels and crashes interleave, members are paid what their claims
\* say, all of a bag's members no more than was claimed and that no more than its slots
\* hold, whatever the split gave; a depleted bag is claimed to the coin.
THEOREM PaidFromTheSlots == Spec => []PaidAsClaimed
    <1>1. Spec => []PaidInv
        <2>1. Init => PaidInv
            BY DEF Init, PaidInv, Owed, PostedBags, MembersArePaid
        <2> QED  BY <2>1, NextPaid, BagInvariant, PTL DEF Spec
    <1>2. Spec => []MoneyInv
        BY <1>1, InitMoney, NextMoney, BagInvariant, PTL DEF Spec
    <1>3. BagInv /\ PaidInv /\ MoneyInv => PaidAsClaimed
        <2> SUFFICES ASSUME BagInv, PaidInv, MoneyInv  PROVE PaidAsClaimed
            OBVIOUS
        <2>1. TypeOK
            <3>1. \A b \in Bags : \A k \in 1 .. Len(claims[b]) : claims[b][k] \in ClaimRecord
                <4>1. \A b \in Bags : claims[b] \in Seq(ClaimRecord)
                    BY DEF BagInv, Typed
                <4> QED  BY <4>1
            <3> QED  BY <3>1 DEF BagInv, Typed, MoneyInv, TypeOK
        <2>2. ASSUME NEW b \in Bags
              PROVE  /\ membersPaid(b) <= claimedAmount(b) /\ claimedAmount(b) <= handedOut(b)
                     /\ status[b] = "deployed" => claimedAmount(b) = handedOut(b)
            BY ClaimsWithinSlots, PaidWithinClaims DEF MoneyInv
        <2> QED  BY <2>1, <2>2 DEF PaidInv, PaidAsClaimed
    <1> QED  BY <1>1, <1>2, <1>3, BagInvariant, PTL

------------------------------------------------------------------------------
\* How a pool is cut.

\* A draw is at most what is left after reserving one coin for each later slot.
LEMMA LargestLeavesReserve ==
    ASSUME NEW rem \in Int, NEW n \in Nat, n >= 2, rem >= n
    PROVE  /\ largest(rem, n) \in Int
           /\ largest(rem, n) <= rem - (n - 1)
    <1> DEFINE m == rem - (n - 1)
               q == (m * 2) \div n
    <1>1. m \in Int /\ m >= 1
        OBVIOUS
    <1>2. q \in Int /\ n * q <= m * 2
        BY <1>1
    <1>3. q <= m
        <2>1. CASE q <= 0
            BY <1>1, <1>2, <2>1
        <2>2. CASE q >= 1
            <3>1. 2 * q <= n * q
                <4>1. (n - 2) * q >= 0
                    BY <1>2, <2>2
                <4> QED  BY <4>1, <1>2
            <3> HIDE DEF q
            <3> QED  BY <1>1, <1>2, <3>1
        <2> QED  BY <1>2, <2>1, <2>2
    <1>4. largest(rem, n) = AtLeastOne(q)
        BY DEF largest
    <1> HIDE DEF q
    <1> QED  BY <1>1, <1>2, <1>3, <1>4 DEF AtLeastOne

\* The inductive invariant: the loop counter is a slot's index, and the property.
SplitInv ==
    /\ slots \in Nat \ {0} /\ total \in Nat
    /\ i \in 0 .. slots - 1
    /\ remaining \in Int
    /\ RemainingCoversSlots

\* A draw, the last slot, the shuffle and a tier keep it.
LEMMA SplitStep == SplitInv /\ [SplitNext]_splitVars => SplitInv'
    <1> SUFFICES ASSUME SplitInv, [SplitNext]_splitVars  PROVE SplitInv'
        OBVIOUS
    <1> USE DEF SplitInv, RemainingCoversSlots
    <1>1. CASE Draw
        <2>1. PICK amount \in 1 .. largest(remaining, slots - i) :
                 remaining' = remaining - amount
            BY <1>1 DEF Draw
        <2>2. slots - i \in Nat /\ slots - i >= 2
            BY <1>1 DEF Draw
        <2>3. amount \in Int
            OBVIOUS
        <2>4. CASE total >= slots
            <3>1. amount <= remaining - (slots - i - 1)
                BY <1>1, <2>1, <2>2, <2>4, LargestLeavesReserve DEF Draw
            <3> QED  BY <1>1, <2>1, <2>2, <2>3, <3>1 DEF Draw
        <2>5. CASE ~(total >= slots)
            BY <1>1, <2>1, <2>2, <2>3, <2>5 DEF Draw
        <2> QED  BY <2>4, <2>5
    <1>2. CASE LastSlot
        BY <1>2 DEF LastSlot
    <1>3. CASE Shuffle
        BY <1>3 DEF Shuffle
    <1>4. CASE Shuffled
        BY <1>4 DEF Shuffled
    <1>5. CASE FixedTier
        BY <1>5 DEF FixedTier
    <1>6. CASE UNCHANGED splitVars
        BY <1>6 DEF splitVars
    <1> QED  BY <1>1, <1>2, <1>3, <1>4, <1>5, <1>6 DEF SplitNext

\* The rest of the pool covers the slots to come, for every pool and slot count.
THEOREM PoolCoversSlots == SplitSpec => []RemainingCoversSlots
    <1>1. SplitInit => SplitInv
        BY SizesAssumption DEF SplitInit, SplitInv, RemainingCoversSlots
    <1>2. SplitInv => RemainingCoversSlots
        BY DEF SplitInv
    <1> QED  BY <1>1, <1>2, SplitStep, PTL DEF SplitSpec

\* Tiers without a share below zero.
SharesNat == \A p \in Tiers : \A k \in DOMAIN p : p[k] \in Nat

LEMMA MaxOfTwo ==
    ASSUME NEW x \in Int, NEW y \in Int
    PROVE  Max({x, y}) = IF x >= y THEN x ELSE y
    <1>1. \E z \in {x, y} : \A w \in {x, y} : z >= w
        OBVIOUS
    <1>2. /\ Max({x, y}) \in {x, y}
          /\ \A w \in {x, y} : Max({x, y}) >= w
        BY <1>1 DEF Max
    <1> QED  BY <1>2

\* The amounts as they are filled in: one coin at least in each slot that is drawn, and
\* what is drawn and what remains are the pool; a pool too small gives a coin a slot.
FillInv ==
    /\ SplitInv
    /\ stage \in {"draw", "shuffle", "done"}
    /\ out \in [0 .. slots - 1 -> Int]
    /\ stage = "draw" =>
          /\ \A k \in 0 .. slots - 1 : IF k < i THEN out[k] >= 1 ELSE out[k] = 0
          /\ SumFunctionOnSet(out, 0 .. slots - 1) + remaining = total
          /\ total < slots => remaining = total - i
    /\ stage = "shuffle" =>
          /\ \A k \in 0 .. slots - 1 : out[k] >= 1
          /\ SumFunctionOnSet(out, 0 .. slots - 1) = Max({slots, total})
    /\ stage = "done" =>
          SumFunctionOnSet(out, 0 .. slots - 1) \in total .. Max({slots, total + surplus})
    /\ NoEmptySlot

LEMMA SurplusType == total \in Nat => surplus \in Nat
    BY DEF surplus

\* The rounded shares of a tier are no more than the pool and the surplus.
LEMMA FlooredWithinPool ==
    ASSUME SharesNat, NEW p \in Tiers, ValidTier(p),
           NEW n \in Nat, DOMAIN p = 0 .. n, total \in Nat
    PROVE  /\ Floored(p) \in [0 .. n -> Nat]
           /\ SumFunctionOnSet(Floored(p), 0 .. n) <= total + surplus
    <1> DEFINE D == 0 .. n
               f == Floored(p)
               g == [k \in D |-> 1000 * f[k]]
               h == [k \in D |-> total * p[k]]
    <1>1. \A k \in D : p[k] \in Int /\ p[k] \in Nat
        BY DEF SharesNat
    <1>2. \A k \in D : f[k] \in Nat /\ 1000 * f[k] <= total * p[k]
        <2> TAKE k \in D
        <2> DEFINE x == total * p[k]
                   q == x \div 1000
        <2>1. x \in Nat
            BY <1>1
        <2>2. f[k] = Max({0, q})
            BY DEF Floored
        <2> HIDE DEF x
        <2>3. q \in Nat /\ 1000 * q <= x
            BY <2>1
        <2>4. Max({0, q}) = q
            <3> HIDE DEF q
            <3>1. \A y \in {0, q} : q >= y
                BY <2>3
            <3>2. \A z \in {0, q} : (\A y \in {0, q} : z >= y) => z = q
                BY <2>3
            <3> QED  BY <3>1, <3>2 DEF Max
        <2> HIDE DEF q, f
        <2> QED  BY <2>2, <2>3, <2>4 DEF x
    <1>3. IsFiniteSet(D)
        BY FS_Interval
    <1>4. f \in [D -> Nat]
        <2>1. DOMAIN f = D /\ f = [k \in D |-> f[k]]
            BY DEF Floored
        <2> HIDE DEF f, D
        <2> QED  BY <1>2, <2>1
    <1>5. /\ SumFunctionOnSet(p, D) <= 1001
          /\ SumFunctionOnSet(p, D) > 1000 => surplus = total \div 1000
        BY DEF ValidTier, surplus, SumFunction
    <1> HIDE DEF f, D
    <1>6. \A k \in D : /\ f[k] \in Int /\ g[k] = 1000 * f[k]
                        /\ p[k] \in Int /\ h[k] = total * p[k]
                        /\ g[k] \in Int /\ h[k] \in Int /\ g[k] <= h[k]
        BY <1>1, <1>2
    <1> HIDE DEF g, h
    <1>7. /\ SumFunctionOnSet(g, D) = 1000 * SumFunctionOnSet(f, D)
          /\ SumFunctionOnSet(h, D) = total * SumFunctionOnSet(p, D)
        <2>1. \A k \in D : f[k] \in Int /\ g[k] = 1000 * f[k]
            BY <1>6
        <2>2. \A k \in D : p[k] \in Int /\ h[k] = total * p[k]
            BY <1>6
        <2>3. 1000 \in Int /\ total \in Int
            OBVIOUS
        <2>4. SumFunctionOnSet(g, D) = 1000 * SumFunctionOnSet(f, D)
            BY <1>3, <2>1, <2>3, SumScale
        <2>5. SumFunctionOnSet(h, D) = total * SumFunctionOnSet(p, D)
            <3>1. \A c \in Int : (\A k \in D : p[k] \in Int /\ h[k] = c * p[k]) =>
                     SumFunctionOnSet(h, D) = c * SumFunctionOnSet(p, D)
                BY <1>3, SumScale
            <3> QED  BY <2>2, <2>3, <3>1, Zenon
        <2> QED  BY <2>4, <2>5
    <1>8. SumFunctionOnSet(g, D) <= SumFunctionOnSet(h, D)
        BY <1>3, <1>6, SumLess
    <1>9. SumFunctionOnSet(f, D) \in Int /\ SumFunctionOnSet(p, D) \in Int
        BY <1>3, <1>6, SumType
    <1>10. ASSUME SumFunctionOnSet(p, D) <= 1000
           PROVE  SumFunctionOnSet(f, D) <= total + surplus
        <2>1. total * SumFunctionOnSet(p, D) <= total * 1000
            BY <1>9, <1>10
        <2> QED  BY <1>7, <1>8, <1>9, <2>1, SurplusType
    <1>11. ASSUME SumFunctionOnSet(p, D) > 1000
           PROVE  SumFunctionOnSet(f, D) <= total + surplus
        <2>1. total * SumFunctionOnSet(p, D) <= total * 1001
            BY <1>5, <1>9
        <2>2. 1000 * SumFunctionOnSet(f, D) <= total * 1001
            BY <1>7, <1>8, <1>9, <2>1
        <2>3. SumFunctionOnSet(f, D) - total <= total \div 1000
            BY <1>9, <2>2
        <2> QED  BY <1>5, <1>9, <1>11, <2>3
    <1>12. SumFunctionOnSet(f, D) <= total + surplus
        BY <1>9, <1>10, <1>11
    <1> QED  BY <1>4, <1>12 DEF f, D

\* With the leftover the shares are the pool, or stay what they were over it.
LEMMA LeftoverCompletes ==
    ASSUME NEW n \in Nat, NEW f \in [0 .. n -> Nat], total \in Nat, NEW extra \in Nat,
           SumFunctionOnSet(f, 0 .. n) <= total + extra
    PROVE  /\ WithLeftover(f) \in [0 .. n -> Nat]
           /\ SumFunctionOnSet(WithLeftover(f), 0 .. n) \in total .. total + extra
    <1> DEFINE D == 0 .. n
               s == SumFunctionOnSet(f, D)
               g == [f EXCEPT ![0] = f[0] + total - s]
    <1>1. IsFiniteSet(D) /\ 0 \in D
        BY FS_Interval
    <1>2. s \in Int
        BY <1>1, SumType
    <1>3. SumFunction(f) = s
        BY DEF SumFunction
    <1>4. CASE total > s
        <2>1. WithLeftover(f) = g
            BY <1>3, <1>4 DEF WithLeftover
        <2> HIDE DEF s
        <2>2. g \in [D -> Nat]
            BY <1>1, <1>2, <1>4
        <2>3. /\ \A k \in D : f[k] \in Int /\ g[k] \in Int
              /\ \A k \in D \ {0} : g[k] = f[k]
              /\ g[0] = f[0] + total - s
            BY <1>1, <1>2, <2>2
        <2> HIDE DEF g, D
        <2>4. SumFunctionOnSet(g, D) = SumFunctionOnSet(f, D) - f[0] + g[0]
            <3>1. /\ \A k \in D : f[k] \in Int /\ g[k] \in Int
                  /\ \A k \in D \ {0} : g[k] = f[k]
                BY <2>3
            <3> QED  BY <1>1, <3>1, SumUpdate
        <2>5. SumFunctionOnSet(g, D) = total
            <3>1. SumFunctionOnSet(f, D) = s /\ f[0] \in Int
                BY <1>1, <2>3 DEF s
            <3> QED  BY <1>2, <2>3, <2>4, <3>1
        <2>6. total \in total .. total + extra
            OBVIOUS
        <2> QED  BY <2>1, <2>2, <2>5, <2>6 DEF D
    <1>5. CASE ~(total > s)
        <2>1. WithLeftover(f) = f
            BY <1>3, <1>5 DEF WithLeftover
        <2>2. s \in total .. total + extra
            <3>1. s <= total + extra
                OBVIOUS
            <3> HIDE DEF s
            <3> QED  BY <1>2, <1>5, <3>1
        <2> QED  BY <2>1, <2>2
    <1> QED  BY <1>4, <1>5

\* The top-up moves coins, and leaves a slot empty only if slot 0 is at its last coin.
LEMMA TopUpMovesCoins ==
    ASSUME NEW n \in Nat, NEW f \in [0 .. n -> Nat]
    PROVE  /\ ToppedUp(f) \in [0 .. n -> Int]
           /\ SumFunctionOnSet(ToppedUp(f), 0 .. n) = SumFunctionOnSet(f, 0 .. n)
           /\ \A k \in 0 .. n : ToppedUp(f)[k] >= 1 \/ ToppedUp(f)[0] <= 1
    <1> DEFINE D == 0 .. n
               zeros == {k \in D \ {0} : f[k] = 0}
               rank(k) == Cardinality({z \in zeros : z < k})
               lucky == {k \in zeros : f[0] - rank(k) > 1}
               g == [k \in D |-> IF k \in lucky THEN f[k] + 1 ELSE f[k]]
               h == [k \in D |-> IF k = 0 THEN f[0] - Cardinality(lucky)
                                 ELSE IF k \in lucky THEN 1 ELSE f[k]]
    <1>1. ToppedUp(f) = h
        <2>1. DOMAIN f = D
            OBVIOUS
        <2> QED  BY <2>1 DEF ToppedUp
    <1>2. IsFiniteSet(D) /\ 0 \in D /\ D \subseteq Int /\ \A k \in D : f[k] \in Nat
        <2>1. IsFiniteSet(D)
            BY FS_Interval
        <2>2. 0 \in D /\ D \subseteq Int
            OBVIOUS
        <2>3. \A k \in D : f[k] \in Nat
            OBVIOUS
        <2> QED  BY <2>1, <2>2, <2>3
    <1>3. zeros \in SUBSET D /\ lucky \in SUBSET D /\ IsFiniteSet(zeros) /\ IsFiniteSet(lucky)
        BY <1>2, FS_Subset
    <1>4. Cardinality(lucky) \in Nat
        BY <1>3, FS_CardinalityType
    <1>5. \A k \in lucky : f[k] = 0 /\ k # 0
        OBVIOUS
    <1>6. \A k \in D : k # 0 /\ k \notin zeros => f[k] >= 1
        BY <1>2
    <1>7. ASSUME NEW k \in zeros, k \notin lucky
          PROVE  f[0] - Cardinality(lucky) <= 1
        <2> DEFINE late == {z \in zeros : z \notin lucky}
        <2>1. IsFiniteSet(late) /\ late \subseteq Int /\ late # {}
            BY <1>2, <1>3, <1>7, FS_Subset
        <2>2. PICK m \in late : \A z \in late : m <= z
            <3> HIDE DEF late
            <3> QED  BY <2>1, LeastElement
        <2> DEFINE below == {z \in zeros : z < m}
        <2>3. below \subseteq lucky
            <3>1. \A z \in zeros : z \in Int /\ m \in Int
                BY <1>2
            <3>2. \A z \in zeros : z < m => z \notin late
                BY <2>2, <3>1
            <3> HIDE DEF lucky
            <3> QED  BY <3>2
        <2>4. Cardinality(below) \in Nat /\ Cardinality(below) <= Cardinality(lucky)
            <3> HIDE DEF below, lucky
            <3> QED  BY <1>3, <2>3, FS_Subset, FS_CardinalityType
        <2>5. ~(f[0] - Cardinality(below) > 1)
            OBVIOUS
        <2> HIDE DEF below, lucky
        <2> QED  BY <1>2, <1>4, <2>4, <2>5
    <1> HIDE DEF zeros, lucky
    <1>8. /\ \A k \in D : f[k] \in Int /\ g[k] \in Int /\ h[k] \in Int
          /\ \A k \in D : g[k] = IF k \in lucky THEN f[k] + 1 ELSE f[k]
          /\ \A k \in D \ {0} : h[k] = g[k]
          /\ g[0] = f[0] /\ h[0] = f[0] - Cardinality(lucky)
        BY <1>2, <1>4, <1>5
    <1>9. \A k \in D : h[k] >= 1 \/ h[0] <= 1
        BY <1>2, <1>4, <1>5, <1>6, <1>7
    <1>10. h \in [D -> Int]
        BY <1>8
    <1> HIDE DEF D, g, h
    <1>11. SumFunctionOnSet(g, D) = SumFunctionOnSet(f, D) + Cardinality(lucky)
        BY <1>2, <1>3, <1>8, SumCount
    <1>12. SumFunctionOnSet(h, D) = SumFunctionOnSet(g, D) - g[0] + h[0]
        <2>1. /\ \A k \in D : g[k] \in Int /\ h[k] \in Int
              /\ \A k \in D \ {0} : h[k] = g[k]
            BY <1>8
        <2>2. IsFiniteSet(D) /\ 0 \in D
            BY <1>2
        <2> QED  BY <2>1, <2>2, SumUpdate
    <1>13. SumFunctionOnSet(f, D) \in Int
        BY <1>2, <1>8, SumType
    <1>14. SumFunctionOnSet(h, D) = SumFunctionOnSet(f, D)
        BY <1>2, <1>4, <1>8, <1>11, <1>12, <1>13
    <1> QED  BY <1>1, <1>9, <1>10, <1>14 DEF D

LEMMA FillInit == SplitInit => FillInv
    <1> SUFFICES ASSUME SplitInit  PROVE FillInv
        OBVIOUS
    <1>1. /\ total \in Nat /\ slots \in Nat \ {0} /\ stage = "draw" /\ i = 0
          /\ remaining = total /\ out = [k \in 0 .. slots - 1 |-> 0]
        BY SizesAssumption DEF SplitInit
    <1>2. SplitInv
        BY <1>1 DEF SplitInv, RemainingCoversSlots
    <1>3. SumFunctionOnSet(out, 0 .. slots - 1) = 0
        <2>1. \A k \in 0 .. slots - 1 : out[k] = 0
            BY <1>1
        <2>2. IsFiniteSet(0 .. slots - 1)
            <3>1. 0 \in Int /\ slots - 1 \in Int
                BY <1>1
            <3> QED  BY <3>1, FS_Interval
        <2> QED  BY <2>1, <2>2, SumZero
    <1> QED  BY <1>1, <1>2, <1>3 DEF FillInv, NoEmptySlot

\* Drawing takes from the rest what it puts in a slot, shuffling swaps two slots.
LEMMA FillNext ==
    ASSUME SharesNat, FillInv, SplitInv', [SplitNext]_splitVars
    PROVE  FillInv'
    <1> DEFINE D == 0 .. slots - 1
    <1>1. /\ slots \in Nat \ {0} /\ total \in Nat /\ i \in D /\ remaining \in Int
          /\ out \in [D -> Int] /\ RemainingCoversSlots
        BY DEF FillInv, SplitInv
    <1>2. IsFiniteSet(D)
        <2>1. 0 \in Int /\ slots - 1 \in Int
            BY <1>1
        <2> QED  BY <2>1, FS_Interval
    <1>u. \A x \in D : \A f, g :
             (/\ \A k \in D : f[k] \in Int /\ g[k] \in Int
              /\ \A k \in D \ {x} : g[k] = f[k])
             => SumFunctionOnSet(g, D) = SumFunctionOnSet(f, D) - f[x] + g[x]
        <2> HIDE DEF D
        <2> QED  BY <1>2, SumUpdate
    <1>3. ASSUME NEW amount \in Int, out[i] = 0, out' = [out EXCEPT ![i] = amount]
          PROVE  SumFunctionOnSet(out', D) = SumFunctionOnSet(out, D) + amount
        <2>1. /\ \A k \in D : out[k] \in Int /\ out'[k] \in Int
              /\ \A k \in D \ {i} : out'[k] = out[k]
              /\ out'[i] = amount
            BY <1>1, <1>3
        <2>2. SumFunctionOnSet(out, D) \in Int
            BY <1>2, <2>1, SumType
        <2> HIDE DEF D
        <2>3. SumFunctionOnSet(out', D) = SumFunctionOnSet(out, D) - out[i] + out'[i]
            BY <1>1, <1>u, <2>1, Zenon
        <2> QED  BY <1>3, <2>1, <2>2, <2>3
    <1>4. CASE Draw
        <2>1. PICK amount \in 1 .. largest(remaining, slots - i) :
                 out' = [out EXCEPT ![i] = amount] /\ remaining' = remaining - amount
            BY <1>4 DEF Draw
        <2>2. /\ stage = "draw" /\ i < slots - 1 /\ i' = i + 1
              /\ UNCHANGED <<total, slots, stage>>
            BY <1>4 DEF Draw
        <2>3. amount \in Int /\ amount >= 1 /\ out[i] = 0
            BY <1>1, <2>2 DEF FillInv
        <2>4. SumFunctionOnSet(out', D) = SumFunctionOnSet(out, D) + amount
            BY <1>3, <2>1, <2>3
        <2>5. SumFunctionOnSet(out, D) \in Int
            BY <1>1, <1>2, SumType
        <2>6. SumFunctionOnSet(out', D) + remaining' = total
            <3>1. SumFunctionOnSet(out, D) + remaining = total
                BY <2>2 DEF FillInv
            <3> HIDE DEF D
            <3> QED  BY <1>1, <2>1, <2>3, <2>4, <2>5, <3>1
        <2>7. out' \in [D -> Int]
            BY <1>1, <2>1, <2>3
        <2>8. \A k \in D : IF k < i' THEN out'[k] >= 1 ELSE out'[k] = 0
            <3>1. \A k \in D : IF k < i THEN out[k] >= 1 ELSE out[k] = 0
                BY <2>2 DEF FillInv
            <3>2. \A k \in D : out'[k] = IF k = i THEN amount ELSE out[k]
                BY <1>1, <2>1
            <3> QED  BY <1>1, <2>2, <2>3, <3>1, <3>2
        <2>9. total < slots => remaining' = total - i'
            <3> SUFFICES ASSUME total < slots  PROVE remaining' = total - i'
                OBVIOUS
            <3>1. remaining = total - i /\ i \in Nat /\ i < slots - 1
                BY <1>1, <2>2 DEF FillInv
            <3>2. largest(remaining, slots - i) = 1
                <4> DEFINE n == slots - i
                           x == (remaining - (n - 1)) * 2
                <4>1. n \in Nat /\ n > 0 /\ x \in Int /\ x <= 0
                    BY <1>1, <3>1
                <4> HIDE DEF n, x
                <4>2. x \div n <= 0 /\ x \div n \in Int
                    BY <4>1
                <4>3. largest(remaining, n) = AtLeastOne(x \div n)
                    BY DEF largest, x
                <4> QED  BY <4>2, <4>3 DEF AtLeastOne, n
            <3>3. amount = 1
                BY <2>1, <3>2
            <3> QED  BY <1>1, <2>1, <2>2, <3>1, <3>3
        <2> QED  BY <2>2, <2>6, <2>7, <2>8, <2>9 DEF FillInv, NoEmptySlot
    <1>5. CASE LastSlot
        <2>1. /\ stage = "draw" /\ i = slots - 1 /\ stage' = "shuffle"
              /\ out' = [out EXCEPT ![i] = AtLeastOne(remaining)]
              /\ UNCHANGED <<total, slots, i, remaining>>
            BY <1>5 DEF LastSlot
        <2>2. AtLeastOne(remaining) \in Int /\ AtLeastOne(remaining) >= 1 /\ out[i] = 0
            BY <1>1, <2>1 DEF FillInv, AtLeastOne
        <2>3. SumFunctionOnSet(out', D) = SumFunctionOnSet(out, D) + AtLeastOne(remaining)
            BY <1>3, <2>1, <2>2
        <2>4. SumFunctionOnSet(out, D) \in Int
            BY <1>1, <1>2, SumType
        <2>5. SumFunctionOnSet(out', D) = Max({slots, total})
            <3>1. SumFunctionOnSet(out, D) + remaining = total
                BY <2>1 DEF FillInv
            <3>2. total >= slots => AtLeastOne(remaining) = remaining
                BY <1>1, <2>1 DEF RemainingCoversSlots, AtLeastOne
            <3>3. total < slots => remaining = total - (slots - 1) /\ AtLeastOne(remaining) = 1
                BY <1>1, <2>1 DEF FillInv, AtLeastOne
            <3>4. Max({slots, total}) = IF slots >= total THEN slots ELSE total
                BY <1>1, MaxOfTwo
            <3> HIDE DEF D
            <3> QED  BY <1>1, <2>3, <2>4, <3>1, <3>2, <3>3, <3>4
        <2>6. out' \in [D -> Int]
            BY <1>1, <2>1, <2>2
        <2>7. \A k \in D : out'[k] >= 1
            <3>1. \A k \in D : IF k < i THEN out[k] >= 1 ELSE out[k] = 0
                BY <2>1 DEF FillInv
            <3>2. \A k \in D : out'[k] = IF k = i THEN AtLeastOne(remaining) ELSE out[k]
                BY <1>1, <2>1
            <3> QED  BY <1>1, <2>1, <2>2, <3>1, <3>2
        <2> QED  BY <2>1, <2>5, <2>6, <2>7 DEF FillInv, NoEmptySlot
    <1>6. CASE Shuffle
        <2>1. PICK j \in 0 .. i : out' = [out EXCEPT ![i] = out[j], ![j] = out[i]]
            BY <1>6 DEF Shuffle
        <2>2. /\ stage = "shuffle" /\ i' = i - 1
              /\ UNCHANGED <<total, slots, stage, remaining>>
            BY <1>6 DEF Shuffle
        <2>3. j \in D
            BY <1>1
        <2> DEFINE g == [out EXCEPT ![i] = out[j]]
        <2>4. /\ \A k \in D : out[k] \in Int /\ g[k] \in Int /\ out'[k] \in Int
              /\ \A k \in D \ {i} : g[k] = out[k]
              /\ \A k \in D \ {j} : out'[k] = g[k]
              /\ g[i] = out[j] /\ g[j] = out[j] /\ out'[j] = out[i]
            BY <1>1, <2>1, <2>3
        <2>5. SumFunctionOnSet(out', D) = SumFunctionOnSet(out, D)
            <3> HIDE DEF g, D
            <3>1. SumFunctionOnSet(g, D) = SumFunctionOnSet(out, D) - out[i] + g[i]
                BY <1>1, <1>2, <2>4, SumUpdate
            <3>2. SumFunctionOnSet(out', D) = SumFunctionOnSet(g, D) - g[j] + out'[j]
                <4>1. /\ \A k \in D : g[k] \in Int /\ out'[k] \in Int
                      /\ \A k \in D \ {j} : out'[k] = g[k]
                    BY <2>4
                <4> QED  BY <2>3, <4>1, <1>u, Zenon
            <3>3. SumFunctionOnSet(out, D) \in Int /\ out[i] \in Int /\ out[j] \in Int
                BY <1>1, <1>2, <2>3, <2>4, SumType
            <3> QED  BY <2>4, <3>1, <3>2, <3>3
        <2>6. out' \in [D -> Int]
            BY <1>1, <2>1, <2>3
        <2>7. \A k \in D : out'[k] >= 1
            BY <1>1, <2>1, <2>2, <2>3 DEF FillInv
        <2> QED  BY <2>2, <2>5, <2>6, <2>7 DEF FillInv, NoEmptySlot
    <1>7. CASE Shuffled
        <2>1. /\ stage = "shuffle" /\ stage' = "done"
              /\ UNCHANGED <<total, slots, i, remaining, out>> /\ surplus' = surplus
            BY <1>7 DEF Shuffled, surplus
        <2>2. /\ \A k \in D : out[k] >= 1
              /\ SumFunctionOnSet(out, D) = Max({slots, total})
            BY <2>1 DEF FillInv
        <2>3. /\ Max({slots, total}) = IF slots >= total THEN slots ELSE total
              /\ Max({slots, total + surplus})
                    = IF slots >= total + surplus THEN slots ELSE total + surplus
              /\ surplus \in Nat
            BY <1>1, MaxOfTwo, SurplusType
        <2>4. Max({slots, total}) \in total .. Max({slots, total + surplus})
            BY <1>1, <2>3
        <2>5. DOMAIN out = D
            BY <1>1
        <2> QED  BY <1>1, <2>1, <2>2, <2>4, <2>5 DEF FillInv, NoEmptySlot
    <1>8. CASE FixedTier
        <2>1. PICK p \in Tiers :
                 DOMAIN p = D /\ ValidTier(p) /\ out' = ToppedUp(WithLeftover(Floored(p)))
            BY <1>8 DEF FixedTier
        <2>2. stage' = "done" /\ UNCHANGED <<total, slots, i, remaining>>
            BY <1>8 DEF FixedTier
        <2> DEFINE n == slots - 1
                   f == Floored(p)
                   w == WithLeftover(f)
        <2>3. n \in Nat /\ D = 0 .. n
            BY <1>1
        <2> HIDE DEF n, D
        <2>4. f \in [0 .. n -> Nat] /\ SumFunctionOnSet(f, 0 .. n) <= total + surplus
            BY <1>1, <2>1, <2>3, FlooredWithinPool
        <2> HIDE DEF f
        <2>5. w \in [0 .. n -> Nat] /\ SumFunctionOnSet(w, 0 .. n) \in total .. total + surplus
            BY <1>1, <2>3, <2>4, SurplusType, LeftoverCompletes
        <2> HIDE DEF w
        <2>6. /\ ToppedUp(w) \in [0 .. n -> Int] /\ SumFunctionOnSet(ToppedUp(w), 0 .. n) = SumFunctionOnSet(w, 0 .. n)
              /\ \A k \in 0 .. n : ToppedUp(w)[k] >= 1 \/ ToppedUp(w)[0] <= 1
            BY <2>3, <2>5, TopUpMovesCoins
        <2>7. out' = ToppedUp(w)
            BY <2>1 DEF w, f
        <2>8. /\ out' \in [D -> Int] /\ SumFunctionOnSet(out', D) \in total .. total + surplus
              /\ \A k \in D : out'[k] >= 1 \/ out'[0] <= 1
            BY <2>3, <2>5, <2>6, <2>7
        <2>10. SumFunctionOnSet(out', D) \in total .. Max({slots, total + surplus})
            <3>1. surplus \in Nat /\ Max({slots, total + surplus})
                      = IF slots >= total + surplus THEN slots ELSE total + surplus
                BY <1>1, MaxOfTwo, SurplusType
            <3> QED  BY <1>1, <2>8, <3>1
        <2>11. surplus' = surplus
            BY <2>2 DEF surplus
        <2>9. DOMAIN out' = D
            BY <2>8
        <2> QED  BY <2>2, <2>8, <2>9, <2>10, <2>11 DEF FillInv, NoEmptySlot, D
    <1>9. CASE UNCHANGED splitVars
        <2>1. surplus' = surplus
            BY <1>9 DEF splitVars, surplus
        <2> QED  BY <1>1, <1>9, <2>1 DEF splitVars, FillInv, NoEmptySlot
    <1> QED  BY <1>4, <1>5, <1>6, <1>7, <1>8, <1>9 DEF SplitNext

\* Whatever is drawn and however it is shuffled, and for every tier without a share below
\* zero, a bag hands out its whole pool, and more only as ExactCut says, and leaves no slot
\* empty that a coin could fill.
THEOREM CutIsExact ==
    ASSUME SharesNat
    PROVE  SplitSpec => []PoolHandedOut
    <1>1. FillInv /\ [SplitNext]_splitVars => FillInv'
        BY SplitStep, FillNext DEF FillInv
    <1>2. FillInv => PoolHandedOut
        <2> SUFFICES ASSUME FillInv  PROVE PoolHandedOut
            OBVIOUS
        <2>1. DOMAIN out = 0 .. slots - 1
            BY DEF FillInv
        <2>2. ExactCut
            BY <2>1 DEF FillInv, ExactCut, SumFunction
        <2> QED  BY <2>2 DEF FillInv, PoolHandedOut
    <1> QED  BY <1>1, <1>2, FillInit, PTL DEF SplitSpec
==============================================================================
