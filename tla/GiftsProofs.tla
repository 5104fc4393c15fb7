------------------------------ MODULE GiftsProofs ------------------------------
(***************************************************************************)
(* Theorems about Gifts for every set of requests, calls and levels:       *)
(* events are paid (EventsPaid), launches are paid (LaunchedIsPaid,        *)
(* PaidAsTheyLaunch), the rocket has its types (RocketIsSound), and fuel   *)
(* is spent once, on launches that come once and in order                  *)
(* (FuelLaunchesInOrder).                                                  *)
(***************************************************************************)
EXTENDS Gifts, SumProofs, TLAPS

RocketPlace == {"idle", "done", "addInc", "addPush", "addFetch", "addSnap", "step", "pay"}
Place == RocketPlace \cup {"giftTransfer", "giftPay", "giftEvent", "giftCount", "giftFuel"}

\* The places of a send whose coins have moved, before and after its event.
Owing == {"giftEvent", "giftCount", "giftFuel"}
Recorded == {"giftCount", "giftFuel"}

PaidInv ==
    /\ pc \in [Process -> Place]
    /\ DOMAIN ask = Requests
    /\ events \subseteq transfers
    /\ \A q \in Requests : pc[q] \in Owing => ask[q].key \in transfers
    /\ \A q \in Requests : pc[q] \in Recorded => ask[q].key \in events \/ erased

\* A rocket's step takes a process to a place of the rocket, or nowhere.
Elsewhere ==
    \E p \in Process, l \in RocketPlace : pc' = [pc EXCEPT ![p] = l]

\* The fields of a job that a payment uses.
IsJob(j) == {"mine", "left"} \subseteq DOMAIN j

\* A step of a process that does not pay.
NotPaying(p) ==
    \E l, j :
        /\ l \in RocketPlace \ {"pay"}
        /\ pc' = [pc EXCEPT ![p] = l] /\ job' = [job EXCEPT ![p] = j]
        /\ IsJob(job[p]) => IsJob(j)

LEMMA IdleIsJob == IsJob(Idle)
    BY DEF IsJob, Idle

LEMMA ContinueMoves ==
    ASSUME NEW p \in Process, NEW m, Continue(p, m)
    PROVE  NotPaying(p)
    <1>1. CASE waiting(p, m)
        BY <1>1, IdleIsJob DEF Continue, Rest, NotPaying, RocketPlace
    <1>2. CASE ~waiting(p, m)
        <2>1. IsJob(job[p]) => IsJob([job[p] EXCEPT !.mine = m, !.left = {}])
            BY DEF IsJob
        <2> QED  BY <1>2, <2>1 DEF Continue, Move, NotPaying, RocketPlace
    <1> QED  BY <1>1, <1>2

LEMMA AdvanceMoves ==
    ASSUME NEW p \in Process, StartCycle(p) \/ DropHead(p) \/ StartCountdown(p) \/ Launch(p)
    PROVE  NotPaying(p)
    <1>1. ASSUME StartCycle(p)  PROVE NotPaying(p)
        BY <1>1, ContinueMoves, IdleIsJob DEF StartCycle, Rest, NotPaying, RocketPlace
    <1>2. ASSUME DropHead(p)  PROVE NotPaying(p)
        BY <1>2, ContinueMoves, IdleIsJob DEF DropHead
    <1>3. ASSUME StartCountdown(p)  PROVE NotPaying(p)
        BY <1>3, ContinueMoves, IdleIsJob DEF StartCountdown, Rest, NotPaying, RocketPlace
    <1>4. ASSUME Launch(p)  PROVE NotPaying(p)
        BY <1>4, ContinueMoves, IdleIsJob DEF Launch, Rest, NotPaying, RocketPlace
    <1> QED  BY <1>1, <1>2, <1>3, <1>4

LEMMA AddMoves ==
    ASSUME NEW q \in Process, AddInc(q) \/ AddPush(q) \/ AddFetch(q) \/ AddSnap(q)
    PROVE  NotPaying(q)
    <1>1. ASSUME AddInc(q) \/ AddPush(q)  PROVE NotPaying(q)
        BY <1>1 DEF AddInc, AddPush, Move, NotPaying, RocketPlace
    <1>2. ASSUME AddFetch(q) \/ AddSnap(q)  PROVE NotPaying(q)
        <2>1. IsJob(job[q]) => IsJob([job[q] EXCEPT !.mine = doc])
            BY DEF IsJob
        <2> QED  BY <1>2, <2>1, ContinueMoves DEF AddFetch, AddSnap, Move, NotPaying, RocketPlace
    <1> QED  BY <1>1, <1>2

LEMMA SweepMoves ==
    ASSUME SweepRead \/ ResetRead
    PROVE  NotPaying(Sweeper)
    <1>1. /\ IsJob([Idle EXCEPT !.mine = doc, !.levels = levels])
          /\ IsJob([Idle EXCEPT !.mine = doc, !.levels = levels, !.far = TRUE])
        BY IdleIsJob DEF IsJob
    <1> QED  BY <1>1 DEF SweepRead, ResetRead, Move, NotPaying, RocketPlace

LEMMA RocketElsewhere ==
    ASSUME (\E q \in Requests : RocketStep(q)) \/ Sweep
    PROVE  Elsewhere
    <1>1. Sweeper \in Process /\ Requests \subseteq Process
        BY DEF Process
    <1>2. \A p \in Process : NotPaying(p) => Elsewhere
        BY DEF NotPaying, Elsewhere
    <1>3. ASSUME NEW p \in Process, Fire(p) \/ Pay(p)  PROVE Elsewhere
        BY <1>3 DEF Fire, Pay, Move, Elsewhere, RocketPlace
    <1>4. \A p \in Process : Advance(p) => Elsewhere
        BY <1>2, <1>3, AdvanceMoves DEF Advance
    <1> QED  BY <1>1, <1>2, <1>4, AddMoves, SweepMoves DEF RocketStep, Sweep

LEMMA InitPaid == Init => PaidInv
    BY DEF Init, RocketInit, PaidInv, Process, Owing, Recorded, Place, RocketPlace

\* Steps of the rocket, of the clock, of the admin of the rocket, and crashes.
LEMMA RocketKeepsPaid ==
    ASSUME PaidInv, UNCHANGED giftVars,
           \/ \E q \in Requests : RocketStep(q)
           \/ Sweep \/ Ripen \/ NextDay \/ UpdateConfig \/ Crash
    PROVE  PaidInv'
    <1> USE DEF PaidInv, giftVars, Owing, Recorded, Place, RocketPlace
    <1>1. CASE Elsewhere
        <2>1. PICK p \in Process, l \in RocketPlace : pc' = [pc EXCEPT ![p] = l]
            BY <1>1 DEF Elsewhere
        <2>2. pc' \in [Process -> Place]
            BY <2>1
        <2>3. \A q \in Requests : pc'[q] \in Owing => pc'[q] = pc[q]
            BY <2>1 DEF Process
        <2> QED  BY <2>2, <2>3
    <1>2. CASE Ripen \/ NextDay \/ UpdateConfig
        BY <1>2 DEF Ripen, NextDay, UpdateConfig
    <1>3. CASE Crash
        <2>1. pc' = [p \in Process |-> IF p # Sweeper /\ pc[p] # "idle" THEN "done" ELSE "idle"]
            BY <1>3 DEF Crash
        <2> QED  BY <2>1 DEF Process
    <1> QED  BY <1>1, <1>2, <1>3, RocketElsewhere

\* A step of a send.
LEMMA SendKeepsPaid ==
    ASSUME PaidInv, NEW q \in Requests, (\E c \in Calls : SendGift(q, c)) \/ GiftStep(q)
    PROVE  PaidInv'
    <1> USE DEF PaidInv, Owing, Recorded, GoTo, Place, RocketPlace
    <1>1. q \in Process
        BY DEF Process
    <1>2. ASSUME NEW c \in Calls, SendGift(q, c)  PROVE PaidInv'
        <2>1. /\ pc' = [pc EXCEPT ![q] = "giftTransfer"] /\ ask' = [ask EXCEPT ![q] = c]
              /\ UNCHANGED <<events, transfers, erased>>
            BY <1>2 DEF SendGift
        <2>2. \A r \in Requests : pc'[r] \in Owing => r # q /\ pc'[r] = pc[r] /\ ask'[r] = ask[r]
            BY <1>1, <2>1 DEF Process
        <2> QED  BY <1>1, <2>1, <2>2
    <1>3. CASE TransferFind(q)
        BY <1>1, <1>3 DEF TransferFind, giftVars, Process
    <1>4. CASE TransferPay(q)
        BY <1>1, <1>4 DEF TransferPay, Process
    <1>5. CASE CreateEvent(q)
        BY <1>1, <1>5 DEF CreateEvent, Process
    <1>6. CASE CountSent(q)
        BY <1>1, <1>6 DEF CountSent, Process
    <1>7. CASE Fuel(q)
        <2>1. PICK l \in {"addInc", "done"} : pc' = [pc EXCEPT ![q] = l]
            BY <1>7 DEF Fuel, AddEnergy, Move
        <2>2. UNCHANGED giftVars
            BY <1>7 DEF Fuel
        <2> QED  BY <1>1, <2>1, <2>2 DEF giftVars, Process
    <1> QED  BY <1>2, <1>3, <1>4, <1>5, <1>6, <1>7 DEF GiftStep

\* A step of the admin of the catalogue.
LEMMA AdminKeepsPaid ==
    ASSUME PaidInv, SoftDelete \/ Purge \/ ForcePurge \/ ForceDeleteEvents \/ DeleteGift
    PROVE  PaidInv'
    BY DEF PaidInv, SoftDelete, Purge, ForcePurge, AdminStart, ForceDeleteEvents,
           DeleteGift, rocketVars, Owing, Recorded

LEMMA NextPaid == PaidInv /\ [Next]_giftsVars => PaidInv'
    <1>1. ASSUME PaidInv, UNCHANGED giftsVars  PROVE PaidInv'
        BY <1>1 DEF PaidInv, giftsVars, giftVars, rocketVars
    <1> QED  BY <1>1, RocketKeepsPaid, SendKeepsPaid, AdminKeepsPaid DEF Next

\* However sends are retried, overlap, crash and meet a purge, a gift event stands
\* for coins that moved under its key, and a send past its event has one.
THEOREM EventsPaid == Spec => []EventsArePaid
    <1>1. PaidInv => EventsArePaid
        BY DEF PaidInv, EventsArePaid, Owing, Recorded
    <1> QED  BY <1>1, InitPaid, NextPaid, PTL DEF Spec

------------------------------------------------------------------------------
\* The winners of a launch.

\* Whoever pays a launch has paid each of its winners, has been refused, or has still
\* to pay, whatever has become of the document meanwhile.
Settled == paid \cup refused

PayInv ==
    /\ pc \in [Process -> Place]
    /\ DOMAIN job = Process /\ \A p \in Process : IsJob(job[p])
    /\ \E S : launches \in Seq(S)
    /\ WinnersPaid
    /\ \A p \in Process : pc[p] = "pay" => keys(job[p].mine.pending) \subseteq Settled \cup job[p].left

LEMMA InitPay == Init => PayInv
    <1> SUFFICES ASSUME Init  PROVE PayInv
        OBVIOUS
    <1>1. launches = <<>> /\ <<>> \in Seq({}) /\ DOMAIN launches = {}
        BY DEF Init, RocketInit
    <1> QED  BY <1>1, IdleIsJob DEF Init, RocketInit, PayInv, WinnersPaid, Settled, due, Process, Place, RocketPlace

\* Where nobody pays and nothing is launched, nothing changes.
LEMMA NotPayingKeepsPay ==
    ASSUME PayInv, NEW p \in Process, NotPaying(p), UNCHANGED <<paid, refused, launches>>
    PROVE  PayInv'
    <1>1. PICK l, j :
             /\ l \in RocketPlace \ {"pay"}
             /\ pc' = [pc EXCEPT ![p] = l] /\ job' = [job EXCEPT ![p] = j]
             /\ IsJob(job[p]) => IsJob(j)
        BY DEF NotPaying
    <1>2. /\ pc' \in [Process -> Place] /\ DOMAIN job' = Process
          /\ \A q \in Process : IsJob(job'[q])
        BY <1>1 DEF PayInv, Place
    <1>3. \A q \in Process : pc'[q] = "pay" => pc[q] = "pay" /\ job'[q] = job[q]
        BY <1>1 DEF PayInv
    <1>4. WinnersPaid'
        BY DEF PayInv, WinnersPaid, due
    <1>5. \A q \in Process : pc'[q] = "pay" =>
             keys(job'[q].mine.pending) \subseteq Settled' \cup job'[q].left
        BY <1>3 DEF PayInv, Settled
    <1> QED  BY <1>2, <1>4, <1>5 DEF PayInv

\* A launch is recorded when nobody is left to pay.
LEMMA LaunchKeepsPay ==
    ASSUME PayInv, NEW p \in Process, Launch(p)
    PROVE  PayInv'
    <1> DEFINE pending == job[p].mine.pending
    <1>1. pc[p] = "pay" /\ job[p].left = {} /\ paid' = paid /\ refused' = refused
        BY DEF Launch, AtRocket
    <1>2. CASE launches' = launches
        BY <1>1, <1>2, AdvanceMoves, NotPayingKeepsPay
    <1>3. CASE launches' = Append(launches, pending)
        <2>1. PICK S : launches \in Seq(S)
            BY DEF PayInv
        <2> DEFINE T == S \cup {pending}
        <2>2. launches \in Seq(T) /\ pending \in T
            BY <2>1
        <2> HIDE DEF T, pending
        <2>3. /\ launches' \in Seq(T)
              /\ \A i \in DOMAIN launches' :
                    launches'[i] = pending \/ \E k \in DOMAIN launches : launches'[i] = launches[k]
            <3>1. /\ Len(launches') = Len(launches) + 1 /\ Len(launches) \in Nat
                  /\ launches'[Len(launches) + 1] = pending
                  /\ \A i \in 1 .. Len(launches) : launches'[i] = launches[i]
                  /\ launches' \in Seq(T)
                BY <1>3, <2>2
            <3>2. DOMAIN launches' = 1 .. Len(launches) + 1 /\ DOMAIN launches = 1 .. Len(launches)
                BY <2>2, <3>1
            <3>3. \A i \in 1 .. Len(launches) + 1 : i \in 1 .. Len(launches) \/ i = Len(launches) + 1
                BY <3>1
            <3> QED  BY <3>1, <3>2, <3>3
        <2>4. keys(pending) \subseteq Settled
            BY <1>1 DEF PayInv, pending
        <2>5. \A k \in DOMAIN launches : keys(launches[k]) \subseteq Settled
            BY DEF PayInv, WinnersPaid, Settled, due
        <2>6. \A i \in DOMAIN launches' : keys(launches'[i]) \subseteq Settled
            BY <2>3, <2>4, <2>5
        <2>7. WinnersPaid'
            BY <1>1, <2>6 DEF WinnersPaid, Settled, due, keys
        <2>8. PICK l, j :
                 /\ l \in RocketPlace \ {"pay"}
                 /\ pc' = [pc EXCEPT ![p] = l] /\ job' = [job EXCEPT ![p] = j]
                 /\ IsJob(job[p]) => IsJob(j)
            BY AdvanceMoves DEF NotPaying
        <2>9. \A q \in Process : pc'[q] = "pay" => pc[q] = "pay" /\ job'[q] = job[q]
            BY <2>8 DEF PayInv
        <2>10. /\ pc' \in [Process -> Place] /\ DOMAIN job' = Process
               /\ \A q \in Process : IsJob(job'[q])
            BY <2>8 DEF PayInv, Place
        <2>11. \A q \in Process : pc'[q] = "pay" =>
                 keys(job'[q].mine.pending) \subseteq Settled' \cup job'[q].left
            BY <1>1, <2>9 DEF PayInv, Settled
        <2> QED  BY <2>3, <2>7, <2>10, <2>11 DEF PayInv
    <1> QED  BY <1>2, <1>3 DEF Launch

\* The first step of a payment owes every winner; each credit pays one.
LEMMA PaymentKeepsPay ==
    ASSUME PayInv, NEW p \in Process, Fire(p) \/ Pay(p)
    PROVE  PayInv'
    <1>1. /\ Settled \subseteq Settled' /\ launches' = launches
        BY DEF Fire, Pay, docVars, Settled
    <1>2. WinnersPaid'
        BY <1>1 DEF PayInv, WinnersPaid, Settled, due
    <1>3. PICK left :
             /\ pc' = [pc EXCEPT ![p] = "pay"]
             /\ job' = [job EXCEPT ![p] = [job[p] EXCEPT !.left = left]]
             /\ keys(job[p].mine.pending) \subseteq Settled' \cup left
        <2>1. CASE Fire(p)
            BY <2>1 DEF Fire, Move
        <2>2. CASE Pay(p)
            <3>1. pc[p] = "pay" /\ keys(job[p].mine.pending) \subseteq Settled \cup job[p].left
                BY <2>2 DEF Pay, AtRocket, PayInv
            <3>2. PICK k \in job[p].left :
                     /\ Settled' = Settled \cup {k}
                     /\ pc' = [pc EXCEPT ![p] = "pay"]
                     /\ job' = [job EXCEPT ![p] = [job[p] EXCEPT !.left = job[p].left \ {k}]]
                BY <2>2 DEF Pay, Move, Settled
            <3> QED  BY <3>1, <3>2
        <2> QED  BY <2>1, <2>2
    <1>4. IsJob(job[p]) /\ DOMAIN job = Process
        BY DEF PayInv
    <1>5. /\ job'[p].mine = job[p].mine /\ job'[p].left = left
          /\ IsJob(job'[p])
        BY <1>3, <1>4 DEF IsJob
    <1>6. \A q \in Process \ {p} : pc'[q] = pc[q] /\ job'[q] = job[q]
        BY <1>3, <1>4 DEF PayInv
    <1>7. /\ pc' \in [Process -> Place] /\ DOMAIN job' = Process
          /\ \A q \in Process : IsJob(job'[q])
        BY <1>3, <1>5, <1>6 DEF PayInv, Place, RocketPlace
    <1>8. keys(job'[p].mine.pending) \subseteq Settled' \cup job'[p].left
        BY <1>3, <1>5
    <1>9. \A q \in Process : pc'[q] = "pay" =>
             keys(job'[q].mine.pending) \subseteq Settled' \cup job'[q].left
        BY <1>1, <1>6, <1>8 DEF PayInv
    <1> QED  BY <1>1, <1>2, <1>7, <1>9 DEF PayInv

\* The clock, the admin, a crash, the catalogue and the sends.
LEMMA OthersKeepPay ==
    ASSUME PayInv,
           \/ \E q \in Requests : (\E c \in Calls : SendGift(q, c)) \/ GiftStep(q)
           \/ Ripen \/ NextDay \/ UpdateConfig \/ Crash
           \/ SoftDelete \/ Purge \/ ForcePurge \/ ForceDeleteEvents \/ DeleteGift
           \/ UNCHANGED giftsVars
    PROVE  PayInv'
    <1>1. paid' = paid /\ refused' = refused /\ launches' = launches
        BY DEF SendGift, GiftStep, TransferFind, TransferPay, CreateEvent, CountSent, Fuel,
               AddEnergy, GoTo, Ripen, NextDay, UpdateConfig, Crash, SoftDelete, Purge,
               ForcePurge, AdminStart, ForceDeleteEvents, DeleteGift, giftsVars, giftVars,
               rocketVars, docVars
    <1>2. CASE \E q, l, j :
                  /\ q \in Process /\ l \in Place \ {"pay"}
                  /\ pc' = [pc EXCEPT ![q] = l] /\ job' = [job EXCEPT ![q] = j]
                  /\ IsJob(job[q]) => IsJob(j)
        <2>1. PICK q, l, j :
                  /\ q \in Process /\ l \in Place \ {"pay"}
                  /\ pc' = [pc EXCEPT ![q] = l] /\ job' = [job EXCEPT ![q] = j]
                  /\ IsJob(job[q]) => IsJob(j)
            BY <1>2
        <2>2. \A r \in Process : pc'[r] = "pay" => pc[r] = "pay" /\ job'[r] = job[r]
            BY <2>1 DEF PayInv
        <2>3. /\ pc' \in [Process -> Place] /\ DOMAIN job' = Process
              /\ \A r \in Process : IsJob(job'[r])
            BY <2>1 DEF PayInv
        <2> QED  BY <1>1, <2>2, <2>3 DEF PayInv, WinnersPaid, Settled, due
    <1>3. CASE pc' = pc /\ job' = job
        BY <1>1, <1>3 DEF PayInv, WinnersPaid, Settled, due
    <1>4. CASE Crash
        <2>1. /\ pc' = [p \in Process |-> IF p # Sweeper /\ pc[p] # "idle" THEN "done" ELSE "idle"]
              /\ job' = [p \in Process |-> IF pc[p] = "idle" THEN job[p] ELSE Idle]
            BY <1>4 DEF Crash
        <2>2. /\ pc' \in [Process -> Place] /\ \A p \in Process : pc'[p] # "pay"
              /\ DOMAIN job' = Process /\ \A p \in Process : IsJob(job'[p])
            BY <2>1, IdleIsJob DEF PayInv, Place, RocketPlace
        <2> QED  BY <1>1, <2>2 DEF PayInv, WinnersPaid, Settled, due
    <1>5. ASSUME NEW q \in Requests, NEW l \in Place \ {"pay"}, GoTo(q, l)
          PROVE  PayInv'
        <2>1. pc' = [pc EXCEPT ![q] = l] /\ job' = job /\ q \in Process
            BY <1>5 DEF GoTo, Process
        <2>2. \A r \in Process : pc'[r] = "pay" => pc[r] = "pay"
            BY <2>1 DEF PayInv
        <2>3. pc' \in [Process -> Place]
            BY <2>1 DEF PayInv
        <2> QED  BY <1>1, <2>1, <2>2, <2>3 DEF PayInv, WinnersPaid, Settled, due
    <1>6. ASSUME NEW q \in Requests, (\E c \in Calls : SendGift(q, c)) \/ GiftStep(q)
          PROVE  PayInv'
        <2>1. ASSUME NEW c \in Calls, SendGift(q, c)  PROVE PayInv'
            BY <1>5, <2>1 DEF SendGift, Place
        <2>2. ASSUME TransferFind(q) \/ TransferPay(q) \/ CreateEvent(q) \/ CountSent(q)
              PROVE  PayInv'
            BY <1>5, <2>2 DEF TransferFind, TransferPay, CreateEvent, CountSent, Place, RocketPlace
        <2>3. ASSUME Fuel(q), ~GoTo(q, "done")  PROVE PayInv'
            <3>1. PICK u, n : Move(q, "addInc", [Idle EXCEPT !.user = u, !.fuel = n, !.levels = levels])
                BY <2>3 DEF Fuel, AddEnergy
            <3>2. IsJob([Idle EXCEPT !.user = u, !.fuel = n, !.levels = levels])
                BY IdleIsJob DEF IsJob
            <3> QED  BY <1>2, <3>1, <3>2 DEF Move, Place, RocketPlace, Process
        <2> QED  BY <1>5, <1>6, <2>1, <2>2, <2>3 DEF GiftStep, Place, RocketPlace
    <1>7. ASSUME \/ Ripen \/ NextDay \/ UpdateConfig \/ UNCHANGED giftsVars
                 \/ SoftDelete \/ Purge \/ ForcePurge \/ ForceDeleteEvents \/ DeleteGift
          PROVE  pc' = pc /\ job' = job
        BY <1>7 DEF Ripen, NextDay, UpdateConfig, SoftDelete, Purge, ForcePurge, AdminStart,
                    ForceDeleteEvents, DeleteGift, giftsVars, rocketVars
    <1> QED  BY <1>3, <1>4, <1>6, <1>7

LEMMA NextPay == PayInv /\ [Next]_giftsVars => PayInv'
    <1> SUFFICES ASSUME PayInv, [Next]_giftsVars  PROVE PayInv'
        OBVIOUS
    <1>1. Sweeper \in Process /\ Requests \subseteq Process
        BY DEF Process
    <1>2. ASSUME NEW p \in Process, Advance(p)  PROVE PayInv'
        <2>1. ASSUME StartCycle(p) \/ DropHead(p) \/ StartCountdown(p)  PROVE PayInv'
            <3>1. UNCHANGED <<paid, refused, launches>>
                BY <2>1 DEF StartCycle, DropHead, StartCountdown
            <3> QED  BY <2>1, <3>1, AdvanceMoves, NotPayingKeepsPay
        <2> QED  BY <1>2, <2>1, LaunchKeepsPay, PaymentKeepsPay DEF Advance
    <1>3. ASSUME NEW q \in Process, AddInc(q) \/ AddPush(q) \/ AddFetch(q) \/ AddSnap(q)
          PROVE  PayInv'
        <2>1. UNCHANGED <<paid, refused, launches>>
            BY <1>3 DEF AddInc, AddPush, AddFetch, AddSnap, docVars
        <2> QED  BY <1>3, <2>1, AddMoves, NotPayingKeepsPay
    <1>4. ASSUME SweepRead \/ ResetRead  PROVE PayInv'
        <2>1. UNCHANGED <<paid, refused, launches>>
            BY <1>4 DEF SweepRead, ResetRead, docVars
        <2> QED  BY <1>1, <1>4, <2>1, SweepMoves, NotPayingKeepsPay
    <1> QED  BY <1>1, <1>2, <1>3, <1>4, OthersKeepPay DEF Next, RocketStep, Sweep

\* However many drivers race, with stale copies, crashes in the middle of the
\* payments and edits of the levels: no launch is recorded before the credit of every
\* winner of its snapshot was made or, caught and never retried, refused.
THEOREM LaunchedIsPaid == Spec => []WinnersPaid
    BY InitPay, NextPay, PTL DEF Spec, PayInv

------------------------------------------------------------------------------
\* What the fuel of a document covers: the recursion over the fuel, without induction.

Confs == (SUBSET Levels) \ {{}}

LEMMA LevelFacts ==
    /\ Levels \subseteq Nat \ {0} /\ IsFiniteSet(Levels)
    /\ \A l \in Levels : energyRequired[l] \in Nat \ {0}
    BY RocketAssumption

LEMMA FuelTaken ==
    \A l \in Levels : /\ energyRequired[l] \in Nat /\ energyRequired[l] \in Int
                      /\ energyRequired[l] > 0
    BY LevelFacts

LEMMA LowestIn ==
    ASSUME NEW conf \in SUBSET Levels, conf # {}
    PROVE  Min(conf) \in conf
    <1>1. IsFiniteSet(Levels) /\ conf \subseteq Int
        BY LevelFacts
    <1>0. IsFiniteSet(conf)
        BY <1>1, FS_Subset
    <1>2. \E m \in conf : \A x \in conf : m <= x
        BY <1>0, <1>1, LeastElement
    <1> QED  BY <1>2 DEF Min

\* The sets of levels a request may have read.
LEMMA ConfsFacts == \A conf \in Confs : conf \in SUBSET Levels /\ conf # {} /\ Min(conf) \in conf
    <1> SUFFICES ASSUME NEW conf \in Confs  PROVE conf \in SUBSET Levels /\ conf # {} /\ Min(conf) \in conf
        OBVIOUS
    <1>1. conf \in SUBSET Levels /\ conf # {}
        BY DEF Confs
    <1> QED  BY <1>1, LowestIn

LEMMA NextIn ==
    ASSUME NEW conf \in Confs, NEW l \in Levels
    PROVE  nextLevelNumber(conf, l) \in conf
    <1> DEFINE above == {k \in conf : k > l}
    <1>1. above # {} => Min(above) \in above
        <2>1. above \in SUBSET Levels
            BY DEF Confs
        <2> HIDE DEF above
        <2> QED  BY <2>1, LowestIn
    <1>2. Min(conf) \in conf
        BY ConfsFacts
    <1> QED  BY <1>1, <1>2 DEF nextLevelNumber, lowest

LEMMA EnsureIn ==
    ASSUME NEW conf \in Confs, NEW l
    PROVE  ensureValidLevel(conf, l) \in conf
    <1>1. Min(conf) \in conf
        BY ConfsFacts
    <1> QED  BY <1>1 DEF ensureValidLevel, lowest

\* One turn of the loop that spends the fuel n, given what the rest of it covers.
Turn(A, n) ==
    [c \in Confs |-> [l \in Levels |->
        IF n < energyRequired[l] THEN [queue |-> <<>>, level |-> l, energy |-> n]
        ELSE LET rest == A[n - energyRequired[l]][c][nextLevelNumber(c, l)] IN
             [rest EXCEPT !.queue = <<l>> \o @]]]

\* A solves the recursion up to n.
Solves(A, n) == A = [k \in 0 .. n |-> Turn(A, k)]

LEMMA TurnsAgree ==
    ASSUME NEW n \in Nat, NEW A, NEW B, \A k \in 0 .. (n - 1) : A[k] = B[k]
    PROVE  Turn(A, n) = Turn(B, n)
    <1>1. ASSUME NEW l \in Levels, ~(n < energyRequired[l])
          PROVE  A[n - energyRequired[l]] = B[n - energyRequired[l]]
        BY <1>1, LevelFacts
    <1> QED  BY <1>1 DEF Turn

LEMMA SolutionExists ==
    ASSUME NEW n \in Nat
    PROVE  \E A : Solves(A, n)
    <1> DEFINE G == {k \in 0 .. n : \E A : Solves(A, k)}
    <1>1. 0 \in G
        <2> DEFINE A == [k \in 0 .. 0 |-> Turn(<<>>, 0)]
        <2>1. Turn(A, 0) = Turn(<<>>, 0)
            <3> HIDE DEF A
            <3> QED  BY TurnsAgree
        <2>2. Solves(A, 0)
            BY <2>1 DEF Solves
        <2> QED  BY <2>2
    <1>2. ASSUME NEW k \in 0 .. (n - 1), k \in G  PROVE k + 1 \in G
        <2>1. PICK A : Solves(A, k)
            BY <1>2
        <2> DEFINE B == [i \in 0 .. (k + 1) |-> Turn(A, i)]
        <2>2. \A i \in 0 .. k : A[i] = Turn(A, i)
            BY <2>1 DEF Solves
        <2>3. \A i \in 0 .. k : B[i] = A[i]
            BY <2>2
        <2>4. \A i \in 0 .. (k + 1) : Turn(A, i) = Turn(B, i)
            <3> HIDE DEF B
            <3> QED  BY <2>3, TurnsAgree
        <2>5. Solves(B, k + 1)
            BY <2>4 DEF Solves
        <2>6. k + 1 \in 0 .. n
            OBVIOUS
        <2> QED  BY <2>5, <2>6
    <1>3. n \in G
        <2> HIDE DEF G
        <2> QED  BY <1>1, <1>2, InductionUpTo
    <1> QED  BY <1>3

LEMMA SolutionsAgree ==
    ASSUME NEW n \in Nat, NEW m \in Nat, NEW A, Solves(A, n), NEW B, Solves(B, m),
           NEW i \in Nat, i <= n, i <= m
    PROVE  \A k \in 0 .. i : A[k] = B[k]
    <1> DEFINE G == {j \in 0 .. i : \A k \in 0 .. j : A[k] = B[k]}
    <1>1. \A k \in 0 .. i : A[k] = Turn(A, k) /\ B[k] = Turn(B, k)
        <2>1. /\ \A k \in 0 .. n : A[k] = Turn(A, k)
              /\ \A k \in 0 .. m : B[k] = Turn(B, k)
            BY DEF Solves
        <2> QED  BY <2>1
    <1>2. 0 \in G
        <2>1. Turn(A, 0) = Turn(B, 0)
            BY TurnsAgree
        <2> QED  BY <1>1, <2>1
    <1>3. ASSUME NEW j \in 0 .. (i - 1), j \in G  PROVE j + 1 \in G
        <2>1. Turn(A, j + 1) = Turn(B, j + 1)
            BY <1>3, TurnsAgree
        <2>2. A[j + 1] = B[j + 1]
            BY <1>1, <2>1
        <2> QED  BY <1>3, <2>2
    <1>4. i \in G
        <2> HIDE DEF G
        <2> QED  BY <1>2, <1>3, InductionUpTo
    <1> QED  BY <1>4

\* The recursive function is what its definition says.
LEMMA AffordableTurns == \A n \in Nat : affordable[n] = Turn(affordable, n)
    <1> DEFINE S(n) == CHOOSE A : Solves(A, n)
               F == [n \in Nat |-> S(n)[n]]
    <1>1. \A n \in Nat : Solves(S(n), n)
        BY SolutionExists
    <1> HIDE DEF S
    <1>2. ASSUME NEW n \in Nat  PROVE F[n] = Turn(F, n)
        <2>1. S(n)[n] = Turn(S(n), n)
            <3>1. Solves(S(n), n)
                BY <1>1
            <3> QED  BY <3>1 DEF Solves
        <2>2. \A k \in 0 .. (n - 1) : S(n)[k] = F[k]
            <3> SUFFICES ASSUME NEW k \in 0 .. (n - 1)  PROVE S(n)[k] = F[k]
                OBVIOUS
            <3>1. S(n)[k] = S(k)[k]
                BY <1>1, SolutionsAgree
            <3> QED  BY <3>1
        <2> HIDE DEF F
        <2>3. Turn(S(n), n) = Turn(F, n)
            BY <2>2, TurnsAgree
        <2>4. F[n] = S(n)[n]
            BY DEF F
        <2> QED  BY <2>1, <2>3, <2>4
    <1>3. F = [n \in Nat |-> Turn(F, n)]
        BY <1>2
    <1> HIDE DEF F
    <1>4. PICK A : A = CHOOSE B : B = [n \in Nat |-> Turn(B, n)]
        OBVIOUS
    <1>5. A = [n \in Nat |-> Turn(A, n)]
        BY <1>3, <1>4
    <1>6. affordable = A
        BY <1>4 DEF affordable, Turn, Confs
    <1> QED  BY <1>5, <1>6

------------------------------------------------------------------------------
\* What levels took and what gifts gave, as sums.

------------------------------------------------------------------------------
\* The folds over sequences are sums over their indices.

LEMMA GreatestIn ==
    ASSUME NEW n \in Nat, NEW S \in SUBSET (1 .. n), S # {}
    PROVE  Max(S) \in S
    <1> DEFINE T == {n - x : x \in S}
    <1>0. \A x \in S : n - x \in 0 .. n /\ n - x \in Int
        OBVIOUS
    <1>1. T \subseteq 0 .. n /\ T \subseteq Int /\ T # {}
        <2>1. PICK e \in S : TRUE
            OBVIOUS
        <2>2. n - e \in T
            OBVIOUS
        <2> QED  BY <1>0, <2>2
    <1>2. IsFiniteSet(0 .. n)
        BY FS_Interval
    <1>3. IsFiniteSet(T)
        BY <1>1, <1>2, FS_Subset
    <1>4. \E m \in T : \A y \in T : m <= y
        <2> HIDE DEF T
        <2> QED  BY <1>1, <1>3, LeastElement
    <1>5. PICK z \in S : \A y \in T : n - z <= y
        BY <1>4
    <1>6. \A x \in S : z >= x
        <2> SUFFICES ASSUME NEW x \in S  PROVE z >= x
            OBVIOUS
        <2>1. n - z <= n - x
            BY <1>5
        <2>2. n \in Int /\ z \in Int /\ x \in Int
            OBVIOUS
        <2> HIDE DEF T
        <2> QED  BY <2>1, <2>2
    <1> HIDE DEF T
    <1> QED  BY <1>6 DEF Max

\* I solves the recursion of a fold over a sequence whose elements count as f says.
FoldsUp(I, f, n) ==
    I = [s \in SUBSET (1 .. n) |-> IF s = {} THEN 0 ELSE I[s \ {Max(s)}] + f[Max(s)]]

LEMMA OneCount ==
    ASSUME NEW n \in Nat, NEW f, \A i \in 1 .. n : f[i] \in Int, NEW A, Adds(A, f, 1 .. n)
    PROVE  \A I : FoldsUp(I, f, n) <=> I = A
    <1> DEFINE S == 1 .. n
    <1>1. \A s \in SUBSET S : s # {} => Max(s) \in s
        BY GreatestIn
    <1>2. IsFiniteSet(S)
        BY FS_Interval
    <1> HIDE DEF S
    <1>3. ASSUME NEW s \in SUBSET S, s # {}
          PROVE  /\ A[s] = A[s \ {Max(s)}] + f[Max(s)]
                 /\ s \ {Max(s)} \in SUBSET s /\ s \ {Max(s)} # s
        <2>1. PICK x \in s : x = Max(s)
            BY <1>1, <1>3
        <2>2. (s \ {x}) \cup {x} = s /\ x \notin s \ {x} /\ s \ {x} \in SUBSET S /\ x \in S
            BY <2>1
        <2>3. A[(s \ {x}) \cup {x}] = A[s \ {x}] + f[x]
            BY <2>2 DEF Adds, S
        <2> QED  BY <2>1, <2>2, <2>3
    <1>4. ASSUME NEW I, I = A  PROVE FoldsUp(I, f, n)
        <2>1. \A s \in SUBSET S : A[s] = IF s = {} THEN 0 ELSE A[s \ {Max(s)}] + f[Max(s)]
            BY <1>3 DEF Adds
        <2> QED  BY <1>4, <2>1 DEF Adds, FoldsUp, S
    <1>5. ASSUME NEW I, FoldsUp(I, f, n)  PROVE I = A
        <2> DEFINE G == {T \in SUBSET S : \A U \in SUBSET T : I[U] = A[U]}
        <2>1. \A s \in SUBSET S : I[s] = IF s = {} THEN 0 ELSE I[s \ {Max(s)}] + f[Max(s)]
            BY <1>5 DEF FoldsUp, S
        <2>2. ASSUME NEW T \in SUBSET S, \A U \in SUBSET T : U # T => U \in G
              PROVE  T \in G
            <3>1. \A U \in SUBSET T : U # T => I[U] = A[U]
                BY <2>2
            <3>2. I[T] = A[T]
                <4>1. CASE T = {}
                    <5>1. A[{}] = 0
                        BY DEF Adds
                    <5> QED  BY <2>1, <4>1, <5>1
                <4>2. CASE T # {}
                    <5> HIDE DEF G
                    <5>1. I[T \ {Max(T)}] = A[T \ {Max(T)}]
                        BY <1>3, <3>1, <4>2
                    <5> QED  BY <1>3, <2>1, <4>2, <5>1
                <4> QED  BY <4>1, <4>2
            <3> QED  BY <3>1, <3>2
        <2>3. S \in G
            <3> HIDE DEF G
            <3> QED  BY <1>2, <2>2, StrongSetInduction
        <2>4. \A s \in SUBSET S : I[s] = A[s]
            BY <2>3
        <2> QED  BY <2>4, <1>5 DEF FoldsUp, Adds, S
    <1> QED  BY <1>4, <1>5

LEMMA CountIsSum ==
    ASSUME NEW n \in Nat, NEW f, \A i \in 1 .. n : f[i] \in Int
    PROVE  (CHOOSE I : FoldsUp(I, f, n))[1 .. n] = SumFunctionOnSet(f, 1 .. n)
    <1>1. PICK S : S = 1 .. n
        OBVIOUS
    <1>2. IsFiniteSet(S)
        BY <1>1, FS_Interval
    <1>3. PICK A : Adds(A, f, S)
        BY <1>1, <1>2, AdderExists
    <1>4. SumFunctionOnSet(f, S) = A[S]
        BY <1>2, <1>3, SumAdds
    <1>5. \A I : FoldsUp(I, f, n) <=> I = A
        BY <1>1, <1>3, OneCount
    <1>6. (CHOOSE I : FoldsUp(I, f, n)) = A
        BY <1>5
    <1> QED  BY <1>1, <1>4, <1>6

Cost(s) == FoldLeft(LAMBDA n, l : n + energyRequired[l], 0, s)
Given(s) == FoldLeft(LAMBDA n, c : n + c.energy, 0, s)

Costs(s) == [i \in DOMAIN s |-> energyRequired[s[i]]]
Row == [userId : Users, energy : Nat \ {0}]
Energies(s) == [i \in DOMAIN s |-> s[i].energy]

LEMMA CostIsSum ==
    ASSUME NEW s \in Seq(Levels)
    PROVE  Cost(s) = SumFunctionOnSet(Costs(s), 1 .. Len(s))
    <1>0. PICK n \in Nat : n = Len(s) /\ DOMAIN s = 1 .. n
        OBVIOUS
    <1>1. \A i \in 1 .. n : s[i] \in Levels
        BY <1>0
    <1>2. \A i \in 1 .. n : Costs(s)[i] = energyRequired[s[i]] /\ Costs(s)[i] \in Int
        <2>1. \A i \in 1 .. n : energyRequired[s[i]] \in Int
            BY <1>1, FuelTaken
        <2> QED  BY <1>0, <2>1 DEF Costs
    <1>3. \A t \in SUBSET (1 .. n) : t # {} => Max(t) \in 1 .. n
        BY GreatestIn
    <1>4. \A I : FoldsUp(I, Costs(s), n) <=>
             I = [t \in SUBSET DOMAIN s |-> IF t = {} THEN 0
                    ELSE I[t \ {Max(t)}] + energyRequired[s[Max(t)]]]
        <2>1. \A t \in SUBSET (1 .. n) : t # {} => Costs(s)[Max(t)] = energyRequired[s[Max(t)]]
            BY <1>2, <1>3
        <2> QED  BY <1>0, <2>1 DEF FoldsUp
    <1>5. (CHOOSE I : FoldsUp(I, Costs(s), n)) =
             (CHOOSE I : I = [t \in SUBSET DOMAIN s |-> IF t = {} THEN 0
                    ELSE I[t \ {Max(t)}] + energyRequired[s[Max(t)]]])
        BY <1>4
    <1>6. Cost(s) = (CHOOSE I : I = [t \in SUBSET DOMAIN s |-> IF t = {} THEN 0
                    ELSE I[t \ {Max(t)}] + energyRequired[s[Max(t)]]])[DOMAIN s]
        BY DEF Cost, FoldLeft, MapThenFoldSet
    <1>7. (CHOOSE I : FoldsUp(I, Costs(s), n))[1 .. n] = SumFunctionOnSet(Costs(s), 1 .. n)
        BY <1>2, CountIsSum
    <1> QED  BY <1>0, <1>5, <1>6, <1>7

LEMMA GivenIsSum ==
    ASSUME NEW s \in Seq(Row)
    PROVE  Given(s) = SumFunctionOnSet(Energies(s), 1 .. Len(s))
    <1>0. PICK n \in Nat : n = Len(s) /\ DOMAIN s = 1 .. n
        OBVIOUS
    <1>1. \A i \in 1 .. n : s[i] \in Row
        BY <1>0
    <1>2. \A i \in 1 .. n : Energies(s)[i] = s[i].energy /\ Energies(s)[i] \in Int
        <2>1. \A i \in 1 .. n : s[i].energy \in Int
            BY <1>1 DEF Row
        <2> QED  BY <1>0, <2>1 DEF Energies
    <1>3. \A t \in SUBSET (1 .. n) : t # {} => Max(t) \in 1 .. n
        BY GreatestIn
    <1>4. \A I : FoldsUp(I, Energies(s), n) <=>
             I = [t \in SUBSET DOMAIN s |-> IF t = {} THEN 0
                    ELSE I[t \ {Max(t)}] + s[Max(t)].energy]
        <2>1. \A t \in SUBSET (1 .. n) : t # {} => Energies(s)[Max(t)] = s[Max(t)].energy
            BY <1>2, <1>3
        <2> QED  BY <1>0, <2>1 DEF FoldsUp
    <1>5. (CHOOSE I : FoldsUp(I, Energies(s), n)) =
             (CHOOSE I : I = [t \in SUBSET DOMAIN s |-> IF t = {} THEN 0
                    ELSE I[t \ {Max(t)}] + s[Max(t)].energy])
        BY <1>4
    <1>6. Given(s) = (CHOOSE I : I = [t \in SUBSET DOMAIN s |-> IF t = {} THEN 0
                    ELSE I[t \ {Max(t)}] + s[Max(t)].energy])[DOMAIN s]
        BY DEF Given, FoldLeft, MapThenFoldSet
    <1>7. (CHOOSE I : FoldsUp(I, Energies(s), n))[1 .. n] = SumFunctionOnSet(Energies(s), 1 .. n)
        BY <1>2, CountIsSum
    <1> QED  BY <1>0, <1>5, <1>6, <1>7

LEMMA SumLonger ==
    ASSUME NEW n \in Nat, NEW f, NEW g, \A i \in 1 .. n : f[i] = g[i],
           \A i \in 1 .. (n + 1) : g[i] \in Int
    PROVE  SumFunctionOnSet(g, 1 .. (n + 1)) = SumFunctionOnSet(f, 1 .. n) + g[n + 1]
    <1>1. PICK S : S = 1 .. n
        OBVIOUS
    <1>2. IsFiniteSet(S)
        BY <1>1, FS_Interval
    <1>3. S \cup {n + 1} = 1 .. (n + 1) /\ n + 1 \notin S
        BY <1>1
    <1>4. \A i \in S : g[i] \in Int /\ f[i] = g[i]
        BY <1>1, <1>3
    <1>5. SumFunctionOnSet(g, S) = SumFunctionOnSet(f, S)
        BY <1>2, <1>4, SumSame
    <1>6. SumFunctionOnSet(g, S \cup {n + 1}) = SumFunctionOnSet(g, S) + g[n + 1]
        <2>1. \A y \in S \cup {n + 1} : g[y] \in Int
            BY <1>3
        <2>2. PICK x : x = n + 1
            OBVIOUS
        <2>3. SumFunctionOnSet(g, S \cup {x}) = SumFunctionOnSet(g, S) + g[x]
            BY <1>2, <1>3, <2>1, <2>2, SumAddElement
        <2> QED  BY <2>2, <2>3
    <1> QED  BY <1>1, <1>3, <1>5, <1>6

LEMMA SumOverIndices ==
    ASSUME NEW n \in Nat, NEW f, \A i \in 1 .. n : f[i] \in Nat
    PROVE  SumFunctionOnSet(f, 1 .. n) \in Nat
    <1>1. PICK S : S = 1 .. n
        OBVIOUS
    <1>2. IsFiniteSet(S)
        BY <1>1, FS_Interval
    <1> QED  BY <1>1, <1>2, SumPart

LEMMA CostAppend ==
    ASSUME NEW s \in Seq(Levels), NEW l \in Levels
    PROVE  Cost(Append(s, l)) = Cost(s) + energyRequired[l] /\ Cost(s) \in Nat
    <1>0. PICK n \in Nat : n = Len(s) /\ DOMAIN s = 1 .. n
        OBVIOUS
    <1>9. Append(s, l) \in Seq(Levels)
        OBVIOUS
    <1>1. PICK t \in Seq(Levels) : t = Append(s, l)
        BY <1>9
    <1>2. /\ Len(t) = n + 1 /\ DOMAIN t = 1 .. (n + 1) /\ t[n + 1] = l
          /\ \A i \in 1 .. n : t[i] = s[i]
        BY <1>0, <1>1
    <1>3. \A i \in 1 .. (n + 1) : t[i] \in Levels
        BY <1>2
    <1>4. \A i \in 1 .. (n + 1) : Costs(t)[i] = energyRequired[t[i]]
        BY <1>2 DEF Costs
    <1>5. \A i \in 1 .. (n + 1) : Costs(t)[i] \in Int
        BY <1>3, <1>4, FuelTaken
    <1>6. \A i \in 1 .. n : Costs(s)[i] = Costs(t)[i] /\ Costs(s)[i] \in Nat
        <2>1. \A i \in 1 .. n : i \in 1 .. (n + 1)
            OBVIOUS
        <2>2. \A i \in 1 .. n : Costs(s)[i] = energyRequired[t[i]]
            BY <1>0, <1>2 DEF Costs
        <2> QED  BY <1>3, <1>4, <2>1, <2>2, FuelTaken
    <1>7. Cost(t) = Cost(s) + Costs(t)[n + 1]
        <2>1. Cost(s) = SumFunctionOnSet(Costs(s), 1 .. n)
            BY <1>0, CostIsSum
        <2>2. Cost(t) = SumFunctionOnSet(Costs(t), 1 .. (n + 1))
            BY <1>2, CostIsSum
        <2>3. \A i \in 1 .. n : Costs(s)[i] = Costs(t)[i]
            BY <1>6
        <2>4. SumFunctionOnSet(Costs(t), 1 .. (n + 1))
                  = SumFunctionOnSet(Costs(s), 1 .. n) + Costs(t)[n + 1]
            BY <1>0, <1>5, <2>3, SumLonger
        <2> QED  BY <2>1, <2>2, <2>4, Zenon
    <1>8. Cost(s) \in Nat
        BY <1>0, <1>6, CostIsSum, SumOverIndices
    <1> QED  BY <1>1, <1>2, <1>4, <1>7, <1>8

LEMMA CostEmpty == Cost(<<>>) = 0
    <1>0. <<>> \in Seq(Levels) /\ Len(<<>>) = 0 /\ 1 .. 0 = {}
        OBVIOUS
    <1>1. PICK s \in Seq(Levels) : s = <<>> /\ 1 .. Len(s) = {}
        BY <1>0
    <1>2. SumFunctionOnSet(Costs(s), {}) = 0
        BY SumEmpty
    <1> QED  BY <1>1, <1>2, CostIsSum

LEMMA CostType == \A s \in Seq(Levels) : Cost(s) \in Nat
    BY CostAppend, LevelFacts, RocketAssumption

LEMMA CostJoin ==
    ASSUME NEW s \in Seq(Levels), NEW t \in Seq(Levels)
    PROVE  Cost(s \o t) = Cost(s) + Cost(t)
    <1>0. PICK n \in Nat : n = Len(t) /\ DOMAIN t = 1 .. n
        OBVIOUS
    <1> DEFINE first(k) == SubSeq(t, 1, k)
               G == {k \in 0 .. n : Cost(s \o first(k)) = Cost(s) + Cost(first(k))}
    <1>1. \A k \in 0 .. n : first(k) \in Seq(Levels) /\ Len(first(k)) = k
        BY <1>0
    <1>2. first(0) = <<>> /\ first(n) = t /\ s \o <<>> = s
        BY <1>0
    <1>3. 0 \in G
        <2>1. Cost(s \o first(0)) = Cost(s) + Cost(first(0))
            <3> HIDE DEF first
            <3>1. Cost(s \o first(0)) = Cost(s) /\ Cost(first(0)) = 0
                BY <1>2, CostEmpty
            <3>2. Cost(s) \in Nat
                BY CostType
            <3> QED  BY <3>1, <3>2
        <2> QED  BY <2>1
    <1>4. ASSUME NEW k \in 0 .. (n - 1), k \in G  PROVE k + 1 \in G
        <2>1. k + 1 \in 1 .. n /\ t[k + 1] \in Levels
            BY <1>0
        <2>2. PICK l \in Levels, u \in Seq(Levels) : l = t[k + 1] /\ u = first(k) /\ Len(u) = k
            <3>1. first(k) \in Seq(Levels) /\ Len(first(k)) = k
                BY <1>1
            <3> HIDE DEF first
            <3> QED  BY <2>1, <3>1
        <2>3. first(k + 1) = Append(u, l)
            BY <1>0, <2>1, <2>2
        <2>4. s \o Append(u, l) = Append(s \o u, l) /\ s \o u \in Seq(Levels)
            OBVIOUS
        <2>5. Cost(s \o u) = Cost(s) + Cost(u)
            BY <1>4, <2>2
        <2> HIDE DEF first
        <2>6. Cost(Append(s \o u, l)) = Cost(s \o u) + energyRequired[l]
            BY <2>4, CostAppend
        <2>7. Cost(Append(u, l)) = Cost(u) + energyRequired[l]
            BY CostAppend
        <2>8. Cost(s) \in Nat /\ Cost(u) \in Nat /\ energyRequired[l] \in Nat
            BY CostType, LevelFacts
        <2>10. Cost(s \o first(k + 1)) = Cost(s \o u) + energyRequired[l]
            BY <2>3, <2>4, <2>6
        <2>11. Cost(first(k + 1)) = Cost(u) + energyRequired[l]
            BY <2>3, <2>7
        <2>9. Cost(s \o first(k + 1)) = Cost(s) + Cost(first(k + 1))
            BY <2>5, <2>8, <2>10, <2>11
        <2> QED  BY <2>1, <2>9
    <1>5. n \in G
        <2> HIDE DEF G
        <2> QED  BY <1>3, <1>4, InductionUpTo
    <1> QED  BY <1>2, <1>5

\* What a loop that spends fuel returns.
LEMMA SpentOnLevels ==
    ASSUME NEW n \in Nat
    PROVE  \A c \in Confs, l \in Levels :
              LET r == affordable[n][c][l] IN
              /\ r \in [queue : Seq(Levels), level : Levels, energy : Nat]
              /\ Cost(r.queue) + r.energy = n
              /\ n >= energyRequired[l] => r.queue # <<>>
    <1> DEFINE R == [queue : Seq(Levels), level : Levels, energy : Nat]
               Good(k) == \A c \in Confs, l \in Levels :
                             /\ affordable[k][c][l] \in R
                             /\ Cost(affordable[k][c][l].queue) + affordable[k][c][l].energy = k
                             /\ k >= energyRequired[l] => affordable[k][c][l].queue # <<>>
               G == {k \in 0 .. n : \A i \in 0 .. k : Good(i)}
    <1>1. ASSUME NEW k \in Nat, \A i \in 0 .. (k - 1) : Good(i)  PROVE Good(k)
        <2> SUFFICES ASSUME NEW c \in Confs, NEW l \in Levels
                     PROVE  /\ affordable[k][c][l] \in R
                            /\ Cost(affordable[k][c][l].queue) + affordable[k][c][l].energy = k
                            /\ k >= energyRequired[l] => affordable[k][c][l].queue # <<>>
            OBVIOUS
        <2> DEFINE e == energyRequired[l]
                   rest == affordable[k - e][c][nextLevelNumber(c, l)]
        <2>1. affordable[k][c][l] =
                 IF k < e THEN [queue |-> <<>>, level |-> l, energy |-> k]
                 ELSE [rest EXCEPT !.queue = <<l>> \o @]
            <3>1. affordable[k] = Turn(affordable, k)
                BY AffordableTurns
            <3> QED  BY <3>1 DEF Turn
        <2>2. e \in Nat /\ e > 0
            BY FuelTaken
        <2>3. CASE k < e
            <3>1. affordable[k][c][l] = [queue |-> <<>>, level |-> l, energy |-> k]
                BY <2>1, <2>3
            <3> QED  BY <2>2, <2>3, <3>1, CostEmpty
        <2>4. CASE ~(k < e)
            <3>1. k - e \in 0 .. (k - 1)
                BY <2>2, <2>4
            <3>2. nextLevelNumber(c, l) \in Levels
                BY NextIn, ConfsFacts
            <3>3. Good(k - e)
                BY <1>1, <3>1
            <3>4. rest \in R /\ Cost(rest.queue) + rest.energy = k - e
                BY <3>2, <3>3
            <3> HIDE DEF rest, Good, G
            <3>5. PICK q \in Seq(Levels), m \in Levels, x \in Nat :
                     rest = [queue |-> q, level |-> m, energy |-> x]
                BY <3>4
            <3>6. affordable[k][c][l] = [queue |-> <<l>> \o q, level |-> m, energy |-> x]
                BY <2>1, <2>4, <3>5
            <3>7. <<l>> \in Seq(Levels) /\ <<l>> = Append(<<>>, l) /\ <<>> \in Seq(Levels)
                OBVIOUS
            <3>8. Cost(<<l>>) = e
                <4>1. Cost(Append(<<>>, l)) = Cost(<<>>) + energyRequired[l]
                    BY <3>7, CostAppend
                <4> QED  BY <2>2, <3>7, <4>1, CostEmpty
            <3>9. Cost(<<l>> \o q) = e + Cost(q)
                BY <3>7, <3>8, CostJoin
            <3>10. Cost(q) + x = k - e /\ Cost(q) \in Nat
                BY <3>4, <3>5, CostType
            <3>11. <<l>> \o q \in Seq(Levels) /\ <<l>> \o q # <<>>
                OBVIOUS
            <3>12. Cost(<<l>> \o q) + x = k
                <4> HIDE DEF e
                <4> QED  BY <2>2, <3>9, <3>10
            <3> QED  BY <3>6, <3>11, <3>12
        <2> QED  BY <2>3, <2>4
    <1>2. 0 \in G
        <2>1. Good(0)
            <3> HIDE DEF Good
            <3> QED  BY <1>1
        <2> HIDE DEF Good
        <2> QED  BY <2>1
    <1>3. ASSUME NEW k \in 0 .. (n - 1), k \in G  PROVE k + 1 \in G
        <2> HIDE DEF Good
        <2>1. \A i \in 0 .. ((k + 1) - 1) : Good(i)
            BY <1>3
        <2>2. Good(k + 1)
            BY <1>1, <2>1
        <2> QED  BY <1>3, <2>2
    <1>4. n \in G
        <2> HIDE DEF G
        <2> QED  BY <1>2, <1>3, InductionUpTo
    <1>5. Good(n)
        <2> HIDE DEF Good
        <2> QED  BY <1>4
    <1> QED  BY <1>5

LEMMA GivenAppend ==
    ASSUME NEW s \in Seq(Row), NEW c \in Row
    PROVE  Given(Append(s, c)) = Given(s) + c.energy /\ Given(s) \in Nat
    <1>0. PICK n \in Nat : n = Len(s) /\ DOMAIN s = 1 .. n
        OBVIOUS
    <1>9. Append(s, c) \in Seq(Row)
        OBVIOUS
    <1>1. PICK t \in Seq(Row) : t = Append(s, c)
        BY <1>9
    <1>2. /\ Len(t) = n + 1 /\ DOMAIN t = 1 .. (n + 1) /\ t[n + 1] = c
          /\ \A i \in 1 .. n : t[i] = s[i]
        BY <1>0, <1>1
    <1>3. \A i \in 1 .. (n + 1) : t[i] \in Row
        BY <1>2
    <1>4. \A i \in 1 .. (n + 1) : Energies(t)[i] = t[i].energy
        BY <1>2 DEF Energies
    <1>5. \A i \in 1 .. (n + 1) : Energies(t)[i] \in Nat
        BY <1>3, <1>4 DEF Row
    <1>6. \A i \in 1 .. n : Energies(s)[i] = Energies(t)[i] /\ Energies(s)[i] \in Nat
        <2>1. \A i \in 1 .. n : i \in 1 .. (n + 1)
            OBVIOUS
        <2>2. \A i \in 1 .. n : Energies(s)[i] = t[i].energy
            BY <1>0, <1>2 DEF Energies
        <2> QED  BY <1>4, <1>5, <2>1, <2>2
    <1>7. Given(t) = Given(s) + Energies(t)[n + 1]
        <2>1. \A j \in 1 .. (n + 1) : Energies(t)[j] \in Int
            BY <1>5
        <2>2. SumFunctionOnSet(Energies(t), 1 .. (n + 1)) =
                 SumFunctionOnSet(Energies(s), 1 .. n) + Energies(t)[n + 1]
            BY <1>6, <2>1, SumLonger
        <2> QED  BY <1>0, <1>2, <2>2, GivenIsSum
    <1>8. Given(s) \in Nat
        BY <1>0, <1>6, GivenIsSum, SumOverIndices
    <1> QED  BY <1>1, <1>2, <1>4, <1>7, <1>8

LEMMA GivenEmpty == Given(<<>>) = 0
    <1>0. <<>> \in Seq(Row) /\ Len(<<>>) = 0 /\ 1 .. 0 = {}
        OBVIOUS
    <1>1. PICK s \in Seq(Row) : s = <<>> /\ 1 .. Len(s) = {}
        BY <1>0
    <1>2. SumFunctionOnSet(Energies(s), {}) = 0
        BY SumEmpty
    <1> QED  BY <1>1, <1>2, GivenIsSum

LEMMA GivenMore ==
    ASSUME NEW s \in Seq(Row), NEW i \in DOMAIN s, NEW n \in Nat
    PROVE  /\ [s EXCEPT ![i].energy = @ + n] \in Seq(Row)
           /\ Given([s EXCEPT ![i].energy = @ + n]) = Given(s) + n
    <1>0. PICK S : S = 1 .. Len(s) /\ S = DOMAIN s
        OBVIOUS
    <1>1. IsFiniteSet(S)
        BY <1>0, FS_Interval
    <1>10. s[i] \in Row
        OBVIOUS
    <1>2. s[i] \in Row /\ [s[i] EXCEPT !.energy = @ + n] \in Row
        BY <1>10 DEF Row
    <1>3. PICK t : t = [s EXCEPT ![i].energy = @ + n]
        OBVIOUS
    <1>4. /\ t \in Seq(Row) /\ Len(t) = Len(s) /\ DOMAIN t = S
          /\ t[i].energy = s[i].energy + n /\ \A j \in S \ {i} : t[j] = s[j]
        BY <1>0, <1>2, <1>3 DEF Row
    <1>5. \A j \in S : s[j].energy \in Nat /\ t[j].energy \in Nat
        <2>1. \A j \in S : s[j] \in Row /\ t[j] \in Row
            BY <1>0, <1>4
        <2> QED  BY <2>1 DEF Row
    <1>6. /\ \A j \in S : Energies(s)[j] \in Int /\ Energies(t)[j] \in Int
          /\ \A j \in S \ {i} : Energies(t)[j] = Energies(s)[j]
          /\ Energies(t)[i] = Energies(s)[i] + n
        BY <1>0, <1>4, <1>5 DEF Energies
    <1>11. i \in S
        BY <1>0
    <1>7. SumFunctionOnSet(Energies(t), S) = SumFunctionOnSet(Energies(s), S) - Energies(s)[i] + Energies(t)[i]
        BY <1>11, <1>1, <1>6, SumUpdate
    <1>8. SumFunctionOnSet(Energies(s), S) \in Int
        BY <1>1, <1>6, SumType
    <1>9. /\ Given(t) = SumFunctionOnSet(Energies(t), S) /\ Given(s) = SumFunctionOnSet(Energies(s), S)
        BY <1>0, <1>4, GivenIsSum
    <1> QED  BY <1>0, <1>3, <1>4, <1>6, <1>7, <1>8, <1>9

------------------------------------------------------------------------------
\* The types: what the document is, and what a process at a place has read.

Docs == [energy : Nat, level : Levels, status : RocketStatus, queue : Seq(Levels), age : Age,
         pending : Launched \cup {NoLaunch}, seq : Nat, contributions : Seq(Row)]

\* What the document is, and every copy of it.
Sound(m) ==
    /\ m \in Docs
    /\ (m.status = "idle") = (m.queue = <<>>)
    /\ (m.status = "countdown") = (m.pending # NoLaunch)
    /\ m.status = "idle" => m.age = "fresh"

Keys == [list : {"top", "random"}, seq : Nat, level : Levels, userId : Users]

Jobs == [user : Users, fuel : Nat, levels : SUBSET Levels, far : BOOLEAN,
         left : SUBSET Keys, mine : Docs \cup {NoLaunch}]

Sending == {"giftTransfer", "giftPay", "giftEvent", "giftCount", "giftFuel"}
Drives == {"addSnap", "step", "pay"}

\* The fuel of the copy on which a cycle is to start.
Full(j) == j.mine.energy >= energyRequired[ensureValidLevel(j.levels, j.mine.level)]

\* What a process at a place has read.
Fits(l, j) ==
    /\ l \in {"addInc", "addPush"} => j.fuel # 0
    /\ l \in Fuelling => j.levels # {}
    /\ l \in Drives => Sound(j.mine)
    /\ l \in {"step", "pay"} => j.far \/ j.mine.status = "idle" \/ j.mine.age # "fresh"
    /\ l = "step" /\ j.mine.status = "idle" => Full(j)
    /\ l = "pay" => j.mine.status = "countdown" /\ j.left \subseteq keys(j.mine.pending)

JobsFit ==
    /\ pc \in [Process -> Place] /\ job \in [Process -> Jobs]
    /\ \A p \in Process : Fits(pc[p], job[p])
    /\ \A q \in Requests : ~job[q].far

AsksFit ==
    /\ ask \in [Requests -> Calls \cup {NoAsk}]
    /\ \A q \in Requests : pc[q] \in Sending => ask[q] \in Calls

DocFits ==
    /\ Sound(doc) /\ launches \in Seq(Launched)
    /\ resolved \in Seq(Levels) /\ finished \in Seq(Levels) /\ levels \subseteq Levels

RestFits ==
    /\ gift \in [state : {"active", "inactive", "gone"}, totalSent : Nat]
    /\ admin \in {"idle", "events", "delete"}
    /\ load \in Loads /\ edits \in Nat

TypeInv == JobsFit /\ AsksFit /\ DocFits /\ RestFits

\* A process goes to a place with what it has to know there.
Turns(p) ==
    \E l \in RocketPlace, j \in Jobs :
        /\ pc' = [pc EXCEPT ![p] = l] /\ job' = [job EXCEPT ![p] = j]
        /\ Fits(l, j) /\ (j.far => job[p].far \/ p = Sweeper)

LEMMA SweeperApart == Sweeper \in Process /\ Requests \subseteq Process /\ Sweeper \notin Requests
    BY RocketAssumption DEF Process, Sweeper

LEMMA NoLaunchApart == \A l \in Launched : l # NoLaunch
    BY RocketAssumption

LEMMA TurnsFit ==
    ASSUME JobsFit, AsksFit, NEW p \in Process, Turns(p), ask' = ask
    PROVE  JobsFit' /\ AsksFit'
    <1>1. PICK l \in RocketPlace, j \in Jobs :
             /\ pc' = [pc EXCEPT ![p] = l] /\ job' = [job EXCEPT ![p] = j]
             /\ Fits(l, j) /\ (j.far => job[p].far \/ p = Sweeper)
        BY DEF Turns
    <1>2. /\ pc' \in [Process -> Place] /\ job' \in [Process -> Jobs]
          /\ pc'[p] = l /\ job'[p] = j
          /\ \A q \in Process \ {p} : pc'[q] = pc[q] /\ job'[q] = job[q]
        BY <1>1 DEF JobsFit, Place
    <1>3. ASSUME NEW q \in Process  PROVE Fits(pc'[q], job'[q])
        <2>1. CASE q = p
            BY <1>1, <1>2, <2>1
        <2>2. CASE q # p
            BY <1>2, <2>2 DEF JobsFit
        <2> QED  BY <2>1, <2>2
    <1>4. ASSUME NEW q \in Requests  PROVE ~job'[q].far
        BY <1>1, <1>2, SweeperApart DEF JobsFit
    <1>5. JobsFit'
        <2>1. \A q \in Process : Fits(pc[q], job[q])'
            BY <1>3 DEF Fits, Full, Sound, Fuelling, Drives
        <2> QED  BY <1>2, <1>4, <2>1 DEF JobsFit
    <1>6. \A q \in Requests : pc'[q] \in Sending => pc'[q] = pc[q]
        BY <1>1, <1>2, SweeperApart DEF RocketPlace, Sending
    <1> QED  BY <1>5, <1>6 DEF AsksFit

LEMMA IdleFits == Idle \in Jobs /\ Fits("idle", Idle) /\ Fits("done", Idle) /\ ~Idle.far
    <1>1. (CHOOSE u \in Users : TRUE) \in Users
        BY RocketAssumption
    <1> QED  BY <1>1 DEF Idle, Jobs, Fits, Fuelling, Drives

LEMMA RestTurns ==
    ASSUME NEW p \in Process, Rest(p)
    PROVE  Turns(p)
    <1>1. PICK l \in {"idle", "done"} : pc' = [pc EXCEPT ![p] = l] /\ job' = [job EXCEPT ![p] = Idle]
        BY DEF Rest
    <1> QED  BY <1>1, IdleFits DEF Turns, RocketPlace

LEMMA ContinueTurns ==
    ASSUME NEW p \in Process, job[p] \in Jobs, job[p].levels # {}, NEW m, Sound(m), Continue(p, m)
    PROVE  Turns(p)
    <1>1. CASE waiting(p, m)
        BY <1>1, RestTurns DEF Continue
    <1>2. CASE ~waiting(p, m)
        <2>1. PICK j : j = [job[p] EXCEPT !.mine = m, !.left = {}]
            OBVIOUS
        <2>2. /\ j \in Jobs /\ j.mine = m /\ j.left = {} /\ j.levels = job[p].levels
              /\ j.far = job[p].far
            BY <2>1 DEF Jobs, Sound
        <2>3. pc' = [pc EXCEPT ![p] = "step"] /\ job' = [job EXCEPT ![p] = j]
            BY <1>2, <2>1 DEF Continue, Move
        <2>4. j.far \/ m.status = "idle" \/ m.age # "fresh"
            BY <1>2, <2>2 DEF waiting, over
        <2>5. m.status = "idle" => Full(j)
            <3> SUFFICES ASSUME m.status = "idle"  PROVE Full(j)
                OBVIOUS
            <3> DEFINE l == ensureValidLevel(job[p].levels, m.level)
            <3>1. m.queue = <<>> /\ m.energy \in Nat
                BY DEF Sound, Docs
            <3>2. ~(m.energy < required(job[p].levels, l))
                BY <1>2, <3>1 DEF waiting
            <3>3. job[p].levels \in Confs
                BY DEF Jobs, Confs
            <3>4. l \in job[p].levels
                BY <3>3, EnsureIn
            <3>5. l \in Levels
                BY <3>3, <3>4, ConfsFacts
            <3>6. required(job[p].levels, l) = energyRequired[l] /\ energyRequired[l] \in Nat
                BY <3>4, <3>5, FuelTaken DEF required
            <3> HIDE DEF l
            <3>7. m.energy >= energyRequired[l]
                BY <3>1, <3>2, <3>6
            <3> QED  BY <2>2, <3>7 DEF Full, l
        <2>6. Fits("step", j)
            BY <2>2, <2>4, <2>5 DEF Fits
        <2> QED  BY <2>2, <2>3, <2>6 DEF Turns, RocketPlace
    <1> QED  BY <1>1, <1>2

LEMMA AfterSound ==
    ASSUME NEW d \in Docs, NEW queue \in Seq(Levels)
    PROVE  Sound(after(d, queue)) /\ after(d, queue).queue = queue
    BY DEF after, Sound, Docs, RocketStatus, Age

LEMMA Places ==
    ASSUME NEW m \in Docs, NEW present \in SUBSET Users
    PROVE  topContributors(m, present) \in SUBSET [rank : 1 .. 3, userId : Users]
    <1>0. PICK n \in Nat : DOMAIN m.contributions = 1 .. n
        BY DEF Docs
    <1>1. IsFiniteSet(1 .. n)
        BY FS_Interval
    <1>2. ASSUME NEW i \in topRows(m, present)
          PROVE  place(m, present, i) \in 1 .. 3 /\ m.contributions[i].userId \in Users
        <2> DEFINE better == {k \in DOMAIN m.contributions :
                /\ m.contributions[k].userId \in present
                /\ \/ m.contributions[k].energy > m.contributions[i].energy
                   \/ m.contributions[k].energy = m.contributions[i].energy /\ k < i}
        <2>1. better \in SUBSET (1 .. n)
            BY <1>0
        <2>2. Cardinality(better) \in Nat
            <3> HIDE DEF better
            <3> QED  BY <1>1, <2>1, FS_Subset, FS_CardinalityType
        <2>3. place(m, present, i) = 1 + Cardinality(better)
            BY DEF place
        <2> HIDE DEF better
        <2>4. place(m, present, i) <= 3 /\ m.contributions[i].userId \in present
            BY DEF topRows
        <2> QED  BY <2>2, <2>3, <2>4
    <1> QED  BY <1>2 DEF topContributors

LEMMA DrawnAreUsers ==
    ASSUME NEW present \in SUBSET Users, NEW top, NEW random \in draws(present, top)
    PROVE  random \in SUBSET Users
    BY DEF draws, kSubset

LEMMA KeysType ==
    ASSUME NEW l \in Launched
    PROVE  keys(l) \subseteq Keys
    BY DEF Launched, keys, Keys

\* What a process that drives knows.
LEMMA DriverFacts ==
    ASSUME JobsFit, NEW p \in Process
    PROVE  /\ job[p] \in Jobs /\ Fits(pc[p], job[p])
           /\ pc[p] \in Fuelling => job[p].levels # {} /\ job[p].levels \in Confs
           /\ pc[p] \in Drives => Sound(job[p].mine) /\ job[p].mine \in Docs
    <1>1. job[p] \in Jobs /\ Fits(pc[p], job[p])
        BY DEF JobsFit
    <1>2. Drives \subseteq Fuelling
        BY DEF Drives, Fuelling
    <1> QED  BY <1>1, <1>2 DEF Fits, Jobs, Confs, Sound

\* What a cycle writes into a document d.
Started(d, queue, l, e) ==
    [d EXCEPT !.status = "banner", !.queue = queue, !.level = l, !.energy = e,
              !.age = "fresh", !.pending = NoLaunch]

LEMMA StartedSound ==
    ASSUME NEW d \in Docs, NEW queue \in Seq(Levels), queue # <<>>, NEW l \in Levels, NEW e \in Nat
    PROVE  Sound(Started(d, queue, l, e))
    BY DEF Started, Sound, Docs, RocketStatus, Age

LEMMA CoveredFits ==
    ASSUME JobsFit, NEW p \in Process, pc[p] = "step", job[p].mine.status = "idle"
    PROVE  LET full == covered(job[p].levels, job[p].mine) IN
           /\ full \in [queue : Seq(Levels), level : Levels, energy : Nat]
           /\ full.queue # <<>> /\ Cost(full.queue) + full.energy = job[p].mine.energy
           /\ job[p].mine.queue \o full.queue = full.queue
    <1> DEFINE m == job[p].mine
               l == ensureValidLevel(job[p].levels, m.level)
               full == affordable[m.energy][job[p].levels][l]
    <1>1. job[p].levels \in Confs /\ Sound(m) /\ Full(job[p])
        BY DriverFacts DEF Fits, Fuelling, Drives
    <1>2. l \in Levels
        BY <1>1, EnsureIn, ConfsFacts
    <1>3. m.energy \in Nat /\ m.energy >= energyRequired[l] /\ m.queue = <<>>
        BY <1>1 DEF Sound, Docs, Full
    <1>4. /\ full \in [queue : Seq(Levels), level : Levels, energy : Nat]
          /\ Cost(full.queue) + full.energy = m.energy
          /\ m.energy >= energyRequired[l] => full.queue # <<>>
        BY <1>1, <1>2, <1>3, SpentOnLevels
    <1>5. covered(job[p].levels, m) = full
        BY DEF covered
    <1> HIDE DEF full, m
    <1>6. full.queue \in Seq(Levels)
        BY <1>4
    <1>7. m.queue \o full.queue = full.queue
        BY <1>3, <1>6
    <1> QED  BY <1>3, <1>4, <1>5, <1>7 DEF m

LEMMA StartFits ==
    ASSUME JobsFit, DocFits, NEW p \in Process, StartCycle(p)
    PROVE  Turns(p) /\ DocFits'
    <1> DEFINE m == job[p].mine
               full == covered(job[p].levels, m)
    <1>1. /\ pc[p] = "step" /\ m.status = "idle"
          /\ UNCHANGED <<launches, finished, levels>>
        BY DEF StartCycle, AtRocket
    <1>2. /\ full \in [queue : Seq(Levels), level : Levels, energy : Nat]
          /\ full.queue # <<>> /\ m.queue \o full.queue = full.queue
        BY <1>1, CoveredFits
    <1>3. /\ job[p] \in Jobs /\ job[p].levels # {} /\ m \in Docs
        BY <1>1, DriverFacts DEF Fuelling, Drives
    <1>4. CASE doc.status = "idle"
        <2>1. /\ doc' = Started(doc, full.queue, full.level, full.energy)
              /\ resolved' = resolved \o full.queue
              /\ Continue(p, Started(m, full.queue, full.level, full.energy))
            BY <1>2, <1>4 DEF StartCycle, Started
        <2> HIDE DEF full
        <2>2. full.queue \in Seq(Levels) /\ full.level \in Levels /\ full.energy \in Nat
            BY <1>2
        <2>3. Sound(Started(m, full.queue, full.level, full.energy))
            BY <1>2, <1>3, <2>2, StartedSound
        <2>4. Sound(doc')
            <3>1. doc \in Docs
                BY DEF DocFits, Sound
            <3> QED  BY <1>2, <2>1, <2>2, <3>1, StartedSound
        <2>5. Turns(p)
            BY <1>3, <2>1, <2>3, ContinueTurns
        <2>6. resolved' \in Seq(Levels)
            BY <2>1, <2>2 DEF DocFits
        <2> QED  BY <1>1, <2>4, <2>5, <2>6 DEF DocFits, Sound
    <1>5. CASE doc.status # "idle"
        <2>1. Rest(p) /\ UNCHANGED <<doc, resolved>>
            BY <1>5 DEF StartCycle
        <2> QED  BY <1>1, <2>1, RestTurns DEF DocFits, Sound
    <1> QED  BY <1>4, <1>5

LEMMA DropFits ==
    ASSUME JobsFit, DocFits, NEW p \in Process, DropHead(p)
    PROVE  Turns(p) /\ DocFits'
    <1> DEFINE m == job[p].mine
               queue == IF m.queue = <<>> THEN <<>> ELSE Tail(m.queue)
    <1>1. pc[p] = "step" /\ UNCHANGED <<launches, resolved, levels>> /\ Continue(p, after(m, queue))
        BY DEF DropHead, AtRocket
    <1>2. /\ job[p] \in Jobs /\ job[p].levels # {} /\ m \in Docs
        BY <1>1, DriverFacts DEF Fuelling, Drives
    <1>3. m.queue \in Seq(Levels)
        BY <1>2 DEF Docs
    <1>4. queue \in Seq(Levels)
        <2> HIDE DEF m
        <2> QED  BY <1>3
    <1>5. Turns(p)
        <2> HIDE DEF queue
        <2> QED  BY <1>1, <1>2, <1>4, AfterSound, ContinueTurns
    <1>6. doc' = doc \/ doc' = after(doc, queue)
        BY DEF DropHead
    <1>7. Sound(doc)' 
        <2> HIDE DEF queue
        <2>1. Sound(doc')
            BY <1>4, <1>6, AfterSound DEF DocFits, Sound
        <2> QED  BY <2>1 DEF Sound
    <1>8. finished' \in Seq(Levels)
        <2> DEFINE part == SubSeq(m.queue, 1, Min({1, Len(m.queue)}))
        <2>1. Len(m.queue) \in Nat
            BY <1>3
        <2>2. Min({1, Len(m.queue)}) \in {1, Len(m.queue)} /\ Min({1, Len(m.queue)}) <= Len(m.queue)
            <3>1. PICK n \in Nat : n = Len(m.queue)
                BY <2>1
            <3>2. \E x \in {1, n} : \A y \in {1, n} : x <= y
                BY <3>1
            <3>3. Min({1, n}) \in {1, n} /\ \A y \in {1, n} : Min({1, n}) <= y
                BY <3>2 DEF Min
            <3> QED  BY <3>1, <3>3
        <2>3. part \in Seq(Levels)
            <3>1. PICK k \in Nat : k = Min({1, Len(m.queue)}) /\ k <= Len(m.queue)
                BY <2>1, <2>2
            <3>2. PICK q \in Seq(Levels) : q = m.queue
                BY <1>3
            <3>4. PICK n \in Nat : n = Len(q) /\ DOMAIN q = 1 .. n
                BY <3>2
            <3>5. \A i \in 0 .. n : SubSeq(q, 1, i) \in Seq(Levels)
                BY <3>4
            <3>6. k \in 0 .. n
                BY <3>1, <3>2, <3>4
            <3>3. SubSeq(q, 1, k) \in Seq(Levels)
                BY <3>5, <3>6
            <3> QED  BY <3>1, <3>2, <3>3
        <2>4. finished' = finished \/ finished' = finished \o part
            BY DEF DropHead
        <2> HIDE DEF part
        <2>5. finished \in Seq(Levels)
            BY DEF DocFits
        <2>6. finished \o part \in Seq(Levels)
            BY <2>3, <2>5
        <2> QED  BY <2>4, <2>5, <2>6
    <1> QED  BY <1>1, <1>5, <1>7, <1>8 DEF DocFits

\* What a countdown writes.
Counting(d, launch) == [d EXCEPT !.status = "countdown", !.age = "fresh", !.pending = launch]

LEMMA CountingSound ==
    ASSUME NEW d \in Docs, d.queue # <<>>, NEW l \in Launched
    PROVE  Sound(Counting(d, l))
    BY NoLaunchApart DEF Counting, Sound, Docs, RocketStatus, Age

\* The countdown of a copy: its snapshot, written if the document is at its banner.
LEMMA CountdownWrites ==
    ASSUME JobsFit, NEW p \in Process, StartCountdown(p)
    PROVE  LET m == job[p].mine IN
           \E l \in Launched :
              /\ l.level = Head(m.queue) /\ l.seq = m.seq
              /\ \/ doc.status = "banner" /\ doc' = Counting(doc, l) /\ Continue(p, Counting(m, l))
                 \/ doc.status # "banner" /\ doc' = doc /\ Rest(p)
    <1> DEFINE m == job[p].mine
    <1>1. PICK present \in SUBSET Users :
            \E random \in draws(present, topContributors(m, present)) :
              LET Write(d) == [d EXCEPT !.status = "countdown", !.age = "fresh",
                      !.pending = [level |-> Head(m.queue), seq |-> m.seq,
                                   top |-> topContributors(m, present), random |-> random]] IN
              IF doc.status = "banner"
              THEN doc' = Write(doc) /\ Continue(p, Write(m))
              ELSE UNCHANGED doc /\ Rest(p)
        BY DEF StartCountdown
    <1>2. PICK random \in draws(present, topContributors(m, present)) :
              LET Write(d) == [d EXCEPT !.status = "countdown", !.age = "fresh",
                      !.pending = [level |-> Head(m.queue), seq |-> m.seq,
                                   top |-> topContributors(m, present), random |-> random]] IN
              IF doc.status = "banner"
              THEN doc' = Write(doc) /\ Continue(p, Write(m))
              ELSE UNCHANGED doc /\ Rest(p)
        BY <1>1
    <1>3. PICK l : l = [level |-> Head(m.queue), seq |-> m.seq,
                        top |-> topContributors(m, present), random |-> random]
        OBVIOUS
    <1>4. pc[p] = "step" /\ m.queue # <<>>
        BY DEF StartCountdown, AtRocket, Launchable
    <1>5. m \in Docs
        BY <1>4, DriverFacts DEF Drives
    <1>6. Head(m.queue) \in Levels /\ m.seq \in Nat
        <2>1. m.queue \in Seq(Levels) /\ m.seq \in Nat
            BY <1>5 DEF Docs
        <2> HIDE DEF m
        <2> QED  BY <1>4, <2>1
    <1>7. topContributors(m, present) \in SUBSET [rank : 1 .. 3, userId : Users]
        BY <1>5, Places
    <1>8. random \in SUBSET Users
        BY DrawnAreUsers
    <1>9. l \in Launched
        BY <1>3, <1>6, <1>7, <1>8 DEF Launched
    <1>10. l.level = Head(m.queue) /\ l.seq = m.seq
        BY <1>3
    <1>11. \/ doc.status = "banner" /\ doc' = Counting(doc, l) /\ Continue(p, Counting(m, l))
           \/ doc.status # "banner" /\ doc' = doc /\ Rest(p)
        BY <1>2, <1>3 DEF Counting
    <1> QED  BY <1>9, <1>10, <1>11

LEMMA CountdownFits ==
    ASSUME JobsFit, DocFits, NEW p \in Process, StartCountdown(p)
    PROVE  Turns(p) /\ DocFits'
    <1> DEFINE m == job[p].mine
    <1>1. PICK l \in Launched :
              \/ doc.status = "banner" /\ doc' = Counting(doc, l) /\ Continue(p, Counting(m, l))
              \/ doc.status # "banner" /\ doc' = doc /\ Rest(p)
        BY CountdownWrites
    <1>2. /\ pc[p] = "step" /\ m.queue # <<>>
          /\ UNCHANGED <<launches, resolved, finished, levels>>
        BY DEF StartCountdown, AtRocket, Launchable
    <1>3. /\ job[p] \in Jobs /\ job[p].levels # {} /\ m \in Docs
        BY <1>2, DriverFacts DEF Fuelling, Drives
    <1>4. CASE doc.status = "banner" /\ doc' = Counting(doc, l) /\ Continue(p, Counting(m, l))
        <2>1. doc \in Docs /\ doc.queue # <<>>
            BY <1>4 DEF DocFits, Sound
        <2>2. Sound(doc') /\ Sound(Counting(m, l))
            BY <1>2, <1>3, <1>4, <2>1, CountingSound
        <2> QED  BY <1>2, <1>3, <1>4, <2>2, ContinueTurns DEF DocFits, Sound
    <1>5. CASE doc' = doc /\ Rest(p)
        BY <1>2, <1>5, RestTurns DEF DocFits, Sound
    <1> QED  BY <1>1, <1>4, <1>5

LEMMA FireFits ==
    ASSUME JobsFit, DocFits, NEW p \in Process, Fire(p)
    PROVE  Turns(p) /\ DocFits'
    <1>1. PICK j : j = [job[p] EXCEPT !.left = keys(job[p].mine.pending)]
        OBVIOUS
    <1>2. /\ pc[p] = "step" /\ job[p].mine.status = "countdown" /\ job[p].mine.pending # NoLaunch
          /\ pc' = [pc EXCEPT ![p] = "pay"] /\ job' = [job EXCEPT ![p] = j]
          /\ UNCHANGED <<docVars, levels>>
        BY <1>1 DEF Fire, AtRocket, Move
    <1>3. job[p] \in Jobs /\ Fits("step", job[p]) /\ job[p].mine \in Docs
        BY <1>2, DriverFacts DEF Drives
    <1>4. job[p].mine.pending \in Launched
        BY <1>2, <1>3 DEF Docs
    <1>5. keys(job[p].mine.pending) \in SUBSET Keys
        BY <1>4, KeysType
    <1>6. /\ j \in Jobs /\ j.mine = job[p].mine /\ j.left = keys(job[p].mine.pending)
          /\ j.levels = job[p].levels /\ j.far = job[p].far
        BY <1>1, <1>3, <1>5 DEF Jobs
    <1>7. Fits("pay", j)
        BY <1>2, <1>3, <1>6 DEF Fits, Fuelling, Drives
    <1>8. Turns(p)
        BY <1>2, <1>6, <1>7 DEF Turns, RocketPlace
    <1> QED  BY <1>2, <1>8 DEF DocFits, docVars, Sound

LEMMA PayFits ==
    ASSUME JobsFit, DocFits, NEW p \in Process, Pay(p)
    PROVE  Turns(p) /\ DocFits'
    <1>1. PICK k, j :
             /\ k \in job[p].left
             /\ j = [job[p] EXCEPT !.left = @ \ {k}]
             /\ pc' = [pc EXCEPT ![p] = "pay"] /\ job' = [job EXCEPT ![p] = j]
        BY DEF Pay, Move
    <1>2. pc[p] = "pay" /\ UNCHANGED <<docVars, levels>>
        BY DEF Pay, AtRocket
    <1>3. job[p] \in Jobs /\ Fits("pay", job[p])
        BY <1>2, DriverFacts
    <1>4. /\ j \in Jobs /\ j.mine = job[p].mine /\ j.left = job[p].left \ {k}
          /\ j.levels = job[p].levels /\ j.far = job[p].far
        BY <1>1, <1>3 DEF Jobs
    <1>5. Fits("pay", j)
        BY <1>3, <1>4 DEF Fits, Fuelling, Drives
    <1>6. Turns(p)
        BY <1>1, <1>4, <1>5 DEF Turns, RocketPlace
    <1> QED  BY <1>2, <1>6 DEF DocFits, docVars, Sound

\* What a launch writes.
Landed(d, queue, n) == [after(d, queue) EXCEPT !.seq = n]

LEMMA LandedSound ==
    ASSUME NEW d \in Docs, NEW queue \in Seq(Levels), NEW n \in Nat
    PROVE  Sound(Landed(d, queue, n))
    BY DEF Landed, after, Sound, Docs, RocketStatus, Age

\* The copy of who pays.
LEMMA PayerFacts ==
    ASSUME JobsFit, NEW p \in Process, pc[p] = "pay"
    PROVE  LET m == job[p].mine IN
           /\ Sound(m) /\ m \in Docs /\ m.status = "countdown" /\ m.pending \in Launched
           /\ m.queue \in Seq(Levels) /\ m.queue # <<>> /\ Tail(m.queue) \in Seq(Levels)
           /\ m.seq \in Nat /\ m.pending.level \in Levels /\ m.pending # NoLaunch
           /\ job[p] \in Jobs /\ job[p].levels # {} /\ job[p].left \subseteq keys(m.pending)
    <1> DEFINE m == job[p].mine
    <1>1. job[p] \in Jobs /\ Fits("pay", job[p]) /\ Sound(m) /\ m \in Docs /\ job[p].levels # {}
        BY DriverFacts DEF Fuelling, Drives
    <1>2. m.status = "countdown" /\ job[p].left \subseteq keys(m.pending)
        BY <1>1 DEF Fits
    <1>3. m.pending # NoLaunch /\ m.queue # <<>>
        BY <1>1, <1>2 DEF Sound
    <1>4. m.pending \in Launched /\ m.queue \in Seq(Levels) /\ m.seq \in Nat
        BY <1>1, <1>3 DEF Docs
    <1>5. m.pending.level \in Levels
        BY <1>4 DEF Launched
    <1>6. PICK q \in Seq(Levels) : q = m.queue
        BY <1>4
    <1>7. Tail(q) \in Seq(Levels)
        BY <1>3, <1>6
    <1> QED  BY <1>1, <1>2, <1>3, <1>4, <1>5, <1>6, <1>7

LEMMA LaunchFits ==
    ASSUME JobsFit, DocFits, NEW p \in Process, Launch(p)
    PROVE  Turns(p) /\ DocFits'
    <1> DEFINE m == job[p].mine
    <1>1. pc[p] = "pay" /\ UNCHANGED <<resolved, levels>>
        BY DEF Launch, AtRocket
    <1>2. /\ m \in Docs /\ m.pending \in Launched /\ Tail(m.queue) \in Seq(Levels) /\ m.seq \in Nat
          /\ m.pending.level \in Levels /\ job[p] \in Jobs /\ job[p].levels # {}
        BY <1>1, PayerFacts
    <1>3. CASE doc.status = "countdown"
        <2>1. /\ doc' = Landed(doc, Tail(m.queue), m.seq + 1)
              /\ launches' = Append(launches, m.pending)
              /\ finished' = Append(finished, m.pending.level)
              /\ Continue(p, Landed(m, Tail(m.queue), m.seq + 1))
            BY <1>3 DEF Launch, Landed
        <2>9. m.seq + 1 \in Nat
            BY <1>2
        <2>2. PICK t \in Seq(Levels), n \in Nat : t = Tail(m.queue) /\ n = m.seq + 1
            BY <1>2, <2>9
        <2>3. doc \in Docs
            BY DEF DocFits, Sound
        <2>4. Sound(doc') /\ Sound(Landed(m, t, n))
            BY <1>2, <2>1, <2>2, <2>3, LandedSound
        <2>5. Turns(p)
            BY <1>2, <2>1, <2>2, <2>4, ContinueTurns
        <2>6. launches' \in Seq(Launched)
            <3>1. PICK l \in Launched : l = m.pending
                BY <1>2
            <3>2. launches \in Seq(Launched)
                BY DEF DocFits
            <3>3. Append(launches, l) \in Seq(Launched)
                BY <3>2
            <3> QED  BY <2>1, <3>1, <3>3
        <2>7. finished' \in Seq(Levels)
            <3>1. PICK l \in Levels : l = m.pending.level
                BY <1>2
            <3>2. finished \in Seq(Levels)
                BY DEF DocFits
            <3>3. Append(finished, l) \in Seq(Levels)
                BY <3>2
            <3> QED  BY <2>1, <3>1, <3>3
        <2>8. Sound(doc)'
            BY <2>4 DEF Sound
        <2> QED  BY <1>1, <2>5, <2>6, <2>7, <2>8 DEF DocFits
    <1>4. CASE doc.status # "countdown"
        <2>1. Rest(p) /\ UNCHANGED <<doc, launches, finished>>
            BY <1>4 DEF Launch
        <2> QED  BY <1>1, <2>1, RestTurns DEF DocFits, Sound
    <1> QED  BY <1>3, <1>4

\* A gift's fuel.
LEMMA FuelSound ==
    ASSUME NEW d, Sound(d), NEW n \in Nat, NEW cs \in Seq(Row)
    PROVE  Sound([d EXCEPT !.energy = @ + n, !.contributions = cs])
    <1>1. d \in Docs /\ d.energy + n \in Nat
        BY DEF Sound, Docs
    <1>2. PICK e \in Nat : e = d.energy + n
        BY <1>1
    <1>3. Sound([d EXCEPT !.energy = e, !.contributions = cs])
        BY DEF Sound, Docs
    <1> QED  BY <1>2, <1>3

LEMMA RowsOf ==
    ASSUME DocFits, NEW u
    PROVE  given(doc, u) # {} => Min(given(doc, u)) \in DOMAIN doc.contributions
    <1>1. PICK n \in Nat : DOMAIN doc.contributions = 1 .. n
        BY DEF DocFits, Sound, Docs
    <1>2. PICK S : S = given(doc, u)
        OBVIOUS
    <1>3. S \subseteq 1 .. n /\ S \subseteq Int
        BY <1>1, <1>2 DEF given
    <1>4. IsFiniteSet(1 .. n)
        BY FS_Interval
    <1>5. IsFiniteSet(S)
        BY <1>3, <1>4, FS_Subset
    <1>6. S # {} => \E m \in S : \A x \in S : m <= x
        BY <1>3, <1>5, LeastElement
    <1>7. S # {} => Min(S) \in S
        BY <1>6 DEF Min
    <1> QED  BY <1>1, <1>2, <1>3, <1>7

\* What a gift's fuel does to the document: it is added to the tank and to a row.
Fuelled(n) ==
    /\ doc' = [doc EXCEPT !.energy = @ + n, !.contributions = doc'.contributions]
    /\ doc'.contributions \in Seq(Row)
    /\ Given(doc'.contributions) = Given(doc.contributions) + n

LEMMA AddWrites ==
    ASSUME JobsFit, DocFits, NEW q \in Requests, AddInc(q) \/ AddPush(q)
    PROVE  /\ pc[q] \in {"addInc", "addPush"} /\ job[q].fuel \in Nat \ {0}
           /\ \E l \in {"addFetch", "addPush"} : Move(q, l, job[q])
           /\ doc' = doc \/ Fuelled(job[q].fuel)
           /\ UNCHANGED <<launches, resolved, finished, levels, paid, today>>
    <1>1. /\ pc[q] \in {"addInc", "addPush"}
          /\ \E l \in {"addFetch", "addPush"} : Move(q, l, job[q])
          /\ UNCHANGED <<launches, resolved, finished, levels, paid, today>>
        BY DEF AddInc, AddPush, AtRocket
    <1>2. job[q] \in Jobs /\ Fits(pc[q], job[q])
        BY DriverFacts, SweeperApart
    <1>3. job[q].fuel \in Nat \ {0} /\ job[q].user \in Users
        BY <1>1, <1>2 DEF Jobs, Fits
    <1>4. doc.contributions \in Seq(Row) /\ doc \in Docs
        BY DEF DocFits, Sound, Docs
    <1>5. PICK cs \in Seq(Row), n \in Nat : cs = doc.contributions /\ n = job[q].fuel
        BY <1>3, <1>4
    <1>6. CASE AddInc(q)
        <2> DEFINE i == Min(given(doc, job[q].user))
        <2>1. \/ given(doc, job[q].user) # {} /\
                 doc' = [doc EXCEPT !.energy = @ + n, !.contributions[i].energy = @ + n]
              \/ doc' = doc
            BY <1>5, <1>6 DEF AddInc
        <2>2. CASE given(doc, job[q].user) # {} /\
                   doc' = [doc EXCEPT !.energy = @ + n, !.contributions[i].energy = @ + n]
            <3>1. PICK k \in DOMAIN cs : k = i
                BY <1>5, <2>2, RowsOf
            <3>2. PICK ds : ds = [cs EXCEPT ![k].energy = @ + n]
                OBVIOUS
            <3>3. ds \in Seq(Row) /\ Given(ds) = Given(cs) + n
                BY <3>2, GivenMore
            <3> HIDE DEF i
            <3>4. doc' = [doc EXCEPT !.energy = @ + n, !.contributions = ds]
                BY <1>4, <1>5, <2>2, <3>1, <3>2 DEF Docs
            <3>5. doc'.contributions = ds
                BY <1>4, <3>4 DEF Docs
            <3> QED  BY <1>1, <1>3, <1>5, <3>3, <3>4, <3>5 DEF Fuelled
        <2> QED  BY <1>1, <1>3, <2>1, <2>2
    <1>7. CASE AddPush(q)
        <2>6. [userId |-> job[q].user, energy |-> n] \in Row
            BY <1>3, <1>5 DEF Row
        <2>1. PICK c \in Row : c = [userId |-> job[q].user, energy |-> n] /\ c.energy = n
            BY <2>6
        <2>2. PICK ds : ds = Append(cs, c)
            OBVIOUS
        <2>3. ds \in Seq(Row) /\ Given(ds) = Given(cs) + n
            <3>1. Append(cs, c) \in Seq(Row)
                OBVIOUS
            <3> QED  BY <2>1, <2>2, <3>1, GivenAppend
        <2>4. doc' = [doc EXCEPT !.energy = @ + n, !.contributions = ds]
            BY <1>5, <1>7, <2>1, <2>2 DEF AddPush
        <2>5. doc'.contributions = ds
            BY <1>4, <2>4 DEF Docs
        <2> QED  BY <1>1, <1>3, <1>5, <2>3, <2>4, <2>5 DEF Fuelled
    <1> QED  BY <1>6, <1>7

LEMMA AddFits ==
    ASSUME JobsFit, DocFits, NEW q \in Requests, AddInc(q) \/ AddPush(q)
    PROVE  Turns(q) /\ DocFits'
    <1>1. PICK l \in {"addFetch", "addPush"} : Move(q, l, job[q])
        BY AddWrites
    <1>2. /\ pc[q] \in {"addInc", "addPush"} /\ job[q].fuel \in Nat \ {0}
          /\ doc' = doc \/ Fuelled(job[q].fuel)
          /\ UNCHANGED <<launches, resolved, finished, levels>>
        BY AddWrites
    <1>3. job[q] \in Jobs /\ job[q].levels # {} /\ q \in Process
        BY <1>2, DriverFacts, SweeperApart DEF Fuelling
    <1>4. Fits(l, job[q])
        BY <1>2, <1>3 DEF Fits, Drives
    <1>5. Turns(q)
        BY <1>1, <1>3, <1>4 DEF Turns, Move, RocketPlace
    <1>6. Sound(doc')
        <2>1. Sound(doc)
            BY DEF DocFits
        <2>2. CASE Fuelled(job[q].fuel)
            <3>1. PICK n \in Nat, cs \in Seq(Row) : n = job[q].fuel /\ cs = doc'.contributions
                BY <1>2, <2>2 DEF Fuelled
            <3>2. doc' = [doc EXCEPT !.energy = @ + n, !.contributions = cs]
                BY <2>2, <3>1 DEF Fuelled
            <3> QED  BY <2>1, <3>2, FuelSound
        <2> QED  BY <1>2, <2>1, <2>2
    <1>7. Sound(doc)'
        BY <1>6 DEF Sound
    <1> QED  BY <1>2, <1>5, <1>7 DEF DocFits

LEMMA FetchFits ==
    ASSUME JobsFit, DocFits, NEW q \in Requests, AddFetch(q)
    PROVE  Turns(q) /\ DocFits'
    <1>1. pc[q] = "addFetch" /\ UNCHANGED <<docVars, levels>>
        BY DEF AddFetch, AtRocket
    <1>2. job[q] \in Jobs /\ job[q].levels # {} /\ q \in Process /\ Sound(doc)
        BY <1>1, DriverFacts, SweeperApart DEF Fuelling, DocFits
    <1>3. Turns(q)
        <2>1. CASE Continue(q, doc)
            BY <1>2, <2>1, ContinueTurns
        <2>2. CASE Move(q, "addSnap", [job[q] EXCEPT !.mine = doc])
            <3>1. PICK j : j = [job[q] EXCEPT !.mine = doc]
                OBVIOUS
            <3>2. j \in Jobs /\ j.mine = doc /\ j.levels = job[q].levels /\ j.far = job[q].far
                BY <1>2, <3>1 DEF Jobs, Sound
            <3>3. Fits("addSnap", j)
                BY <1>2, <3>2 DEF Fits
            <3> QED  BY <2>2, <3>1, <3>2, <3>3 DEF Move, Turns, RocketPlace
        <2> QED  BY <2>1, <2>2 DEF AddFetch
    <1> QED  BY <1>1, <1>3 DEF DocFits, docVars, Sound

LEMMA LevelSound ==
    ASSUME NEW d, Sound(d), NEW l \in Levels
    PROVE  Sound([d EXCEPT !.level = l])
    BY DEF Sound, Docs

LEMMA SnapFits ==
    ASSUME JobsFit, DocFits, NEW q \in Requests, AddSnap(q)
    PROVE  Turns(q) /\ DocFits'
    <1>1. /\ pc[q] = "addSnap" /\ UNCHANGED <<launches, resolved, finished, levels>>
          /\ doc' = [doc EXCEPT !.level = lowest(job[q].levels)]
          /\ Continue(q, [job[q].mine EXCEPT !.level = lowest(job[q].levels)])
        BY DEF AddSnap, AtRocket
    <1>2. /\ job[q] \in Jobs /\ job[q].levels # {} /\ job[q].levels \in Confs
          /\ q \in Process /\ Sound(job[q].mine)
        BY <1>1, DriverFacts, SweeperApart DEF Fuelling, Drives
    <1>3. PICK l \in Levels : l = lowest(job[q].levels)
        BY <1>2, ConfsFacts DEF lowest
    <1>4. Sound([job[q].mine EXCEPT !.level = l]) /\ Sound(doc')
        BY <1>1, <1>2, <1>3, LevelSound DEF DocFits
    <1>5. Turns(q)
        BY <1>1, <1>2, <1>3, <1>4, ContinueTurns
    <1>6. Sound(doc)'
        BY <1>4 DEF Sound
    <1> QED  BY <1>1, <1>5, <1>6 DEF DocFits

LEMMA SweepFits ==
    ASSUME JobsFit, DocFits, SweepRead \/ ResetRead
    PROVE  Turns(Sweeper) /\ DocFits'
    <1>1. PICK j : /\ \/ j = [Idle EXCEPT !.mine = doc, !.levels = levels]
                      \/ j = [Idle EXCEPT !.mine = doc, !.levels = levels, !.far = TRUE]
                   /\ Move(Sweeper, "step", j)
        BY DEF SweepRead, ResetRead
    <1>2. /\ levels # {} /\ levels \in SUBSET Levels /\ Sound(doc) /\ doc.status # "idle" /\ doc.age # "fresh"
          /\ UNCHANGED <<docVars, levels>>
        BY DEF SweepRead, ResetRead, DocFits
    <1>3. j \in Jobs /\ j.mine = doc /\ j.levels = levels
        BY <1>1, <1>2, IdleFits DEF Jobs, Sound
    <1>4. Fits("step", j)
        BY <1>2, <1>3 DEF Fits
    <1>5. Turns(Sweeper)
        BY <1>1, <1>3, <1>4 DEF Turns, Move, RocketPlace
    <1> QED  BY <1>2, <1>5 DEF DocFits, docVars, Sound

LEMMA AdvanceFits ==
    ASSUME JobsFit, DocFits, NEW p \in Process, Advance(p)
    PROVE  Turns(p) /\ DocFits'
    BY StartFits, DropFits, CountdownFits, FireFits, PayFits, LaunchFits DEF Advance

\* The steps of the rocket's processes.
RocketMoves == (\E q \in Requests : RocketStep(q)) \/ Sweep

LEMMA RocketFits ==
    ASSUME JobsFit, AsksFit, DocFits, RocketMoves, ask' = ask
    PROVE  JobsFit' /\ AsksFit' /\ DocFits'
    <1>1. ASSUME NEW q \in Requests, RocketStep(q)  PROVE Turns(q) /\ DocFits'
        BY <1>1, AdvanceFits, AddFits, FetchFits, SnapFits, SweeperApart DEF RocketStep
    <1>2. ASSUME Sweep  PROVE Turns(Sweeper) /\ DocFits'
        BY <1>2, AdvanceFits, SweepFits, SweeperApart DEF Sweep
    <1> QED  BY <1>1, <1>2, TurnsFit, SweeperApart DEF RocketMoves

LEMMA RocketLeaves == RocketMoves => UNCHANGED <<load, edits, levels>>
    BY DEF RocketMoves, RocketStep, Sweep, Advance, AddInc, AddPush, AddFetch, AddSnap,
           StartCycle, DropHead, StartCountdown, Fire, Pay, Launch, SweepRead, ResetRead

LEMMA RocketRest ==
    ASSUME RestFits, RocketMoves, UNCHANGED giftVars
    PROVE  RestFits'
    BY RocketLeaves DEF RestFits, giftVars

\* Time, midnight, an edit and a crash.
LEMMA OthersFit ==
    ASSUME TypeInv, UNCHANGED giftVars, Ripen \/ NextDay \/ UpdateConfig \/ Crash
    PROVE  TypeInv'
    <1>1. CASE Ripen
        <2>1. PICK a \in Age : doc' = [doc EXCEPT !.age = a] /\ doc.status # "idle"
            BY <1>1 DEF Ripen, Age
        <2>2. Sound(doc')
            BY <2>1 DEF TypeInv, DocFits, Sound, Docs
        <2>3. Sound(doc)'
            BY <2>2 DEF Sound
        <2>4. UNCHANGED <<launches, resolved, finished, load, levels, pc, job, edits>>
            BY <1>1 DEF Ripen
        <2>5. JobsFit'
            BY <2>4 DEF TypeInv, JobsFit, Fits, Full, Sound
        <2> QED  BY <2>3, <2>4, <2>5 DEF TypeInv, AsksFit, DocFits, RestFits, giftVars
    <1>2. CASE NextDay
        <2>1. UNCHANGED <<docVars, load, levels, pc, job, edits>>
            BY <1>2 DEF NextDay
        <2>2. JobsFit'
            BY <2>1 DEF TypeInv, JobsFit, Fits, Full, Sound
        <2> QED  BY <2>1, <2>2 DEF TypeInv, AsksFit, DocFits, RestFits, giftVars, docVars, Sound
    <1>3. CASE UpdateConfig
        <2>1. UNCHANGED <<docVars, load, pc, job>> /\ levels' \in SUBSET Levels /\ edits' = edits + 1
            BY <1>3 DEF UpdateConfig
        <2>2. JobsFit'
            BY <2>1 DEF TypeInv, JobsFit, Fits, Full, Sound
        <2> QED  BY <2>1, <2>2 DEF TypeInv, AsksFit, DocFits, RestFits, giftVars, docVars, Sound
    <1>4. CASE Crash
        <2>1. /\ UNCHANGED <<docVars, load, levels, edits>>
              /\ pc' = [p \in Process |-> IF p # Sweeper /\ pc[p] # "idle" THEN "done" ELSE "idle"]
              /\ job' = [p \in Process |-> IF pc[p] = "idle" THEN job[p] ELSE Idle]
            BY <1>4 DEF Crash
        <2>2. pc' \in [Process -> Place] /\ \A p \in Process : pc'[p] \in {"done", "idle"}
            BY <2>1 DEF Place, RocketPlace
        <2>3. job' \in [Process -> Jobs] /\ \A q \in Requests : ~job'[q].far
            BY <2>1, IdleFits, SweeperApart DEF TypeInv, JobsFit
        <2>4. \A p \in Process : Fits(pc[p], job[p])'
            BY <2>2 DEF Fits, Fuelling, Drives
        <2>5. AsksFit'
            BY <2>2, SweeperApart DEF TypeInv, AsksFit, giftVars, Sending
        <2> QED  BY <2>1, <2>2, <2>3, <2>4, <2>5
                 DEF TypeInv, JobsFit, DocFits, RestFits, giftVars, docVars, Sound
    <1> QED  BY <1>1, <1>2, <1>3, <1>4

LEMMA CallFacts == \A c \in Calls : c.user \in Users /\ c.coins \in Nat \ {0}
    BY CallsAssumption

\* A send moves on, with or without its fuel.
LEMMA SendsFit ==
    ASSUME TypeInv, NEW q \in Requests, (\E c \in Calls : SendGift(q, c)) \/ GiftStep(q)
    PROVE  TypeInv'
    <1>1. q \in Process
        BY SweeperApart
    <1>2. ASSUME NEW l \in Place, GoTo(q, l), l \notin Fuelling,
                 ask' = ask \/ \E c \in Calls : ask' = [ask EXCEPT ![q] = c],
                 l \in Sending => ask'[q] \in Calls
          PROVE  JobsFit' /\ AsksFit' /\ DocFits' /\ UNCHANGED <<load, edits>>
        <2>1. pc' = [pc EXCEPT ![q] = l] /\ UNCHANGED <<docVars, load, levels, job, edits>>
            BY <1>2 DEF GoTo
        <2>2. /\ pc' \in [Process -> Place] /\ pc'[q] = l
              /\ \A p \in Process \ {q} : pc'[p] = pc[p]
            BY <1>1, <2>1 DEF TypeInv, JobsFit
        <2>3. \A p \in Process : Fits(pc'[p], job[p])
            <3>1. Fits(l, job[q])
                BY <1>2 DEF Fits, Fuelling, Drives
            <3> QED  BY <2>2, <3>1 DEF TypeInv, JobsFit
        <2>4. \A p \in Process : Fits(pc[p], job[p])'
            BY <2>1, <2>3 DEF Fits, Full, Sound
        <2>5. ask' \in [Requests -> Calls \cup {NoAsk}]
            BY <1>2 DEF TypeInv, AsksFit
        <2>6. \A r \in Requests \ {q} : ask'[r] = ask[r] /\ pc'[r] = pc[r]
            BY <1>2, <2>2, SweeperApart DEF TypeInv, AsksFit
        <2>7. \A r \in Requests : pc'[r] \in Sending => ask'[r] \in Calls
            BY <1>2, <2>2, <2>6 DEF TypeInv, AsksFit
        <2> QED  BY <2>1, <2>2, <2>4, <2>5, <2>7 DEF TypeInv, JobsFit, AsksFit, DocFits, docVars, Sound
    <1>3. pc[q] \in Sending => ask[q] \in Calls
        BY DEF TypeInv, AsksFit
    <1>4. ASSUME NEW c \in Calls, SendGift(q, c)  PROVE TypeInv'
        <2>1. GoTo(q, "giftTransfer") /\ ask' = [ask EXCEPT ![q] = c] /\ UNCHANGED <<gift, admin>>
            BY <1>4 DEF SendGift
        <2>2. ask'[q] = c
            BY <2>1 DEF TypeInv, AsksFit
        <2> QED  BY <1>2, <2>1, <2>2 DEF TypeInv, RestFits, Place, RocketPlace, Fuelling
    <1>5. ASSUME TransferFind(q) \/ TransferPay(q) \/ CreateEvent(q) \/ CountSent(q)
          PROVE  TypeInv'
        <2>1. PICK l \in {"giftEvent", "giftPay", "done", "giftCount", "giftFuel"} : GoTo(q, l)
            BY <1>5 DEF TransferFind, TransferPay, CreateEvent, CountSent
        <2>2. pc[q] \in Sending /\ UNCHANGED <<ask, admin>>
            BY <1>5 DEF TransferFind, TransferPay, CreateEvent, CountSent, Sending, giftVars
        <2>3. gift' \in [state : {"active", "inactive", "gone"}, totalSent : Nat]
            <3>1. CASE CountSent(q)
                <4>1. PICK n \in Nat : gift' = [gift EXCEPT !.totalSent = n]
                    BY <3>1 DEF CountSent, TypeInv, RestFits
                <4> QED  BY <4>1 DEF TypeInv, RestFits
            <3>2. CASE ~CountSent(q)
                BY <1>5, <3>2 DEF TransferFind, TransferPay, CreateEvent, giftVars, TypeInv, RestFits
            <3> QED  BY <3>1, <3>2
        <2> QED  BY <1>2, <1>3, <2>1, <2>2, <2>3 DEF TypeInv, RestFits, Place, RocketPlace, Fuelling
    <1>6. ASSUME Fuel(q)  PROVE TypeInv'
        <2>1. pc[q] = "giftFuel" /\ UNCHANGED giftVars
            BY <1>6 DEF Fuel
        <2>2. CASE GoTo(q, "done")
            BY <1>2, <1>3, <2>1, <2>2
               DEF TypeInv, RestFits, Place, RocketPlace, Fuelling, Sending, giftVars
        <2>3. CASE Counts /\ AddEnergy(q, ask[q].user, ask[q].coins)
            <3>1. ask[q].user \in Users /\ ask[q].coins \in Nat \ {0}
                BY <1>3, <2>1, CallFacts DEF Sending
            <3>2. PICK j : j = [Idle EXCEPT !.user = ask[q].user, !.fuel = ask[q].coins, !.levels = levels]
                OBVIOUS
            <3>3. /\ pc' = [pc EXCEPT ![q] = "addInc"] /\ job' = [job EXCEPT ![q] = j]
                  /\ UNCHANGED <<docVars, load, levels, edits>> /\ levels # {}
                BY <2>3, <3>2 DEF AddEnergy, Move, Counts
            <3>4. /\ j \in Jobs /\ j.fuel # 0 /\ j.levels = levels /\ j.far = Idle.far
                BY <3>1, <3>2, IdleFits DEF TypeInv, DocFits, Jobs
            <3>5. Fits("addInc", j)
                BY <3>3, <3>4 DEF Fits, Drives
            <3>6. Turns(q)
                BY <3>3, <3>4, <3>5, IdleFits DEF Turns, RocketPlace
            <3>7. JobsFit' /\ AsksFit'
                BY <1>1, <2>1, <3>6, TurnsFit DEF TypeInv, giftVars
            <3> QED  BY <2>1, <3>3, <3>7 DEF TypeInv, DocFits, RestFits, docVars, giftVars, Sound
        <2> QED  BY <1>6, <2>2, <2>3 DEF Fuel
    <1> QED  BY <1>4, <1>5, <1>6 DEF GiftStep

LEMMA AdminFits ==
    ASSUME TypeInv, SoftDelete \/ Purge \/ ForcePurge \/ ForceDeleteEvents \/ DeleteGift
    PROVE  TypeInv'
    <1>1. UNCHANGED <<docVars, load, levels, pc, job, edits, ask>>
        BY DEF SoftDelete, Purge, ForcePurge, AdminStart, ForceDeleteEvents, DeleteGift, rocketVars
    <1>2. JobsFit'
        BY <1>1 DEF TypeInv, JobsFit, Fits, Full, Sound
    <1>3. /\ gift' \in [state : {"active", "inactive", "gone"}, totalSent : Nat]
          /\ admin' \in {"idle", "events", "delete"}
        BY DEF SoftDelete, Purge, ForcePurge, AdminStart, ForceDeleteEvents, DeleteGift, TypeInv, RestFits
    <1> QED  BY <1>1, <1>2, <1>3 DEF TypeInv, AsksFit, DocFits, RestFits, docVars, Sound

LEMMA TypeStarts == Init => TypeInv
    <1> SUFFICES ASSUME Init  PROVE TypeInv
        OBVIOUS
    <1>1. /\ pc = [p \in Process |-> "idle"] /\ job = [p \in Process |-> Idle]
          /\ ask = [q \in Requests |-> NoAsk]
        BY DEF Init, RocketInit
    <1>2. JobsFit
        BY <1>1, IdleFits, SweeperApart DEF JobsFit, Place, RocketPlace
    <1>3. AsksFit
        BY <1>1, SweeperApart DEF AsksFit, Sending
    <1>4. doc = [energy |-> 0, level |-> 1, status |-> "idle", queue |-> <<>>, age |-> "fresh",
              pending |-> NoLaunch, seq |-> 0, contributions |-> <<>>]
        BY DEF Init, RocketInit
    <1>5. Sound(doc)
        BY <1>4, RocketAssumption DEF Sound, Docs, RocketStatus, Age
    <1>6. DocFits /\ RestFits
        BY <1>5 DEF Init, RocketInit, DocFits, RestFits
    <1> QED  BY <1>2, <1>3, <1>6 DEF TypeInv

LEMMA TypeNext == TypeInv /\ [Next]_giftsVars => TypeInv'
    <1> SUFFICES ASSUME TypeInv, [Next]_giftsVars  PROVE TypeInv'
        OBVIOUS
    <1>1. CASE UNCHANGED giftsVars
        <2>1. UNCHANGED <<docVars, load, levels, pc, job, edits, ask, gift, admin>>
            BY <1>1 DEF giftsVars, giftVars, rocketVars
        <2>2. JobsFit'
            BY <2>1 DEF TypeInv, JobsFit, Fits, Full, Sound
        <2> QED  BY <2>1, <2>2 DEF TypeInv, AsksFit, DocFits, RestFits, docVars, Sound
    <1>2. CASE RocketMoves /\ UNCHANGED giftVars
        <2>1. ask' = ask
            BY <1>2 DEF giftVars
        <2> QED  BY <1>2, <2>1, RocketFits, RocketRest DEF TypeInv
    <1> QED  BY <1>1, <1>2, OthersFit, SendsFit, AdminFits DEF Next, RocketMoves

------------------------------------------------------------------------------
\* The phases: what the document becomes behind a copy, and who is paid.

\* Processes driven by the daily reset, and those that may still write.
Far(p) == pc[p] \in Drives /\ job[p].far
Live(p) == /\ pc[p] \in Drives /\ ~job[p].far
           /\ job[p].mine.status = "idle" \/ job[p].mine.age # "fresh"

Copies == {job[p].mine : p \in {q \in Process : Live(q)}}

\* What the document has become since the copy m was read.
Agrees(m) ==
    /\ doc.status # m.status => doc.age = "fresh"
    /\ m.status = "banner" /\ doc.status = "countdown" => paid \subseteq due
    /\ m.status = "countdown" =>
          IF doc.status = "countdown" THEN doc.age # "fresh" /\ doc.pending = m.pending
          ELSE \E i \in DOMAIN launches : launches[i] = m.pending

\* The day is over and no gift of it is on its way.
Alone == ~today /\ \A q \in Requests : pc[q] \notin Fuelling

PaidKeys == paid \subseteq due \cup IF doc.pending = NoLaunch THEN {} ELSE keys(doc.pending)

PhaseInv ==
    /\ doc.age = "old" => Alone
    /\ \A p \in Process : Far(p) => job[p].mine = doc /\ Alone
    /\ \A m \in Copies : Agrees(m)
    /\ \A m, n \in Copies : ~(m.status = "banner" /\ n.status = "countdown")
    /\ PaidKeys

\* A process moves: no other copy is new.
LEMMA CopiesMove ==
    ASSUME JobsFit, NEW p \in Process, NEW l, NEW j,
           pc' = [pc EXCEPT ![p] = l], job' = [job EXCEPT ![p] = j]
    PROVE  /\ pc'[p] = l /\ job'[p] = j
           /\ \A q \in Process \ {p} : pc'[q] = pc[q] /\ job'[q] = job[q]
           /\ Copies' \subseteq Copies \cup {j.mine}
           /\ ~Live(p)' => Copies' \subseteq Copies
    <1>1. /\ pc'[p] = l /\ job'[p] = j
          /\ \A q \in Process \ {p} : pc'[q] = pc[q] /\ job'[q] = job[q]
        BY DEF JobsFit
    <1>2. ASSUME NEW m, m \in Copies'
          PROVE  m \in Copies \/ (m = j.mine /\ Live(p)')
        <2>1. PICK q \in Process : Live(q)' /\ m = job'[q].mine
            BY <1>2 DEF Copies
        <2>2. CASE q = p
            BY <1>1, <2>1, <2>2
        <2>3. CASE q # p
            <3>1. Live(q)
                BY <1>1, <2>1, <2>3 DEF Live
            <3> QED  BY <1>1, <2>1, <2>3, <3>1 DEF Copies
        <2> QED  BY <2>2, <2>3
    <1> QED  BY <1>1, <1>2

LEMMA RestLeaves ==
    ASSUME JobsFit, NEW p \in Process, Rest(p)
    PROVE  /\ Copies' \subseteq Copies /\ pc'[p] \in {"idle", "done"} /\ ~Far(p)'
           /\ \A q \in Process \ {p} : pc'[q] = pc[q] /\ job'[q] = job[q]
    <1>1. PICK l \in {"idle", "done"} : pc' = [pc EXCEPT ![p] = l] /\ job' = [job EXCEPT ![p] = Idle]
        BY DEF Rest
    <1>2. pc'[p] = l /\ \A q \in Process \ {p} : pc'[q] = pc[q] /\ job'[q] = job[q]
        BY <1>1, CopiesMove
    <1>3. ~Live(p)' /\ ~Far(p)'
        BY <1>2 DEF Live, Far, Drives
    <1> QED  BY <1>1, <1>2, <1>3, CopiesMove

\* A fresh copy of a phase waits; the daily reset goes on.
LEMMA ContinueLeaves ==
    ASSUME JobsFit, NEW p \in Process, NEW m, Continue(p, m)
    PROVE  /\ \A q \in Process \ {p} : pc'[q] = pc[q] /\ job'[q] = job[q]
           /\ Copies' \subseteq Copies \cup {m}
           /\ ~(m.status = "idle" \/ m.age # "fresh") => Copies' \subseteq Copies
           /\ ~job[p].far => ~Far(p)'
           /\ job[p].far => Copies' \subseteq Copies /\ (Far(p)' => job'[p].mine = m)
           /\ pc'[p] \in {"idle", "done", "step"}
    <1>1. CASE waiting(p, m)
        <2>1. Rest(p)
            BY <1>1 DEF Continue
        <2> QED  BY <2>1, RestLeaves
    <1>2. CASE ~waiting(p, m)
        <2>1. PICK j : j = [job[p] EXCEPT !.mine = m, !.left = {}]
            OBVIOUS
        <2>2. pc' = [pc EXCEPT ![p] = "step"] /\ job' = [job EXCEPT ![p] = j]
            BY <1>2, <2>1 DEF Continue, Move
        <2>3. job[p] \in Jobs
            BY DEF JobsFit
        <2>4. j.mine = m /\ j.far = job[p].far
            BY <2>1, <2>3 DEF Jobs
        <2>5. /\ pc'[p] = "step" /\ job'[p] = j
              /\ \A q \in Process \ {p} : pc'[q] = pc[q] /\ job'[q] = job[q]
              /\ Copies' \subseteq Copies \cup {m} /\ (~Live(p)' => Copies' \subseteq Copies)
            BY <2>2, <2>4, CopiesMove
        <2>6. Live(p)' => ~job[p].far /\ (m.status = "idle" \/ m.age # "fresh")
            BY <2>4, <2>5 DEF Live
        <2>7. Far(p)' => job[p].far /\ job'[p].mine = m
            BY <2>4, <2>5 DEF Far
        <2> QED  BY <2>5, <2>6, <2>7
    <1> QED  BY <1>1, <1>2

\* Whoever is at a step, but for the daily reset, has a copy that may write.
LEMMA StepperIsLive ==
    ASSUME JobsFit, NEW p \in Process, pc[p] \in {"step", "pay"}, ~Far(p)
    PROVE  job[p].mine \in Copies /\ ~job[p].far
    <1>1. Fits(pc[p], job[p]) /\ ~job[p].far
        BY DEF JobsFit, Far, Drives
    <1>2. Live(p)
        BY <1>1 DEF Fits, Live, Drives
    <1> QED  BY <1>1, <1>2 DEF Copies

LEMMA DueGrows ==
    ASSUME DocFits, NEW l \in Launched, launches' = Append(launches, l)
    PROVE  /\ due' = due \cup keys(l)
           /\ \A n : (n = l \/ \E i \in DOMAIN launches : launches[i] = n)
                        => \E i \in DOMAIN launches' : launches'[i] = n
    <1>1. PICK n \in Nat : n = Len(launches) /\ DOMAIN launches = 1 .. n
        BY DEF DocFits
    <1>2. /\ DOMAIN launches' = 1 .. (n + 1) /\ launches'[n + 1] = l
          /\ \A i \in 1 .. n : launches'[i] = launches[i]
        BY <1>1 DEF DocFits
    <1>3. \A i \in 1 .. n : i \in 1 .. (n + 1)
        OBVIOUS
    <1>4. \A i \in 1 .. (n + 1) : i \in 1 .. n \/ i = n + 1
        OBVIOUS
    <1>5. n + 1 \in 1 .. (n + 1)
        OBVIOUS
    <1>6. due' \subseteq due \cup keys(l)
        BY <1>1, <1>2, <1>4 DEF due, keys
    <1>7. due \cup keys(l) \subseteq due'
        BY <1>1, <1>2, <1>3, <1>5 DEF due, keys
    <1> QED  BY <1>1, <1>2, <1>3, <1>5, <1>6, <1>7

\* What a step of the process p, not the daily reset, makes of the copies and of
\* the winners.
Kept ==
    /\ \A m \in Copies : Agrees(m)'
    /\ \A m \in Copies' : m \in Copies \/ (m.status = "idle" /\ Agrees(m)')
    /\ PaidKeys'

\* A step that writes nothing the phases are about.
LEMMA NothingChanges ==
    ASSUME PhaseInv, UNCHANGED <<doc, launches, paid>>
    PROVE  (\A m \in Copies : Agrees(m)') /\ PaidKeys'
    <1>1. due' = due
        BY DEF due
    <1> QED  BY <1>1 DEF PhaseInv, Agrees, PaidKeys

\* Fresh copies of a phase wait, copies of an idle rocket agree with a fresh document.
LEMMA FreshCopies ==
    ASSUME JobsFit, NEW p \in Process, ~job[p].far, NEW m, Continue(p, m), m.age = "fresh",
           doc'.status = "idle" \/ doc'.age = "fresh"
    PROVE  /\ \A n \in Copies' : n \in Copies \/ (n.status = "idle" /\ n = m /\ Agrees(n)')
           /\ m.status # "idle" => Copies' \subseteq Copies
    <1>1. ASSUME NEW n \in Copies', n \notin Copies
          PROVE  n = m /\ n.status = "idle" /\ Agrees(n)'
        <2>1. n = m /\ m.status = "idle"
            BY <1>1, ContinueLeaves
        <2>2. PICK k : k = n
            OBVIOUS
        <2>3. Agrees(k)'
            BY <2>1, <2>2 DEF Agrees
        <2> QED  BY <2>1, <2>2, <2>3
    <1> QED  BY <1>1, ContinueLeaves

\* What the first write of a cycle is.
LEMMA StartWrites ==
    ASSUME JobsFit, DocFits, NEW p \in Process, StartCycle(p)
    PROVE  LET m == job[p].mine IN
           /\ pc[p] = "step" /\ m.status = "idle" /\ m \in Docs
           /\ UNCHANGED <<launches, paid, finished, today>>
           /\ \/ /\ doc.status = "idle"
                 /\ \E q \in Seq(Levels), l \in Levels, e \in Nat :
                       /\ q # <<>> /\ Cost(q) + e = m.energy /\ resolved' = resolved \o q
                       /\ doc' = Started(doc, q, l, e) /\ Continue(p, Started(m, q, l, e))
              \/ doc.status # "idle" /\ UNCHANGED <<doc, resolved>> /\ Rest(p)
    <1> DEFINE m == job[p].mine
               full == covered(job[p].levels, m)
    <1>1. /\ pc[p] = "step" /\ m.status = "idle"
          /\ UNCHANGED <<launches, paid, finished, today>>
        BY DEF StartCycle, AtRocket
    <1>2. /\ full \in [queue : Seq(Levels), level : Levels, energy : Nat]
          /\ full.queue # <<>> /\ m.queue \o full.queue = full.queue
          /\ Cost(full.queue) + full.energy = m.energy
        BY <1>1, CoveredFits
    <1>3. m \in Docs
        BY <1>1, DriverFacts DEF Drives
    <1>4. CASE doc.status = "idle"
        <2>1. /\ doc' = Started(doc, full.queue, full.level, full.energy)
              /\ resolved' = resolved \o full.queue
              /\ Continue(p, Started(m, full.queue, full.level, full.energy))
            BY <1>2, <1>4 DEF StartCycle, Started
        <2> HIDE DEF full
        <2>2. full.queue \in Seq(Levels) /\ full.level \in Levels /\ full.energy \in Nat
            BY <1>2
        <2> QED  BY <1>1, <1>2, <1>3, <1>4, <2>1, <2>2
    <1>5. CASE doc.status # "idle"
        BY <1>1, <1>3, <1>5 DEF StartCycle
    <1> QED  BY <1>4, <1>5

LEMMA StartKeeps ==
    ASSUME JobsFit, DocFits, PhaseInv, NEW p \in Process, StartCycle(p), ~Far(p)
    PROVE  Kept /\ Copies' \subseteq Copies /\ ~Far(p)' /\ doc'.age \in {doc.age, "fresh"}
    <1> DEFINE m == job[p].mine
    <1>1. pc[p] = "step" /\ m \in Docs /\ UNCHANGED <<launches, paid>>
        BY StartWrites
    <1>2. ~job[p].far
        BY <1>1, StepperIsLive
    <1>3. doc \in Docs /\ (doc.status = "idle" => doc.pending = NoLaunch)
        BY DEF DocFits, Sound
    <1>4. due' = due
        BY <1>1 DEF due
    <1>5. CASE doc.status = "idle"
        <2>1. PICK q, l, e, n :
                 /\ q \in Seq(Levels) /\ l \in Levels /\ e \in Nat
                 /\ doc' = Started(doc, q, l, e) /\ n = Started(m, q, l, e) /\ Continue(p, n)
            BY <1>5, StartWrites
        <2>2. /\ n.status = "banner" /\ n.age = "fresh" /\ doc'.status = "banner"
              /\ doc'.age = "fresh" /\ doc'.pending = NoLaunch
            BY <1>1, <1>3, <2>1 DEF Started, Docs
        <2>3. Copies' \subseteq Copies /\ ~Far(p)'
            BY <1>2, <2>1, <2>2, ContinueLeaves
        <2>4. ASSUME NEW c \in Copies  PROVE Agrees(c)'
            <3>1. Agrees(c)
                BY DEF PhaseInv
            <3>2. PICK k : k = c
                OBVIOUS
            <3>3. Agrees(k)'
                BY <1>1, <1>5, <2>2, <3>1, <3>2 DEF Agrees
            <3> QED  BY <3>2, <3>3
        <2>5. PaidKeys'
            BY <1>1, <1>3, <1>4, <1>5, <2>2 DEF PhaseInv, PaidKeys
        <2> QED  BY <2>2, <2>3, <2>4, <2>5 DEF Kept
    <1>6. CASE doc.status # "idle"
        <2>1. Rest(p) /\ doc' = doc
            BY <1>6, StartWrites
        <2> QED  BY <1>1, <2>1, RestLeaves, NothingChanges DEF Kept
    <1> QED  BY <1>5, <1>6

\* What a dropped level leaves: its copy is at a banner, the document may be past it.
LEMMA DropWrites ==
    ASSUME JobsFit, DocFits, NEW p \in Process, DropHead(p)
    PROVE  LET m == job[p].mine IN
           /\ pc[p] = "step" /\ m.status = "banner" /\ m \in Docs
           /\ m.queue # <<>> /\ Head(m.queue) \notin job[p].levels
           /\ UNCHANGED <<launches, paid, resolved, today>>
           /\ \E q \in Seq(Levels) :
                 /\ Continue(p, after(m, q))
                 /\ \/ doc.status \in {"banner", "countdown"} /\ doc' = after(doc, q)
                    \/ doc.status = "idle" /\ doc' = doc
    <1> DEFINE m == job[p].mine
               queue == IF m.queue = <<>> THEN <<>> ELSE Tail(m.queue)
    <1>1. /\ pc[p] = "step" /\ UNCHANGED <<launches, paid, resolved, today>>
          /\ Continue(p, after(m, queue))
          /\ \/ m.status = "banner" /\ ~Launchable(p, m)
             \/ m.status = "countdown" /\ m.pending = NoLaunch
        BY DEF DropHead, AtRocket
    <1>2. m \in Docs /\ Sound(m) /\ m.queue \in Seq(Levels)
        BY <1>1, DriverFacts DEF Drives, Docs
    <1>3. m.status = "banner" /\ ~Launchable(p, m) /\ m.queue # <<>>
        BY <1>1, <1>2 DEF Sound
    <1>4. queue \in Seq(Levels)
        <2> HIDE DEF m
        <2> QED  BY <1>2
    <1>5. doc.status \in RocketStatus
        BY DEF DocFits, Sound, Docs
    <1>6. \/ doc.status \in {"banner", "countdown"} /\ doc' = after(doc, queue)
          \/ doc.status = "idle" /\ doc' = doc
        BY <1>5 DEF DropHead, RocketStatus
    <1> HIDE DEF queue
    <1> QED  BY <1>1, <1>2, <1>3, <1>4, <1>6 DEF Launchable

LEMMA DropKeeps ==
    ASSUME JobsFit, DocFits, PhaseInv, NEW p \in Process, DropHead(p), ~Far(p)
    PROVE  Kept /\ ~Far(p)' /\ doc'.age \in {doc.age, "fresh"}
    <1> DEFINE m == job[p].mine
    <1>1. /\ pc[p] = "step" /\ m.status = "banner" /\ m \in Docs /\ UNCHANGED <<launches, paid>>
        BY DropWrites
    <1>2. ~job[p].far /\ m \in Copies
        BY <1>1, StepperIsLive
    <1>3. PICK q, n :
                 /\ q \in Seq(Levels)
                 /\ n = after(m, q) /\ Continue(p, n)
                 /\ \/ doc.status \in {"banner", "countdown"} /\ doc' = after(doc, q)
                    \/ doc.status = "idle" /\ doc' = doc
        BY DropWrites
    <1>4. n.age = "fresh"
        BY <1>1, <1>3 DEF after, Docs
    <1>5. ~Far(p)'
        BY <1>2, <1>3, ContinueLeaves
    <1>6. CASE doc.status \in {"banner", "countdown"} /\ doc' = after(doc, q)
        <2>1. /\ doc'.status \in {"idle", "banner"} /\ doc'.age = "fresh" /\ doc'.pending = NoLaunch
              /\ doc \in Docs /\ (doc.status = "banner" => doc.pending = NoLaunch)
            BY <1>6 DEF DocFits, Sound, Docs, after
        <2>2. \A c \in Copies' : c \in Copies \/ (c.status = "idle" /\ Agrees(c)')
            BY <1>2, <1>3, <1>4, <2>1, FreshCopies
        <2>3. ASSUME NEW c \in Copies  PROVE Agrees(c)'
            <3>1. c.status # "countdown"
                BY <1>1, <1>2 DEF PhaseInv
            <3>2. PICK k : k = c
                OBVIOUS
            <3>3. Agrees(k)'
                BY <2>1, <3>1, <3>2 DEF Agrees
            <3> QED  BY <3>2, <3>3
        <2>4. paid \subseteq due
            <3>1. Agrees(m)
                BY <1>2 DEF PhaseInv
            <3> QED  BY <1>1, <1>6, <2>1, <3>1 DEF Agrees, PhaseInv, PaidKeys
        <2>5. PaidKeys'
            BY <1>1, <2>1, <2>4 DEF PaidKeys, due
        <2> QED  BY <1>5, <2>1, <2>2, <2>3, <2>5 DEF Kept
    <1>7. CASE doc.status = "idle" /\ doc' = doc
        <2>1. \A c \in Copies' : c \in Copies \/ (c.status = "idle" /\ Agrees(c)')
            BY <1>2, <1>3, <1>4, <1>7, FreshCopies
        <2> QED  BY <1>1, <1>5, <1>7, <2>1, NothingChanges DEF Kept
    <1> QED  BY <1>3, <1>6, <1>7

LEMMA CountdownKeeps ==
    ASSUME JobsFit, DocFits, PhaseInv, NEW p \in Process, StartCountdown(p), ~Far(p)
    PROVE  Kept /\ Copies' \subseteq Copies /\ ~Far(p)' /\ doc'.age \in {doc.age, "fresh"}
    <1> DEFINE m == job[p].mine
    <1>1. pc[p] = "step" /\ m.status = "banner" /\ UNCHANGED <<launches, paid>>
        BY DEF StartCountdown, AtRocket
    <1>2. ~job[p].far /\ m \in Copies /\ m \in Docs
        BY <1>1, StepperIsLive, DriverFacts DEF Drives
    <1>3. PICK l, n :
              /\ l \in Launched
              /\ n = Counting(m, l)
              /\ \/ doc.status = "banner" /\ doc' = Counting(doc, l) /\ Continue(p, n)
                 \/ doc.status # "banner" /\ doc' = doc /\ Rest(p)
        BY CountdownWrites
    <1>4. due' = due
        BY <1>1 DEF due
    <1>5. CASE doc.status = "banner" /\ doc' = Counting(doc, l) /\ Continue(p, n)
        <2>1. /\ doc'.status = "countdown" /\ doc'.age = "fresh" /\ doc'.pending = l
              /\ n.status = "countdown" /\ n.age = "fresh" /\ doc.pending = NoLaunch
            BY <1>2, <1>3, <1>5 DEF DocFits, Sound, Docs, Counting
        <2>2. Copies' \subseteq Copies /\ ~Far(p)'
            BY <1>2, <1>5, <2>1, ContinueLeaves
        <2>3. paid \subseteq due
            BY <2>1 DEF PhaseInv, PaidKeys
        <2>4. ASSUME NEW c \in Copies  PROVE Agrees(c)'
            <3>1. c.status # "countdown"
                BY <1>1, <1>2 DEF PhaseInv
            <3>2. PICK k : k = c
                OBVIOUS
            <3>3. Agrees(k)'
                BY <1>1, <1>4, <2>1, <2>3, <3>1, <3>2 DEF Agrees
            <3> QED  BY <3>2, <3>3
        <2>5. PaidKeys'
            BY <1>1, <1>4, <2>3 DEF PaidKeys
        <2> QED  BY <2>1, <2>2, <2>4, <2>5 DEF Kept
    <1>6. CASE doc' = doc /\ Rest(p)
        BY <1>1, <1>6, RestLeaves, NothingChanges DEF Kept
    <1> QED  BY <1>3, <1>5, <1>6

\* The payments: the copy stays.
LEMMA PaymentWrites ==
    ASSUME JobsFit, NEW p \in Process, Fire(p) \/ Pay(p)
    PROVE  /\ pc[p] \in {"step", "pay"} /\ pc'[p] = "pay" /\ job[p].mine.status = "countdown"
           /\ job'[p].mine = job[p].mine /\ job'[p].far = job[p].far
           /\ job'[p].levels = job[p].levels
           /\ \A q \in Process \ {p} : pc'[q] = pc[q] /\ job'[q] = job[q]
           /\ Copies' \subseteq Copies \cup {job[p].mine} /\ (job[p].far => Copies' \subseteq Copies)
           /\ paid' = paid \/ \E k \in keys(job[p].mine.pending) : paid' = paid \cup {k}
           /\ UNCHANGED <<docVars, today, levels, edits>>
    <1>1. PICK left, j :
             /\ j = [job[p] EXCEPT !.left = left]
             /\ pc' = [pc EXCEPT ![p] = "pay"] /\ job' = [job EXCEPT ![p] = j]
        BY DEF Fire, Pay, Move
    <1>2. /\ pc[p] \in {"step", "pay"} /\ (pc[p] # "pay" => job[p].mine.status = "countdown")
          /\ paid' = paid \/ (pc[p] = "pay" /\ \E k \in job[p].left : paid' = paid \cup {k})
          /\ UNCHANGED <<docVars, today, levels, edits>>
        BY DEF Fire, Pay, AtRocket
    <1>3. job[p] \in Jobs /\ Fits(pc[p], job[p])
        BY DriverFacts
    <1>4. /\ job[p].mine.status = "countdown"
          /\ pc[p] = "pay" => job[p].left \subseteq keys(job[p].mine.pending)
        BY <1>2, <1>3 DEF Fits
    <1>5. j.mine = job[p].mine /\ j.far = job[p].far /\ j.levels = job[p].levels
        BY <1>1, <1>3 DEF Jobs
    <1>6. /\ pc'[p] = "pay" /\ job'[p] = j
          /\ \A q \in Process \ {p} : pc'[q] = pc[q] /\ job'[q] = job[q]
          /\ Copies' \subseteq Copies \cup {j.mine} /\ (~Live(p)' => Copies' \subseteq Copies)
        <2>1. pc' = [pc EXCEPT ![p] = "pay"] /\ job' = [job EXCEPT ![p] = j]
            BY <1>1
        <2> QED  BY <2>1, CopiesMove
    <1>7. job[p].far => ~Live(p)'
        BY <1>5, <1>6 DEF Live
    <1> QED  BY <1>2, <1>4, <1>5, <1>6, <1>7

LEMMA PaymentKeeps ==
    ASSUME JobsFit, DocFits, PhaseInv, NEW p \in Process, Fire(p) \/ Pay(p), ~Far(p)
    PROVE  Kept /\ Copies' \subseteq Copies /\ ~Far(p)' /\ doc'.age \in {doc.age, "fresh"}
    <1> DEFINE m == job[p].mine
    <1>1. /\ pc[p] \in {"step", "pay"} /\ m.status = "countdown"
          /\ job'[p].far = job[p].far
          /\ Copies' \subseteq Copies \cup {m}
          /\ paid' = paid \/ \E k \in keys(m.pending) : paid' = paid \cup {k}
          /\ UNCHANGED docVars
        BY PaymentWrites
    <1>2. ~job[p].far /\ m \in Copies
        BY <1>1, StepperIsLive
    <1>3. Copies' \subseteq Copies /\ ~Far(p)' /\ UNCHANGED <<doc, launches>> /\ due' = due
        BY <1>1, <1>2 DEF Far, docVars, due
    <1>4. ASSUME NEW c \in Copies  PROVE Agrees(c)'
        <2>1. Agrees(c) /\ c.status # "banner"
            BY <1>1, <1>2 DEF PhaseInv
        <2>2. PICK k : k = c
            OBVIOUS
        <2>3. Agrees(k)'
            BY <1>3, <2>1, <2>2 DEF Agrees
        <2> QED  BY <2>2, <2>3
    <1>5. keys(m.pending) \subseteq due \cup IF doc.pending = NoLaunch THEN {} ELSE keys(doc.pending)
        <2>1. Agrees(m) /\ m.pending \in Launched
            <3>1. Sound(m)
                BY <1>1, DriverFacts DEF Drives
            <3> QED  BY <1>1, <1>2, <3>1 DEF PhaseInv, Sound, Docs
        <2>2. CASE doc.status = "countdown"
            BY <1>1, <2>1, <2>2, NoLaunchApart DEF Agrees
        <2>3. CASE doc.status # "countdown"
            <3>1. \E i \in DOMAIN launches : launches[i] = m.pending
                BY <1>1, <2>1, <2>3 DEF Agrees
            <3> QED  BY <3>1 DEF due
        <2> QED  BY <2>2, <2>3
    <1>6. PaidKeys'
        <2>1. paid' \subseteq due \cup IF doc.pending = NoLaunch THEN {} ELSE keys(doc.pending)
            BY <1>1, <1>5 DEF PhaseInv, PaidKeys
        <2> QED  BY <1>3, <2>1 DEF PaidKeys, keys
    <1> QED  BY <1>3, <1>4, <1>6 DEF Kept

LEMMA LaunchWrites ==
    ASSUME JobsFit, NEW p \in Process, Launch(p)
    PROVE  LET m == job[p].mine IN
           /\ pc[p] = "pay" /\ UNCHANGED <<paid, resolved, today>>
           /\ \/ /\ doc.status = "countdown"
                 /\ \E q \in Seq(Levels), n \in Nat :
                       /\ q = Tail(m.queue) /\ n = m.seq + 1
                       /\ doc' = Landed(doc, q, n) /\ Continue(p, Landed(m, q, n))
                 /\ launches' = Append(launches, m.pending)
                 /\ finished' = Append(finished, m.pending.level)
              \/ doc.status # "countdown" /\ UNCHANGED <<doc, launches, finished>> /\ Rest(p)
    <1> DEFINE m == job[p].mine
    <1>1. pc[p] = "pay" /\ UNCHANGED <<paid, resolved, today>>
        BY DEF Launch, AtRocket
    <1>2. Tail(m.queue) \in Seq(Levels) /\ m.seq \in Nat
        BY <1>1, PayerFacts
    <1>3. m.seq + 1 \in Nat
        BY <1>2
    <1>4. CASE doc.status = "countdown"
        <2>1. /\ doc' = Landed(doc, Tail(m.queue), m.seq + 1)
              /\ launches' = Append(launches, m.pending)
              /\ finished' = Append(finished, m.pending.level)
              /\ Continue(p, Landed(m, Tail(m.queue), m.seq + 1))
            BY <1>4 DEF Launch, Landed
        <2> QED  BY <1>1, <1>2, <1>3, <1>4, <2>1
    <1>5. CASE doc.status # "countdown"
        BY <1>1, <1>5 DEF Launch
    <1> QED  BY <1>4, <1>5

LEMMA LaunchKeeps ==
    ASSUME JobsFit, DocFits, PhaseInv, NEW p \in Process, Launch(p), ~Far(p)
    PROVE  Kept /\ ~Far(p)' /\ doc'.age \in {doc.age, "fresh"}
    <1> DEFINE m == job[p].mine
    <1>1. pc[p] = "pay" /\ paid' = paid
        BY LaunchWrites
    <1>2. ~job[p].far /\ m \in Copies /\ m \in Docs /\ m.pending \in Launched /\ m.status = "countdown"
        BY <1>1, StepperIsLive, PayerFacts
    <1>3. CASE doc.status = "countdown"
        <2>1. PICK q, k, n :
                 /\ q \in Seq(Levels) /\ k \in Nat
                 /\ doc' = Landed(doc, q, k) /\ n = Landed(m, q, k) /\ Continue(p, n)
                 /\ launches' = Append(launches, m.pending)
            BY <1>3, LaunchWrites
        <2>2. /\ doc'.status \in {"idle", "banner"} /\ doc'.age = "fresh" /\ doc'.pending = NoLaunch
              /\ n.age = "fresh"
            BY <1>2, <2>1 DEF DocFits, Sound, Docs, Landed, after
        <2>3. ~Far(p)'
            BY <1>2, <2>1, ContinueLeaves
        <2>4. \A c \in Copies' : c \in Copies \/ (c.status = "idle" /\ Agrees(c)')
            BY <1>2, <2>1, <2>2, FreshCopies
        <2>5. doc.pending = m.pending
            BY <1>2, <1>3 DEF PhaseInv, Agrees
        <2>6. /\ due' = due \cup keys(m.pending)
              /\ \E i \in DOMAIN launches' : launches'[i] = m.pending
            BY <1>2, <2>1, DueGrows
        <2>7. ASSUME NEW c \in Copies  PROVE Agrees(c)'
            <3>1. c.status = "countdown" => c.pending = m.pending
                BY <1>3, <2>5 DEF PhaseInv, Agrees
            <3>2. PICK d : d = c
                OBVIOUS
            <3>3. Agrees(d)'
                BY <2>2, <2>6, <3>1, <3>2 DEF Agrees
            <3> QED  BY <3>2, <3>3
        <2>8. PaidKeys'
            <3>1. paid \subseteq due \cup keys(m.pending)
                BY <1>2, <2>5 DEF PhaseInv, PaidKeys
            <3> QED  BY <1>1, <2>2, <2>6, <3>1 DEF PaidKeys
        <2> QED  BY <2>2, <2>3, <2>4, <2>7, <2>8 DEF Kept
    <1>4. CASE doc.status # "countdown"
        <2>1. Rest(p) /\ UNCHANGED <<doc, launches>>
            BY <1>4, LaunchWrites
        <2> QED  BY <1>1, <2>1, RestLeaves, NothingChanges DEF Kept
    <1> QED  BY <1>3, <1>4

\* The daily reset is alone with the document: there is no copy to disagree.
LEMMA FarIsAlone ==
    ASSUME JobsFit, PhaseInv, NEW p \in Process, Far(p)
    PROVE  p = Sweeper /\ Copies = {} /\ Alone /\ job[p].mine = doc /\ job[p].far
    <1>1. p = Sweeper /\ job[p].far
        BY SweeperApart DEF JobsFit, Far, Process
    <1>2. Alone /\ job[p].mine = doc
        BY DEF PhaseInv
    <1>3. \A q \in Process : ~Live(q)
        BY <1>1, <1>2 DEF Live, Alone, Process, Drives, Fuelling
    <1> QED  BY <1>1, <1>2, <1>3 DEF Copies

\* What the daily reset does to the document it does to its copy.
LEMMA FarKeeps ==
    ASSUME JobsFit, DocFits, PhaseInv, NEW p \in Process, Advance(p), Far(p)
    PROVE  /\ Copies' \subseteq Copies /\ PaidKeys' /\ (Far(p)' => job'[p].mine = doc')
           /\ doc'.age \in {doc.age, "fresh"}
    <1> DEFINE m == job[p].mine
    <1>1. m = doc /\ job[p].far
        BY FarIsAlone
    <1>2. /\ doc \in Docs /\ Sound(doc)
          /\ doc.pending = NoLaunch => paid \subseteq due
        BY DEF DocFits, Sound, PhaseInv, PaidKeys
    <1>3. ASSUME Rest(p)  PROVE Copies' \subseteq Copies /\ ~Far(p)'
        BY <1>3, RestLeaves
    <1>4. ASSUME NEW n, Continue(p, n), n = doc'
          PROVE  Copies' \subseteq Copies /\ (Far(p)' => job'[p].mine = doc')
        BY <1>1, <1>4, ContinueLeaves
    <1>5. ASSUME UNCHANGED <<doc, launches, paid>>  PROVE PaidKeys' /\ doc'.age \in {doc.age, "fresh"}
        BY <1>5, NothingChanges
    <1>6. ASSUME UNCHANGED <<paid, launches>>, doc.pending = NoLaunch, doc'.age = "fresh"
          PROVE  PaidKeys' /\ doc'.age \in {doc.age, "fresh"}
        BY <1>2, <1>6 DEF PaidKeys, due
    <1>7. CASE StartCycle(p)
        <2>1. UNCHANGED <<paid, launches>>
            BY <1>7, StartWrites
        <2>2. CASE doc.status = "idle"
            <3>1. PICK q, l, e, n :
                     /\ doc' = Started(doc, q, l, e) /\ n = Started(m, q, l, e) /\ Continue(p, n)
                BY <1>7, <2>2, StartWrites
            <3>2. doc'.age = "fresh" /\ doc.pending = NoLaunch
                BY <1>2, <2>2, <3>1 DEF Started, Sound, Docs
            <3> QED  BY <1>1, <1>4, <1>6, <2>1, <3>1, <3>2
        <2>3. CASE doc.status # "idle"
            BY <1>3, <1>5, <1>7, <2>1, <2>3, StartWrites
        <2> QED  BY <2>2, <2>3
    <1>8. CASE DropHead(p)
        <2>1. UNCHANGED <<paid, launches>> /\ doc.status = "banner"
            BY <1>1, <1>8, DropWrites
        <2>2. PICK q, n : n = after(m, q) /\ Continue(p, n) /\ doc' = after(doc, q)
            BY <1>8, <2>1, DropWrites
        <2>3. doc'.age = "fresh" /\ doc.pending = NoLaunch
            BY <1>2, <2>1, <2>2 DEF after, Sound, Docs
        <2> QED  BY <1>1, <1>4, <1>6, <2>1, <2>2, <2>3
    <1>9. CASE StartCountdown(p)
        <2>1. UNCHANGED <<paid, launches>> /\ doc.status = "banner"
            BY <1>1, <1>9 DEF StartCountdown
        <2>2. PICK l, n : n = Counting(m, l) /\ Continue(p, n) /\ doc' = Counting(doc, l)
            BY <1>9, <2>1, CountdownWrites
        <2>3. doc'.age = "fresh" /\ doc.pending = NoLaunch
            BY <1>2, <2>1, <2>2 DEF Counting, Sound, Docs
        <2> QED  BY <1>1, <1>4, <1>6, <2>1, <2>2, <2>3
    <1>10. CASE Fire(p) \/ Pay(p)
        <2>1. /\ m.status = "countdown" /\ job'[p].mine = m /\ Copies' \subseteq Copies
              /\ paid' = paid \/ \E k \in keys(m.pending) : paid' = paid \cup {k}
              /\ UNCHANGED docVars
            BY <1>1, <1>10, PaymentWrites
        <2>2. UNCHANGED <<doc, launches>> /\ due' = due
            BY <2>1 DEF docVars, due
        <2>3. doc.pending # NoLaunch
            BY <1>1, <1>2, <2>1 DEF Sound
        <2>4. paid' \subseteq due \cup keys(doc.pending)
            BY <1>1, <2>1, <2>3 DEF PhaseInv, PaidKeys
        <2>5. PaidKeys'
            BY <2>2, <2>3, <2>4 DEF PaidKeys, keys
        <2> QED  BY <1>1, <2>1, <2>2, <2>5
    <1>11. CASE Launch(p)
        <2>1. /\ doc.status = "countdown" /\ paid' = paid /\ m.pending \in Launched
              /\ doc.pending # NoLaunch
            BY <1>1, <1>11, LaunchWrites, PayerFacts
        <2>2. PICK q, k, n :
                 /\ doc' = Landed(doc, q, k) /\ n = Landed(m, q, k) /\ Continue(p, n)
                 /\ launches' = Append(launches, m.pending)
            BY <1>11, <2>1, LaunchWrites
        <2>3. doc'.age = "fresh" /\ doc'.pending = NoLaunch
            BY <1>2, <2>2 DEF Landed, after, Docs
        <2>4. due' = due \cup keys(m.pending)
            BY <2>1, <2>2, DueGrows
        <2>5. paid \subseteq due \cup keys(doc.pending)
            BY <2>1 DEF PhaseInv, PaidKeys
        <2>6. PaidKeys'
            BY <1>1, <2>1, <2>3, <2>4, <2>5 DEF PaidKeys
        <2> QED  BY <1>1, <1>4, <2>2, <2>3, <2>6
    <1> QED  BY <1>7, <1>8, <1>9, <1>10, <1>11 DEF Advance

\* One process moves, a request only while its fuel is on its way.
LEMMA StepKeepsPhase ==
    ASSUME JobsFit, PhaseInv, NEW p \in Process, today' = today,
           p \in Requests => pc[p] \in Fuelling,
           \A q \in Process \ {p} : pc'[q] = pc[q] /\ job'[q] = job[q],
           doc'.age \in {doc.age, "fresh"},
           Far(p)' => job'[p].mine = doc' /\ Alone,
           \A m \in Copies' : Agrees(m)',
           \A m, n \in Copies' : ~(m.status = "banner" /\ n.status = "countdown"),
           PaidKeys'
    PROVE  PhaseInv'
    <1>1. Alone => p = Sweeper
        BY DEF Alone, Process
    <1>2. Alone => Alone'
        BY <1>1, SweeperApart DEF Alone
    <1>3. doc'.age = "old" => Alone'
        BY <1>2 DEF PhaseInv
    <1>4. ASSUME NEW q \in Process, Far(q)'  PROVE job'[q].mine = doc' /\ Alone'
        <2>1. CASE q = p
            BY <1>2, <1>4, <2>1
        <2>2. CASE q # p
            <3>1. Far(q)
                BY <1>4, <2>2 DEF Far
            <3>2. q = Sweeper /\ Alone
                BY <3>1, FarIsAlone
            <3> QED  BY <1>1, <2>2, <3>2
        <2> QED  BY <2>1, <2>2
    <1>5. \A q \in Process : Far(q)' => job'[q].mine = doc' /\ Alone'
        BY <1>4
    <1> QED  BY <1>3, <1>5 DEF PhaseInv

\* A step whose copies all were there, but for idle ones.
LEMMA KeptIsEnough ==
    ASSUME PhaseInv, Kept
    PROVE  /\ \A m \in Copies' : Agrees(m)'
           /\ \A m, n \in Copies' : ~(m.status = "banner" /\ n.status = "countdown")
           /\ PaidKeys'
    <1>1. ASSUME NEW m \in Copies'  PROVE Agrees(m)'
        BY DEF Kept
    <1>2. ASSUME NEW m \in Copies', NEW n \in Copies', m.status = "banner" /\ n.status = "countdown"
          PROVE  FALSE
        <2>1. m \in Copies /\ n \in Copies
            BY <1>2 DEF Kept
        <2> QED  BY <1>2, <2>1 DEF PhaseInv
    <1> QED  BY <1>1, <1>2 DEF Kept

\* A step of a driver moves no other process.
LEMMA AdvanceMovesOne ==
    ASSUME JobsFit, DocFits, NEW p \in Process, Advance(p)
    PROVE  /\ pc[p] \in {"step", "pay"} /\ today' = today
           /\ \A q \in Process \ {p} : pc'[q] = pc[q] /\ job'[q] = job[q]
    <1>1. CASE StartCycle(p)
        BY <1>1, StartWrites, ContinueLeaves, RestLeaves
    <1>2. CASE DropHead(p)
        BY <1>2, DropWrites, ContinueLeaves
    <1>3. CASE StartCountdown(p)
        <2>1. pc[p] = "step" /\ today' = today
            BY <1>3 DEF StartCountdown, AtRocket
        <2> QED  BY <1>3, <2>1, CountdownWrites, ContinueLeaves, RestLeaves
    <1>4. CASE Fire(p) \/ Pay(p)
        BY <1>4, PaymentWrites
    <1>5. CASE Launch(p)
        BY <1>5, LaunchWrites, ContinueLeaves, RestLeaves
    <1> QED  BY <1>1, <1>2, <1>3, <1>4, <1>5 DEF Advance

LEMMA AdvanceKeepsPhase ==
    ASSUME JobsFit, DocFits, PhaseInv, NEW p \in Process, Advance(p)
    PROVE  PhaseInv'
    <1>1. /\ pc[p] \in {"step", "pay"} /\ today' = today
          /\ \A q \in Process \ {p} : pc'[q] = pc[q] /\ job'[q] = job[q]
        BY AdvanceMovesOne
    <1>2. pc[p] \in Fuelling
        BY <1>1 DEF Fuelling
    <1>3. CASE Far(p)
        <2>1. /\ Copies' \subseteq Copies /\ PaidKeys' /\ (Far(p)' => job'[p].mine = doc')
              /\ doc'.age \in {doc.age, "fresh"}
            BY <1>3, FarKeeps
        <2>2. Copies = {} /\ Alone
            BY <1>3, FarIsAlone
        <2>3. Copies' = {}
            BY <2>1, <2>2
        <2> QED  BY <1>1, <1>2, <2>1, <2>2, <2>3, StepKeepsPhase
    <1>4. CASE ~Far(p)
        <2>1. Kept /\ ~Far(p)' /\ doc'.age \in {doc.age, "fresh"}
            BY <1>4, StartKeeps, DropKeeps, CountdownKeeps, PaymentKeeps, LaunchKeeps DEF Advance
        <2>2. /\ \A m \in Copies' : Agrees(m)'
              /\ \A m, n \in Copies' : ~(m.status = "banner" /\ n.status = "countdown")
              /\ PaidKeys'
            BY <2>1, KeptIsEnough
        <2> QED  BY <1>1, <1>2, <2>1, <2>2, StepKeepsPhase
    <1> QED  BY <1>3, <1>4

\* A copy of the document as it is.
LEMMA CopyOfDoc ==
    ASSUME PhaseInv, UNCHANGED <<doc, launches, paid>>, Copies' \subseteq Copies \cup {doc},
           ~(doc.status = "idle" \/ doc.age # "fresh") => Copies' \subseteq Copies
    PROVE  /\ \A m \in Copies' : Agrees(m)'
           /\ \A m, n \in Copies' : ~(m.status = "banner" /\ n.status = "countdown")
           /\ PaidKeys'
    <1>1. \A m \in Copies : Agrees(m) /\ Agrees(m)'
        BY NothingChanges DEF PhaseInv
    <1>2. PaidKeys'
        BY NothingChanges
    <1>3. ASSUME doc.status = "idle" \/ doc.age # "fresh"  PROVE Agrees(doc)'
        <2>1. PICK d : d = doc
            OBVIOUS
        <2>2. Agrees(d)'
            BY <1>3, <2>1 DEF Agrees
        <2> QED  BY <2>1, <2>2 DEF Agrees
    <1>4. ASSUME NEW m \in Copies'  PROVE Agrees(m)'
        <2>1. CASE m \in Copies
            BY <1>1, <2>1
        <2>2. CASE m \notin Copies
            <3>1. m = doc /\ (doc.status = "idle" \/ doc.age # "fresh")
                BY <2>2
            <3>2. PICK d : d = m
                OBVIOUS
            <3>3. Agrees(d)'
                BY <3>1, <3>2 DEF Agrees
            <3> QED  BY <3>2, <3>3
        <2> QED  BY <2>1, <2>2
    <1>5. ASSUME NEW m \in Copies', NEW n \in Copies', m.status = "banner" /\ n.status = "countdown"
          PROVE  FALSE
        <2>1. CASE m \in Copies /\ n \in Copies
            BY <1>5, <2>1 DEF PhaseInv
        <2>2. CASE m \notin Copies
            <3>1. m = doc /\ doc.age # "fresh" /\ n \in Copies
                BY <1>5, <2>2
            <3> QED  BY <1>1, <1>5, <3>1 DEF Agrees
        <2>3. CASE n \notin Copies
            <3>1. n = doc /\ doc.age # "fresh" /\ m \in Copies
                BY <1>5, <2>3
            <3> QED  BY <1>1, <1>5, <3>1 DEF Agrees
        <2> QED  BY <2>1, <2>2, <2>3
    <1> QED  BY <1>2, <1>4, <1>5

\* The fuel of a gift and the level of a document are not about its phase.
LEMMA SamePhase ==
    ASSUME PhaseInv, UNCHANGED <<launches, paid>>, doc'.status = doc.status, doc'.age = doc.age,
           doc'.pending = doc.pending
    PROVE  (\A m \in Copies : Agrees(m)') /\ PaidKeys'
    <1>1. due' = due
        BY DEF due
    <1>2. ASSUME NEW m \in Copies  PROVE Agrees(m)'
        <2>1. Agrees(m)
            BY DEF PhaseInv
        <2>2. PICK d : d = m
            OBVIOUS
        <2>3. Agrees(d)'
            BY <1>1, <2>1, <2>2 DEF Agrees
        <2> QED  BY <2>2, <2>3
    <1> QED  BY <1>1, <1>2 DEF PhaseInv, PaidKeys

LEMMA AddKeepsPhase ==
    ASSUME JobsFit, DocFits, PhaseInv, NEW q \in Requests, AddInc(q) \/ AddPush(q)
    PROVE  PhaseInv' /\ Copies' \subseteq Copies
    <1>1. PICK l \in {"addFetch", "addPush"} : Move(q, l, job[q])
        BY AddWrites
    <1>2. /\ pc[q] \in {"addInc", "addPush"} /\ UNCHANGED <<launches, paid, today>>
          /\ doc' = doc \/ Fuelled(job[q].fuel)
        BY AddWrites
    <1>3. q \in Process /\ pc[q] \in Fuelling
        BY <1>2, SweeperApart DEF Fuelling
    <1>4. PICK j : j = job[q]
        OBVIOUS
    <1>5. /\ pc'[q] = l /\ \A p \in Process \ {q} : pc'[p] = pc[p] /\ job'[p] = job[p]
          /\ ~Live(q)' => Copies' \subseteq Copies
        BY <1>1, <1>3, <1>4, CopiesMove DEF Move
    <1>6. ~Live(q)' /\ ~Far(q)'
        BY <1>5 DEF Live, Far, Drives
    <1>7. doc'.status = doc.status /\ doc'.age = doc.age /\ doc'.pending = doc.pending
        <2>1. doc \in Docs
            BY DEF DocFits, Sound
        <2> QED  BY <1>2, <2>1 DEF Fuelled, Docs
    <1>8. (\A m \in Copies : Agrees(m)') /\ PaidKeys'
        BY <1>2, <1>7, SamePhase
    <1>9. Kept
        BY <1>5, <1>6, <1>8 DEF Kept
    <1> QED  BY <1>2, <1>3, <1>5, <1>6, <1>7, <1>9, KeptIsEnough, StepKeepsPhase

LEMMA FetchMoves ==
    ASSUME JobsFit, DocFits, NEW q \in Requests, AddFetch(q)
    PROVE  /\ pc[q] = "addFetch" /\ UNCHANGED <<docVars, paid, today>> /\ ~Far(q)'
           /\ \A p \in Process \ {q} : pc'[p] = pc[p] /\ job'[p] = job[p]
           /\ Copies' \subseteq Copies \cup {doc}
           /\ ~(doc.status = "idle" \/ doc.age # "fresh") => Copies' \subseteq Copies
    <1>1. pc[q] = "addFetch" /\ UNCHANGED <<docVars, paid, today>>
        BY DEF AddFetch, AtRocket
    <1>2. q \in Process /\ job[q] \in Jobs /\ ~job[q].far
        BY DriverFacts, SweeperApart DEF JobsFit
    <1>3. CASE Continue(q, doc)
        BY <1>1, <1>2, <1>3, ContinueLeaves
    <1>4. CASE Move(q, "addSnap", [job[q] EXCEPT !.mine = doc])
        <2>1. PICK j : j = [job[q] EXCEPT !.mine = doc]
            OBVIOUS
        <2>2. pc' = [pc EXCEPT ![q] = "addSnap"] /\ job' = [job EXCEPT ![q] = j]
            BY <1>4, <2>1 DEF Move
        <2>3. j.mine = doc /\ ~j.far
            BY <1>2, <2>1 DEF Jobs
        <2>4. /\ pc'[q] = "addSnap" /\ job'[q] = j
              /\ \A p \in Process \ {q} : pc'[p] = pc[p] /\ job'[p] = job[p]
              /\ Copies' \subseteq Copies \cup {j.mine} /\ (~Live(q)' => Copies' \subseteq Copies)
            BY <1>2, <2>2, CopiesMove
        <2>5. (Live(q)' => doc.status = "idle" \/ doc.age # "fresh") /\ ~Far(q)'
            BY <2>3, <2>4 DEF Live, Far
        <2> QED  BY <1>1, <2>3, <2>4, <2>5
    <1> QED  BY <1>3, <1>4 DEF AddFetch

LEMMA FetchKeepsPhase ==
    ASSUME JobsFit, DocFits, PhaseInv, NEW q \in Requests, AddFetch(q)
    PROVE  PhaseInv'
    <1>1. /\ pc[q] = "addFetch" /\ UNCHANGED <<docVars, paid, today>> /\ ~Far(q)'
          /\ \A p \in Process \ {q} : pc'[p] = pc[p] /\ job'[p] = job[p]
          /\ Copies' \subseteq Copies \cup {doc}
          /\ ~(doc.status = "idle" \/ doc.age # "fresh") => Copies' \subseteq Copies
        BY FetchMoves
    <1>2. q \in Process /\ pc[q] \in Fuelling /\ UNCHANGED <<doc, launches>>
        BY <1>1, SweeperApart DEF Fuelling, docVars
    <1> QED  BY <1>1, <1>2, CopyOfDoc, StepKeepsPhase

LEMMA SnapKeepsPhase ==
    ASSUME JobsFit, DocFits, PhaseInv, NEW q \in Requests, AddSnap(q)
    PROVE  PhaseInv'
    <1> DEFINE m == job[q].mine
    <1>1. PICK l, n :
             /\ n = [m EXCEPT !.level = l] /\ doc' = [doc EXCEPT !.level = l] /\ Continue(q, n)
        BY DEF AddSnap
    <1>2. pc[q] = "addSnap" /\ UNCHANGED <<launches, paid, today>>
        BY DEF AddSnap, AtRocket
    <1>3. /\ q \in Process /\ pc[q] \in Fuelling /\ ~job[q].far /\ m \in Docs
        BY <1>2, DriverFacts, SweeperApart DEF Fuelling, Drives, JobsFit
    <1>4. /\ doc'.status = doc.status /\ doc'.age = doc.age /\ doc'.pending = doc.pending
          /\ n.status = m.status /\ n.age = m.age /\ n.pending = m.pending
        BY <1>1, <1>3 DEF DocFits, Sound, Docs
    <1>5. (\A c \in Copies : Agrees(c)') /\ PaidKeys'
        BY <1>2, <1>4, SamePhase
    <1>6. /\ ~Far(q)' /\ Copies' \subseteq Copies \cup {n}
          /\ \A p \in Process \ {q} : pc'[p] = pc[p] /\ job'[p] = job[p]
          /\ ~(n.status = "idle" \/ n.age # "fresh") => Copies' \subseteq Copies
        BY <1>1, <1>3, ContinueLeaves
    <1>7. (n.status = "idle" \/ n.age # "fresh") => m \in Copies
        BY <1>2, <1>3, <1>4 DEF Live, Copies, Drives
    <1>8. m \in Copies => Agrees(n)'
        <2>1. PICK c, d : c = m /\ d = n
            OBVIOUS
        <2>2. c \in Copies => Agrees(c)'
            BY <1>5
        <2>3. Agrees(c)' => Agrees(d)'
            BY <1>4, <2>1 DEF Agrees
        <2> QED  BY <2>1, <2>2, <2>3
    <1>9. \A c \in Copies' : c \in Copies \/ (c = n /\ m \in Copies)
        BY <1>6, <1>7
    <1>10. \A c \in Copies' : Agrees(c)'
        BY <1>5, <1>8, <1>9
    <1>11. \A c, d \in Copies' : ~(c.status = "banner" /\ d.status = "countdown")
        BY <1>4, <1>9 DEF PhaseInv
    <1> QED  BY <1>2, <1>3, <1>4, <1>5, <1>6, <1>10, <1>11, StepKeepsPhase

LEMMA SweepReads ==
    ASSUME JobsFit, SweepRead \/ ResetRead
    PROVE  /\ UNCHANGED <<docVars, paid, today>>
           /\ \A q \in Process \ {Sweeper} : pc'[q] = pc[q] /\ job'[q] = job[q]
           /\ doc.status # "idle" /\ doc.age # "fresh"
           /\ Copies' \subseteq Copies \cup {doc} /\ job'[Sweeper].mine = doc
           /\ job'[Sweeper].levels = levels /\ pc'[Sweeper] = "step"
           /\ Far(Sweeper)' => doc.age = "old"
    <1>1. PICK j : /\ \/ j = [Idle EXCEPT !.mine = doc, !.levels = levels]
                      \/ j = [Idle EXCEPT !.mine = doc, !.levels = levels, !.far = TRUE] /\ ResetRead
                   /\ Move(Sweeper, "step", j)
        BY DEF SweepRead, ResetRead
    <1>2. j.mine = doc /\ j.levels = levels /\ (j.far => ResetRead)
        BY <1>1, IdleFits DEF Jobs
    <1>3. PICK p \in Process : p = Sweeper
        BY SweeperApart
    <1>4. /\ job'[Sweeper] = j /\ pc'[Sweeper] = "step"
          /\ \A q \in Process \ {Sweeper} : pc'[q] = pc[q] /\ job'[q] = job[q]
          /\ Copies' \subseteq Copies \cup {j.mine}
        <2>1. pc' = [pc EXCEPT ![p] = "step"] /\ job' = [job EXCEPT ![p] = j]
            BY <1>1, <1>3 DEF Move
        <2>2. /\ pc'[p] = "step" /\ job'[p] = j
              /\ \A q \in Process \ {p} : pc'[q] = pc[q] /\ job'[q] = job[q]
              /\ Copies' \subseteq Copies \cup {j.mine} /\ (~Live(p)' => Copies' \subseteq Copies)
            BY <2>1, CopiesMove
        <2> QED  BY <1>3, <2>2
    <1>5. Far(Sweeper)' => j.far
        BY <1>4 DEF Far
    <1> QED  BY <1>2, <1>4, <1>5 DEF SweepRead, ResetRead

LEMMA SweepKeepsPhase ==
    ASSUME JobsFit, DocFits, PhaseInv, SweepRead \/ ResetRead
    PROVE  PhaseInv'
    <1>1. /\ UNCHANGED <<docVars, paid, today>>
          /\ \A q \in Process \ {Sweeper} : pc'[q] = pc[q] /\ job'[q] = job[q]
          /\ doc.status # "idle" /\ doc.age # "fresh"
          /\ Copies' \subseteq Copies \cup {doc} /\ job'[Sweeper].mine = doc
          /\ Far(Sweeper)' => doc.age = "old"
        BY SweepReads
    <1>2. UNCHANGED <<doc, launches>>
        BY <1>1 DEF docVars
    <1>3. Far(Sweeper)' => Alone
        BY <1>1 DEF PhaseInv
    <1> QED  BY <1>1, <1>2, <1>3, CopyOfDoc, StepKeepsPhase, SweeperApart

LEMMA RocketKeepsPhase ==
    ASSUME JobsFit, DocFits, PhaseInv, RocketMoves
    PROVE  PhaseInv'
    <1>1. ASSUME NEW q \in Requests, RocketStep(q)  PROVE PhaseInv'
        BY <1>1, AdvanceKeepsPhase, AddKeepsPhase, FetchKeepsPhase, SnapKeepsPhase, SweeperApart
           DEF RocketStep
    <1>2. ASSUME Sweep  PROVE PhaseInv'
        BY <1>2, AdvanceKeepsPhase, SweepKeepsPhase, SweeperApart DEF Sweep
    <1> QED  BY <1>1, <1>2 DEF RocketMoves

\* Nobody has a copy: only the document's age and the winners matter.
LEMMA NoCopies ==
    ASSUME (\A p \in Process : pc'[p] \notin Drives), (doc'.age = "old" => Alone'), PaidKeys'
    PROVE  PhaseInv' /\ Copies' = {}
    <1>1. \A p \in Process : ~Live(p)' /\ ~Far(p)'
        BY DEF Live, Far
    <1>2. Copies' = {}
        BY <1>1 DEF Copies
    <1> QED  BY <1>1, <1>2 DEF PhaseInv

\* Time passes between the passes of a prompt server, and the last day of a phase
\* is after the last gift.
LEMMA TimeKeepsPhase ==
    ASSUME Prompt, TypeInv, PhaseInv, Ripen \/ NextDay \/ UpdateConfig \/ Crash
    PROVE  PhaseInv'
    <1>1. CASE Ripen
        <2>1. /\ \A p \in Process : pc[p] \notin Drives
              /\ doc.age = "due" => ~today /\ \A q \in Requests : pc[q] \notin Fuelling
              /\ doc' = [doc EXCEPT !.age = IF @ = "fresh" THEN "due" ELSE "old"]
              /\ UNCHANGED <<launches, paid, pc, today>> /\ doc.age # "old"
            BY <1>1 DEF Ripen, Drives
        <2>2. doc'.pending = doc.pending /\ (doc'.age = "old" => doc.age = "due")
            BY <2>1 DEF TypeInv, DocFits, Sound, Docs, Age
        <2>3. PaidKeys'
            BY <2>1, <2>2 DEF PhaseInv, PaidKeys, due
        <2>4. doc'.age = "old" => Alone'
            BY <2>1, <2>2 DEF Alone
        <2> QED  BY <2>1, <2>3, <2>4, NoCopies
    <1>2. CASE NextDay \/ UpdateConfig
        <2>1. UNCHANGED <<doc, launches, paid, pc, job>> /\ (~today => ~today')
            BY <1>2 DEF NextDay, UpdateConfig, docVars
        <2>2. Copies' = Copies /\ (Alone => Alone') /\ \A p \in Process : Far(p)' => Far(p)
            BY <2>1 DEF Copies, Live, Far, Alone
        <2>3. (\A m \in Copies : Agrees(m)') /\ PaidKeys'
            BY <2>1, NothingChanges
        <2>4. doc'.age = "old" => Alone'
            BY <2>1, <2>2 DEF PhaseInv
        <2>5. \A p \in Process : Far(p)' => job'[p].mine = doc' /\ Alone'
            BY <2>1, <2>2 DEF PhaseInv
        <2>6. \A m, n \in Copies' : ~(m.status = "banner" /\ n.status = "countdown")
            BY <2>2 DEF PhaseInv
        <2>7. \A m \in Copies' : Agrees(m)'
            BY <2>2, <2>3
        <2> QED  BY <2>3, <2>4, <2>5, <2>6, <2>7 DEF PhaseInv
    <1>3. CASE Crash
        <2>1. /\ UNCHANGED <<doc, launches, paid, today>>
              /\ pc' = [p \in Process |-> IF p # Sweeper /\ pc[p] # "idle" THEN "done" ELSE "idle"]
            BY <1>3 DEF Crash, docVars
        <2>2. \A p \in Process : pc'[p] \notin Fuelling /\ pc'[p] \notin Drives
            BY <2>1 DEF Fuelling, Drives
        <2>3. PaidKeys'
            BY <2>1, NothingChanges
        <2>4. doc'.age = "old" => Alone'
            BY <2>1, <2>2, SweeperApart DEF PhaseInv, Alone
        <2> QED  BY <2>2, <2>3, <2>4, NoCopies
    <1> QED  BY <1>1, <1>2, <1>3

\* A send goes on; its fuel is sent on the document's own day.
LEMMA SendMoves ==
    ASSUME TypeInv, NEW q \in Requests, (\E c \in Calls : SendGift(q, c)) \/ GiftStep(q)
    PROVE  /\ UNCHANGED <<docVars, paid, today, levels, edits>>
           /\ \A p \in Process \ {q} : pc'[p] = pc[p] /\ job'[p] = job[p]
           /\ pc'[q] \notin Drives
           /\ pc'[q] \in Fuelling => today /\ job'[q].levels = levels
    <1> DEFINE fuels == Counts /\ AddEnergy(q, ask[q].user, ask[q].coins)
    <1>1. q \in Process
        BY SweeperApart
    <1>2. ASSUME NEW l \in Place, l \notin Fuelling, GoTo(q, l)
          PROVE  /\ UNCHANGED <<docVars, paid, today, levels, edits>>
                 /\ \A p \in Process \ {q} : pc'[p] = pc[p] /\ job'[p] = job[p]
                 /\ pc'[q] = l /\ l \notin Drives
        BY <1>1, <1>2 DEF GoTo, Fuelling, Drives, TypeInv, JobsFit
    <1>3. ASSUME fuels
          PROVE  /\ UNCHANGED <<docVars, paid, today, levels, edits>>
                 /\ \A p \in Process \ {q} : pc'[p] = pc[p] /\ job'[p] = job[p]
                 /\ pc'[q] = "addInc" /\ today /\ job'[q].levels = levels
        <2>1. PICK j : /\ j = [Idle EXCEPT !.user = ask[q].user, !.fuel = ask[q].coins, !.levels = levels]
                       /\ job' = [job EXCEPT ![q] = j] /\ pc' = [pc EXCEPT ![q] = "addInc"]
            BY <1>3 DEF AddEnergy, Move
        <2>2. j.levels = levels
            BY <2>1, IdleFits DEF Jobs
        <2>3. UNCHANGED <<docVars, paid, today, levels, edits>> /\ today
            BY <1>3 DEF AddEnergy, Counts
        <2>4. /\ \A p \in Process \ {q} : pc'[p] = pc[p] /\ job'[p] = job[p]
              /\ pc'[q] = "addInc" /\ job'[q] = j
            BY <1>1, <2>1 DEF TypeInv, JobsFit
        <2> QED  BY <2>2, <2>3, <2>4
    <1>4. (\E l \in Place : l \notin Fuelling /\ GoTo(q, l)) \/ fuels
        BY DEF SendGift, GiftStep, TransferFind, TransferPay, CreateEvent, CountSent, Fuel,
               Place, RocketPlace, Fuelling
    <1> HIDE DEF fuels
    <1>5. "addInc" \notin Drives
        BY DEF Drives
    <1> QED  BY <1>2, <1>3, <1>4, <1>5

\* No copy is new.
LEMMA SendCopies ==
    ASSUME TypeInv, NEW q \in Requests, (\E c \in Calls : SendGift(q, c)) \/ GiftStep(q)
    PROVE  Copies' \subseteq Copies /\ \A p \in Process : Far(p)' => Far(p) /\ job'[p] = job[p]
    <1>1. /\ \A p \in Process \ {q} : pc'[p] = pc[p] /\ job'[p] = job[p]
          /\ pc'[q] \notin Drives
        BY SendMoves
    <1>2. \A p \in Process : /\ Live(p)' => Live(p) /\ job'[p] = job[p]
                             /\ Far(p)' => Far(p) /\ job'[p] = job[p]
        BY <1>1 DEF Live, Far
    <1> QED  BY <1>2 DEF Copies

LEMMA SendsKeepPhase ==
    ASSUME TypeInv, PhaseInv, NEW q \in Requests, (\E c \in Calls : SendGift(q, c)) \/ GiftStep(q)
    PROVE  PhaseInv'
    <1>1. UNCHANGED <<doc, launches, paid, today>>
        BY SendMoves DEF docVars
    <1>2. /\ \A p \in Process \ {q} : pc'[p] = pc[p]
          /\ pc'[q] \in Fuelling => today
        BY SendMoves
    <1>4. \A p \in Process : Far(p)' => Far(p) /\ job'[p] = job[p]
        BY SendCopies
    <1>5. Copies' \subseteq Copies
        BY SendCopies
    <1>6. Alone => Alone'
        BY <1>1, <1>2, SweeperApart DEF Alone
    <1>7. (\A m \in Copies : Agrees(m)') /\ PaidKeys'
        BY <1>1, NothingChanges
    <1>8. doc'.age = "old" => Alone'
        BY <1>1, <1>6 DEF PhaseInv
    <1>9. \A p \in Process : Far(p)' => job'[p].mine = doc' /\ Alone'
        BY <1>1, <1>4, <1>6 DEF PhaseInv
    <1>10. \A m, n \in Copies' : ~(m.status = "banner" /\ n.status = "countdown")
        BY <1>5 DEF PhaseInv
    <1>11. \A m \in Copies' : Agrees(m)'
        BY <1>5, <1>7
    <1> QED  BY <1>7, <1>8, <1>9, <1>10, <1>11 DEF PhaseInv

\* What leaves the rocket alone.
LEMMA StillKeepsPhase ==
    ASSUME PhaseInv, UNCHANGED rocketVars
    PROVE  PhaseInv'
    <1>1. UNCHANGED <<doc, launches, paid, today, pc, job>>
        BY DEF rocketVars, docVars
    <1>2. Copies' = Copies /\ Alone' = Alone /\ \A p \in Process : Far(p)' = Far(p)
        BY <1>1 DEF Copies, Live, Far, Alone
    <1>3. (\A m \in Copies : Agrees(m)') /\ PaidKeys'
        BY <1>1, NothingChanges
    <1>4. \A p \in Process : Far(p)' => job'[p].mine = doc' /\ Alone'
        BY <1>1, <1>2 DEF PhaseInv
    <1> QED  BY <1>1, <1>2, <1>3, <1>4 DEF PhaseInv

LEMMA PhaseStarts == Init => PhaseInv
    <1> SUFFICES ASSUME Init  PROVE PhaseInv
        OBVIOUS
    <1>1. /\ pc = [p \in Process |-> "idle"] /\ paid = {} /\ doc.age = "fresh"
        BY DEF Init, RocketInit
    <1>2. \A p \in Process : ~Live(p) /\ ~Far(p)
        BY <1>1 DEF Live, Far, Drives
    <1>3. Copies = {}
        BY <1>2 DEF Copies
    <1> QED  BY <1>1, <1>2, <1>3 DEF PhaseInv, PaidKeys

LEMMA AdminLeavesRocket ==
    ASSUME SoftDelete \/ Purge \/ ForcePurge \/ ForceDeleteEvents \/ DeleteGift
    PROVE  UNCHANGED rocketVars
    BY DEF SoftDelete, Purge, ForcePurge, AdminStart, ForceDeleteEvents, DeleteGift

LEMMA PhaseNext ==
    ASSUME Prompt, TypeInv, PhaseInv, [Next]_giftsVars
    PROVE  PhaseInv'
    <1>1. CASE UNCHANGED giftsVars
        BY <1>1, StillKeepsPhase DEF giftsVars
    <1>2. CASE RocketMoves
        BY <1>2, RocketKeepsPhase DEF TypeInv
    <1> QED  BY <1>1, <1>2, TimeKeepsPhase, SendsKeepPhase, AdminLeavesRocket, StillKeepsPhase
             DEF Next, RocketMoves

------------------------------------------------------------------------------
\* The fuel and the order of the launches.

\* What the document has become since the copy m was read, where the levels were
\* left alone: the fuel, the queue and the number of launches.
Counted(m) ==
    /\ m.status = "idle" =>
          /\ doc.status \in {"idle", "banner"}
          /\ doc.status = "idle" => m.energy <= doc.energy
    /\ m.status = "banner" =>
          /\ doc.status # "idle"
          /\ doc.status = "banner" => doc.queue = m.queue /\ doc.seq = m.seq
    /\ m.status = "countdown" /\ doc.status = "countdown" =>
          doc.queue = m.queue /\ doc.seq = m.seq /\ m.energy <= doc.energy

FuelInv ==
    /\ levels = Levels
    /\ \A p \in Process : /\ pc[p] # "addSnap"
                          /\ pc[p] \in Fuelling => job[p].levels = Levels
    /\ \A m \in Copies : Counted(m)
    /\ \A m, n \in Copies : ~(m.status = "banner" /\ n.status = "idle")
    /\ doc.status = "countdown" => doc.pending.level = Head(doc.queue) /\ doc.pending.seq = doc.seq
    /\ doc.energy + Cost(resolved) <= Given(doc.contributions)
    /\ resolved = finished \o doc.queue
    /\ \A i \in DOMAIN launches : launches[i].seq = i - 1
    /\ doc.seq = Len(launches)

LEMMA GivenType == \A s \in Seq(Row) : Given(s) \in Nat
    <1>1. PICK u : u \in Users
        BY RocketAssumption
    <1>2. [userId |-> u, energy |-> 1] \in Row
        BY <1>1 DEF Row
    <1>3. PICK c : c \in Row
        BY <1>2
    <1> QED  BY <1>3, GivenAppend

\* What the process p at a step knows of the document, and of the other copies.
Knows(p) ==
    LET m == job[p].mine IN
    /\ m.status = "idle" /\ doc.status = "idle" => m.energy <= doc.energy
    /\ m.status = "banner" /\ doc.status = "banner" => doc.queue = m.queue /\ doc.seq = m.seq
    /\ m.status = "countdown" /\ doc.status = "countdown" =>
          /\ doc.queue = m.queue /\ doc.seq = m.seq /\ m.energy <= doc.energy
          /\ doc.pending = m.pending
    /\ \A c \in Copies :
          /\ m.status = "banner" => c.status \notin {"countdown", "idle"}
          /\ m.status \in {"idle", "countdown"} => c.status # "banner"

LEMMA StepperKnows ==
    ASSUME JobsFit, DocFits, PhaseInv, FuelInv, NEW p \in Process, pc[p] \in {"step", "pay"}
    PROVE  Knows(p) /\ job[p].levels = Levels /\ job[p].mine \in Docs /\ Sound(job[p].mine)
    <1> DEFINE m == job[p].mine
    <1>1. job[p].levels = Levels /\ m \in Docs /\ Sound(m)
        BY DriverFacts DEF FuelInv, Fuelling, Drives
    <1>2. doc \in Docs /\ doc.energy \in Nat
        BY DEF DocFits, Sound, Docs
    <1>3. CASE Far(p)
        <2>1. m = doc /\ Copies = {}
            BY <1>3, FarIsAlone
        <2> QED  BY <1>1, <1>2, <2>1 DEF Knows
    <1>4. CASE ~Far(p)
        <2>1. m \in Copies
            BY <1>4, StepperIsLive
        <2>2. Counted(m) /\ Agrees(m)
            BY <2>1 DEF FuelInv, PhaseInv
        <2> QED  BY <1>1, <2>1, <2>2 DEF Knows, Counted, Agrees, FuelInv, PhaseInv
    <1> QED  BY <1>3, <1>4

\* A driver goes on with the levels it has read.
LEMMA ContinueLevels ==
    ASSUME JobsFit, NEW p \in Process, NEW m, Continue(p, m)
    PROVE  /\ pc'[p] \in {"idle", "done", "step"}
           /\ pc'[p] = "step" => job'[p].levels = job[p].levels
    <1>1. pc'[p] \in {"idle", "done", "step"}
        BY ContinueLeaves
    <1>2. CASE waiting(p, m)
        BY <1>2, RestLeaves DEF Continue
    <1>3. CASE ~waiting(p, m)
        <2>1. job' = [job EXCEPT ![p] = [job[p] EXCEPT !.mine = m, !.left = {}]]
            BY <1>3 DEF Continue, Move
        <2>2. job[p] \in Jobs
            BY DEF JobsFit
        <2>3. job'[p] = [job[p] EXCEPT !.mine = m, !.left = {}]
            BY <2>1 DEF JobsFit
        <2> QED  BY <1>1, <2>2, <2>3 DEF Jobs
    <1> QED  BY <1>2, <1>3

LEMMA AdvanceLevels ==
    ASSUME JobsFit, DocFits, NEW p \in Process, Advance(p)
    PROVE  /\ pc'[p] \in {"idle", "done", "step", "pay"}
           /\ pc'[p] \in Fuelling => job'[p].levels = job[p].levels
    <1>1. ASSUME NEW n, Continue(p, n)
          PROVE  /\ pc'[p] \in {"idle", "done", "step", "pay"}
                 /\ pc'[p] \in Fuelling => job'[p].levels = job[p].levels
        BY <1>1, ContinueLevels DEF Fuelling
    <1>2. ASSUME Rest(p)
          PROVE  /\ pc'[p] \in {"idle", "done", "step", "pay"}
                 /\ pc'[p] \in Fuelling => job'[p].levels = job[p].levels
        BY <1>2, RestLeaves DEF Fuelling
    <1>3. CASE StartCycle(p)
        BY <1>1, <1>2, <1>3, StartWrites
    <1>4. CASE DropHead(p)
        BY <1>1, <1>4, DropWrites
    <1>5. CASE StartCountdown(p)
        BY <1>1, <1>2, <1>5, CountdownWrites
    <1>6. CASE Fire(p) \/ Pay(p)
        BY <1>6, PaymentWrites
    <1>7. CASE Launch(p)
        BY <1>1, <1>2, <1>7, LaunchWrites
    <1> QED  BY <1>3, <1>4, <1>5, <1>6, <1>7 DEF Advance

\* Which copies a driver leaves: the ones there were, and an idle one.
LEMMA AdvanceCopies ==
    ASSUME JobsFit, DocFits, PhaseInv, NEW p \in Process, Advance(p)
    PROVE  StartCycle(p) \/ StartCountdown(p) \/ Fire(p) \/ Pay(p) => Copies' \subseteq Copies
    <1>1. CASE Far(p)
        BY <1>1, FarKeeps
    <1>2. CASE ~Far(p)
        BY <1>2, StartKeeps, CountdownKeeps, PaymentKeeps
    <1> QED  BY <1>1, <1>2

\* Nothing but the document's phase and age, or nothing at all.
LEMMA CountedAgain ==
    ASSUME NEW m, Counted(m), UNCHANGED <<doc>>
    PROVE  Counted(m)'
    <1>1. PICK c : c = m
        OBVIOUS
    <1>2. Counted(c)'
        BY <1>1 DEF Counted
    <1> QED  BY <1>1, <1>2

\* The sums and the records of FuelInv.
Balanced ==
    /\ doc.status = "countdown" => doc.pending.level = Head(doc.queue) /\ doc.pending.seq = doc.seq
    /\ doc.energy + Cost(resolved) <= Given(doc.contributions)
    /\ resolved = finished \o doc.queue
    /\ \A i \in DOMAIN launches : launches[i].seq = i - 1
    /\ doc.seq = Len(launches)

Related ==
    /\ \A m \in Copies : Counted(m)
    /\ \A m, n \in Copies : ~(m.status = "banner" /\ n.status = "idle")

\* Nothing of it changes, and no copy is new.
LEMMA NothingIsSpent ==
    ASSUME FuelInv, UNCHANGED docVars, Copies' \subseteq Copies
    PROVE  Related' /\ Balanced'
    <1>1. \A m \in Copies' : Counted(m)'
        BY CountedAgain DEF FuelInv, docVars
    <1>2. Related'
        BY <1>1 DEF Related, FuelInv
    <1> QED  BY <1>2 DEF FuelInv, docVars, Balanced

LEMMA StartSpends ==
    ASSUME JobsFit, DocFits, PhaseInv, FuelInv, NEW p \in Process, StartCycle(p)
    PROVE  Related' /\ Balanced'
    <1> DEFINE m == job[p].mine
    <1>1. /\ pc[p] = "step" /\ m.status = "idle" /\ m \in Docs
          /\ UNCHANGED <<launches, finished>>
        BY StartWrites
    <1>2. Knows(p)
        BY <1>1, StepperKnows
    <1>3. Copies' \subseteq Copies
        BY AdvanceCopies DEF Advance
    <1>4. CASE doc.status # "idle"
        <2>1. UNCHANGED <<doc, resolved>>
            BY <1>4, StartWrites
        <2> QED  BY <1>1, <1>3, <2>1, NothingIsSpent DEF docVars
    <1>5. CASE doc.status = "idle"
        <2>1. PICK q \in Seq(Levels), l \in Levels, e \in Nat :
                 /\ q # <<>> /\ Cost(q) + e = m.energy /\ resolved' = resolved \o q
                 /\ doc' = Started(doc, q, l, e)
            BY <1>5, StartWrites
        <2>2. /\ doc.queue = <<>> /\ doc \in Docs /\ doc.energy \in Nat
              /\ doc.contributions \in Seq(Row) /\ resolved \in Seq(Levels) /\ finished \in Seq(Levels)
            BY <1>5 DEF DocFits, Sound, Docs
        <2>3. /\ doc'.status = "banner" /\ doc'.queue = q /\ doc'.energy = e
              /\ doc'.seq = doc.seq /\ doc'.contributions = doc.contributions
            BY <2>1, <2>2 DEF Started, Docs
        <2>4. m.energy <= doc.energy /\ m.energy \in Nat
            BY <1>1, <1>2, <1>5 DEF Knows, Docs
        <2>5. resolved = finished
            <3>1. PICK f \in Seq(Levels) : f = finished
                BY <2>2
            <3>2. f \o <<>> = f
                OBVIOUS
            <3> QED  BY <2>2, <3>1, <3>2 DEF FuelInv
        <2>6. Cost(resolved') = Cost(resolved) + Cost(q) /\ Cost(resolved) \in Nat /\ Cost(q) \in Nat
            BY <2>1, <2>2, CostJoin, CostType
        <2>7. Given(doc.contributions) \in Nat
            BY <2>2, GivenType
        <2>8. doc'.energy + Cost(resolved') <= Given(doc'.contributions)
            <3>1. PICK a \in Nat, b \in Nat, g \in Nat, k \in Nat, d \in Nat :
                     /\ a = Cost(resolved) /\ b = Cost(q) /\ g = Given(doc.contributions)
                     /\ k = m.energy /\ d = doc.energy
                BY <2>2, <2>4, <2>6, <2>7
            <3>2. b + e = k /\ k <= d /\ d + a <= g
                BY <2>1, <2>4, <3>1 DEF FuelInv
            <3>3. e + (a + b) <= g
                BY <3>2
            <3> QED  BY <2>3, <2>6, <3>1, <3>3
        <2>9. Balanced'
            <3>1. (doc.energy + Cost(resolved) <= Given(doc.contributions))'
                BY <2>8
            <3> QED  BY <1>1, <2>1, <2>3, <2>5, <3>1 DEF FuelInv, Balanced
        <2>10. ASSUME NEW c \in Copies'  PROVE Counted(c)'
            <3>1. Counted(c)
                BY <1>3 DEF FuelInv
            <3>2. c.status # "banner"
                BY <1>5, <3>1 DEF Counted
            <3>3. PICK d : d = c
                OBVIOUS
            <3>4. Counted(d)'
                BY <2>3, <3>2, <3>3 DEF Counted
            <3> QED  BY <3>3, <3>4
        <2>11. Related'
            BY <1>3, <2>10 DEF Related, FuelInv
        <2> QED  BY <2>9, <2>11
    <1> QED  BY <1>4, <1>5

\* Every level of a queue is configured: none is dropped.
LEMMA NothingIsDropped ==
    ASSUME JobsFit, DocFits, PhaseInv, FuelInv, NEW p \in Process
    PROVE  ~DropHead(p)
    <1> SUFFICES ASSUME DropHead(p)  PROVE FALSE
        OBVIOUS
    <1> DEFINE m == job[p].mine
    <1>1. pc[p] = "step" /\ m \in Docs /\ m.queue # <<>> /\ Head(m.queue) \notin job[p].levels
        BY DropWrites
    <1>2. PICK q \in Seq(Levels) : q = m.queue
        BY <1>1 DEF Docs
    <1>3. Head(q) \in Levels
        BY <1>1, <1>2
    <1> QED  BY <1>1, <1>2, <1>3, StepperKnows

LEMMA CountdownSpends ==
    ASSUME JobsFit, DocFits, PhaseInv, FuelInv, NEW p \in Process, StartCountdown(p)
    PROVE  Related' /\ Balanced'
    <1> DEFINE m == job[p].mine
    <1>1. /\ pc[p] = "step" /\ m.status = "banner" /\ UNCHANGED <<launches, finished, resolved>>
        BY DEF StartCountdown, AtRocket
    <1>2. Knows(p)
        BY <1>1, StepperKnows
    <1>3. Copies' \subseteq Copies
        BY AdvanceCopies DEF Advance
    <1>4. PICK l \in Launched :
              /\ l.level = Head(m.queue) /\ l.seq = m.seq
              /\ \/ doc.status = "banner" /\ doc' = Counting(doc, l)
                 \/ doc.status # "banner" /\ doc' = doc
        BY CountdownWrites
    <1>5. CASE doc' = doc
        BY <1>1, <1>3, <1>5, NothingIsSpent DEF docVars
    <1>6. CASE doc.status = "banner" /\ doc' = Counting(doc, l)
        <2>1. /\ doc'.status = "countdown" /\ doc'.queue = doc.queue /\ doc'.energy = doc.energy
              /\ doc'.seq = doc.seq /\ doc'.contributions = doc.contributions /\ doc'.pending = l
            BY <1>6 DEF DocFits, Sound, Docs, Counting
        <2>2. doc.queue = m.queue /\ doc.seq = m.seq
            BY <1>1, <1>2, <1>6 DEF Knows
        <2>3. Balanced'
            <3>1. (doc.energy + Cost(resolved) <= Given(doc.contributions))'
                BY <1>1, <2>1 DEF FuelInv
            <3> QED  BY <1>1, <1>4, <2>1, <2>2, <3>1 DEF FuelInv, Balanced
        <2>4. ASSUME NEW c \in Copies'  PROVE Counted(c)'
            <3>1. c.status \notin {"countdown", "idle"}
                BY <1>1, <1>2, <1>3 DEF Knows
            <3>2. PICK d : d = c
                OBVIOUS
            <3>3. Counted(d)'
                BY <2>1, <3>1, <3>2 DEF Counted
            <3> QED  BY <3>2, <3>3
        <2>5. Related'
            BY <1>3, <2>4 DEF Related, FuelInv
        <2> QED  BY <2>3, <2>5
    <1> QED  BY <1>4, <1>5, <1>6

LEMMA PaymentSpends ==
    ASSUME JobsFit, DocFits, PhaseInv, FuelInv, NEW p \in Process, Fire(p) \/ Pay(p)
    PROVE  Related' /\ Balanced'
    <1>1. Copies' \subseteq Copies
        BY AdvanceCopies DEF Advance
    <1>2. UNCHANGED docVars
        BY PaymentWrites
    <1> QED  BY <1>1, <1>2, NothingIsSpent

LEMMA HeadLaunched ==
    ASSUME NEW f \in Seq(Levels), NEW q \in Seq(Levels), q # <<>>
    PROVE  Append(f, Head(q)) \o Tail(q) = f \o q
    OBVIOUS

\* Which copy a launch may add.
LEMMA LaunchCopies ==
    ASSUME JobsFit, DocFits, PhaseInv, NEW p \in Process, pc[p] = "pay", NEW n, Continue(p, n),
           n.age = "fresh", doc'.age = "fresh"
    PROVE  \A c \in Copies' : c \in Copies \/ (c.status = "idle" /\ c = n)
    <1>1. CASE Far(p)
        <2>1. job[p].far
            BY <1>1, FarIsAlone
        <2>2. Copies' \subseteq Copies
            BY <2>1, ContinueLeaves
        <2> QED  BY <2>2
    <1>2. CASE ~Far(p)
        <2>1. ~job[p].far
            BY <1>2, StepperIsLive
        <2> QED  BY <2>1, FreshCopies
    <1> QED  BY <1>1, <1>2

LEMMA LaunchSpends ==
    ASSUME JobsFit, DocFits, PhaseInv, FuelInv, NEW p \in Process, Launch(p)
    PROVE  Related' /\ Balanced'
    <1> DEFINE m == job[p].mine
    <1>1. pc[p] = "pay" /\ resolved' = resolved
        BY LaunchWrites
    <1>2. m \in Docs /\ m.status = "countdown" /\ m.pending \in Launched /\ Knows(p)
        BY <1>1, PayerFacts, StepperKnows
    <1>3. CASE doc.status # "countdown"
        <2>1. UNCHANGED <<doc, launches, finished>> /\ Rest(p)
            BY <1>3, LaunchWrites
        <2>2. Copies' \subseteq Copies
            BY <2>1, RestLeaves
        <2> QED  BY <1>1, <2>1, <2>2, NothingIsSpent DEF docVars
    <1>4. CASE doc.status = "countdown"
        <2>1. PICK q, k, n :
                 /\ q \in Seq(Levels) /\ k \in Nat
                 /\ q = Tail(m.queue) /\ k = m.seq + 1
                 /\ doc' = Landed(doc, q, k) /\ n = Landed(m, q, k) /\ Continue(p, n)
                 /\ launches' = Append(launches, m.pending)
                 /\ finished' = Append(finished, m.pending.level)
            BY <1>4, LaunchWrites
        <2>2. /\ doc.queue = m.queue /\ doc.seq = m.seq /\ m.energy <= doc.energy
              /\ doc.pending = m.pending
            BY <1>2, <1>4 DEF Knows
        <2>3. /\ doc'.status = n.status /\ doc'.status \in {"idle", "banner"} /\ doc'.age = "fresh"
              /\ n.age = "fresh" /\ doc'.queue = q /\ doc'.seq = k /\ doc'.energy = doc.energy
              /\ doc'.contributions = doc.contributions /\ n.energy = m.energy
            BY <1>2, <2>1 DEF DocFits, Sound, Docs, Landed, after
        <2>4. \A c \in Copies' : c \in Copies \/ (c.status = "idle" /\ c = n)
            BY <1>1, <2>1, <2>3, LaunchCopies
        <2>5. \A c \in Copies : c.status \notin {"idle", "banner"}
            BY <1>2, <1>4 DEF FuelInv, Counted, Knows
        <2>6. ASSUME NEW c \in Copies'  PROVE Counted(c)'
            <3>1. PICK d : d = c
                OBVIOUS
            <3>2. Counted(d)'
                <4>1. CASE c \in Copies
                    BY <2>3, <2>5, <3>1, <4>1 DEF Counted
                <4>2. CASE c \notin Copies
                    BY <2>2, <2>3, <2>4, <3>1, <4>2 DEF Counted
                <4> QED  BY <4>1, <4>2
            <3> QED  BY <3>1, <3>2
        <2>7. Related'
            BY <2>4, <2>5, <2>6 DEF Related
        <2>8. (doc.energy + Cost(resolved) <= Given(doc.contributions))'
            BY <1>1, <2>3 DEF FuelInv
        <2>9. resolved' = finished' \o doc'.queue
            <3>1. PICK f \in Seq(Levels), r \in Seq(Levels) : f = finished /\ r = m.queue /\ r # <<>>
                BY <1>1, PayerFacts DEF DocFits
            <3>2. Append(f, Head(r)) \o Tail(r) = f \o r
                BY <3>1, HeadLaunched
            <3>3. m.pending.level = Head(r) /\ resolved = f \o r
                BY <1>4, <2>2, <3>1 DEF FuelInv
            <3> QED  BY <1>1, <2>1, <2>3, <3>1, <3>2, <3>3
        <2>10. /\ \A i \in DOMAIN launches' : launches'[i].seq = i - 1
               /\ doc'.seq = Len(launches')
            <3>1. PICK ls \in Seq(Launched), l \in Launched : ls = launches /\ l = m.pending
                BY <1>2 DEF DocFits
            <3>2. PICK n1 \in Nat : n1 = Len(ls) /\ DOMAIN ls = 1 .. n1
                OBVIOUS
            <3>3. /\ Len(launches') = n1 + 1 /\ DOMAIN launches' = 1 .. (n1 + 1)
                  /\ \A i \in 1 .. n1 : launches'[i] = ls[i]
                  /\ launches'[n1 + 1] = l
                BY <2>1, <3>1, <3>2
            <3>4. l.seq = n1 /\ k = n1 + 1
                BY <1>4, <2>1, <2>2, <3>1, <3>2 DEF FuelInv
            <3>5. \A i \in 1 .. n1 : ls[i].seq = i - 1
                BY <3>1, <3>2 DEF FuelInv
            <3>6. \A i \in 1 .. (n1 + 1) : i \in 1 .. n1 \/ i = n1 + 1
                OBVIOUS
            <3>7. (n1 + 1) - 1 = n1
                OBVIOUS
            <3>8. \A i \in 1 .. (n1 + 1) : launches'[i].seq = i - 1
                BY <3>3, <3>4, <3>5, <3>6, <3>7
            <3>9. doc'.seq = Len(launches')
                BY <2>3, <3>3, <3>4
            <3> QED  BY <3>3, <3>8, <3>9
        <2>11. Balanced'
            BY <2>3, <2>8, <2>9, <2>10 DEF Balanced
        <2> QED  BY <2>7, <2>11
    <1> QED  BY <1>3, <1>4

\* Where a process goes and the levels it goes with; the rest is Related and Balanced.
LEMMA StepKeepsFuel ==
    ASSUME FuelInv, NEW p \in Process, levels' = levels,
           \A q \in Process \ {p} : pc'[q] = pc[q] /\ job'[q] = job[q],
           pc'[p] # "addSnap", pc'[p] \in Fuelling => job'[p].levels = Levels,
           Related', Balanced'
    PROVE  FuelInv'
    <1>1. ASSUME NEW q \in Process
          PROVE  /\ pc'[q] # "addSnap"
                 /\ pc'[q] \in Fuelling => job'[q].levels = Levels
        <2>1. CASE q = p
            BY <2>1
        <2>2. CASE q # p
            BY <2>2 DEF FuelInv
        <2> QED  BY <2>1, <2>2
    <1>2. levels' = Levels
        BY DEF FuelInv
    <1> QED  BY <1>1, <1>2 DEF FuelInv, Related, Balanced

LEMMA AdvanceKeepsFuel ==
    ASSUME JobsFit, DocFits, PhaseInv, FuelInv, NEW p \in Process, Advance(p), levels' = levels
    PROVE  FuelInv'
    <1>1. /\ pc[p] \in {"step", "pay"}
          /\ \A q \in Process \ {p} : pc'[q] = pc[q] /\ job'[q] = job[q]
        BY AdvanceMovesOne
    <1>2. /\ pc'[p] \in {"idle", "done", "step", "pay"}
          /\ pc'[p] \in Fuelling => job'[p].levels = job[p].levels
        BY AdvanceLevels
    <1>3. job[p].levels = Levels
        BY <1>1, StepperKnows
    <1>4. Related' /\ Balanced'
        BY StartSpends, NothingIsDropped, CountdownSpends, PaymentSpends, LaunchSpends DEF Advance
    <1> QED  BY <1>1, <1>2, <1>3, <1>4, StepKeepsFuel

LEMMA AddKeepsFuel ==
    ASSUME JobsFit, DocFits, PhaseInv, FuelInv, NEW q \in Requests, AddInc(q) \/ AddPush(q)
    PROVE  FuelInv'
    <1>1. PICK l \in {"addFetch", "addPush"} : Move(q, l, job[q])
        BY AddWrites
    <1>2. /\ pc[q] \in {"addInc", "addPush"} /\ job[q].fuel \in Nat
          /\ doc' = doc \/ Fuelled(job[q].fuel)
          /\ UNCHANGED <<launches, resolved, finished, levels>>
        BY AddWrites
    <1>3. q \in Process /\ Copies' \subseteq Copies /\ job[q].levels = Levels
        BY <1>2, AddKeepsPhase, SweeperApart DEF FuelInv, Fuelling
    <1>4. /\ pc'[q] = l /\ job'[q] = job[q]
          /\ \A p \in Process \ {q} : pc'[p] = pc[p] /\ job'[p] = job[p]
        BY <1>1, <1>3 DEF Move, JobsFit
    <1>5. CASE doc' = doc
        <2>1. Related' /\ Balanced'
            BY <1>2, <1>3, <1>5, NothingIsSpent DEF docVars
        <2> QED  BY <1>2, <1>3, <1>4, <2>1, StepKeepsFuel
    <1>6. CASE Fuelled(job[q].fuel)
        <2>1. PICK n \in Nat, cs \in Seq(Row) : n = job[q].fuel /\ cs = doc'.contributions
            BY <1>2, <1>6 DEF Fuelled
        <2>2. /\ doc' = [doc EXCEPT !.energy = @ + n, !.contributions = cs]
              /\ Given(cs) = Given(doc.contributions) + n
            BY <1>6, <2>1 DEF Fuelled
        <2>3. doc \in Docs /\ doc.energy \in Nat /\ doc.contributions \in Seq(Row) /\ resolved \in Seq(Levels)
            BY DEF DocFits, Sound, Docs
        <2>4. /\ doc'.status = doc.status /\ doc'.queue = doc.queue /\ doc'.seq = doc.seq
              /\ doc'.pending = doc.pending /\ doc'.energy = doc.energy + n
            BY <2>2, <2>3 DEF Docs
        <2>5. ASSUME NEW c \in Copies'  PROVE Counted(c)'
            <3>1. Counted(c) /\ (c.status \in {"idle", "countdown"} => c.energy \in Nat)
                <4>1. \E p \in Process : pc[p] \in Drives /\ c = job[p].mine
                    BY <1>3 DEF Copies, Live
                <4>2. c \in Docs
                    BY <4>1, DriverFacts
                <4> QED  BY <1>3, <4>2 DEF FuelInv, Docs
            <3>2. PICK d : d = c
                OBVIOUS
            <3>3. c.status \in {"idle", "countdown"} /\ c.energy <= doc.energy => c.energy <= doc.energy + n
                BY <2>3, <3>1
            <3>4. Counted(d)'
                BY <2>4, <3>1, <3>2, <3>3 DEF Counted
            <3> QED  BY <3>2, <3>4
        <2>6. (doc.energy + Cost(resolved) <= Given(doc.contributions))'
            <3>1. PICK a \in Nat, d \in Nat, g \in Nat :
                     a = Cost(resolved) /\ d = doc.energy /\ g = Given(doc.contributions)
                BY <2>3, CostType, GivenType
            <3>2. d + a <= g
                BY <3>1 DEF FuelInv
            <3>3. (d + n) + a <= g + n
                BY <3>2
            <3> QED  BY <1>2, <2>1, <2>2, <2>4, <3>1, <3>3
        <2>7. Balanced'
            BY <1>2, <2>4, <2>6 DEF FuelInv, Balanced
        <2>8. Related'
            BY <1>3, <2>5 DEF Related, FuelInv
        <2> QED  BY <1>2, <1>3, <1>4, <2>7, <2>8, StepKeepsFuel
    <1> QED  BY <1>2, <1>5, <1>6

\* A copy of the document as it is.
LEMMA CopyCounts ==
    ASSUME PhaseInv, FuelInv, DocFits, UNCHANGED docVars, Copies' \subseteq Copies \cup {doc},
           ~(doc.status = "idle" \/ doc.age # "fresh") => Copies' \subseteq Copies
    PROVE  Related' /\ Balanced'
    <1>1. UNCHANGED doc /\ doc.energy \in Nat
        BY DEF docVars, DocFits, Sound, Docs
    <1>2. Balanced'
        BY DEF FuelInv, docVars, Balanced
    <1>3. ASSUME NEW c \in Copies'  PROVE Counted(c)'
        <2>1. CASE c \in Copies
            BY <1>1, <2>1, CountedAgain DEF FuelInv
        <2>2. CASE c = doc
            <3>1. Counted(c)
                BY <1>1, <2>2 DEF Counted
            <3> QED  BY <1>1, <3>1, CountedAgain
        <2> QED  BY <2>1, <2>2
    <1>4. ASSUME NEW m \in Copies', NEW n \in Copies', m.status = "banner" /\ n.status = "idle"
          PROVE  FALSE
        <2>1. CASE m \in Copies /\ n \in Copies
            BY <1>4, <2>1 DEF FuelInv
        <2>2. CASE m \notin Copies
            <3>1. m = doc /\ doc.age # "fresh" /\ n \in Copies
                BY <1>4, <2>2
            <3> QED  BY <1>4, <3>1 DEF PhaseInv, Agrees
        <2>3. CASE n \notin Copies
            <3>1. n = doc /\ m \in Copies
                BY <1>4, <2>3
            <3> QED  BY <1>4, <3>1 DEF FuelInv, Counted
        <2> QED  BY <2>1, <2>2, <2>3
    <1> QED  BY <1>2, <1>3, <1>4 DEF Related

LEMMA FetchKeepsFuel ==
    ASSUME JobsFit, DocFits, PhaseInv, FuelInv, NEW q \in Requests, AddFetch(q), levels' = levels
    PROVE  FuelInv'
    <1>1. /\ pc[q] = "addFetch" /\ UNCHANGED docVars
          /\ \A p \in Process \ {q} : pc'[p] = pc[p] /\ job'[p] = job[p]
          /\ Copies' \subseteq Copies \cup {doc}
          /\ ~(doc.status = "idle" \/ doc.age # "fresh") => Copies' \subseteq Copies
        BY FetchMoves
    <1>2. q \in Process /\ job[q].levels = Levels
        BY <1>1, SweeperApart DEF FuelInv, Fuelling
    <1>3. doc.level \in Levels
        BY DEF DocFits, Sound, Docs
    <1>4. Continue(q, doc)
        BY <1>2, <1>3 DEF AddFetch
    <1>5. /\ pc'[q] \in {"idle", "done", "step"}
          /\ pc'[q] = "step" => job'[q].levels = job[q].levels
        BY <1>2, <1>4, ContinueLevels
    <1>6. pc'[q] \in Fuelling => job'[q].levels = Levels
        BY <1>2, <1>5 DEF Fuelling
    <1> QED  BY <1>1, <1>2, <1>5, <1>6, CopyCounts, StepKeepsFuel

LEMMA SweepKeepsFuel ==
    ASSUME JobsFit, DocFits, PhaseInv, FuelInv, SweepRead \/ ResetRead, levels' = levels
    PROVE  FuelInv'
    <1>1. /\ UNCHANGED docVars
          /\ \A q \in Process \ {Sweeper} : pc'[q] = pc[q] /\ job'[q] = job[q]
          /\ doc.age # "fresh" /\ Copies' \subseteq Copies \cup {doc}
          /\ job'[Sweeper].levels = levels /\ pc'[Sweeper] = "step"
        BY SweepReads
    <1>2. job'[Sweeper].levels = Levels
        BY <1>1 DEF FuelInv
    <1>3. Related' /\ Balanced'
        BY <1>1, CopyCounts
    <1> QED  BY <1>1, <1>2, <1>3, StepKeepsFuel, SweeperApart

LEMMA RocketKeepsFuel ==
    ASSUME JobsFit, DocFits, PhaseInv, FuelInv, RocketMoves
    PROVE  FuelInv'
    <1>1. levels' = levels
        BY RocketLeaves
    <1>2. ASSUME NEW q \in Requests, RocketStep(q)  PROVE FuelInv'
        <2>1. q \in Process /\ ~AddSnap(q)
            BY SweeperApart DEF FuelInv, AddSnap, AtRocket
        <2> QED  BY <1>1, <1>2, <2>1, AdvanceKeepsFuel, AddKeepsFuel, FetchKeepsFuel DEF RocketStep
    <1>3. ASSUME Sweep  PROVE FuelInv'
        BY <1>1, <1>3, AdvanceKeepsFuel, SweepKeepsFuel, SweeperApart DEF Sweep
    <1> QED  BY <1>2, <1>3 DEF RocketMoves

\* The levels are left alone, or an edit counts.
Untouched == edits = 0 => FuelInv

LEMMA TimeKeepsFuel ==
    ASSUME Prompt, TypeInv, PhaseInv, Untouched, Ripen \/ NextDay \/ UpdateConfig \/ Crash
    PROVE  Untouched'
    <1>1. CASE Ripen
        <2>1. /\ \A p \in Process : pc'[p] \notin Drives
              /\ doc' = [doc EXCEPT !.age = IF @ = "fresh" THEN "due" ELSE "old"]
              /\ UNCHANGED <<launches, resolved, finished, levels, pc, job, edits>>
            BY <1>1 DEF Ripen, Drives
        <2>2. /\ doc'.status = doc.status /\ doc'.queue = doc.queue /\ doc'.seq = doc.seq
              /\ doc'.pending = doc.pending /\ doc'.energy = doc.energy
              /\ doc'.contributions = doc.contributions
            BY <2>1 DEF TypeInv, DocFits, Sound, Docs
        <2>3. Copies' = {}
            BY <2>1 DEF Copies, Live
        <2>4. FuelInv => (doc.energy + Cost(resolved) <= Given(doc.contributions))'
            BY <2>1, <2>2 DEF FuelInv
        <2>5. FuelInv => FuelInv'
            BY <2>1, <2>2, <2>3, <2>4 DEF FuelInv
        <2> QED  BY <2>1, <2>5 DEF Untouched
    <1>2. CASE NextDay
        <2>1. UNCHANGED <<docVars, levels, pc, job, edits>>
            BY <1>2 DEF NextDay
        <2>2. Copies' = Copies
            BY <2>1 DEF Copies, Live
        <2>3. FuelInv => Related' /\ Balanced'
            BY <2>1, <2>2, NothingIsSpent
        <2>4. FuelInv => FuelInv'
            BY <2>1, <2>3 DEF FuelInv, Related, Balanced
        <2> QED  BY <2>1, <2>4 DEF Untouched
    <1>3. CASE UpdateConfig
        <2>1. edits' # 0
            BY <1>3 DEF UpdateConfig, TypeInv, RestFits
        <2> QED  BY <2>1 DEF Untouched
    <1>4. CASE Crash
        <2>1. /\ UNCHANGED <<docVars, levels, edits>>
              /\ pc' = [p \in Process |-> IF p # Sweeper /\ pc[p] # "idle" THEN "done" ELSE "idle"]
            BY <1>4 DEF Crash
        <2>2. \A p \in Process : pc'[p] \in {"idle", "done"}
            BY <2>1
        <2>3. Copies' = {}
            BY <2>2 DEF Copies, Live, Drives
        <2>4. FuelInv => Related' /\ Balanced'
            BY <2>1, <2>3, NothingIsSpent
        <2>5. FuelInv => FuelInv'
            BY <2>1, <2>2, <2>4 DEF FuelInv, Related, Balanced, Fuelling
        <2> QED  BY <2>1, <2>5 DEF Untouched
    <1> QED  BY <1>1, <1>2, <1>3, <1>4

LEMMA SendsKeepFuel ==
    ASSUME TypeInv, Untouched, NEW q \in Requests, (\E c \in Calls : SendGift(q, c)) \/ GiftStep(q)
    PROVE  Untouched'
    <1>1. /\ UNCHANGED <<docVars, levels, edits>>
          /\ \A p \in Process \ {q} : pc'[p] = pc[p] /\ job'[p] = job[p]
          /\ pc'[q] \notin Drives
          /\ pc'[q] \in Fuelling => job'[q].levels = levels
        BY SendMoves
    <1>2. Copies' \subseteq Copies
        BY SendCopies
    <1>3. FuelInv => Related' /\ Balanced'
        BY <1>1, <1>2, NothingIsSpent
    <1>4. pc'[q] # "addSnap" /\ q \in Process
        BY <1>1, SweeperApart DEF Drives
    <1>5. FuelInv => (pc'[q] \in Fuelling => job'[q].levels = Levels)
        BY <1>1 DEF FuelInv
    <1>6. FuelInv => FuelInv'
        BY <1>1, <1>3, <1>4, <1>5, StepKeepsFuel
    <1> QED  BY <1>1, <1>6 DEF Untouched

LEMMA StillKeepsFuel ==
    ASSUME Untouched, UNCHANGED rocketVars
    PROVE  Untouched'
    <1>1. UNCHANGED <<docVars, levels, pc, job, edits>>
        BY DEF rocketVars
    <1>2. Copies' = Copies
        BY <1>1 DEF Copies, Live
    <1>3. FuelInv => Related' /\ Balanced'
        BY <1>1, <1>2, NothingIsSpent
    <1>4. FuelInv => FuelInv'
        BY <1>1, <1>3 DEF FuelInv, Related, Balanced
    <1> QED  BY <1>1, <1>4 DEF Untouched

LEMMA FuelStarts == Init => Untouched
    <1> SUFFICES ASSUME Init  PROVE FuelInv
        BY DEF Untouched
    <1>1. /\ pc = [p \in Process |-> "idle"] /\ levels = Levels
          /\ launches = <<>> /\ resolved = <<>> /\ finished = <<>>
          /\ doc.status = "idle" /\ doc.energy = 0 /\ doc.seq = 0 /\ doc.queue = <<>>
          /\ doc.contributions = <<>>
        BY DEF Init, RocketInit
    <1>2. \A p \in Process : pc[p] \notin Drives /\ pc[p] \notin Fuelling /\ pc[p] # "addSnap"
        BY <1>1 DEF Drives, Fuelling
    <1>3. Copies = {}
        BY <1>2 DEF Copies, Live
    <1>4. doc.energy + Cost(resolved) <= Given(doc.contributions)
        <2>1. Cost(resolved) = 0 /\ Given(doc.contributions) = 0
            BY <1>1, CostEmpty, GivenEmpty
        <2> QED  BY <1>1, <2>1
    <1>5. /\ resolved = finished \o doc.queue
          /\ DOMAIN launches = {} /\ Len(launches) = 0
        BY <1>1
    <1> QED  BY <1>1, <1>2, <1>3, <1>4, <1>5 DEF FuelInv

LEMMA FuelNext ==
    ASSUME Prompt, TypeInv, PhaseInv, Untouched, [Next]_giftsVars
    PROVE  Untouched'
    <1>1. CASE UNCHANGED giftsVars
        BY <1>1, StillKeepsFuel DEF giftsVars
    <1>2. CASE RocketMoves
        <2>1. edits' = edits
            BY <1>2, RocketLeaves
        <2>2. FuelInv => FuelInv'
            BY <1>2, RocketKeepsFuel DEF TypeInv
        <2> QED  BY <2>1, <2>2 DEF Untouched
    <1> QED  BY <1>1, <1>2, TimeKeepsFuel, SendsKeepFuel, AdminLeavesRocket, StillKeepsFuel
             DEF Next, RocketMoves

LEMMA TypeIsOK == TypeInv => TypeOK
    <1> SUFFICES ASSUME TypeInv  PROVE TypeOK
        OBVIOUS
    <1>1. doc \in Docs /\ doc.contributions \in Seq(Row)
        BY DEF TypeInv, DocFits, Sound, Docs
    <1>2. \A i \in DOMAIN doc.contributions : doc.contributions[i] \in [userId : Users, energy : Nat \ {0}]
        <2>1. PICK cs \in Seq(Row) : cs = doc.contributions
            BY <1>1
        <2>2. \A i \in DOMAIN cs : cs[i] \in Row
            OBVIOUS
        <2> QED  BY <2>1, <2>2 DEF Row
    <1>3. /\ doc.energy \in Nat /\ doc.level \in Levels
          /\ doc.status \in RocketStatus /\ doc.age \in Age
          /\ doc.queue \in Seq(Levels) /\ doc.seq \in Nat
          /\ doc.pending \in Launched \cup {NoLaunch}
        BY <1>1 DEF Docs
    <1>4. /\ (doc.status = "idle") = (doc.queue = <<>>)
          /\ (doc.status = "countdown") = (doc.pending # NoLaunch)
        BY DEF TypeInv, DocFits, Sound
    <1>5. /\ launches \in Seq(Launched) /\ resolved \in Seq(Levels) /\ finished \in Seq(Levels)
          /\ levels \subseteq Levels
          /\ gift \in [state : {"active", "inactive", "gone"}, totalSent : Nat]
          /\ ask \in [Requests -> Calls \cup {NoAsk}]
          /\ admin \in {"idle", "events", "delete"}
        BY DEF TypeInv, DocFits, AsksFit, RestFits
    <1> QED  BY <1>2, <1>3, <1>4, <1>5 DEF TypeOK

\* For every set of requests, calls and levels: what the rocket holds has its type,
\* its queue is empty exactly when it is idle, and it has the snapshot of a launch
\* exactly during a countdown, whatever races, edits and crashes there have been.
THEOREM RocketIsSound == Spec => []TypeOK
    BY TypeStarts, TypeNext, TypeIsOK, PTL DEF Spec

\* However many drivers race on copies of the document, with crashes in the middle
\* of the payments and edits of the levels: only the winners of the snapshots are
\* paid, each of a launch before it is recorded unless the wallet has refused his
\* credit, and beside them only winners of the launch under way; on a server whose
\* round trips end before a phase does.
THEOREM PaidAsTheyLaunch ==
    ASSUME Prompt
    PROVE  Spec => []PaidAsLaunched
    <1>1. Init => TypeInv /\ PhaseInv /\ PayInv
        BY TypeStarts, PhaseStarts, InitPay
    <1>2. TypeInv /\ PhaseInv /\ PayInv /\ [Next]_giftsVars => (TypeInv /\ PhaseInv /\ PayInv)'
        BY TypeNext, PhaseNext, NextPay
    <1>3. PhaseInv /\ PayInv => PaidAsLaunched
        BY DEF PhaseInv, PaidKeys, PayInv, PaidAsLaunched
    <1> QED  BY <1>1, <1>2, <1>3, PTL DEF Spec

\* However the gift requests and the sweeper race on stale copies, and wherever
\* they crash: as long as the admin leaves the levels alone, no fuel is spent twice,
\* the levels it was spent on launch in the order they were filled, each once, and
\* the launches are numbered without a gap; on a server whose round trips end
\* before a phase does.
THEOREM FuelLaunchesInOrder ==
    ASSUME Prompt
    PROVE  Spec => []FuelLaunchesOnce
    <1>1. Init => TypeInv /\ PhaseInv /\ Untouched
        BY TypeStarts, PhaseStarts, FuelStarts
    <1>2. TypeInv /\ PhaseInv /\ Untouched /\ [Next]_giftsVars => (TypeInv /\ PhaseInv /\ Untouched)'
        BY TypeNext, PhaseNext, FuelNext
    <1>3. TypeInv /\ Untouched => FuelLaunchesOnce
        <2>1. spent = Cost(resolved) /\ fuelled = Given(doc.contributions)
            BY DEF spent, fuelled, Cost, Given
        <2> QED  BY <2>1, TypeIsOK DEF Untouched, FuelInv, FuelLaunchesOnce, RocketsAreFuelled, LaunchesInOrder
    <1> QED  BY <1>1, <1>2, <1>3, PTL DEF Spec
==============================================================================
