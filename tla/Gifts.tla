--------------------------------- MODULE Gifts ---------------------------------
(***************************************************************************)
(* Sending one gift of the catalogue in one room                           *)
(* (modules/gifts/gifts.service.ts), with the rocket it fuels.  A request  *)
(* is one call of sendGift, up to the call of addEnergy that it does not   *)
(* wait for; calls with one key are a client's retries, maybe while the    *)
(* first is still running.  transferGift is the wallet's transaction, see  *)
(* Wallet: a pair of entries per key, or nothing.                          *)
(*                                                                         *)
(* A send that is refused before the transfer changes nothing and is left  *)
(* out, and so are the contexts other than a room, which fuel nothing.     *)
(***************************************************************************)
EXTENDS Rocket

CONSTANTS
    Calls       \* the sends: [key, user, coins]; one send per key

ASSUME CallsAssumption ==
    /\ Calls \subseteq [key : Nat, user : Users, coins : Nat \ {0}]
    /\ \A c, d \in Calls : c.key = d.key => c = d
    /\ \A l \in Loads : /\ l.calls \subseteq Calls
                       /\ {l.requests, l.edits, l.crashes, l.purges, l.refusals} \subseteq Nat

VARIABLES
    gift,       \* [state, totalSent]: the catalogue's row
    events,     \* the keys of the gift events
    transfers,  \* the keys of the pairs of entries in the wallet's ledger
    ask,        \* [Requests -> the call]
    admin,      \* the admin request: "idle" or what is left of it
    purges,     \* number of admin requests
    erased      \* history: a force purge has run

giftVars == <<gift, events, transfers, ask, admin, purges, erased>>
giftsVars == <<rocketVars, giftVars>>

NoAsk == [key |-> 0, user |-> CHOOSE u \in Users : TRUE, coins |-> 0]

\* Only the place of the request changes, not the rocket.
GoTo(q, l) ==
    /\ pc' = [pc EXCEPT ![q] = l]
    /\ UNCHANGED <<docVars, today, load, levels, paid, refused, job, edits, crashes>>

------------------------------------------------------------------------------
\* sendGift.

\* No event has the key, and the gift can be sent.
SendGift(q, c) ==
    /\ c \in load.calls /\ q <= load.requests
    /\ pc[q] = "idle" /\ \A r \in Requests : r < q => pc[r] # "idle"
    /\ c.key \notin events /\ gift.state = "active"
    /\ ask' = [ask EXCEPT ![q] = c]
    /\ GoTo(q, "giftTransfer")
    /\ UNCHANGED <<gift, events, transfers, admin, purges, erased>>

\* A pair that is found stands for a send that was complete.
MutantTransferFind(q) ==
    /\ pc[q] = "giftTransfer"
    /\ GoTo(q, IF ask[q].key \in transfers THEN "giftCount" ELSE "giftPay")
    /\ UNCHANGED giftVars

\* transferGift finds the pair of an earlier call, or starts its transaction.
TransferFind(q) ==
    /\ pc[q] = "giftTransfer"
    /\ GoTo(q, IF ask[q].key \in transfers THEN "giftEvent" ELSE "giftPay")
    /\ UNCHANGED giftVars

\* The transaction writes both entries; it aborts if the balance is short or the
\* entries are there by now, and the error goes to the client.
TransferPay(q) ==
    /\ pc[q] = "giftPay"
    /\ \/ /\ ask[q].key \notin transfers
          /\ transfers' = transfers \cup {ask[q].key}
          /\ GoTo(q, "giftEvent")
       \/ ask[q].key \in transfers /\ UNCHANGED transfers /\ GoTo(q, "done")
    /\ UNCHANGED <<gift, events, ask, admin, purges, erased>>

\* The event, or on a duplicate key the event of the other call.
CreateEvent(q) ==
    /\ pc[q] = "giftEvent"
    /\ events' = events \cup {ask[q].key}
    /\ GoTo(q, "giftCount")
    /\ UNCHANGED <<gift, transfers, ask, admin, purges, erased>>

\* The catalogue's counter, which nobody waits for.
CountSent(q) ==
    /\ pc[q] = "giftCount"
    /\ gift' = [gift EXCEPT !.totalSent = IF gift.state = "gone" THEN @ ELSE @ + 1]
    /\ GoTo(q, "giftFuel")
    /\ UNCHANGED <<events, transfers, ask, admin, purges, erased>>

\* One coin is one unit of fuel.
Fuel(q) ==
    /\ pc[q] = "giftFuel"
    /\ IF Counts THEN AddEnergy(q, ask[q].user, ask[q].coins) ELSE GoTo(q, "done")
    /\ UNCHANGED giftVars

------------------------------------------------------------------------------
\* softDelete, purge and forcePurge.

AdminStart(what) ==
    /\ admin = "idle" /\ gift.state # "gone" /\ purges < load.purges
    /\ purges' = purges + 1
    /\ admin' = what
    /\ UNCHANGED <<rocketVars, gift, events, transfers, ask, erased>>

SoftDelete ==
    /\ admin = "idle" /\ gift.state = "active" /\ purges < load.purges
    /\ purges' = purges + 1
    /\ gift' = [gift EXCEPT !.state = "inactive"]
    /\ UNCHANGED <<rocketVars, events, transfers, ask, admin, erased>>

\* purge refuses a gift that is counted as sent, and deletes it a moment later.
Purge == gift.totalSent = 0 /\ AdminStart("delete")

ForcePurge == AdminStart("events")

ForceDeleteEvents ==
    /\ admin = "events"
    /\ events' = {} /\ erased' = TRUE
    /\ admin' = "delete"
    /\ UNCHANGED <<rocketVars, gift, transfers, ask, purges>>

DeleteGift ==
    /\ admin = "delete"
    /\ gift' = [gift EXCEPT !.state = "gone"]
    /\ admin' = "idle"
    /\ UNCHANGED <<rocketVars, events, transfers, ask, purges, erased>>

------------------------------------------------------------------------------

GiftStep(q) ==
    \/ TransferFind(q) \/ TransferPay(q) \/ CreateEvent(q) \/ CountSent(q) \/ Fuel(q)

Next ==
    \/ \E q \in Requests :
          \/ \E c \in Calls : SendGift(q, c)
          \/ GiftStep(q)
          \/ RocketStep(q) /\ UNCHANGED giftVars
    \/ (Sweep \/ Ripen \/ NextDay \/ UpdateConfig \/ Crash) /\ UNCHANGED giftVars
    \/ SoftDelete \/ Purge \/ ForcePurge \/ ForceDeleteEvents \/ DeleteGift

Init ==
    /\ RocketInit
    /\ gift = [state |-> "active", totalSent |-> 0]
    /\ events = {} /\ transfers = {}
    /\ ask = [q \in Requests |-> NoAsk]
    /\ admin = "idle" /\ purges = 0 /\ erased = FALSE

Spec == Init /\ [][Next]_giftsVars

\* A pass that was begun goes on while the server lives, the sweeper runs every
\* five seconds, and time passes; nobody has to send anything.
FairSpec ==
    /\ Spec
    /\ WF_giftsVars(\E q \in Requests : RocketStep(q) /\ UNCHANGED giftVars)
    /\ WF_giftsVars(Sweep /\ UNCHANGED giftVars)
    /\ WF_giftsVars(Ripen /\ UNCHANGED giftVars)

------------------------------------------------------------------------------
\* The properties.

TypeOK ==
    /\ doc.energy \in Nat /\ doc.level \in Levels
    /\ doc.status \in RocketStatus /\ doc.age \in Age
    /\ doc.queue \in Seq(Levels) /\ doc.seq \in Nat
    /\ doc.pending \in Launched \cup {NoLaunch}
    /\ \A i \in DOMAIN doc.contributions :
          doc.contributions[i] \in [userId : Users, energy : Nat \ {0}]
    /\ launches \in Seq(Launched)
    /\ resolved \in Seq(Levels) /\ finished \in Seq(Levels)
    /\ levels \subseteq Levels
    /\ gift \in [state : {"active", "inactive", "gone"}, totalSent : Nat]
    /\ ask \in [Requests -> Calls \cup {NoAsk}]
    /\ admin \in {"idle", "events", "delete"}
    /\ (doc.status = "idle") = (doc.queue = <<>>)
    /\ (doc.status = "countdown") = (doc.pending # NoLaunch)

\* sendGift: an event stands for coins that moved, and a request that is past its
\* event has one for its key, whatever retries, crashes and purges came between.
EventsArePaid ==
    /\ events \subseteq transfers
    /\ \A q \in Requests : pc[q] \in {"giftCount", "giftFuel"} =>
          ask[q].key \in transfers /\ (ask[q].key \in events \/ erased)

spent == FoldLeft(LAMBDA n, l : n + energyRequired[l], 0, resolved)
fuelled == FoldLeft(LAMBDA n, c : n + c.energy, 0, doc.contributions)

\* However the callers race, no fuel is spent twice: what the launched and queued
\* levels took and what is in the tank is at most what was given, as long as the
\* admin leaves the levels alone.
RocketsAreFuelled == edits = 0 => doc.energy + spent <= fuelled

\* Every level that was fuelled is launched once and in order: those finished and
\* those queued are those the fuel was spent on, and the launches are numbered
\* without a gap, as long as the admin leaves the levels alone.
LaunchesInOrder == edits = 0 =>
    /\ resolved = finished \o doc.queue
    /\ \A i \in DOMAIN launches : launches[i].seq = i - 1
    /\ doc.seq = Len(launches)

\* Fuel is spent once, on launches that come once and in order.
FuelLaunchesOnce == TypeOK /\ RocketsAreFuelled /\ LaunchesInOrder

\* The keys of the winners of every launch there has been.
due == UNION {keys(launches[i]) : i \in DOMAIN launches}

\* A launch is recorded only when each winner of its snapshot has been paid, or the
\* wallet has refused his credit: nobody is passed over.
WinnersPaid == due \subseteq paid \cup refused

\* The snapshot taken at the countdown is what is paid: all the winners of the launches
\* whom the wallet did not refuse have been, crashes in the middle of the payments
\* included, and beside winners of the launches only those of the one under way.
PaidAsLaunched ==
    /\ WinnersPaid
    /\ paid \subseteq due \cup IF doc.pending = NoLaunch THEN {} ELSE keys(doc.pending)

\* A rocket under way lands, server restarts included, unless the admin has
\* disabled it.
RocketsLand == doc.status # "idle" ~> (doc.status = "idle" \/ levels = {})
==============================================================================
