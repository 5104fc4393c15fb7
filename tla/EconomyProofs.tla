----------------------------- MODULE EconomyProofs -----------------------------
(***************************************************************************)
(* Theorems about Economy for every set of workloads: any number of calls  *)
(* of any of the services, any number of them stopped half way, any number *)
(* of days.                                                                *)
(*                                                                         *)
(* The services share the requests, the wallet's keys and the calendar.    *)
(* The first part shows which requests a service moves, and which keys it  *)
(* posts: to the invariant of one service the steps of the others are      *)
(* quiet.  Then each service has an invariant of its own.                  *)
(***************************************************************************)
EXTENDS Economy, SumProofs, TLAPS

------------------------------------------------------------------------------
\* Who serves which call.

PoolOps == {"topup", "assign", "resellerStatus", "resellerLimit"}
HookOps == {"webhook", "package"}
DailyOps == {"daily", "dailyConfig"}
BallOps == {"progress", "ball", "ballTask", "ballDelete"}
RecordOps == {"session", "cron", "month"}
ShopOps == {"purchase", "gift", "listing", "svipBuy", "activate", "deactivate", "tier",
            "equip", "unequip", "item"}
HonorOps == {"metric", "evaluate", "honorGrant", "honorRevoke", "honorUpdate", "wear", "unwear"}

\* The places of a request, by what it was called for.
Routed(r, p) ==
    /\ p \in {"topupRead", "topupInc", "topupLedger", "topupReverse"} => call(r).op = "topup"
    /\ p \in {"assignRead", "assignTransfer"} => call(r).op = "assign"
    /\ p \in {"webhookBase", "webhookBonus"} => call(r).op = "webhook"
    /\ p \in {"dailyState", "dailyReset", "dailyWindow", "dailyDate", "dailyGrant", "dailySave"}
          => call(r).op = "daily"
    /\ p \in {"ballCheck", "ballPush", "ballCredit"} => call(r).op = "ball"
    /\ p = "sessionInsert" => call(r).op = "session"
    /\ p \in {"cronRow", "cronReward", "cronWrite"} => call(r).op = "cron"
    /\ p \in {"monthCount", "monthBonus", "monthWrite"} => call(r).op = "month"
    /\ p \in {"buyItem", "buyDebit"} => call(r).op \in {"purchase", "gift"}
    /\ p \in {"grantFind", "grantExtend", "grantCreate"}
          => call(r).op \in {"purchase", "gift", "svipBuy", "activate"}
    /\ p \in {"svipStatus", "svipDebit", "svipSave"} => call(r).op = "svipBuy"
    /\ p \in {"svipTiers", "svipOwned", "svipPeers", "svipWinners"}
          => call(r).op \in {"svipBuy", "activate"}
    /\ p = "activateSave" => call(r).op = "activate"
    /\ p \in {"deactivateSave", "unequipSvip"} => call(r).op = "deactivate"
    /\ p \in {"equipPeers", "equipSave"} => call(r).op = "equip"
    /\ p = "unequipSave" => call(r).op = "unequip"
    /\ p \in {"honorValue", "honorProgress", "honorFind", "honorCreate", "honorSave"}
          => call(r).op = "evaluate"
    /\ p = "honorUpsert" => call(r).op = "honorGrant"
    /\ p = "wearVacate" => call(r).op = "wear"
    /\ p = "wearSave" => call(r).op \in {"wear", "unwear"}

\* Where a request may go after its grants.
Onward(r, to) ==
    \/ to = "done"
    \/ to = "svipOwned" /\ call(r).op \in {"svipBuy", "activate"}

Granting == {"svipTiers", "grantFind", "grantExtend", "grantCreate"}
GoesOn(r) ==
    pc[r] \in Granting =>
        /\ "then" \in DOMAIN job[r]
        /\ Onward(r, job[r].then)

\* The invariant of the requests.
Routes ==
    /\ load \in Workloads /\ day \in 1 .. load.days
    /\ DOMAIN pc = Requests /\ DOMAIN job = Requests
    /\ \A r \in Requests :
          /\ Routed(r, pc[r]) /\ GoesOn(r)
          /\ pc[r] = "stopped" => "at" \in DOMAIN job[r] /\ Routed(r, job[r].at)

\* A step of r, called for one of ops, which posts keys with one of the tags only.
Serves(r, ops, tags) ==
    /\ call(r).op \in ops
    /\ load' = load /\ day' = day
    /\ DOMAIN pc' = Requests /\ DOMAIN job' = Requests
    /\ \A s \in Requests : s # r => pc'[s] = pc[s] /\ job'[s] = job[s]
    /\ Routed(r, pc'[r]) /\ pc'[r] # "stopped" /\ GoesOn(r)'
    /\ ledger \subseteq ledger'
    /\ \A k \in ledger' : k \in ledger \/ k[1] \in tags

\* A step to which the calls for ops have no part, nor keys with one of the tags.
Quiet(ops, tags) ==
    /\ load' = load /\ day' \in {day, day + 1}
    /\ \A s \in Requests : call(s).op \in ops => pc'[s] = pc[s] /\ job'[s] = job[s]
    /\ ledger \subseteq ledger'
    /\ \A k \in ledger' : k \in ledger \/ k[1] \notin tags

------------------------------------------------------------------------------
LEMMA RoutesInit == Init => Routes
    BY WorkloadAssumption
    DEF Init, ServiceInit, Routes, Routed, GoesOn, Granting, Requests, call

\* Whatever r does, all requests stay routed.
LEMMA ServedRoutes ==
    ASSUME Routes, NEW r \in Requests, NEW ops, NEW tags, Serves(r, ops, tags)
    PROVE  Routes'
    <1>1. Requests' = Requests /\ \A s \in Requests : call(s)' = call(s)
        BY DEF Serves, Requests, call
    <1>2. ASSUME NEW s \in Requests
          PROVE  /\ Routed(s, pc[s])' /\ GoesOn(s)'
                 /\ (pc[s] = "stopped" => "at" \in DOMAIN job[s] /\ Routed(s, job[s].at))'
        <2>1. CASE s = r
            <3>1. Routed(s, pc[s])'
                BY <1>1, <2>1 DEF Serves, Routed
            <3> QED  BY <2>1, <3>1 DEF Serves
        <2>2. CASE s # r
            <3>1. pc'[s] = pc[s] /\ job'[s] = job[s]
                BY <2>2 DEF Serves
            <3>2. /\ Routed(s, pc[s])'
                  /\ (pc[s] = "stopped" => "at" \in DOMAIN job[s] /\ Routed(s, job[s].at))'
                BY <1>1, <3>1 DEF Routed, Routes
            <3>3. GoesOn(s)'
                BY <1>1, <3>1 DEF GoesOn, Onward, Routes
            <3> QED  BY <3>2, <3>3
        <2> QED  BY <2>1, <2>2
    <1> QED  BY <1>1, <1>2 DEF Routes, Serves

LEMMA PoolServes ==
    ASSUME Routes, NEW r \in Requests, ResellersStep(r)
    PROVE  Serves(r, PoolOps, {"assign"})
    <1> USE DEF PoolOps, Begins, Passes, Goes, Posts, Routes, Routed, GoesOn, Granting, Serves
    <1>1. CASE TopupFind(r) \/ TopupRead(r) \/ TopupInc(r)
        BY <1>1 DEF TopupFind, TopupRead, TopupInc
    <1>2. CASE TopupLedger(r) \/ TopupReverse(r)
        BY <1>2 DEF TopupLedger, TopupReverse
    <1>3. CASE AssignFind(r) \/ AssignRead(r)
        BY <1>3 DEF AssignFind, AssignRead
    <1>4. CASE AssignTransfer(r)
        BY <1>4 DEF AssignTransfer
    <1>5. CASE UpdateStatus(r) \/ UpdateLimit(r)
        BY <1>5 DEF UpdateStatus, UpdateLimit
    <1> QED  BY <1>1, <1>2, <1>3, <1>4, <1>5 DEF ResellersStep

LEMMA HookServes ==
    ASSUME Routes, NEW r \in Requests, RevenueCatStep(r)
    PROVE  Serves(r, HookOps, {"revenuecat"})
    <1> USE DEF HookOps, Begins, Passes, Goes, Posts, Routes, Routed, GoesOn, Granting, Serves
    <1>1. CASE WebhookFind(r)
        BY <1>1 DEF WebhookFind, Learns
    <1>2. CASE WebhookBase(r) \/ WebhookBonus(r)
        BY <1>2 DEF WebhookBase, WebhookBonus, base, bonus
    <1>3. CASE Redeliver(r) \/ UpdatePackage(r)
        BY <1>3 DEF Redeliver, UpdatePackage
    <1> QED  BY <1>1, <1>2, <1>3 DEF RevenueCatStep, WebhookStep

LEMMA DailyServes ==
    ASSUME Routes, NEW r \in Requests, DailyRewardStep(r)
    PROVE  Serves(r, DailyOps, {"daily"})
    <1> USE DEF DailyOps, Begins, Passes, Goes, Posts, Learns, Routes, Routed, GoesOn, Granting,
                Serves
    <1>1. CASE DailyConfigRead(r) \/ DailyStateRead(r)
        BY <1>1 DEF DailyConfigRead, DailyStateRead
    <1>2. CASE DailyReset(r) \/ DailyWindow(r) \/ DailyDate(r)
        BY <1>2 DEF DailyReset, DailyWindow, DailyDate
    <1>3. CASE DailyGrant(r)
        BY <1>3 DEF DailyGrant, reward
    <1>4. CASE DailySave(r) \/ UpsertConfig(r)
        BY <1>4 DEF DailySave, UpsertConfig
    <1> QED  BY <1>1, <1>2, <1>3, <1>4 DEF DailyRewardStep

LEMMA BallServes ==
    ASSUME Routes, NEW r \in Requests, MagicBallStep(r)
    PROVE  Serves(r, BallOps, {"ball"})
    <1> USE DEF BallOps, Begins, Passes, Goes, Posts, Learns, Routes, Routed, GoesOn, Granting,
                Serves
    <1>1. CASE IncrementProgress(r) \/ ClaimTask(r) \/ ClaimCheck(r) \/ ClaimPush(r)
        BY <1>1 DEF IncrementProgress, ClaimTask, ClaimCheck, ClaimPush
    <1>2. CASE ClaimCredit(r)
        BY <1>2 DEF ClaimCredit, ballKey
    <1>3. CASE UpdateTask(r) \/ DeleteTask(r)
        BY <1>3 DEF UpdateTask, DeleteTask
    <1> QED  BY <1>1, <1>2, <1>3 DEF MagicBallStep

LEMMA RecordServes ==
    ASSUME Routes, NEW r \in Requests, LiveRecordStep(r)
    PROVE  Serves(r, RecordOps, {"live-valid-day-reward", "live-valid-month-bonus"})
    <1> USE DEF RecordOps, Begins, Passes, Goes, Posts, Learns, Routes, Routed, GoesOn,
                Granting, Serves
    <1>1. CASE EndSession(r) \/ InsertSession(r)
        BY <1>1 DEF EndSession, InsertSession
    <1>2. CASE Aggregate(r) \/ FindDayRow(r) \/ WriteDayRow(r)
        BY <1>2 DEF Aggregate, FindDayRow, WriteDayRow
    <1>3. CASE CreditDay(r)
        BY <1>3 DEF CreditDay, dayReward
    <1>4. CASE ClaimMonthFind(r) \/ ClaimMonthCount(r) \/ ClaimMonthWrite(r)
        BY <1>4 DEF ClaimMonthFind, ClaimMonthCount, ClaimMonthWrite
    <1>5. CASE ClaimMonthBonus(r)
        BY <1>5 DEF ClaimMonthBonus, monthBonus
    <1> QED  BY <1>1, <1>2, <1>3, <1>4, <1>5 DEF LiveRecordStep

\* What a request knows after it has learned something.
LEMMA Learned ==
    ASSUME Routes, NEW r \in Requests, NEW f, Learns(r, f)
    PROVE  /\ DOMAIN job' = Requests /\ job'[r] = Override(job[r], f)
           /\ \A s \in Requests : s # r => job'[s] = job[s]
    BY DEF Learns, Routes

\* Where it goes next is not forgotten.
LEMMA ThenKept ==
    ASSUME NEW j, "then" \in DOMAIN j, NEW f, "then" \notin DOMAIN f
    PROVE  "then" \in DOMAIN Override(j, f) /\ Override(j, f).then = j.then
    BY DEF Override

LEMMA ThenSet ==
    ASSUME NEW j, NEW f, "then" \in DOMAIN f
    PROVE  "then" \in DOMAIN Override(j, f) /\ Override(j, f).then = f.then
    BY DEF Override

LEMMA GoesServes ==
    ASSUME Routes, NEW r \in Requests, NEW ops, NEW tags, NEW to, Goes(r, to),
           call(r).op \in ops, Routed(r, to), to # "stopped",
           DOMAIN job' = Requests, \A s \in Requests : s # r => job'[s] = job[s],
           to \in Granting =>
                /\ "then" \in DOMAIN job'[r]
                /\ Onward(r, job'[r].then),
           ledger \subseteq ledger', \A k \in ledger' : k \in ledger \/ k[1] \in tags
    PROVE  Serves(r, ops, tags)
    <1>1. pc'[r] = to /\ DOMAIN pc' = Requests /\ call(r)' = call(r)
        BY DEF Goes, Routes, call
    <1>2. GoesOn(r)'
        BY <1>1 DEF GoesOn, Onward
    <1> QED  BY <1>1, <1>2 DEF Serves, Goes, Routes

LEMMA CosmeticsServe ==
    ASSUME Routes, NEW r \in Requests, CosmeticsStep(r)
    PROVE  Serves(r, ShopOps, {})
    <1>0. Routed(r, pc[r]) /\ GoesOn(r) /\ DOMAIN job = Requests
        BY DEF Routes
    <1>1. ASSUME NextGrant(r), pc[r] \in Granting
          PROVE  Serves(r, ShopOps, {})
        <2>1. PICK to : /\ to \in {"grantFind", job[r].then} /\ Goes(r, to)
            BY <1>1 DEF NextGrant
        <2>2. /\ "then" \in DOMAIN job'[r] /\ job'[r].then = job[r].then
              /\ DOMAIN job' = Requests /\ \A s \in Requests : s # r => job'[s] = job[s]
            BY <1>0, <1>1, Learned, ThenKept DEF NextGrant, GoesOn
        <2>3. /\ call(r).op \in ShopOps /\ Routed(r, to) /\ to # "stopped"
              /\ Onward(r, job[r].then)
            BY <1>0, <1>1, <2>1 DEF Granting, Routed, GoesOn, Onward, ShopOps
        <2> QED  BY <1>1, <2>1, <2>2, <2>3, GoesServes DEF NextGrant
    <1>2. ASSUME NEW to, Goes(r, to), UNCHANGED ledger,
                 Routed(r, to) /\ to # "stopped" /\ call(r).op \in ShopOps,
                 job' = job \/ \E f : Learns(r, f) /\ "then" \notin DOMAIN f,
                 to \in Granting => pc[r] \in Granting
          PROVE  Serves(r, ShopOps, {})
        <2>1. DOMAIN job' = Requests /\ \A s \in Requests : s # r => job'[s] = job[s]
            BY <1>0, <1>2, Learned
        <2>2. CASE to \notin Granting
            BY <1>2, <2>1, <2>2, GoesServes
        <2>3. CASE to \in Granting
            <3>1. "then" \in DOMAIN job'[r] /\ job'[r].then = job[r].then
                BY <1>0, <1>2, <2>3, Learned, ThenKept DEF GoesOn
            <3> QED  BY <1>0, <1>2, <2>1, <2>3, <3>1, GoesServes DEF GoesOn
        <2> QED  BY <2>2, <2>3
    <1>3. CASE GrantFind(r)
        <2>1. CASE NextGrant(r)
            BY <1>1, <1>3, <2>1 DEF GrantFind, Granting
        <2>2. CASE ~NextGrant(r)
            <3>1. PICK to \in {"grantExtend", "grantCreate"} : Goes(r, to)
                BY <1>3, <2>2 DEF GrantFind
            <3>2. Learns(r, [until |-> expiry(thisGrant(r).days)]) /\ UNCHANGED ledger
                BY <1>3, <2>2 DEF GrantFind
            <3>3. \E f : Learns(r, f) /\ "then" \notin DOMAIN f
                BY <3>2
            <3>4. Routed(r, to) /\ call(r).op \in ShopOps /\ pc[r] \in Granting
                BY <1>0, <1>3, <3>1 DEF GrantFind, Routed, ShopOps, Granting
            <3> QED  BY <1>2, <3>1, <3>2, <3>3, <3>4
        <2> QED  BY <2>1, <2>2
    <1>4. CASE GrantExtend(r)
        BY <1>1, <1>4 DEF GrantExtend, Granting
    <1>5. CASE GrantCreate(r)
        <2>1. CASE NextGrant(r)
            BY <1>1, <1>5, <2>1 DEF GrantCreate, Granting
        <2>2. CASE Passes(r, "failed")
            <3>1. Routed(r, "failed") /\ call(r).op \in ShopOps /\ "failed" \notin Granting
                BY <1>0, <1>5 DEF GrantCreate, Routed, ShopOps, Granting
            <3> QED  BY <1>2, <2>2, <3>1 DEF Passes
        <2> QED  BY <1>5, <2>1, <2>2 DEF GrantCreate
    <1> USE DEF ShopOps, Begins, Passes, Granting
    <1>6. CASE EquipFind(r)
        <2>1. PICK to \in {"equipPeers", "failed"} : Goes(r, to)
            BY <1>6 DEF EquipFind
        <2>2. Routed(r, to) /\ call(r).op \in ShopOps
            BY <1>6, <2>1 DEF EquipFind, Routed
        <2>3. UNCHANGED ledger /\ (job' = job \/ \E f : Learns(r, f) /\ "then" \notin DOMAIN f)
            BY <1>6 DEF EquipFind
        <2> QED  BY <1>2, <2>1, <2>2, <2>3
    <1>7. CASE EquipPeers(r) \/ EquipSave(r)
        BY <1>0, <1>2, <1>7 DEF EquipPeers, EquipSave, Routed
    <1>8. CASE UnequipFind(r) \/ UnequipSave(r) \/ UnequipSvip(r)
        BY <1>0, <1>2, <1>8 DEF UnequipFind, UnequipSave, UnequipSvip, Routed
    <1>9. CASE SvipOwned(r)
        <2>1. CASE Passes(r, "done")
            BY <1>0, <1>2, <1>9, <2>1 DEF SvipOwned, Routed
        <2>2. CASE ~Passes(r, "done")
            <3>1. PICK W : Learns(r, [winners |-> W]) /\ Goes(r, "svipPeers") /\ UNCHANGED ledger
                BY <1>9, <2>2 DEF SvipOwned
            <3>2. Routed(r, "svipPeers") /\ call(r).op \in ShopOps
                BY <1>0, <1>9 DEF SvipOwned, Routed
            <3>3. \E f : Learns(r, f) /\ "then" \notin DOMAIN f
                BY <3>1
            <3> QED  BY <1>2, <3>1, <3>2, <3>3
        <2> QED  BY <2>1, <2>2
    <1>10. CASE SvipPeers(r) \/ SvipWinners(r)
        BY <1>0, <1>2, <1>10 DEF SvipPeers, SvipWinners, Routed
    <1>11. CASE UpdateItem(r)
        BY <1>2, <1>11 DEF UpdateItem, Routed
    <1> QED  BY <1>3, <1>4, <1>5, <1>6, <1>7, <1>8, <1>9, <1>10, <1>11 DEF CosmeticsStep

\* A step to a place from which no grants follow.
LEMMA PlainServes ==
    ASSUME Routes, NEW r \in Requests, NEW ops, NEW tags, NEW to, Goes(r, to),
           Routed(r, to), to # "stopped", to \notin Granting, call(r).op \in ops,
           job' = job \/ \E f : Learns(r, f),
           ledger' = ledger \/ \E k : Posts(k) /\ k[1] \in tags
    PROVE  Serves(r, ops, tags)
    <1>1. DOMAIN job' = Requests /\ \A s \in Requests : s # r => job'[s] = job[s]
        BY Learned DEF Routes
    <1>2. ledger \subseteq ledger' /\ \A k \in ledger' : k \in ledger \/ k[1] \in tags
        BY DEF Posts
    <1> QED  BY <1>1, <1>2, GoesServes

\* A step to the grants.
LEMMA GrantsServe ==
    ASSUME Routes, NEW r \in Requests, NEW ops, NEW tags, NEW to, Goes(r, to),
           Routed(r, to), to \in Granting, call(r).op \in ops, NEW f, Learns(r, f),
           "then" \in DOMAIN f,
           Onward(r, f.then),
           ledger' = ledger \/ \E k : Posts(k) /\ k[1] \in tags
    PROVE  Serves(r, ops, tags)
    <1>1. DOMAIN job' = Requests /\ \A s \in Requests : s # r => job'[s] = job[s]
        BY Learned
    <1>2. "then" \in DOMAIN job'[r] /\ job'[r].then = f.then
        BY Learned, ThenSet
    <1>3. ledger \subseteq ledger' /\ \A k \in ledger' : k \in ledger \/ k[1] \in tags
        BY DEF Posts
    <1>4. to # "stopped"
        BY DEF Granting
    <1> QED  BY <1>1, <1>2, <1>3, <1>4, GoesServes

LEMMA StoreServes ==
    ASSUME Routes, NEW r \in Requests, StoreStep(r)
    PROVE  Serves(r, ShopOps, {"store"})
    <1>0. Routed(r, pc[r]) /\ DOMAIN job = Requests
        BY DEF Routes
    <1> USE DEF ShopOps, Begins, Passes, Routed
    <1>1. CASE BuyListing(r)
        <2>1. PICK to \in {"buyItem", "failed"} : Goes(r, to)
            BY <1>1 DEF BuyListing
        <2>2. call(r).op \in {"purchase", "gift"} /\ UNCHANGED ledger
              /\ (job' = job \/ \E f : Learns(r, f))
            BY <1>1 DEF BuyListing, Buys
        <2> QED  BY <2>1, <2>2, PlainServes DEF Granting
    <1>2. CASE BuyItem(r)
        BY <1>0, <1>2, PlainServes DEF BuyItem, Granting
    <1>3. CASE BuyDebit(r)
        <2>1. CASE Passes(r, "failed")
            BY <1>0, <1>3, <2>1, PlainServes DEF BuyDebit, Granting
        <2>2. CASE ~Passes(r, "failed")
            <3> DEFINE f == [grants |-> <<granted(r)>>, bestEffort |-> FALSE, then |-> "done"]
            <3>1. /\ Posts(storeKey(call(r).key)) /\ Learns(r, f) /\ Goes(r, "grantFind")
                  /\ pc[r] = "buyDebit"
                BY <1>3, <2>2 DEF BuyDebit
            <3>2. storeKey(call(r).key)[1] \in {"store"} /\ "grantFind" \in Granting
                BY DEF storeKey, Granting
            <3>3. "then" \in DOMAIN f /\ Onward(r, f.then)
                BY DEF Onward
            <3>4. Routed(r, "grantFind") /\ call(r).op \in ShopOps
                BY <1>0, <3>1
            <3>5. \E k : Posts(k) /\ k[1] \in {"store"}
                BY <3>1, <3>2
            <3> HIDE DEF f, ShopOps, Routed
            <3> QED  BY <3>1, <3>2, <3>3, <3>4, <3>5, GrantsServe
        <2> QED  BY <2>1, <2>2
    <1>4. CASE UpdateListing(r)
        BY <1>4, PlainServes DEF UpdateListing, Granting
    <1> QED  BY <1>1, <1>2, <1>3, <1>4 DEF StoreStep

LEMMA SvipServes ==
    ASSUME Routes, NEW r \in Requests, SvipStep(r)
    PROVE  Serves(r, ShopOps, {"svip"})
    <1>0. Routed(r, pc[r]) /\ GoesOn(r) /\ DOMAIN job = Requests
        BY DEF Routes
    <1> USE DEF ShopOps, Begins, Passes, Routed
    <1>1. ASSUME NEW levels, NEW days, NEW to \in {"svipOwned", "done"},
                 ThenGrants(r, levels, days, to), UNCHANGED ledger,
                 call(r).op \in {"svipBuy", "activate"}
          PROVE  Serves(r, ShopOps, {"svip"})
        <2> DEFINE f == [levels |-> levels, days |-> days, then |-> to, level |-> call(r).level]
        <2>1. Learns(r, f) /\ Goes(r, "svipTiers")
            BY <1>1 DEF ThenGrants
        <2>2. Onward(r, f.then) /\ "then" \in DOMAIN f
            BY <1>1 DEF Onward
        <2>3. Routed(r, "svipTiers") /\ "svipTiers" \in Granting
            BY <1>1 DEF Granting
        <2> HIDE DEF f
        <2> QED  BY <1>1, <2>1, <2>2, <2>3, GrantsServe
    <1>2. CASE TierFind(r)
        <2>1. PICK to \in {"svipStatus", "failed"} : Goes(r, to)
            BY <1>2 DEF TierFind
        <2>2. call(r).op = "svipBuy" /\ UNCHANGED ledger /\ (job' = job \/ \E f : Learns(r, f))
            BY <1>2 DEF TierFind
        <2> QED  BY <2>1, <2>2, PlainServes DEF Granting
    <1>3. CASE TierStatus(r)
        <2>1. PICK to \in {"svipDebit", "failed"} : Goes(r, to)
            BY <1>3 DEF TierStatus
        <2>2. call(r).op = "svipBuy" /\ UNCHANGED ledger /\ \E f : Learns(r, f)
            BY <1>0, <1>3 DEF TierStatus
        <2> QED  BY <2>1, <2>2, PlainServes DEF Granting
    <1>4. CASE TierDebit(r)
        <2>1. PICK to \in {"svipSave", "failed"} : Goes(r, to)
            BY <1>4 DEF TierDebit
        <2>2. /\ call(r).op = "svipBuy" /\ UNCHANGED job
              /\ ledger' = ledger \/ \E k : Posts(k) /\ k[1] \in {"svip"}
            <3>1. tierKey(r)[1] \in {"svip"}
                BY DEF tierKey
            <3> QED  BY <1>0, <1>4, <3>1 DEF TierDebit
        <2> QED  BY <2>1, <2>2, PlainServes DEF Granting
    <1>5. CASE TierSave(r)
        <2>1. CASE Goes(r, "failed") /\ UNCHANGED job
            BY <1>0, <1>5, <2>1, PlainServes DEF TierSave, Granting
        <2>2. CASE ~(Goes(r, "failed") /\ UNCHANGED job)
            BY <1>0, <1>1, <1>5, <2>2 DEF TierSave
        <2> QED  BY <2>1, <2>2
    <1>6. CASE TierItems(r)
        <2>1. PICK g : /\ Learns(r, [grants |-> g, bestEffort |-> TRUE])
                       /\ Goes(r, IF g = <<>> THEN job[r].then ELSE "grantFind")
            BY <1>6 DEF TierItems
        <2>2. PICK to \in {job[r].then, "grantFind"} : Goes(r, to)
            BY <2>1
        <2>3. /\ "then" \in DOMAIN job[r]
              /\ Onward(r, job[r].then)
              /\ call(r).op \in {"svipBuy", "activate"} /\ UNCHANGED ledger
            BY <1>0, <1>6 DEF TierItems, GoesOn, Granting
        <2>4. /\ DOMAIN job' = Requests /\ \A s \in Requests : s # r => job'[s] = job[s]
              /\ "then" \in DOMAIN job'[r] /\ job'[r].then = job[r].then
            BY <2>1, <2>3, Learned, ThenKept
        <2>5. Routed(r, to) /\ to # "stopped"
            BY <2>2, <2>3 DEF Onward
        <2> HIDE DEF Routed
        <2> QED  BY <2>2, <2>3, <2>4, <2>5, GoesServes
    <1>7. CASE ActivateFind(r)
        <2>1. PICK to \in {"activateSave", "failed"} : Goes(r, to)
            BY <1>7 DEF ActivateFind
        <2>2. call(r).op = "activate" /\ UNCHANGED ledger /\ (job' = job \/ \E f : Learns(r, f))
            BY <1>7 DEF ActivateFind
        <2> QED  BY <2>1, <2>2, PlainServes DEF Granting
    <1>8. CASE ActivateSave(r)
        BY <1>0, <1>1, <1>8 DEF ActivateSave
    <1>9. CASE DeactivateFind(r)
        <2>1. Goes(r, "deactivateSave") /\ call(r).op = "deactivate" /\ UNCHANGED ledger
              /\ \E f : Learns(r, f)
            BY <1>9 DEF DeactivateFind
        <2> QED  BY <2>1, PlainServes DEF Granting
    <1>10. CASE DeactivateSave(r) \/ UpdateTier(r)
        BY <1>0, <1>10, PlainServes DEF DeactivateSave, UpdateTier, Granting
    <1> QED
        BY <1>2, <1>3, <1>4, <1>5, <1>6, <1>7, <1>8, <1>9, <1>10 DEF SvipStep

LEMMA HonorsServe ==
    ASSUME Routes, NEW r \in Requests, HonorsStep(r)
    PROVE  Serves(r, HonorOps, {})
    <1> USE DEF HonorOps, Begins, Passes, Goes, Routes, Routed, GoesOn, Granting, Serves, Learns
    <1>1. CASE ChangeMetric(r)
        BY <1>1 DEF ChangeMetric
    <1>2. CASE EvaluateCatalog(r)
        <2>1. PICK to \in {"honorValue", "done"} : Goes(r, to)
            BY <1>2 DEF EvaluateCatalog
        <2>2. call(r).op = "evaluate" /\ UNCHANGED ledger /\ \E f : Learns(r, f)
            BY <1>2 DEF EvaluateCatalog
        <2> HIDE DEF Serves, Learns, Goes, Routes
        <2> QED  BY <2>1, <2>2, PlainServes
    <1>3. CASE EvaluateValue(r)
        BY <1>3 DEF EvaluateValue
    <1>4. CASE EvaluateProgress(r) \/ EvaluateFind(r)
        BY <1>4 DEF EvaluateProgress, EvaluateFind, NextHonor
    <1>5. CASE EvaluateCreate(r) \/ EvaluateSave(r)
        BY <1>5 DEF EvaluateCreate, EvaluateSave, NextHonor
    <1>6. CASE GrantRead(r) \/ GrantUpsert(r) \/ Revoke(r) \/ UpdateHonor(r)
        BY <1>6 DEF GrantRead, GrantUpsert, Revoke, UpdateHonor
    <1>7. CASE WearFind(r) \/ WearVacate(r) \/ WearSave(r)
        BY <1>7 DEF WearFind, WearVacate, WearSave
    <1> QED  BY <1>1, <1>2, <1>3, <1>4, <1>5, <1>6, <1>7 DEF HonorsStep

------------------------------------------------------------------------------
\* The steps of Economy, to one service.

\* A stop leaves r where it got to, and everybody else alone.
Halts(r) ==
    /\ load' = load /\ day' = day /\ ledger' = ledger
    /\ pc[r] \notin {"idle", "done", "failed", "stopped"}
    /\ pc'[r] = "stopped" /\ "at" \in DOMAIN job'[r] /\ job'[r].at = pc[r]
    /\ job'[r] = Override(job[r], [at |-> pc[r]])
    /\ DOMAIN pc' = Requests /\ DOMAIN job' = Requests
    /\ \A s \in Requests : s # r => pc'[s] = pc[s] /\ job'[s] = job[s]

LEMMA StopHalts ==
    ASSUME Routes, NEW r \in Requests, Stop(r)
    PROVE  Halts(r)
    <1>1. Learns(r, [at |-> pc[r]])
        BY DEF Stop
    <1>2. /\ DOMAIN job' = Requests /\ job'[r] = Override(job[r], [at |-> pc[r]])
          /\ \A s \in Requests : s # r => job'[s] = job[s]
        BY <1>1, Learned
    <1>3. "at" \in DOMAIN job'[r] /\ job'[r].at = pc[r]
        BY <1>2 DEF Override
    <1> QED  BY <1>2, <1>3 DEF Halts, Stop, Over, Routes

LEMMA HaltRoutes ==
    ASSUME Routes, NEW r \in Requests, Halts(r)
    PROVE  Routes' /\ \A s \in Requests : \A l : l # "stopped" => (GotTo(s, l)' <=> GotTo(s, l))
    <1>1. Requests' = Requests /\ \A s \in Requests : call(s)' = call(s)
        BY DEF Halts, Requests, call
    <1>2. ASSUME NEW s \in Requests
          PROVE  /\ Routed(s, pc[s])' /\ GoesOn(s)'
                 /\ (pc[s] = "stopped" => "at" \in DOMAIN job[s] /\ Routed(s, job[s].at))'
                 /\ \A l : l # "stopped" => (GotTo(s, l)' <=> GotTo(s, l))
        <2>1. CASE s = r
            <3>1. Routed(s, pc[s])' /\ GoesOn(s)'
                BY <2>1 DEF Halts, Routed, GoesOn, Granting
            <3>2. (pc[s] = "stopped" => "at" \in DOMAIN job[s] /\ Routed(s, job[s].at))'
                BY <1>1, <2>1 DEF Halts, Routes, Routed
            <3>3. \A l : l # "stopped" => (GotTo(s, l)' <=> GotTo(s, l))
                BY <2>1 DEF Halts, GotTo
            <3> QED  BY <3>1, <3>2, <3>3
        <2>2. CASE s # r
            <3>1. pc'[s] = pc[s] /\ job'[s] = job[s]
                BY <2>2 DEF Halts
            <3>2. /\ Routed(s, pc[s])'
                  /\ (pc[s] = "stopped" => "at" \in DOMAIN job[s] /\ Routed(s, job[s].at))'
                BY <1>1, <3>1 DEF Routed, Routes
            <3>3. GoesOn(s)' /\ \A l : GotTo(s, l)' <=> GotTo(s, l)
                BY <1>1, <3>1 DEF GoesOn, Onward, Routes, GotTo
            <3> QED  BY <3>2, <3>3
        <2> QED  BY <2>1, <2>2
    <1> QED  BY <1>1, <1>2 DEF Routes, Halts

LEMMA ServesQuiet ==
    ASSUME NEW r, NEW ops, NEW tags, Serves(r, ops, tags),
           NEW mine, NEW keys, ops \cap mine = {}, tags \cap keys = {}
    PROVE  Quiet(mine, keys)
    BY DEF Serves, Quiet

\* A step of the store, SVIP or the cosmetics.
Shops(r) ==
    \/ CosmeticsStep(r) /\ UNCHANGED <<listings, svipVars>>
    \/ StoreStep(r) /\ UNCHANGED svipVars
    \/ SvipStep(r) /\ UNCHANGED listings

\* Every step is one service's, or a stop, or the calendar's, or none.
LEMMA StepKinds ==
    ASSUME Routes, [Next]_vars
    PROVE  \/ \E r \in Requests : ResellersStep(r) /\ Serves(r, PoolOps, {"assign"})
                 /\ UNCHANGED <<package, dailyVars, ballVars, recordVars, shopVars>>
           \/ \E r \in Requests : RevenueCatStep(r) /\ Serves(r, HookOps, {"revenuecat"})
                 /\ UNCHANGED <<poolVars, dailyVars, ballVars, recordVars, shopVars>>
           \/ \E r \in Requests : DailyRewardStep(r) /\ Serves(r, DailyOps, {"daily"})
                 /\ UNCHANGED <<poolVars, package, ballVars, recordVars, shopVars>>
           \/ \E r \in Requests : MagicBallStep(r) /\ Serves(r, BallOps, {"ball"})
                 /\ UNCHANGED <<poolVars, package, dailyVars, recordVars, shopVars>>
           \/ \E r \in Requests : LiveRecordStep(r)
                 /\ Serves(r, RecordOps, {"live-valid-day-reward", "live-valid-month-bonus"})
                 /\ UNCHANGED <<poolVars, package, dailyVars, ballVars, shopVars>>
           \/ \E r \in Requests : Shops(r)
                 /\ Serves(r, ShopOps, {"store", "svip"})
                 /\ UNCHANGED <<rewardVars, honorVars>>
           \/ \E r \in Requests : HonorsStep(r) /\ Serves(r, HonorOps, {})
                 /\ UNCHANGED <<rewardVars, cosmeticVars, listings, svipVars>>
           \/ \E r \in Requests : Halts(r) /\ UNCHANGED <<rewardVars, shopVars>>
           \/ Midnight /\ UNCHANGED <<rewardVars, shopVars>>
           \/ UNCHANGED vars
    <1>1. ASSUME NEW r \in Requests, RewardsStep(r), UNCHANGED shopVars
          PROVE  \/ ResellersStep(r) /\ Serves(r, PoolOps, {"assign"})
                       /\ UNCHANGED <<package, dailyVars, ballVars, recordVars, shopVars>>
                 \/ RevenueCatStep(r) /\ Serves(r, HookOps, {"revenuecat"})
                       /\ UNCHANGED <<poolVars, dailyVars, ballVars, recordVars, shopVars>>
                 \/ DailyRewardStep(r) /\ Serves(r, DailyOps, {"daily"})
                       /\ UNCHANGED <<poolVars, package, ballVars, recordVars, shopVars>>
                 \/ MagicBallStep(r) /\ Serves(r, BallOps, {"ball"})
                       /\ UNCHANGED <<poolVars, package, dailyVars, recordVars, shopVars>>
                 \/ LiveRecordStep(r)
                       /\ Serves(r, RecordOps,
                                 {"live-valid-day-reward", "live-valid-month-bonus"})
                       /\ UNCHANGED <<poolVars, package, dailyVars, ballVars, shopVars>>
        BY <1>1, PoolServes, HookServes, DailyServes, BallServes, RecordServes DEF RewardsStep
    <1>2. ASSUME NEW r \in Requests, ShopStep(r), UNCHANGED rewardVars
          PROVE  \/ Shops(r)
                       /\ Serves(r, ShopOps, {"store", "svip"})
                       /\ UNCHANGED <<rewardVars, honorVars>>
                 \/ HonorsStep(r) /\ Serves(r, HonorOps, {})
                       /\ UNCHANGED <<rewardVars, cosmeticVars, listings, svipVars>>
        <2>1. ASSUME NEW tags \in SUBSET {"store", "svip"}, Serves(r, ShopOps, tags)
              PROVE  Serves(r, ShopOps, {"store", "svip"})
            BY <2>1 DEF Serves
        <2>2. CASE CosmeticsStep(r) /\ UNCHANGED <<listings, svipVars, honorVars>>
            BY <1>2, <2>1, <2>2, CosmeticsServe DEF Shops
        <2>3. CASE StoreStep(r) /\ UNCHANGED <<svipVars, honorVars>>
            BY <1>2, <2>1, <2>3, StoreServes DEF Shops
        <2>4. CASE SvipStep(r) /\ UNCHANGED <<listings, honorVars>>
            BY <1>2, <2>1, <2>4, SvipServes DEF Shops
        <2>5. CASE HonorsStep(r) /\ UNCHANGED <<cosmeticVars, listings, svipVars>>
            BY <1>2, <2>5, HonorsServe
        <2> QED  BY <1>2, <2>2, <2>3, <2>4, <2>5 DEF ShopStep, Shops
    <1>3. ASSUME NEW r \in Requests, Stop(r)
          PROVE  Halts(r)
        BY <1>3, StopHalts
    <1> QED  BY <1>1, <1>2, <1>3 DEF Next, Environment

LEMMA QuietMidnight ==
    ASSUME Routes, NEW ops, NEW tags, Midnight \/ UNCHANGED vars
    PROVE  Quiet(ops, tags) /\ Routes'
    <1>1. Requests' = Requests /\ \A s : call(s)' = call(s) /\ pc'[s] = pc[s] /\ job'[s] = job[s]
        BY DEF Midnight, vars, serviceVars, Requests, call
    <1>2. load' = load /\ pc' = pc /\ job' = job /\ ledger' = ledger /\ day' \in {day, day + 1}
          /\ day' \in 1 .. load.days
        BY WorkloadAssumption DEF Midnight, vars, serviceVars, Routes
    <1>3. Routes'
        BY <1>1, <1>2 DEF Routes, Routed, GoesOn, Onward
    <1> QED  BY <1>2, <1>3 DEF Quiet

LEMMA RoutesStep ==
    ASSUME Routes, [Next]_vars
    PROVE  Routes'
    BY StepKinds, ServedRoutes, HaltRoutes, QuietMidnight

\* To the resellers.
LEMMA PoolSteps ==
    ASSUME Routes, [Next]_vars
    PROVE  \/ \E r \in Requests : ResellersStep(r) /\ Serves(r, PoolOps, {"assign"})
           \/ \E r \in Requests : Halts(r) /\ UNCHANGED poolVars
           \/ Quiet(PoolOps, {"assign"}) /\ UNCHANGED poolVars
    <1>1. ASSUME NEW r, NEW ops \in {HookOps, DailyOps, BallOps, RecordOps, ShopOps, HonorOps},
                 NEW tags \in {{"revenuecat"}, {"daily"}, {"ball"}, {"store", "svip"}, {},
                     {"live-valid-day-reward", "live-valid-month-bonus"}},
                 Serves(r, ops, tags)
          PROVE  Quiet(PoolOps, {"assign"})
        <2>1. ops \cap PoolOps = {} /\ tags \cap {"assign"} = {}
            BY DEF PoolOps, HookOps, DailyOps, BallOps, RecordOps, ShopOps, HonorOps
        <2> QED  BY <1>1, <2>1, ServesQuiet
    <1> QED  BY <1>1, StepKinds, QuietMidnight DEF rewardVars, vars

------------------------------------------------------------------------------
\* The resellers' pool.

PoolInv ==
    /\ {"coinPool", "received", "assigned"} \subseteq DOMAIN reseller
    /\ reseller.coinPool \in Int /\ reseller.received \in Int /\ reseller.assigned \in Int
    /\ IsFiniteSet(poolRows)
    /\ \A l \in poolRows : l.direction \in {"credit", "debit"} /\ l.amount \in Nat
    /\ \A r \in Requests : GotTo(r, "topupReverse") => PoolRowFor(call(r).key)
    /\ PoolReconciled

\* What is not booked is what some top-up wants to add.
LEMMA RequestsFinite ==
    ASSUME Routes
    PROVE  IsFiniteSet(Requests)
    BY WorkloadAssumption DEF Routes, Requests

LEMMA AmountType ==
    ASSUME Routes, NEW r \in Requests, call(r).op \in {"topup", "assign"}
    PROVE  call(r).amount \in Nat
    BY AmountAssumption DEF Routes, Requests, call

LEMMA NotBookedType ==
    ASSUME Routes
    PROVE  \A r \in Requests : /\ notBooked(r) => call(r).op = "topup"
                              /\ unbookedOf[r] \in Int
    <1> SUFFICES ASSUME NEW r \in Requests
                 PROVE  (notBooked(r) => call(r).op = "topup") /\ unbookedOf[r] \in Int
        OBVIOUS
    <1>1. notBooked(r) => call(r).op = "topup"
        BY DEF notBooked, GotTo, Routes, Routed
    <1> QED  BY <1>1, AmountType DEF unbookedOf

\* One request moves.
LEMMA UnbookedMoves ==
    ASSUME Routes, Routes', load' = load, NEW r \in Requests,
           \A s \in Requests : s # r => pc'[s] = pc[s] /\ job'[s] = job[s]
    PROVE  /\ unbooked \in Int
           /\ unbooked' = unbooked - unbookedOf[r] + unbookedOf'[r]
    <1>1. Requests' = Requests /\ \A s : call(s)' = call(s)
        BY DEF Requests, call
    <1>2. \A s \in Requests : unbookedOf[s] \in Int /\ unbookedOf'[s] \in Int
        <2>1. \A s \in Requests : unbookedOf[s] \in Int
            BY NotBookedType
        <2>2. ASSUME NEW s \in Requests
              PROVE  unbookedOf'[s] \in Int
            <3>1. notBooked(s)' => call(s).op = "topup"
                BY <1>1 DEF notBooked, GotTo, Routes, Routed
            <3> QED  BY <1>1, <3>1, AmountType DEF unbookedOf
        <2> QED  BY <2>1, <2>2
    <1>3. \A s \in Requests \ {r} : unbookedOf'[s] = unbookedOf[s]
        BY <1>1 DEF unbookedOf, notBooked, GotTo
    <1>4. IsFiniteSet(Requests)
        BY RequestsFinite
    <1>5. unbooked = SumFunctionOnSet(unbookedOf, Requests)
        BY DEF unbooked, SumFunction, unbookedOf
    <1>6. unbooked' = SumFunctionOnSet(unbookedOf', Requests)
        BY <1>1 DEF unbooked, SumFunction, unbookedOf
    <1>7. \A f, g : (/\ \A s \in Requests : f[s] \in Int /\ g[s] \in Int
                    /\ \A s \in Requests \ {r} : g[s] = f[s]) =>
              /\ SumFunctionOnSet(g, Requests) = SumFunctionOnSet(f, Requests) - f[r] + g[r]
              /\ SumFunctionOnSet(f, Requests) \in Int
        BY <1>4, SumUpdate, SumType
    <1> QED  BY <1>2, <1>3, <1>5, <1>6, <1>7, Zenon

LEMMA UnbookedSame ==
    ASSUME Routes, Routes', load' = load,
           \A s \in Requests : notBooked(s)' <=> notBooked(s)
    PROVE  unbooked' = unbooked
    <1>1. Requests' = Requests /\ \A s : call(s)' = call(s)
        BY DEF Requests, call
    <1>2. unbookedOf' = unbookedOf
        BY <1>1 DEF unbookedOf
    <1> QED  BY <1>2 DEF unbooked, SumFunction

LEMMA RowSumType ==
    ASSUME PoolInv
    PROVE  rowSum("credit") \in Int /\ rowSum("debit") \in Int
    <1> SUFFICES ASSUME NEW d  PROVE rowSum(d) \in Int
        OBVIOUS
    <1>1. rowSum(d) = SumFunctionOnSet(bookedAs(d), poolRows)
        BY DEF rowSum, SumFunction, bookedAs
    <1>2. \A l \in poolRows : bookedAs(d)[l] \in Int
        BY DEF bookedAs, PoolInv
    <1>3. IsFiniteSet(poolRows)
        BY DEF PoolInv
    <1> QED  BY <1>1, <1>2, <1>3, SumType

\* One row more.
LEMMA RowAdded ==
    ASSUME PoolInv, NEW row, ~PoolRowFor(row.key), row.direction \in {"credit", "debit"},
           row.amount \in Nat, poolRows' = poolRows \cup {row}
    PROVE  /\ IsFiniteSet(poolRows')
           /\ \A l \in poolRows' : l.direction \in {"credit", "debit"} /\ l.amount \in Nat
           /\ rowSum("credit")' =
                 rowSum("credit") + (IF row.direction = "credit" THEN row.amount ELSE 0)
           /\ rowSum("debit")' =
                 rowSum("debit") + (IF row.direction = "debit" THEN row.amount ELSE 0)
    <1> DEFINE n == row.amount
               d == row.direction
    <1>1. row \notin poolRows
        BY DEF PoolRowFor
    <1>2. IsFiniteSet(poolRows) /\ IsFiniteSet(poolRows')
        BY FS_AddElement DEF PoolInv
    <1>3. \A l \in poolRows' : l.direction \in {"credit", "debit"} /\ l.amount \in Nat
        BY <1>1, <1>2 DEF PoolInv
    <1>4. ASSUME NEW e \in {"credit", "debit"}
          PROVE  rowSum(e)' = rowSum(e) + (IF d = e THEN n ELSE 0)
        <2>1. /\ rowSum(e) = SumFunctionOnSet(bookedAs(e), poolRows)
              /\ rowSum(e)' = SumFunctionOnSet(bookedAs(e)', poolRows')
            BY DEF rowSum, SumFunction, bookedAs
        <2>2. \A l \in poolRows : bookedAs(e)[l] \in Int /\ bookedAs(e)'[l] = bookedAs(e)[l]
            BY <1>2, <1>3 DEF bookedAs
        <2>3. \A l \in poolRows' : bookedAs(e)'[l] \in Int
            BY <1>3 DEF bookedAs
        <2>4. bookedAs(e)'[row] = IF d = e THEN n ELSE 0
            BY <1>1, <1>2 DEF bookedAs
        <2>5. \A f, g : (/\ \A l \in poolRows : f[l] \in Int /\ g[l] = f[l]
                        /\ \A l \in poolRows \cup {row} : g[l] \in Int) =>
                  /\ SumFunctionOnSet(f, poolRows) \in Int
                  /\ SumFunctionOnSet(g, poolRows \cup {row}) = SumFunctionOnSet(f, poolRows) + g[row]
            <3> SUFFICES ASSUME NEW f, NEW g, \A l \in poolRows : f[l] \in Int,
                                \A l \in poolRows : g[l] = f[l],
                                \A l \in poolRows \cup {row} : g[l] \in Int
                         PROVE  /\ SumFunctionOnSet(f, poolRows) \in Int
                                /\ SumFunctionOnSet(g, poolRows \cup {row})
                                   = SumFunctionOnSet(f, poolRows) + g[row]
                OBVIOUS
            <3>1. SumFunctionOnSet(g, poolRows) = SumFunctionOnSet(f, poolRows)
                BY <1>2, SumSame
            <3>2. SumFunctionOnSet(g, poolRows \cup {row}) = SumFunctionOnSet(g, poolRows) + g[row]
                BY <1>1, <1>2, SumAddElement
            <3> QED  BY <1>2, <3>1, <3>2, SumType
        <2> QED  BY <1>2, <2>1, <2>2, <2>3, <2>4, <2>5
    <1> QED  BY <1>2, <1>3, <1>4

\* What r had not booked, where it is now.
LEMMA UnbookedAt ==
    ASSUME Routes, NEW r \in Requests, pc[r] # "stopped"
    PROVE  unbookedOf[r] = IF pc[r] \in {"topupLedger", "topupReverse"}
                           THEN call(r).amount ELSE 0
    BY DEF unbookedOf, notBooked, GotTo

\* The claims of PoolReconciled about the requests.
RowsOfAnswers ==
    \A r \in Requests :
        /\ GotTo(r, "topupReverse") => PoolRowFor(call(r).key)
        /\ pc[r] = "done" /\ call(r).op \in {"topup", "assign"} => PoolRowFor(call(r).key)

LEMMA RowsStay ==
    ASSUME Routes, RowsOfAnswers, NEW r \in Requests, Serves(r, PoolOps, {"assign"}),
           poolRows \subseteq poolRows',
           \/ pc'[r] \notin {"done", "topupReverse"} \/ PoolRowFor(call(r).key)'
           \/ pc'[r] # "topupReverse" /\ call(r).op \notin {"topup", "assign"}
    PROVE  RowsOfAnswers'
    <1>1. Requests' = Requests /\ \A s : call(s)' = call(s)
        BY DEF Serves, Requests, call
    <1>2. \A k : PoolRowFor(k) => PoolRowFor(k)'
        BY DEF PoolRowFor
    <1> QED  BY <1>1, <1>2 DEF RowsOfAnswers, Serves, GotTo

\* The keys of assignments, here and in the wallet.
DebitKeys == {l.key : l \in {l \in poolRows : l.direction = "debit"}}
AssignKeys == {k[2] : k \in {k \in ledger : k[1] = "assign"}}

PoolSums ==
    /\ reseller.received = rowSum("credit") + unbooked
    /\ reseller.assigned = rowSum("debit")
    /\ reseller.coinPool = reseller.received - reseller.assigned

LEMMA PoolReconciledParts ==
    PoolReconciled /\ (\A r \in Requests : GotTo(r, "topupReverse") => PoolRowFor(call(r).key))
        <=> PoolSums /\ DebitKeys = AssignKeys /\ RowsOfAnswers
    BY DEF PoolReconciled, PoolSums, DebitKeys, AssignKeys, RowsOfAnswers

LEMMA PoolInit == Init => PoolInv
    <1> SUFFICES ASSUME Init  PROVE PoolInv
        OBVIOUS
    <1>1. Routes
        BY RoutesInit
    <1>2. \A d : rowSum(d) = 0
        BY SumEmpty DEF Init, ResellersInit, rowSum, bookedAs, SumFunction
    <1>3. unbooked = 0
        <2>1. \A r \in Requests : unbookedOf[r] = 0
            BY DEF Init, ServiceInit, unbookedOf, notBooked, GotTo, Requests
        <2>2. unbooked = SumFunctionOnSet(unbookedOf, Requests)
            BY DEF unbooked, SumFunction, unbookedOf
        <2> QED  BY <1>1, <2>1, <2>2, RequestsFinite, SumZero
    <1>4. IsFiniteSet(poolRows)
        BY FS_EmptySet DEF Init, ResellersInit
    <1> USE DEF Init, ServiceInit, ResellersInit
    <1>5. PoolSums
        BY <1>2, <1>3 DEF PoolSums
    <1>6. DebitKeys = AssignKeys
        BY DEF DebitKeys, AssignKeys
    <1>7. RowsOfAnswers
        BY DEF RowsOfAnswers, GotTo, Requests
    <1> QED  BY <1>4, <1>5, <1>6, <1>7, PoolReconciledParts DEF PoolInv

\* A step that leaves the pool alone.
LEMMA PoolQuiet ==
    ASSUME Routes, PoolInv, Routes', UNCHANGED poolVars,
           \/ Quiet(PoolOps, {"assign"})
           \/ \E r \in Requests : Halts(r)
    PROVE  PoolInv'
    <1>1. Requests' = Requests /\ load' = load /\ \A s : call(s)' = call(s)
        BY DEF Quiet, Halts, Requests, call
    <1> DEFINE Same(s) ==
            /\ notBooked(s)' <=> notBooked(s)
            /\ GotTo(s, "topupReverse")' <=> GotTo(s, "topupReverse")
            /\ call(s).op \in {"topup", "assign"} /\ pc'[s] = "done" => pc[s] = "done"
    <1>2. \A s \in Requests : Same(s)
        <2>1. CASE Quiet(PoolOps, {"assign"})
            <3> SUFFICES ASSUME NEW s \in Requests
                         PROVE  Same(s)
                OBVIOUS
            <3>1. CASE call(s).op \in PoolOps
                BY <2>1, <3>1 DEF Quiet, notBooked, GotTo
            <3>2. CASE call(s).op \notin PoolOps
                <4>1. ~GotTo(s, "topupLedger") /\ ~GotTo(s, "topupReverse")
                    BY <3>2 DEF GotTo, Routes, Routed, PoolOps
                <4>2. ~GotTo(s, "topupLedger")' /\ ~GotTo(s, "topupReverse")'
                    BY <1>1, <3>2 DEF GotTo, Routes, Routed, PoolOps
                <4> QED  BY <3>2, <4>1, <4>2 DEF notBooked, PoolOps
            <3> QED  BY <3>1, <3>2
        <2>2. ASSUME NEW r \in Requests, Halts(r)
              PROVE  \A s \in Requests : Same(s)
            <3>1. \A s \in Requests : \A l : l # "stopped" => (GotTo(s, l)' <=> GotTo(s, l))
                BY <2>2, HaltRoutes
            <3>2. \A s \in Requests : pc'[s] = "done" => pc[s] = "done"
                BY <2>2 DEF Halts
            <3> QED  BY <3>1, <3>2 DEF notBooked
        <2> QED  BY <2>1, <2>2
    <1>3. unbooked' = unbooked
        BY <1>1, <1>2, UnbookedSame
    <1>4. \A d : rowSum(d)' = rowSum(d)
        BY DEF rowSum, bookedAs, poolVars
    <1>5. PoolSums'
        BY <1>3, <1>4, PoolReconciledParts DEF PoolInv, PoolSums, poolVars
    <1>6. AssignKeys' = AssignKeys /\ DebitKeys' = DebitKeys
        BY DEF AssignKeys, DebitKeys, poolVars, Quiet, Halts
    <1>7. \A k : PoolRowFor(k)' <=> PoolRowFor(k)
        BY DEF PoolRowFor, poolVars
    <1>8. RowsOfAnswers'
        BY <1>1, <1>2, <1>7, PoolReconciledParts DEF PoolInv, RowsOfAnswers
    <1>9. PoolSums /\ DebitKeys = AssignKeys /\ RowsOfAnswers
        BY PoolReconciledParts DEF PoolInv
    <1>10. (/\ PoolReconciled
            /\ \A r \in Requests : GotTo(r, "topupReverse") => PoolRowFor(call(r).key))'
        BY <1>5, <1>6, <1>8, <1>9 DEF PoolReconciled, PoolSums, DebitKeys, AssignKeys, RowsOfAnswers
    <1> QED  BY <1>10 DEF PoolInv, poolVars

\* A step of topupPool or assignToUser, or an admin's.
LEMMA PoolMoves ==
    ASSUME Routes, PoolInv, Routes', NEW r \in Requests, ResellersStep(r),
           Serves(r, PoolOps, {"assign"})
    PROVE  PoolInv'
    <1>1. PoolSums /\ DebitKeys = AssignKeys /\ RowsOfAnswers
        BY PoolReconciledParts DEF PoolInv
    <1>2. Requests' = Requests /\ load' = load /\ \A s : call(s)' = call(s)
        BY DEF Serves, Requests, call
    <1>3. unbooked \in Int /\ unbooked' = unbooked - unbookedOf[r] + unbookedOf'[r]
        BY <1>2, UnbookedMoves DEF Serves
    <1>4. unbookedOf'[r] = IF pc'[r] \in {"topupLedger", "topupReverse"}
                           THEN call(r).amount ELSE 0
        BY <1>2 DEF unbookedOf, notBooked, GotTo, Serves
    <1>5. pc[r] # "stopped" => unbookedOf[r] = IF pc[r] \in {"topupLedger", "topupReverse"}
                                                THEN call(r).amount ELSE 0
        BY UnbookedAt
    <1>6. UNCHANGED poolRows => \A d : rowSum(d)' = rowSum(d)
        BY DEF rowSum, bookedAs
    <1>7. /\ UNCHANGED poolRows => DebitKeys' = DebitKeys
          /\ UNCHANGED ledger => AssignKeys' = AssignKeys
        BY DEF DebitKeys, AssignKeys
    <1>8. \A k : PoolRowFor(k) /\ UNCHANGED poolRows => PoolRowFor(k)'
        BY DEF PoolRowFor
    <1>9. call(r).op \in {"topup", "assign"} => call(r).amount \in Nat
        BY AmountType
    <1>10. Routed(r, pc[r]) /\ DOMAIN pc = Requests
        BY DEF Routes
    <1> USE RowSumType
    <1>11. ASSUME PoolSums', DebitKeys' = AssignKeys', RowsOfAnswers',
                  DOMAIN reseller' = DOMAIN reseller,
                  reseller'.coinPool \in Int /\ reseller'.received \in Int
                      /\ reseller'.assigned \in Int,
                  /\ IsFiniteSet(poolRows')
                  /\ \A l \in poolRows' : l.direction \in {"credit", "debit"} /\ l.amount \in Nat
           PROVE  PoolInv'
        BY <1>11 DEF PoolInv, PoolReconciled, PoolSums, DebitKeys, AssignKeys, RowsOfAnswers
    <1>12. ASSUME UNCHANGED poolVars, UNCHANGED ledger, pc[r] # "stopped",
                  unbookedOf[r] = unbookedOf'[r],
                  pc'[r] \notin {"done", "topupReverse"} \/ PoolRowFor(call(r).key)
           PROVE  PoolInv'
        <2>1. RowsOfAnswers'
            BY <1>1, <1>2, <1>8, <1>12, RowsStay DEF poolVars
        <2>2. unbooked' = unbooked
            <3>1. unbookedOf[r] \in Int
                BY NotBookedType
            <3> QED  BY <1>3, <1>12, <3>1
        <2>3. PoolSums' /\ DebitKeys' = AssignKeys'
            BY <1>1, <1>6, <1>7, <1>12, <2>2 DEF PoolSums, poolVars
        <2> QED  BY <1>11, <1>12, <2>1, <2>3 DEF PoolInv, poolVars
    <1>13. CASE TopupFind(r) \/ TopupRead(r) \/ AssignFind(r) \/ AssignRead(r)
        <2>1. /\ UNCHANGED poolVars /\ UNCHANGED ledger
              /\ pc[r] \in {"idle", "topupRead", "assignRead"}
              /\ \/ pc'[r] \in {"topupRead", "topupInc", "assignRead", "assignTransfer", "failed"}
                 \/ PoolRowFor(call(r).key) /\ pc'[r] = "done"
            BY <1>10, <1>13
            DEF TopupFind, TopupRead, AssignFind, AssignRead, Begins, Passes, Goes
        <2> QED  BY <1>4, <1>5, <1>12, <2>1
    <1>14. CASE TopupInc(r)
        <2>1. pc[r] = "topupInc" /\ unbookedOf[r] = 0 /\ UNCHANGED ledger /\ UNCHANGED poolRows
              /\ call(r).amount \in Nat
            BY <1>5, <1>9, <1>10, <1>14 DEF TopupInc, Passes, Routed
        <2>2. CASE ~reseller.active
            <3>1. pc'[r] = "failed" /\ UNCHANGED reseller
                BY <1>10, <1>14, <2>2 DEF TopupInc, Passes, Goes
            <3> QED  BY <1>4, <1>12, <2>1, <3>1 DEF poolVars
        <2>3. CASE reseller.active
            <3>1. pc'[r] = "topupLedger"
                BY <1>10, <1>14, <2>3 DEF TopupInc, Passes, Goes
            <3>2. /\ DOMAIN reseller' = DOMAIN reseller
                  /\ reseller'.coinPool = reseller.coinPool + call(r).amount
                  /\ reseller'.received = reseller.received + call(r).amount
                  /\ reseller'.assigned = reseller.assigned
                BY <1>14, <2>3 DEF TopupInc, PoolInv
            <3>3. PoolSums'
                BY <1>1, <1>3, <1>4, <1>6, <2>1, <3>1, <3>2 DEF PoolSums, PoolInv
            <3>4. RowsOfAnswers'
                BY <1>1, <2>1, <3>1, RowsStay
            <3> QED  BY <1>1, <1>7, <1>11, <2>1, <3>2, <3>3, <3>4 DEF PoolInv
        <2> QED  BY <2>2, <2>3
    <1>15. CASE TopupLedger(r)
        <2>1. pc[r] = "topupLedger" /\ unbookedOf[r] = call(r).amount /\ UNCHANGED ledger
              /\ UNCHANGED reseller /\ call(r).amount \in Nat
            BY <1>5, <1>9, <1>10, <1>15 DEF TopupLedger, Passes, Routed
        <2>2. CASE PoolRowFor(call(r).key)
            <3>1. pc'[r] = "topupReverse" /\ UNCHANGED poolRows
                BY <1>10, <1>15, <2>2 DEF TopupLedger, Passes, Goes
            <3> QED  BY <1>4, <1>12, <2>1, <2>2, <3>1 DEF poolVars
        <2>3. CASE ~PoolRowFor(call(r).key)
            <3> DEFINE row == Row(call(r), "credit")
            <3>0. /\ row.key = call(r).key /\ row.direction = "credit"
                  /\ row.amount = call(r).amount
                BY DEF Row
            <3>1. pc'[r] = "done" /\ poolRows' = poolRows \cup {row}
                BY <1>10, <1>15, <2>3 DEF TopupLedger, Passes, Goes
            <3> HIDE DEF row
            <3>7. /\ ~PoolRowFor(row.key) /\ row.direction \in {"credit", "debit"}
                  /\ row.amount \in Nat /\ poolRows' = poolRows \cup {row}
                BY <2>1, <2>3, <3>0, <3>1
            <3>8. /\ IsFiniteSet(poolRows')
                  /\ \A l \in poolRows' : l.direction \in {"credit", "debit"} /\ l.amount \in Nat
                  /\ rowSum("credit")' =
                        rowSum("credit") + (IF row.direction = "credit" THEN row.amount ELSE 0)
                  /\ rowSum("debit")' =
                        rowSum("debit") + (IF row.direction = "debit" THEN row.amount ELSE 0)
                BY <3>7, RowAdded, Zenon
            <3>2. /\ IsFiniteSet(poolRows')
                  /\ \A l \in poolRows' : l.direction \in {"credit", "debit"} /\ l.amount \in Nat
                  /\ rowSum("credit")' = rowSum("credit") + call(r).amount
                  /\ rowSum("debit")' = rowSum("debit")
                BY <3>0, <3>8, RowSumType
            <3>3. PoolSums'
                BY <1>1, <1>3, <1>4, <2>1, <3>1, <3>2 DEF PoolSums, PoolInv
            <3>4. PoolRowFor(call(r).key)'
                BY <1>2, <3>0, <3>1 DEF PoolRowFor
            <3>5. RowsOfAnswers'
                BY <1>1, <3>1, <3>4, RowsStay
            <3>6. DebitKeys' = DebitKeys
                BY <3>0, <3>1 DEF DebitKeys
            <3> QED  BY <1>1, <1>7, <1>11, <2>1, <3>2, <3>3, <3>5, <3>6 DEF PoolInv
        <2> QED  BY <2>2, <2>3
    <1>16. CASE TopupReverse(r)
        <2>1. /\ pc[r] = "topupReverse" /\ unbookedOf[r] = call(r).amount /\ UNCHANGED ledger
              /\ UNCHANGED poolRows /\ call(r).amount \in Nat
              /\ pc'[r] = "done" /\ unbookedOf'[r] = 0
            BY <1>4, <1>5, <1>9, <1>10, <1>16 DEF TopupReverse, Passes, Goes, Routed
        <2>2. /\ DOMAIN reseller' = DOMAIN reseller
              /\ reseller'.coinPool = reseller.coinPool - call(r).amount
              /\ reseller'.received = reseller.received - call(r).amount
              /\ reseller'.assigned = reseller.assigned
            BY <1>16 DEF TopupReverse, PoolInv
        <2>3. PoolSums'
            BY <1>1, <1>3, <1>6, <2>1, <2>2 DEF PoolSums, PoolInv
        <2>4. PoolRowFor(call(r).key)'
            BY <1>2, <1>8, <2>1 DEF PoolInv, GotTo
        <2>5. RowsOfAnswers'
            BY <1>1, <2>1, <2>4, RowsStay
        <2> QED  BY <1>1, <1>7, <1>11, <2>1, <2>2, <2>3, <2>5 DEF PoolInv
    <1>17. CASE AssignTransfer(r)
        <2>1. /\ pc[r] = "assignTransfer" /\ unbookedOf[r] = 0 /\ call(r).amount \in Nat
              /\ call(r).op = "assign"
            BY <1>5, <1>9, <1>10, <1>17 DEF AssignTransfer, Routed
        <2>2. CASE Passes(r, "failed") /\ UNCHANGED poolVars
            <3>1. pc'[r] = "failed" /\ UNCHANGED ledger
                BY <1>10, <2>2 DEF Passes, Goes
            <3> QED  BY <1>4, <1>12, <2>1, <2>2, <3>1
        <2>3. CASE ~(Passes(r, "failed") /\ UNCHANGED poolVars)
            <3> DEFINE row == Row(call(r), "debit")
            <3>0. /\ row.key = call(r).key /\ row.direction = "debit"
                  /\ row.amount = call(r).amount
                BY DEF Row
            <3>1. /\ ~PoolRowFor(call(r).key) /\ pc'[r] = "done"
                  /\ ledger' = ledger \cup {<<"assign", call(r).key>>}
                  /\ poolRows' = poolRows \cup {row}
                BY <1>10, <1>17, <2>3 DEF AssignTransfer, Goes, Posts
            <3> HIDE DEF row
            <3>2. /\ DOMAIN reseller' = DOMAIN reseller
                  /\ reseller'.coinPool = reseller.coinPool - call(r).amount
                  /\ reseller'.received = reseller.received
                  /\ reseller'.assigned = reseller.assigned + call(r).amount
                BY <1>17, <2>3 DEF AssignTransfer, PoolInv
            <3>8. /\ ~PoolRowFor(row.key) /\ row.direction \in {"credit", "debit"}
                  /\ row.amount \in Nat /\ poolRows' = poolRows \cup {row}
                BY <2>1, <3>0, <3>1
            <3>9. /\ IsFiniteSet(poolRows')
                  /\ \A l \in poolRows' : l.direction \in {"credit", "debit"} /\ l.amount \in Nat
                  /\ rowSum("credit")' =
                        rowSum("credit") + (IF row.direction = "credit" THEN row.amount ELSE 0)
                  /\ rowSum("debit")' =
                        rowSum("debit") + (IF row.direction = "debit" THEN row.amount ELSE 0)
                BY <3>8, RowAdded, Zenon
            <3>3. /\ IsFiniteSet(poolRows')
                  /\ \A l \in poolRows' : l.direction \in {"credit", "debit"} /\ l.amount \in Nat
                  /\ rowSum("credit")' = rowSum("credit")
                  /\ rowSum("debit")' = rowSum("debit") + call(r).amount
                BY <3>0, <3>9, RowSumType
            <3>4. PoolSums'
                BY <1>1, <1>3, <1>4, <2>1, <3>1, <3>2, <3>3 DEF PoolSums, PoolInv
            <3>5. RowsOfAnswers'
                <4>1. PoolRowFor(call(r).key)'
                    BY <1>2, <3>0, <3>1 DEF PoolRowFor
                <4> QED  BY <1>1, <3>1, <4>1, RowsStay
            <3>6. DebitKeys' = DebitKeys \cup {call(r).key}
                BY <3>0, <3>1 DEF DebitKeys
            <3>7. AssignKeys' = AssignKeys \cup {call(r).key}
                <4> DEFINE a == <<"assign", call(r).key>>
                <4>1. a[1] = "assign" /\ a[2] = call(r).key /\ ledger' = ledger \cup {a}
                    BY <3>1
                <4> HIDE DEF a
                <4> QED  BY <4>1 DEF AssignKeys
            <3> QED  BY <1>1, <1>11, <2>1, <3>2, <3>3, <3>4, <3>5, <3>6, <3>7 DEF PoolInv
        <2> QED  BY <2>2, <2>3
    <1>18. CASE UpdateStatus(r) \/ UpdateLimit(r)
        <2>1. /\ pc[r] = "idle" /\ pc'[r] = "done" /\ UNCHANGED ledger /\ UNCHANGED poolRows
              /\ call(r).op \notin {"topup", "assign"}
            BY <1>10, <1>18 DEF UpdateStatus, UpdateLimit, Begins, Passes, Goes
        <2>2. /\ DOMAIN reseller' = DOMAIN reseller
              /\ reseller'.coinPool = reseller.coinPool
              /\ reseller'.received = reseller.received
              /\ reseller'.assigned = reseller.assigned
            BY <1>18 DEF UpdateStatus, UpdateLimit, PoolInv
        <2>3. PoolSums'
            BY <1>1, <1>3, <1>4, <1>5, <1>6, <2>1, <2>2 DEF PoolSums, PoolInv
        <2>4. RowsOfAnswers'
            BY <1>1, <2>1, RowsStay
        <2> QED  BY <1>1, <1>7, <1>11, <2>1, <2>2, <2>3, <2>4 DEF PoolInv
    <1> QED  BY <1>13, <1>14, <1>15, <1>16, <1>17, <1>18 DEF ResellersStep

LEMMA PoolStep ==
    ASSUME Routes, PoolInv, [Next]_vars
    PROVE  PoolInv'
    BY RoutesStep, PoolSteps, PoolQuiet, PoolMoves

\* Resellers: the pool and its counters are what the reseller's ledger says plus what
\* is not booked yet, and each assignment has its entry in the user's wallet.
THEOREM PoolIsReconciled == Spec => []PoolReconciled
    <1>1. Init => Routes /\ PoolInv
        BY RoutesInit, PoolInit
    <1>2. Routes /\ PoolInv /\ [Next]_vars => (Routes /\ PoolInv)'
        BY RoutesStep, PoolStep
    <1>3. PoolInv => PoolReconciled
        BY DEF PoolInv
    <1> QED  BY <1>1, <1>2, <1>3, PTL DEF Spec

------------------------------------------------------------------------------
\* The daily task.

BallKinds == {"ballCheck", "ballPush", "ballCredit"}
BallFields == {"date", "task", "paid"}

\* A claim that read the task knows its day and what it is worth.
Claim(r) ==
    /\ {"date", "task"} \subseteq DOMAIN job[r]
    /\ job[r].date \in 1 .. load.days
    /\ job[r].task.goal \in Nat /\ job[r].task.rewardCoins \in Nat

Won(r) == GotTo(r, "ballCredit") \/ "paid" \in DOMAIN job[r]

BallTypes ==
    /\ {"exists", "active", "goal", "rewardCoins"} \subseteq DOMAIN task
    /\ task.goal \in Nat /\ task.rewardCoins \in Nat
    /\ progress \in [1 .. load.days -> [counter : Nat, claimed : Nat, cumulative : Nat]]

BallJob(r) ==
    /\ pc[r] = "idle" => {"date", "paid"} \cap DOMAIN job[r] = {}
    /\ \A l \in BallKinds : GotTo(r, l) => Claim(r) /\ "paid" \notin DOMAIN job[r]
    /\ "paid" \in DOMAIN job[r] => Claim(r) /\ pc[r] \in {"done", "failed"}
    /\ pc[r] = "done" => "paid" \in DOMAIN job[r]
    /\ GotTo(r, "ballPush") => progress[job[r].date].counter >= job[r].task.goal

\* One claim won the push of day d, or none.
BallDay(d) ==
    \/ /\ progress[d].claimed = 0 /\ progress[d].cumulative = 0
       /\ winners(d) = {} /\ ballKey(d) \notin ledger
    \/ /\ progress[d].claimed = 1
       /\ \E w \in Requests :
             /\ winners(d) = {w}
             /\ progress[d].cumulative = job[w].task.rewardCoins
             /\ progress[d].counter >= job[w].task.goal
             /\ ballKey(d) \in ledger <=> pc[w] = "done"

BallInv ==
    /\ BallTypes
    /\ \A r \in Requests : call(r).op = "ball" => BallJob(r)
    /\ \A d \in 1 .. load.days : BallDay(d)

LEMMA BallPaidOnce ==
    ASSUME Routes, BallInv
    PROVE  TaskPaidOnce
    <1> SUFFICES ASSUME NEW d \in 1 .. load.days
                 PROVE  /\ Cardinality(winners(d)) = progress[d].claimed
                        /\ progress[d].claimed <= 1
                        /\ \A r \in winners(d) :
                              /\ progress[d].cumulative = job[r].task.rewardCoins
                              /\ progress[d].counter >= job[r].task.goal
                        /\ ballKey(d) \in ledger <=> \E r \in winners(d) : pc[r] = "done"
        BY DEF TaskPaidOnce, BallInv, BallTypes
    <1>1. BallDay(d)
        BY DEF BallInv
    <1>2. \A w : Cardinality({w}) = 1
        BY FS_Singleton
    <1>3. Cardinality({}) = 0
        BY FS_EmptySet
    <1>4. CASE winners(d) = {}
        BY <1>1, <1>3, <1>4 DEF BallDay
    <1>5. CASE winners(d) # {}
        BY <1>1, <1>2, <1>5 DEF BallDay
    <1> QED  BY <1>4, <1>5

LEMMA BallInit == Init => BallInv
    <1> SUFFICES ASSUME Init  PROVE BallInv
        OBVIOUS
    <1> USE DEF Init, ServiceInit, MagicBallInit
    <1>1. BallTypes
        BY TaskAssumption DEF BallTypes, Override
    <1>2. \A r \in Requests : BallJob(r)
        BY DEF BallJob, GotTo, BallKinds, Requests
    <1>3. \A d \in 1 .. load.days : BallDay(d)
        BY DEF BallDay, winners, GotTo, Requests
    <1> QED  BY <1>1, <1>2, <1>3 DEF BallInv

\* A claim is where it was, and knows what it knew.
Kept(s) ==
    /\ \A x \in BallFields : /\ x \in DOMAIN job'[s] <=> x \in DOMAIN job[s]
                             /\ x \in DOMAIN job[s] => job'[s][x] = job[s][x]
    /\ \A l \in BallKinds : GotTo(s, l)' <=> GotTo(s, l)
    /\ \A l \in {"idle", "done", "failed"} : pc'[s] = l <=> pc[s] = l

LEMMA KeptJob ==
    ASSUME Routes, BallInv, BallTypes', load' = load, NEW s \in Requests, call(s).op = "ball",
           Kept(s),
           \A d \in 1 .. load.days : progress'[d].counter >= progress[d].counter
    PROVE  BallJob(s)' /\ (Won(s)' <=> Won(s))
    <1>1. BallJob(s)
        BY DEF BallInv
    <1>2. Claim(s) => Claim(s)'
        BY DEF Claim, Kept, BallFields
    <1>3. /\ pc'[s] = "idle" => {"date", "paid"} \cap DOMAIN job'[s] = {}
          /\ "paid" \in DOMAIN job'[s] => Claim(s)' /\ pc'[s] \in {"done", "failed"}
          /\ pc'[s] = "done" => "paid" \in DOMAIN job'[s]
        BY <1>1, <1>2 DEF BallJob, Kept, BallFields
    <1>4. ASSUME NEW l \in BallKinds, GotTo(s, l)'
          PROVE  Claim(s)' /\ "paid" \notin DOMAIN job'[s]
        BY <1>1, <1>2, <1>4 DEF BallJob, Kept, BallFields
    <1>5. ASSUME GotTo(s, "ballPush")'
          PROVE  progress'[job'[s].date].counter >= job'[s].task.goal
        <2>1. GotTo(s, "ballPush")
            BY <1>5 DEF Kept, BallKinds
        <2>2. Claim(s) /\ progress[job[s].date].counter >= job[s].task.goal
            BY <1>1, <2>1 DEF BallJob, BallKinds
        <2>3. job'[s].date = job[s].date /\ job'[s].task = job[s].task
            BY <2>2 DEF Kept, BallFields, Claim
        <2> QED  BY <2>2, <2>3 DEF Claim, BallInv, BallTypes
    <1>6. Won(s)' <=> Won(s)
        BY DEF Won, Kept, BallFields, BallKinds
    <1> QED  BY <1>3, <1>4, <1>5, <1>6 DEF BallJob

LEMMA WonClaims ==
    ASSUME Routes, BallInv
    PROVE  /\ \A d : winners(d) = {r \in Requests : call(r).op = "ball" /\ Won(r)
                                                     /\ job[r].date = d}
           /\ \A r \in Requests : call(r).op = "ball" /\ Won(r) => Claim(r) /\ r \in winners(job[r].date)
    <1>1. \A r \in Requests : call(r).op = "ball" /\ Won(r) => Claim(r)
        BY DEF BallInv, BallJob, Won, BallKinds
    <1> QED  BY <1>1 DEF winners, Won, Claim

\* The claims stay as they are.
LEMMA BallKept ==
    ASSUME Routes, Routes', BallInv, BallTypes', load' = load,
           \A s \in Requests : call(s).op = "ball" => Kept(s),
           \A d \in 1 .. load.days : /\ progress'[d].counter >= progress[d].counter
                                     /\ progress'[d].claimed = progress[d].claimed
                                     /\ progress'[d].cumulative = progress[d].cumulative,
           \A d : ballKey(d) \in ledger' <=> ballKey(d) \in ledger
    PROVE  BallInv'
    <1>1. Requests' = Requests /\ \A s : call(s)' = call(s)
        BY DEF Requests, call
    <1>2. \A s \in Requests : call(s).op = "ball" => BallJob(s)' /\ (Won(s)' <=> Won(s))
        BY KeptJob
    <1>3. ASSUME NEW d \in 1 .. load.days
          PROVE  BallDay(d)'
        <2>1. BallDay(d)
            BY DEF BallInv
        <2>2. ASSUME NEW r \in winners(d)
              PROVE  job'[r].date = job[r].date /\ job'[r].task = job[r].task
                        /\ (pc'[r] = "done" <=> pc[r] = "done") /\ Claim(r) /\ job[r].date = d
            <3>1. r \in Requests /\ call(r).op = "ball" /\ Claim(r) /\ job[r].date = d
                BY <2>2, WonClaims
            <3> QED  BY <3>1 DEF Kept, BallFields, Claim
        <2>3. winners(d)' = winners(d)
            <3>1. \A r \in Requests : call(r).op = "ball" =>
                      /\ "date" \in DOMAIN job'[r] <=> "date" \in DOMAIN job[r]
                      /\ "date" \in DOMAIN job[r] => job'[r].date = job[r].date
                BY DEF Kept, BallFields
            <3> QED  BY <1>1, <1>2, <3>1 DEF winners, Won
        <2>4. /\ progress'[d].claimed = progress[d].claimed
              /\ progress'[d].cumulative = progress[d].cumulative
              /\ progress'[d].counter >= progress[d].counter
              /\ progress[d].counter \in Nat /\ progress'[d].counter \in Nat
            BY DEF BallInv, BallTypes
        <2>5. CASE winners(d) = {}
            BY <1>1, <2>1, <2>3, <2>4, <2>5 DEF BallDay
        <2>6. CASE winners(d) # {}
            <3>1. PICK w \in Requests :
                      /\ progress[d].claimed = 1
                      /\ winners(d) = {w}
                      /\ progress[d].cumulative = job[w].task.rewardCoins
                      /\ progress[d].counter >= job[w].task.goal
                      /\ ballKey(d) \in ledger <=> pc[w] = "done"
                BY <2>1, <2>6 DEF BallDay
            <3>2. /\ job'[w].task = job[w].task /\ (pc'[w] = "done" <=> pc[w] = "done")
                  /\ job[w].task.goal \in Nat
                BY <2>2, <3>1 DEF Claim
            <3>3. ballKey(d)' \in ledger' <=> ballKey(d) \in ledger
                BY DEF ballKey
            <3> QED  BY <1>1, <2>3, <2>4, <3>1, <3>2, <3>3 DEF BallDay
        <2> QED  BY <2>5, <2>6
    <1> QED  BY <1>1, <1>2, <1>3 DEF BallInv

LEMMA SameKept ==
    ASSUME NEW s, pc'[s] = pc[s], job'[s] = job[s]
    PROVE  Kept(s)
    BY DEF Kept, GotTo

\* The claim of r goes on, and has won nothing.
LEMMA BallPasses ==
    ASSUME Routes, Routes', BallInv, UNCHANGED <<load, ballVars>>,
           NEW r \in Requests, call(r).op = "ball", BallJob(r)', ~Won(r), ~Won(r)',
           \A s \in Requests : s # r => pc'[s] = pc[s] /\ job'[s] = job[s],
           \A d : ballKey(d) \in ledger' <=> ballKey(d) \in ledger
    PROVE  BallInv'
    <1>1. Requests' = Requests /\ \A s : call(s)' = call(s)
        BY DEF Requests, call
    <1>2. BallTypes' /\ progress' = progress
        BY DEF BallInv, BallTypes, ballVars
    <1>3. \A s \in Requests : call(s).op = "ball" => BallJob(s)'
        <2>1. \A d \in 1 .. load.days : progress'[d].counter >= progress[d].counter
            BY <1>2 DEF BallInv, BallTypes
        <2> QED  BY <1>2, <2>1, KeptJob, SameKept
    <1>4. ASSUME NEW d \in 1 .. load.days
          PROVE  BallDay(d)'
        <2>1. BallDay(d) /\ r \notin winners(d)
            BY WonClaims DEF BallInv
        <2>2. winners(d)' = winners(d)
            BY <1>1 DEF winners, Won, GotTo
        <2>3. \A w \in winners(d) : job'[w] = job[w] /\ pc'[w] = pc[w]
            BY <2>1 DEF winners
        <2>4. ballKey(d)' \in ledger' <=> ballKey(d) \in ledger
            BY DEF ballKey
        <2> QED  BY <1>1, <1>2, <2>1, <2>2, <2>3, <2>4 DEF BallDay
    <1> QED  BY <1>1, <1>2, <1>3, <1>4 DEF BallInv

LEMMA ClaimedRow ==
    ASSUME NEW p \in [counter : Nat, claimed : Nat, cumulative : Nat], NEW n \in Nat
    PROVE  /\ Claimed(p, n) \in [counter : Nat, claimed : Nat, cumulative : Nat]
           /\ Claimed(p, n).claimed = p.claimed + 1
           /\ Claimed(p, n).counter = p.counter
           /\ Claimed(p, n).cumulative = p.cumulative + n
    <1> DEFINE T == [counter : Nat, claimed : Nat, cumulative : Nat]
    <1>1. [p EXCEPT !.claimed = p.claimed + 1] \in T
        OBVIOUS
    <1>2. \A q \in T, m \in Nat : [q EXCEPT !.cumulative = m] \in T
        OBVIOUS
    <1>3. Claimed(p, n) = [[p EXCEPT !.claimed = p.claimed + 1]
                              EXCEPT !.cumulative = p.cumulative + n]
        BY DEF Claimed
    <1>4. p.cumulative + n \in Nat
        OBVIOUS
    <1>5. Claimed(p, n) \in T
        BY <1>1, <1>2, <1>3, <1>4
    <1> QED  BY <1>5 DEF Claimed

LEMMA BallMoves ==
    ASSUME Routes, BallInv, Routes', NEW r \in Requests, MagicBallStep(r),
           Serves(r, BallOps, {"ball"})
    PROVE  BallInv'
    <1>1. Requests' = Requests /\ load' = load /\ \A s : call(s)' = call(s)
        BY DEF Serves, Requests, call
    <1>2. /\ Routed(r, pc[r]) /\ DOMAIN pc = Requests /\ DOMAIN job = Requests
          /\ day \in 1 .. load.days /\ load.days \in Nat
          /\ \A s \in Requests : s # r => pc'[s] = pc[s] /\ job'[s] = job[s]
        BY WorkloadAssumption DEF Routes, Serves
    <1>3. \A s \in Requests : s # r => Kept(s)
        BY <1>2, SameKept
    <1>4. BallTypes
        BY DEF BallInv
    <1>5. \A d : ballKey(d)' = ballKey(d)
        BY DEF ballKey
    <1>6. ASSUME UNCHANGED ledger, call(r).op # "ball", BallTypes',
                 \A d \in 1 .. load.days : /\ progress'[d].counter >= progress[d].counter
                                           /\ progress'[d].claimed = progress[d].claimed
                                           /\ progress'[d].cumulative = progress[d].cumulative
          PROVE  BallInv'
        BY <1>1, <1>3, <1>6, BallKept
    <1>7. \A d \in 1 .. load.days : progress[d].counter >= progress[d].counter
        BY <1>4 DEF BallTypes
    <1>8. CASE IncrementProgress(r)
        <2>1. call(r).op = "progress" /\ UNCHANGED ledger /\ UNCHANGED task
              /\ progress' = [progress EXCEPT ![day].counter = @ + call(r).amount]
            BY <1>8 DEF IncrementProgress, Begins, Passes
        <2>2. call(r).amount \in Nat
            BY <2>1, BallCallsAssumption DEF Routes, Requests, call
        <2>5. /\ task' = task /\ load' = load
              /\ {"exists", "active", "goal", "rewardCoins"} \subseteq DOMAIN task
              /\ task.goal \in Nat /\ task.rewardCoins \in Nat
              /\ progress \in [1 .. load.days -> [counter : Nat, claimed : Nat, cumulative : Nat]]
            BY <1>1, <1>4, <2>1 DEF BallTypes
        <2>6. progress[day].counter + call(r).amount \in Nat
            BY <1>2, <2>2, <2>5
        <2>7. progress' \in [1 .. load.days -> [counter : Nat, claimed : Nat, cumulative : Nat]]
            BY <1>2, <2>1, <2>5, <2>6
        <2>3. BallTypes'
            BY <2>5, <2>7 DEF BallTypes
        <2>4. \A d \in 1 .. load.days : /\ progress'[d].counter >= progress[d].counter
                                        /\ progress'[d].claimed = progress[d].claimed
                                        /\ progress'[d].cumulative = progress[d].cumulative
            BY <1>2, <1>4, <2>1, <2>2 DEF BallTypes
        <2> QED  BY <1>6, <2>1, <2>3, <2>4
    <1>9. CASE UpdateTask(r) \/ DeleteTask(r)
        <2>1. call(r).op \in {"ballTask", "ballDelete"} /\ UNCHANGED ledger /\ UNCHANGED progress
            BY <1>9 DEF UpdateTask, DeleteTask, Begins, Passes
        <2>2. /\ {"exists", "active", "goal", "rewardCoins"} \subseteq DOMAIN task'
              /\ task'.goal \in Nat /\ task'.rewardCoins \in Nat
            <3>1. CASE DeleteTask(r)
                BY <1>4, <3>1 DEF BallTypes, DeleteTask
            <3>2. CASE UpdateTask(r)
                <4> DEFINE f == call(r).fields
                <4>1. task' = Override(task, f) /\ call(r).op = "ballTask"
                    BY <3>2 DEF UpdateTask, Begins
                <4>2. \A x \in DOMAIN f \cap {"goal", "rewardCoins"} : f[x] \in Nat
                    BY <4>1, BallCallsAssumption DEF Routes, Requests, call
                <4> HIDE DEF f
                <4>3. DOMAIN task' = DOMAIN task \cup DOMAIN f
                    BY <4>1 DEF Override
                <4>4. \A x \in DOMAIN task : task'[x] = IF x \in DOMAIN f THEN f[x] ELSE task[x]
                    BY <4>1 DEF Override
                <4> QED  BY <1>4, <4>2, <4>3, <4>4 DEF BallTypes
            <3> QED  BY <1>9, <3>1, <3>2
        <2>3. BallTypes'
            BY <1>1, <1>4, <2>1, <2>2 DEF BallTypes
        <2> QED  BY <1>6, <1>7, <2>1, <2>3
    <1>10. CASE ClaimTask(r)
        <2>1. call(r).op = "ball" /\ pc[r] = "idle" /\ UNCHANGED ledger /\ UNCHANGED ballVars
              /\ pc'[r] \in {"ballCheck", "failed"}
            BY <1>2, <1>10 DEF ClaimTask, Begins, Goes
        <2>2. job'[r] = Override(job[r], [task |-> task, date |-> day])
            BY <1>10, Learned DEF ClaimTask
        <2>3. /\ "date" \in DOMAIN job'[r] /\ "task" \in DOMAIN job'[r]
              /\ "paid" \in DOMAIN job'[r] <=> "paid" \in DOMAIN job[r]
              /\ job'[r].date = day /\ job'[r].task = task
            BY <2>2 DEF Override
        <2>4. "paid" \notin DOMAIN job[r]
            BY <2>1 DEF BallInv, BallJob
        <2>5. Claim(r)'
            BY <1>1, <1>2, <1>4, <2>3 DEF Claim, BallTypes
        <2>6. BallJob(r)' /\ ~Won(r) /\ ~Won(r)'
            BY <2>1, <2>3, <2>4, <2>5 DEF BallJob, Won, GotTo, BallKinds
        <2> QED  BY <1>1, <1>2, <2>1, <2>6, BallPasses
    <1>11. ASSUME NEW l \in BallKinds, pc[r] = l
           PROVE  /\ call(r).op = "ball" /\ Claim(r) /\ "paid" \notin DOMAIN job[r]
                  /\ BallJob(r)
        <2>1. call(r).op = "ball"
            BY <1>2, <1>11 DEF Routed, BallKinds
        <2> QED  BY <1>11, <2>1 DEF BallInv, BallJob, GotTo
    <1>12. CASE ClaimCheck(r)
        <2>1. /\ pc[r] = "ballCheck" /\ UNCHANGED ledger /\ UNCHANGED ballVars /\ UNCHANGED job
              /\ \/ pc'[r] = "failed"
                 \/ pc'[r] = "ballPush" /\ progress[job[r].date].counter >= job[r].task.goal
            BY <1>2, <1>12 DEF ClaimCheck, Passes, Goes
        <2>2. call(r).op = "ball" /\ Claim(r) /\ "paid" \notin DOMAIN job[r]
            BY <1>11, <2>1 DEF BallKinds
        <2>3. BallJob(r)' /\ ~Won(r) /\ ~Won(r)'
            BY <1>1, <2>1, <2>2 DEF BallJob, Won, GotTo, BallKinds, Claim, ballVars
        <2> QED  BY <1>1, <1>2, <2>1, <2>2, <2>3, BallPasses
    <1>13. CASE ClaimPush(r)
        <2>1. pc[r] = "ballPush" /\ UNCHANGED ledger /\ UNCHANGED job /\ UNCHANGED task
            BY <1>13 DEF ClaimPush, Passes
        <2>2. call(r).op = "ball" /\ Claim(r) /\ "paid" \notin DOMAIN job[r] /\ ~Won(r)
              /\ progress[job[r].date].counter >= job[r].task.goal
            BY <1>11, <2>1 DEF BallKinds, BallJob, Won, GotTo
        <2>3. CASE pc'[r] = "failed"
            <3>1. UNCHANGED ballVars
                BY <1>2, <1>13, <2>3 DEF ClaimPush, Passes, Goes, ballVars
            <3>2. BallJob(r)' /\ ~Won(r)'
                BY <1>1, <2>1, <2>2, <2>3 DEF BallJob, Won, GotTo, BallKinds, Claim
            <3> QED  BY <1>1, <1>2, <2>1, <2>2, <3>1, <3>2, BallPasses
        <2>4. CASE pc'[r] # "failed"
            <3> DEFINE e == job[r].date
                       n == job[r].task.rewardCoins
            <3>1. /\ pc'[r] = "ballCredit" /\ progress[e].claimed = 0
                  /\ progress' = [progress EXCEPT ![e] = Claimed(@, n)]
                BY <1>2, <1>13, <2>4 DEF ClaimPush, Passes, Goes
            <3>2. /\ e \in 1 .. load.days /\ n \in Nat
                  /\ progress[e] \in [counter : Nat, claimed : Nat, cumulative : Nat]
                BY <1>4, <2>2 DEF Claim, BallTypes
            <3> HIDE DEF e, n
            <3>3. /\ progress'[e] = Claimed(progress[e], n)
                  /\ \A d \in 1 .. load.days : d # e => progress'[d] = progress[d]
                BY <1>4, <3>1, <3>2 DEF BallTypes
            <3>4. /\ progress'[e].claimed = 1 /\ progress'[e].counter = progress[e].counter
                  /\ progress'[e].cumulative = progress[e].cumulative + n
                <4>1. /\ Claimed(progress[e], n).claimed = progress[e].claimed + 1
                      /\ Claimed(progress[e], n).counter = progress[e].counter
                      /\ Claimed(progress[e], n).cumulative = progress[e].cumulative + n
                    BY <3>2, ClaimedRow
                <4> QED  BY <3>1, <3>3, <4>1
            <3>5. BallTypes'
                <4>1. Claimed(progress[e], n) \in [counter : Nat, claimed : Nat, cumulative : Nat]
                    BY <3>2, ClaimedRow
                <4> QED  BY <1>1, <1>4, <2>1, <3>1, <3>2, <4>1 DEF BallTypes
            <3>6. \A d \in 1 .. load.days : progress'[d].counter >= progress[d].counter
                BY <1>7, <3>3, <3>4
            <3>7. BallJob(r)' /\ Won(r)'
                BY <1>1, <2>1, <2>2, <3>1 DEF BallJob, Won, GotTo, BallKinds, Claim, e, n
            <3>8. \A s \in Requests : call(s).op = "ball" => BallJob(s)'
                BY <1>1, <1>3, <3>5, <3>6, <3>7, KeptJob
            <3>9. ASSUME NEW d \in 1 .. load.days
                  PROVE  BallDay(d)'
                <4>1. BallDay(d) /\ r \notin winners(d)
                    BY <2>2, WonClaims DEF BallInv
                <4>2. winners(d)' = winners(d) \cup (IF d = e THEN {r} ELSE {})
                    BY <1>1, <1>2, <2>1, <2>2, <3>1 DEF winners, GotTo, Claim, e
                <4>3. \A w \in winners(d) : job'[w] = job[w] /\ pc'[w] = pc[w]
                    BY <1>2, <4>1 DEF winners
                <4>4. CASE d = e
                    <5>1. /\ winners(d) = {} /\ progress[e].cumulative = 0
                          /\ ballKey(d) \notin ledger
                        BY <3>1, <4>1, <4>4 DEF BallDay
                    <5>2. winners(d)' = {r} /\ progress'[d].cumulative = n
                        BY <3>2, <3>4, <4>2, <4>4, <5>1
                    <5> QED
                        BY <1>1, <1>5, <2>1, <2>2, <3>1, <3>4, <4>4, <5>1, <5>2 DEF BallDay, e, n
                <4>5. CASE d # e
                    BY <1>1, <1>5, <2>1, <3>3, <4>1, <4>2, <4>3, <4>5 DEF BallDay
                <4> QED  BY <4>4, <4>5
            <3> QED  BY <1>1, <3>5, <3>8, <3>9 DEF BallInv
        <2> QED  BY <2>3, <2>4
    <1>14. CASE ClaimCredit(r)
        <2>1. pc[r] = "ballCredit" /\ UNCHANGED ballVars
            BY <1>14 DEF ClaimCredit
        <2>2. call(r).op = "ball" /\ Claim(r) /\ "paid" \notin DOMAIN job[r] /\ Won(r)
            BY <1>11, <2>1 DEF BallKinds, Won, GotTo
        <2> DEFINE e == job[r].date
        <2>3. PICK b \in BOOLEAN : /\ Learns(r, [paid |-> b])
                                   /\ pc'[r] = (IF b THEN "done" ELSE "failed")
                                   /\ ledger' = (IF b THEN ledger \cup {ballKey(e)} ELSE ledger)
            BY <1>2, <1>14 DEF ClaimCredit, Goes, Posts
        <2>4. job'[r] = Override(job[r], [paid |-> b])
            BY <2>3, Learned
        <2>5. /\ DOMAIN job'[r] = DOMAIN job[r] \cup {"paid"}
              /\ job'[r].date = e /\ job'[r].task = job[r].task
            BY <2>2, <2>4 DEF Override, Claim
        <2>6. BallTypes' /\ progress' = progress
            BY <1>1, <1>4, <2>1 DEF BallTypes, ballVars
        <2>7. BallJob(r)'
            BY <1>1, <2>2, <2>3, <2>5 DEF BallJob, Claim, GotTo, BallKinds
        <2>8. \A s \in Requests : call(s).op = "ball" => BallJob(s)'
            BY <1>1, <1>3, <1>7, <2>6, <2>7, KeptJob
        <2>9. ASSUME NEW d \in 1 .. load.days
              PROVE  BallDay(d)'
            <3>1. BallDay(d) /\ (r \in winners(d) <=> d = e)
                BY <2>2, WonClaims DEF BallInv
            <3>2. winners(d)' = winners(d)
                <4>1. \A s \in Requests \ {r} : s \in winners(d)' <=> s \in winners(d)
                    BY <1>1, <1>2 DEF winners, GotTo
                <4>2. r \in winners(d)' <=> d = e
                    BY <1>1, <2>2, <2>5 DEF winners, GotTo, Claim
                <4>3. winners(d)' \subseteq Requests /\ winners(d) \subseteq Requests
                    BY <1>1 DEF winners
                <4> QED  BY <3>1, <4>1, <4>2, <4>3
            <3>3. CASE d = e
                <4>1. winners(d) = {r} /\ progress[d].claimed = 1
                      /\ progress[d].cumulative = job[r].task.rewardCoins
                      /\ progress[d].counter >= job[r].task.goal /\ ballKey(d) \notin ledger
                    BY <2>1, <3>1, <3>3 DEF BallDay
                <4>2. ballKey(d) \in ledger' <=> pc'[r] = "done"
                    BY <2>3, <3>3, <4>1
                <4> QED  BY <1>1, <1>5, <2>5, <2>6, <3>2, <4>1, <4>2 DEF BallDay
            <3>4. CASE d # e
                <4>1. ballKey(d) \in ledger' <=> ballKey(d) \in ledger
                    BY <2>3, <3>4 DEF ballKey
                <4>2. \A w \in winners(d) : job'[w] = job[w] /\ pc'[w] = pc[w]
                    BY <1>2, <3>1, <3>4 DEF winners
                <4> QED  BY <1>1, <1>5, <2>6, <3>1, <3>2, <4>1, <4>2 DEF BallDay
            <3> QED  BY <3>3, <3>4
        <2> QED  BY <1>1, <2>6, <2>8, <2>9 DEF BallInv
    <1> QED  BY <1>8, <1>9, <1>10, <1>12, <1>13, <1>14 DEF MagicBallStep

\* A stop leaves what a claim knows.
LEMMA HaltKept ==
    ASSUME Routes, NEW r \in Requests, Halts(r), NEW s \in Requests
    PROVE  Kept(s)
    <1>1. \A l : l # "stopped" => (GotTo(s, l)' <=> GotTo(s, l))
        BY HaltRoutes
    <1>2. CASE s = r
        <2>1. \A x \in BallFields : /\ x \in DOMAIN job'[s] <=> x \in DOMAIN job[s]
                                    /\ x \in DOMAIN job[s] => job'[s][x] = job[s][x]
            BY <1>2 DEF Halts, Override, BallFields
        <2> QED  BY <1>1, <1>2, <2>1 DEF Kept, Halts, BallKinds
    <1>3. CASE s # r
        BY <1>3, SameKept DEF Halts
    <1> QED  BY <1>2, <1>3

LEMMA BallSteps ==
    ASSUME Routes, [Next]_vars
    PROVE  \/ \E r \in Requests : MagicBallStep(r) /\ Serves(r, BallOps, {"ball"})
           \/ \E r \in Requests : Halts(r) /\ UNCHANGED ballVars
           \/ Quiet(BallOps, {"ball"}) /\ UNCHANGED ballVars
    <1>1. ASSUME NEW r, NEW ops \in {PoolOps, HookOps, DailyOps, RecordOps, ShopOps, HonorOps},
                 NEW tags \in {{"assign"}, {"revenuecat"}, {"daily"}, {"store", "svip"}, {},
                     {"live-valid-day-reward", "live-valid-month-bonus"}},
                 Serves(r, ops, tags)
          PROVE  Quiet(BallOps, {"ball"})
        <2>1. ops \cap BallOps = {} /\ tags \cap {"ball"} = {}
            BY DEF PoolOps, HookOps, DailyOps, BallOps, RecordOps, ShopOps, HonorOps
        <2> QED  BY <1>1, <2>1, ServesQuiet
    <1> QED  BY <1>1, StepKinds, QuietMidnight DEF rewardVars, vars

LEMMA BallStep ==
    ASSUME Routes, BallInv, [Next]_vars
    PROVE  BallInv'
    <1>1. ASSUME UNCHANGED ballVars,
                 (\E r \in Requests : Halts(r)) \/ Quiet(BallOps, {"ball"})
          PROVE  BallInv'
        <2>1. load' = load /\ \A s \in Requests : call(s).op = "ball" => Kept(s)
            BY <1>1, HaltKept, SameKept DEF Quiet, Halts, BallOps
        <2>2. \A d : ballKey(d) \in ledger' <=> ballKey(d) \in ledger
            BY <1>1 DEF Quiet, Halts, ballKey
        <2>3. BallTypes'
            BY <1>1, <2>1 DEF BallInv, BallTypes, ballVars
        <2>4. \A d \in 1 .. load.days : /\ progress'[d].counter >= progress[d].counter
                                        /\ progress'[d].claimed = progress[d].claimed
                                        /\ progress'[d].cumulative = progress[d].cumulative
            BY <1>1 DEF BallInv, BallTypes, ballVars
        <2> QED  BY <2>1, <2>2, <2>3, <2>4, RoutesStep, BallKept
    <1> QED  BY <1>1, BallSteps, RoutesStep, BallMoves

\* Magic ball: each day one claim wins at most, of a task whose goal was reached; the
\* row adds up what it promised, and nobody else is paid.
THEOREM TaskIsPaidOnce == Spec => []TaskPaidOnce
    <1>1. Init => Routes /\ BallInv
        BY RoutesInit, BallInit
    <1>2. Routes /\ BallInv /\ [Next]_vars => (Routes /\ BallInv)'
        BY RoutesStep, BallStep
    <1>3. Routes /\ BallInv => TaskPaidOnce
        BY BallPaidOnce
    <1> QED  BY <1>1, <1>2, <1>3, PTL DEF Spec

------------------------------------------------------------------------------
\* The live record.

RecordTags == {"live-valid-day-reward", "live-valid-month-bonus"}

SessionsOk == IsFiniteSet(sessions) /\ \A s \in sessions : s.time \in Nat

\* A cron between its sum and its row.
CronJob(r) ==
    pc[r] \in {"cronRow", "cronReward", "cronWrite"} =>
        /\ {"date", "total"} \subseteq DOMAIN job[r]
        /\ job[r].date \in 1 .. load.days /\ job[r].date < day
        /\ isValid(job[r].total) => earned(job[r].date)
        /\ pc[r] = "cronReward" => isValid(job[r].total)
        /\ pc[r] \in {"cronReward", "cronWrite"} =>
              "rewarded" \in DOMAIN job[r]
                  /\ (job[r].rewarded => dayReward(job[r].date) \in ledger)

\* A claim of a month that is over.
MonthJob(r) ==
    pc[r] \in {"monthCount", "monthBonus", "monthWrite"} =>
        /\ call(r).month \in Months /\ call(r).month < month(day)
        /\ pc[r] \in {"monthBonus", "monthWrite"} =>
              "validDays" \in DOMAIN job[r] /\ job[r].validDays >= ValidMonthDays
                  /\ daysEarned(call(r).month) >= ValidMonthDays
        /\ pc[r] = "monthWrite" => monthBonus(call(r).month) \in ledger

RowOk(d, row) ==
    /\ d \in 1 .. load.days
    /\ row.isValid => earned(d)
    /\ row.rewarded => dayReward(d) \in ledger

KeyOk(k) ==
    /\ k[1] = "live-valid-day-reward" => k[2] \in Int /\ earned(k[2]) /\ k[2] < day
    /\ k[1] = "live-valid-month-bonus" =>
          k[2] \in Int /\ k[2] < month(day) /\ daysEarned(k[2]) >= ValidMonthDays

MonthOk(m, row) ==
    row.claimed => monthBonus(m) \in ledger /\ row.validDays >= ValidMonthDays

RecordInv ==
    /\ SessionsOk
    /\ \A r \in Requests : CronJob(r) /\ MonthJob(r)
    /\ \A d \in DOMAIN dayRows : RowOk(d, dayRows[d])
    /\ \A k \in ledger : KeyOk(k)
    /\ DOMAIN monthRow = Months /\ \A m \in Months : MonthOk(m, monthRow[m])

------------------------------------------------------------------------------
\* Months follow the days.
LEMMA MonthOrder ==
    ASSUME NEW a \in Nat \ {0}, NEW b \in Nat \ {0}, a <= b
    PROVE  month(a) \in Nat /\ month(b) \in Nat /\ month(a) <= month(b)
    <1> DEFINE n == DaysPerMonth
               q == (a - 1) \div n
               p == (b - 1) \div n
    <1>1. n \in Nat \ {0}
        BY RecordAssumption
    <1>2. q \in Nat /\ p \in Nat /\ n * q <= a - 1 /\ b - 1 < n * (p + 1)
        BY <1>1
    <1>3. q <= p
        <2> SUFFICES ASSUME p < q  PROVE FALSE
            BY <1>2
        <2>1. n * (p + 1) <= n * q
            BY <1>1, <1>2
        <2> QED  BY <1>1, <1>2, <2>1
    <1> QED  BY <1>2, <1>3 DEF month

\* A total never falls.
LEMMA TotalGrows ==
    ASSUME SessionsOk, SessionsOk', sessions \subseteq sessions', NEW d, NEW kind
    PROVE  Total(d, kind) \in Nat /\ Total(d, kind)' \in Nat /\ Total(d, kind) <= Total(d, kind)'
    <1> DEFINE f == [s \in sessions |-> s.time]
               g == [s \in sessions' |-> s.time]
               A == {s \in sessions : s.endedAt = d /\ s.kind = kind}
               B == {s \in sessions' : s.endedAt = d /\ s.kind = kind}
    <1>1. Total(d, kind) = SumFunctionOnSet(f, A) /\ Total(d, kind)' = SumFunctionOnSet(g, B)
        BY DEF Total
    <1>2. IsFiniteSet(A) /\ IsFiniteSet(B) /\ A \in SUBSET B
        BY FS_Subset DEF SessionsOk
    <1>3. /\ \A s \in A : f[s] \in Int /\ g[s] = f[s]
          /\ \A s \in B : g[s] \in Nat
        BY DEF SessionsOk
    <1> HIDE DEF f, g, A, B
    <1>4. SumFunctionOnSet(g, A) = SumFunctionOnSet(f, A)
        BY <1>2, <1>3, SumSame
    <1>5. SumFunctionOnSet(g, A) \in Nat /\ SumFunctionOnSet(g, A) <= SumFunctionOnSet(g, B)
        BY <1>2, <1>3, SumPart
    <1>6. SumFunctionOnSet(g, B) \in Nat
        BY <1>2, <1>3, SumPart
    <1> QED  BY <1>1, <1>4, <1>5, <1>6

\* The days earned in a month are counted, and grow.
EarnedIn(m) == {d \in 1 .. load.days : month(d) = m /\ earned(d)}

LEMMA DaysFinite ==
    ASSUME Routes
    PROVE  IsFiniteSet(1 .. load.days)
    <1>1. load.days \in Int
        BY WorkloadAssumption DEF Routes
    <1> QED  BY <1>1, FS_Interval

LEMMA DaysCounted ==
    ASSUME Routes, NEW m, NEW S, S \subseteq EarnedIn(m)
    PROVE  /\ daysEarned(m) \in Nat /\ Cardinality(S) \in Nat
           /\ Cardinality(S) <= daysEarned(m)
    <1>1. IsFiniteSet(1 .. load.days)
        BY DaysFinite
    <1>2. IsFiniteSet(EarnedIn(m))
        BY <1>1, FS_Subset DEF EarnedIn
    <1>3. daysEarned(m) = Cardinality(EarnedIn(m))
        BY DEF daysEarned, EarnedIn
    <1> QED  BY <1>2, <1>3, FS_Subset, FS_CardinalityType

\* What was earned, was over and was posted stays so.
LEMMA RecordGrows ==
    ASSUME Routes, Routes', SessionsOk, SessionsOk', load' = load, sessions \subseteq sessions',
           ledger \subseteq ledger', day' \in {day, day + 1}
    PROVE  /\ \A d : earned(d) => earned(d)'
           /\ \A m : daysEarned(m) \in Nat /\ daysEarned(m)' \in Nat
                        /\ daysEarned(m) <= daysEarned(m)'
           /\ month(day) \in Nat /\ month(day') \in Nat /\ month(day) <= month(day')
           /\ day \in Nat /\ day' \in Nat /\ day <= day'
    <1>1. ASSUME NEW d
          PROVE  earned(d) => earned(d)'
        <2>1. \A kind : /\ Total(d, kind) \in Nat /\ Total(d, kind)' \in Nat
                        /\ Total(d, kind) <= Total(d, kind)'
            BY TotalGrows
        <2> QED  BY <2>1, RecordAssumption DEF earned
    <1>2. ASSUME NEW m
          PROVE  daysEarned(m) \in Nat /\ daysEarned(m)' \in Nat /\ daysEarned(m) <= daysEarned(m)'
        <2>1. EarnedIn(m) \subseteq EarnedIn(m)'
            BY <1>1 DEF EarnedIn
        <2>2. IsFiniteSet(1 .. load.days)
            BY DaysFinite
        <2>3. IsFiniteSet(EarnedIn(m))' /\ IsFiniteSet(EarnedIn(m))
            BY <2>2, FS_Subset DEF EarnedIn
        <2>4. daysEarned(m) = Cardinality(EarnedIn(m)) /\ daysEarned(m)' = Cardinality(EarnedIn(m)')
            BY DEF daysEarned, EarnedIn
        <2> QED  BY <2>1, <2>3, <2>4, FS_Subset, FS_CardinalityType
    <1>3. day \in Nat \ {0} /\ day' \in Nat \ {0} /\ day <= day'
        BY WorkloadAssumption DEF Routes
    <1>4. month(day) \in Nat /\ month(day') \in Nat /\ month(day) <= month(day')
        BY <1>3, MonthOrder
    <1>5. day \in Nat /\ day' \in Nat /\ day <= day'
        BY <1>3
    <1>6. \A m : /\ daysEarned(m) \in Nat /\ daysEarned(m)' \in Nat
                 /\ daysEarned(m) <= daysEarned(m)'
        BY <1>2
    <1> QED  BY <1>1, <1>4, <1>5, <1>6, Zenon

LEMMA MonthsInt ==
    ASSUME NEW m \in Months
    PROVE  m \in Int
    BY DEF Months

\* So what held of rows, keys and requests that nobody touched holds.
LEMMA RecordFrame ==
    ASSUME Routes, Routes', RecordInv, SessionsOk', load' = load, sessions \subseteq sessions',
           ledger \subseteq ledger', day' \in {day, day + 1}
    PROVE  /\ \A d, row : RowOk(d, row) => RowOk(d, row)'
           /\ \A k : KeyOk(k) => KeyOk(k)'
           /\ \A m, row : MonthOk(m, row) => MonthOk(m, row)'
           /\ \A r \in Requests :
                pc'[r] = "stopped" \/ (pc'[r] = pc[r] /\ job'[r] = job[r])
                    => CronJob(r)' /\ MonthJob(r)'
    <1>1. /\ \A d : earned(d) => earned(d)'
          /\ \A m : daysEarned(m) \in Nat /\ daysEarned(m)' \in Nat
                        /\ daysEarned(m) <= daysEarned(m)'
          /\ month(day) \in Nat /\ month(day') \in Nat /\ month(day) <= month(day')
          /\ day \in Nat /\ day' \in Nat /\ day <= day'
        BY RecordGrows DEF RecordInv
    <1>2. \A d, row : RowOk(d, row) => RowOk(d, row)'
        BY <1>1 DEF RowOk
    <1>3. ASSUME NEW k, KeyOk(k)
          PROVE  KeyOk(k)'
        BY <1>1, <1>3, RecordAssumption DEF KeyOk
    <1>4. \A m, row : MonthOk(m, row) => MonthOk(m, row)'
        BY DEF MonthOk
    <1>5. ASSUME NEW r \in Requests, pc'[r] = "stopped"
          PROVE  CronJob(r)' /\ MonthJob(r)'
        BY <1>5 DEF CronJob, MonthJob
    <1>6. ASSUME NEW r \in Requests, pc'[r] = pc[r], job'[r] = job[r]
          PROVE  CronJob(r)' /\ MonthJob(r)'
        <2>1. CronJob(r) /\ MonthJob(r) /\ call(r)' = call(r) /\ Months' = Months
            BY DEF RecordInv, call, Months
        <2>2. CronJob(r)'
            <3>1. job[r].date \in 1 .. load.days /\ job[r].date < day => job[r].date < day'
                BY <1>1
            <3> QED  BY <1>1, <1>6, <2>1, <3>1 DEF CronJob
        <2>3. MonthJob(r)'
            <3>1. call(r).month \in Months /\ call(r).month < month(day)
                    => call(r).month < month(day')
                BY <1>1, MonthsInt
            <3>2. daysEarned(call(r).month) >= ValidMonthDays
                    => daysEarned(call(r).month)' >= ValidMonthDays
                BY <1>1, <2>1, RecordAssumption
            <3> QED  BY <1>6, <2>1, <3>1, <3>2 DEF MonthJob
        <2> QED  BY <2>2, <2>3
    <1> QED  BY <1>2, <1>3, <1>4, <1>5, <1>6

LEMMA RecordInit == Init => RecordInv
    <1> SUFFICES ASSUME Init  PROVE RecordInv
        OBVIOUS
    <1>1. sessions = {} /\ ledger = {} /\ DOMAIN dayRows = {}
        BY DEF Init, LiveRecordInit, ServiceInit
    <1>2. SessionsOk
        BY <1>1, FS_EmptySet DEF SessionsOk
    <1>3. \A r \in Requests : pc[r] = "idle"
        BY DEF Init, ServiceInit, Requests
    <1>4. DOMAIN monthRow = Months /\ \A m \in Months : MonthOk(m, monthRow[m])
        BY DEF Init, LiveRecordInit, MonthOk
    <1> QED  BY <1>1, <1>2, <1>3, <1>4 DEF RecordInv, CronJob, MonthJob

LEMMA RecordSteps ==
    ASSUME Routes, [Next]_vars
    PROVE  \/ \E r \in Requests : LiveRecordStep(r) /\ Serves(r, RecordOps, RecordTags)
           \/ \E r \in Requests : Halts(r) /\ UNCHANGED recordVars
           \/ Quiet(RecordOps, RecordTags) /\ UNCHANGED recordVars
    <1>1. ASSUME NEW r, NEW ops \in {PoolOps, HookOps, DailyOps, BallOps, ShopOps, HonorOps},
                 NEW tags \in {{"assign"}, {"revenuecat"}, {"daily"}, {"ball"},
                     {"store", "svip"}, {}},
                 Serves(r, ops, tags)
          PROVE  Quiet(RecordOps, RecordTags)
        <2>1. ops \cap RecordOps = {} /\ tags \cap RecordTags = {}
            BY DEF PoolOps, HookOps, DailyOps, BallOps, RecordOps, ShopOps, HonorOps, RecordTags
        <2> QED  BY <1>1, <2>1, ServesQuiet
    <1>2. RecordTags = {"live-valid-day-reward", "live-valid-month-bonus"}
        BY DEF RecordTags
    <1> QED  BY <1>1, <1>2, StepKinds, QuietMidnight DEF rewardVars, vars

\* The step of the request r, when it, the new rows and the new keys are as they should be.
LEMMA RecordServed ==
    ASSUME Routes, RecordInv, NEW r \in Requests, Serves(r, RecordOps, RecordTags),
           SessionsOk', sessions \subseteq sessions',
           CronJob(r)', MonthJob(r)',
           \A d \in DOMAIN dayRows' :
                (d \in DOMAIN dayRows /\ dayRows'[d] = dayRows[d]) \/ RowOk(d, dayRows[d])',
           \A k \in ledger' : k \in ledger \/ KeyOk(k)',
           DOMAIN monthRow' = DOMAIN monthRow,
           \A m \in Months : monthRow'[m] = monthRow[m] \/ MonthOk(m, monthRow[m])'
    PROVE  RecordInv'
    <1>1. Routes' /\ load' = load /\ ledger \subseteq ledger' /\ day' = day
          /\ \A s \in Requests : s # r => pc'[s] = pc[s] /\ job'[s] = job[s]
        BY ServedRoutes DEF Serves
    <1>2. Requests' = Requests /\ Months' = Months
        BY <1>1 DEF Requests, Months
    <1>3. /\ \A d, row : RowOk(d, row) => RowOk(d, row)'
          /\ \A k : KeyOk(k) => KeyOk(k)'
          /\ \A m, row : MonthOk(m, row) => MonthOk(m, row)'
          /\ \A s \in Requests :
                pc'[s] = "stopped" \/ (pc'[s] = pc[s] /\ job'[s] = job[s])
                    => CronJob(s)' /\ MonthJob(s)'
        BY <1>1, RecordFrame
    <1>4. \A s \in Requests : CronJob(s)' /\ MonthJob(s)'
        BY <1>1, <1>3
    <1>5. \A d \in DOMAIN dayRows' : RowOk(d, dayRows[d])'
        BY <1>3 DEF RecordInv
    <1>6. \A k \in ledger' : KeyOk(k)'
        BY <1>3 DEF RecordInv
    <1>7. \A m \in Months : MonthOk(m, monthRow[m])'
        BY <1>3 DEF RecordInv
    <1> QED  BY <1>2, <1>4, <1>5, <1>6, <1>7 DEF RecordInv

LEMMA RecordRests ==
    ASSUME Routes, RecordInv, UNCHANGED recordVars, Routes',
           \/ \E r \in Requests : Halts(r)
           \/ Quiet(RecordOps, RecordTags)
    PROVE  RecordInv'
    <1>1. load' = load /\ ledger \subseteq ledger' /\ day' \in {day, day + 1}
          /\ sessions' = sessions /\ dayRows' = dayRows /\ monthRow' = monthRow
        BY DEF Halts, Quiet, recordVars
    <1>2. Requests' = Requests /\ Months' = Months /\ SessionsOk'
          /\ \A r \in Requests : call(r)' = call(r)
        BY <1>1 DEF Requests, Months, call, SessionsOk, RecordInv
    <1>3. /\ \A d, row : RowOk(d, row) => RowOk(d, row)'
          /\ \A k : KeyOk(k) => KeyOk(k)'
          /\ \A m, row : MonthOk(m, row) => MonthOk(m, row)'
          /\ \A s \in Requests :
                pc'[s] = "stopped" \/ (pc'[s] = pc[s] /\ job'[s] = job[s])
                    => CronJob(s)' /\ MonthJob(s)'
        BY <1>1, <1>2, RecordFrame
    <1>4. ASSUME NEW s \in Requests
          PROVE  CronJob(s)' /\ MonthJob(s)'
        <2>1. CASE pc'[s] = "stopped" \/ (pc'[s] = pc[s] /\ job'[s] = job[s])
            BY <1>3, <2>1
        <2>2. CASE call(s).op \notin RecordOps
            <3>1. Routed(s, pc[s])'
                BY <1>2 DEF Routes
            <3> QED  BY <1>2, <2>2, <3>1 DEF Routed, RecordOps, CronJob, MonthJob
        <2> QED  BY <2>1, <2>2 DEF Halts, Quiet
    <1>5. \A k \in ledger' : KeyOk(k)'
        <2>1. \A k \in ledger' : k \in ledger \/ k[1] \notin RecordTags
            BY DEF Halts, Quiet
        <2>2. \A k : k[1] \notin RecordTags => KeyOk(k)'
            BY DEF RecordTags, KeyOk
        <2> QED  BY <1>3, <2>1, <2>2 DEF RecordInv
    <1> QED  BY <1>1, <1>2, <1>3, <1>4, <1>5 DEF RecordInv

\* What is known of the record before a step of r.
LEMMA RecordNow ==
    ASSUME Routes, RecordInv, NEW r \in Requests
    PROVE  /\ Routed(r, pc[r]) /\ CronJob(r) /\ MonthJob(r) /\ SessionsOk
           /\ day \in 1 .. load.days /\ load.days \in Nat
           /\ \A d, kind : Total(d, kind) \in Nat
           /\ DOMAIN job = Requests /\ DOMAIN pc = Requests
    <1>1. \A d, kind : Total(d, kind) \in Nat
        <2> SUFFICES ASSUME NEW d, NEW kind  PROVE Total(d, kind) \in Nat
            OBVIOUS
        <2> DEFINE f == [s \in sessions |-> s.time]
                   A == {s \in sessions : s.endedAt = d /\ s.kind = kind}
        <2>1. Total(d, kind) = SumFunctionOnSet(f, A)
            BY DEF Total
        <2>2. IsFiniteSet(A) /\ \A s \in A : f[s] \in Nat
            BY FS_Subset DEF RecordInv, SessionsOk
        <2> HIDE DEF f, A
        <2> QED  BY <2>1, <2>2, SumPart
    <1> QED  BY <1>1, WorkloadAssumption DEF Routes, RecordInv

LEMMA SessionMoves ==
    ASSUME Routes, RecordInv, NEW r \in Requests, Serves(r, RecordOps, RecordTags),
           EndSession(r) \/ InsertSession(r)
    PROVE  RecordInv'
    <1>1. pc'[r] \in {"sessionInsert", "done"} /\ UNCHANGED <<ledger, dayRows, monthRow>>
        BY RecordNow DEF EndSession, InsertSession, Passes, Goes, recordVars
    <1>2. CronJob(r)' /\ MonthJob(r)'
        BY <1>1 DEF CronJob, MonthJob
    <1>3. SessionsOk' /\ sessions \subseteq sessions'
        <2>1. CASE EndSession(r)
            BY <2>1, RecordNow DEF EndSession, recordVars, SessionsOk
        <2>2. CASE InsertSession(r)
            <3> DEFINE row == [id |-> r, endedAt |-> job[r].endedAt, kind |-> call(r).kind,
                               time |-> call(r).time]
            <3>1. call(r).op = "session"
                BY <2>2, RecordNow DEF InsertSession, Routed
            <3>2. row.time \in Nat
                BY <3>1, SessionAssumption DEF Routes, Requests, call
            <3>3. sessions' = sessions \cup {row}
                BY <2>2 DEF InsertSession
            <3> HIDE DEF row
            <3>4. IsFiniteSet(sessions')
                BY <3>3, RecordNow, FS_AddElement DEF SessionsOk
            <3> QED  BY <3>2, <3>3, <3>4, RecordNow DEF SessionsOk
        <2> QED  BY <2>1, <2>2
    <1> QED  BY <1>1, <1>2, <1>3, RecordServed, Zenon

LEMMA SumMoves ==
    ASSUME Routes, RecordInv, NEW r \in Requests, Serves(r, RecordOps, RecordTags), Aggregate(r)
    PROVE  RecordInv'
    <1>0. PICK y, t : y = day - 1 /\ t = [audio |-> Total(y, "audio"),
                                          video |-> Total(y, "video")]
        OBVIOUS
    <1>1. /\ y >= 1 /\ pc'[r] \in {"cronRow", "done"}
          /\ Learns(r, [date |-> y, total |-> t])
          /\ UNCHANGED <<load, day, ledger, sessions, dayRows, monthRow>>
        BY <1>0, RecordNow DEF Aggregate, Goes, recordVars
    <1>2. /\ {"date", "total"} \subseteq DOMAIN job'[r]
          /\ job'[r].date = y /\ job'[r].total = t
        <2>1. job'[r] = Override(job[r], [date |-> y, total |-> t])
            BY <1>1, Learned
        <2> QED  BY <2>1 DEF Override
    <1>3. y \in 1 .. load.days /\ y < day
        BY <1>0, <1>1, RecordNow
    <1>4. isValid(t) => earned(y)'
        BY <1>0, <1>1 DEF isValid, earned, Total
    <1>5. CronJob(r)' /\ MonthJob(r)'
        BY <1>1, <1>2, <1>3, <1>4 DEF CronJob, MonthJob
    <1>6. SessionsOk'
        BY <1>1, RecordNow DEF SessionsOk
    <1> QED  BY <1>1, <1>5, <1>6, RecordServed, Zenon

LEMMA CronMoves ==
    ASSUME Routes, RecordInv, NEW r \in Requests, Serves(r, RecordOps, RecordTags),
           FindDayRow(r) \/ CreditDay(r) \/ WriteDayRow(r)
    PROVE  RecordInv'
    <1>1. /\ pc[r] \in {"cronRow", "cronReward", "cronWrite"}
          /\ UNCHANGED <<load, day, sessions, monthRow>>
        BY DEF FindDayRow, CreditDay, WriteDayRow, Passes, Goes, recordVars
    <1>0. PICK d : d = job[r].date
        OBVIOUS
    <1>2. /\ {"date", "total"} \subseteq DOMAIN job[r]
          /\ d \in 1 .. load.days /\ d < day
          /\ isValid(job[r].total) => earned(d)
          /\ isValid(job[r].total) => earned(d)'
          /\ SessionsOk'
        <2>1. CronJob(r) /\ SessionsOk
            BY RecordNow
        <2>2. \A e : earned(e)' = earned(e)
            BY <1>1 DEF earned, Total
        <2> QED  BY <1>0, <1>1, <2>1, <2>2 DEF CronJob, SessionsOk
    <1>3. CASE FindDayRow(r)
        <2>0. PICK w : w = (d \in DOMAIN dayRows /\ dayRows[d].rewarded)
            OBVIOUS
        <2>1. /\ Learns(r, [rewarded |-> w]) /\ UNCHANGED <<ledger, dayRows>>
              /\ pc'[r] = "cronReward" => isValid(job[r].total)
              /\ pc'[r] \in {"cronReward", "cronWrite"}
            BY <1>0, <1>3, <2>0, RecordNow DEF FindDayRow, Goes, recordVars
        <2>2. /\ DOMAIN job'[r] = DOMAIN job[r] \cup {"rewarded"}
              /\ job'[r].date = d /\ job'[r].total = job[r].total /\ job'[r].rewarded = w
            <3>1. job'[r] = Override(job[r], [rewarded |-> w])
                BY <2>1, Learned
            <3> QED  BY <1>0, <1>2, <3>1 DEF Override
        <2>3. w => dayReward(d) \in ledger'
            BY <2>0, <2>1 DEF RecordInv, RowOk
        <2>4. CronJob(r)' /\ MonthJob(r)'
            BY <1>0, <1>1, <1>2, <2>1, <2>2, <2>3 DEF CronJob, MonthJob
        <2> QED  BY <1>1, <1>2, <2>1, <2>4, RecordServed, Zenon
    <1>4. CASE CreditDay(r)
        <2>1. pc'[r] = "cronWrite" /\ UNCHANGED dayRows /\ pc[r] = "cronReward"
            BY <1>4, RecordNow DEF CreditDay, Goes, recordVars
        <2>2. isValid(job[r].total) /\ "rewarded" \in DOMAIN job[r]
              /\ (job[r].rewarded => dayReward(d) \in ledger)
            BY <1>0, <2>1, RecordNow DEF CronJob
        <2>3. CASE Posts(dayReward(d)) /\ Learns(r, [rewarded |-> TRUE])
            <3>1. DOMAIN job'[r] = DOMAIN job[r] \cup {"rewarded"}
                  /\ job'[r].date = d /\ job'[r].total = job[r].total
                <4>1. job'[r] = Override(job[r], [rewarded |-> TRUE])
                    BY <2>3, Learned
                <4> QED  BY <1>0, <1>2, <4>1 DEF Override
            <3>2. ledger' = ledger \cup {dayReward(d)}
                BY <2>3 DEF Posts
            <3>3. KeyOk(dayReward(d))'
                BY <1>1, <1>2, <2>2 DEF KeyOk, dayReward
            <3>4. CronJob(r)' /\ MonthJob(r)'
                <4>1. job'[r].rewarded
                    <5>1. job'[r] = Override(job[r], [rewarded |-> TRUE])
                        BY <2>3, Learned
                    <5> QED  BY <5>1 DEF Override
                <4> QED  BY <1>0, <1>1, <1>2, <2>1, <2>2, <3>1, <3>2, <4>1
                         DEF CronJob, MonthJob
            <3> QED  BY <1>1, <1>2, <2>1, <3>2, <3>3, <3>4, RecordServed, Zenon
        <2>4. CASE UNCHANGED <<ledger, job>>
            <3>1. CronJob(r)' /\ MonthJob(r)'
                BY <1>0, <1>1, <1>2, <2>1, <2>2, <2>4 DEF CronJob, MonthJob
            <3> QED  BY <1>1, <1>2, <2>1, <2>4, <3>1, RecordServed, Zenon
        <2> QED  BY <1>0, <1>4, <2>3, <2>4 DEF CreditDay
    <1>5. CASE WriteDayRow(r)
        <2>0. PICK row : row = [total |-> job[r].total, isValid |-> isValid(job[r].total),
                                rewarded |-> job[r].rewarded]
            OBVIOUS
        <2>1. pc[r] = "cronWrite" /\ dayRows' = Put(dayRows, d, row) /\ pc'[r] = "done"
              /\ ledger' = ledger
            BY <1>0, <1>5, <2>0, RecordNow DEF WriteDayRow, Passes, Goes
        <2>2. RowOk(d, row)'
            <3>1. job[r].rewarded => dayReward(d) \in ledger
                BY <1>0, <2>1, RecordNow DEF CronJob
            <3> QED  BY <1>1, <1>2, <2>0, <2>1, <3>1 DEF RowOk
        <2>3. CronJob(r)' /\ MonthJob(r)'
            BY <2>1 DEF CronJob, MonthJob
        <2>4. \A e \in DOMAIN dayRows' :
                 (e \in DOMAIN dayRows /\ dayRows'[e] = dayRows[e]) \/ RowOk(e, dayRows[e])'
            <3> SUFFICES ASSUME NEW e \in DOMAIN dayRows'
                         PROVE  (e \in DOMAIN dayRows /\ dayRows'[e] = dayRows[e])
                                    \/ RowOk(e, dayRows[e])'
                OBVIOUS
            <3>1. CASE e = d
                <4>1. dayRows'[e] = row
                    BY <2>1, <3>1 DEF Put
                <4> QED  BY <2>2, <3>1, <4>1
            <3>2. CASE e # d
                BY <2>1, <3>2 DEF Put
            <3> QED  BY <3>1, <3>2
        <2> QED  BY <1>1, <1>2, <2>1, <2>3, <2>4, RecordServed, Zenon
    <1> QED  BY <1>3, <1>4, <1>5

LEMMA MonthMoves ==
    ASSUME Routes, RecordInv, NEW r \in Requests, Serves(r, RecordOps, RecordTags),
           \/ ClaimMonthFind(r) \/ ClaimMonthCount(r)
           \/ ClaimMonthBonus(r) \/ ClaimMonthWrite(r)
    PROVE  RecordInv'
    <1>1. /\ UNCHANGED <<load, day, sessions, dayRows>>
          /\ Learns(r, [validDays |-> Cardinality(validRows(call(r).month))]) \/ job' = job
        BY DEF ClaimMonthFind, ClaimMonthCount, ClaimMonthBonus, ClaimMonthWrite, Passes, Goes,
               recordVars
    <1>2. SessionsOk' /\ Months' = Months /\ call(r)' = call(r)
          /\ \A m : daysEarned(m)' = daysEarned(m)
        BY <1>1, RecordNow DEF SessionsOk, Months, call, daysEarned, earned, Total
    <1>3. PICK m : m = call(r).month
        OBVIOUS
    <1>4. CASE ClaimMonthFind(r)
        <2>1. /\ m \in Months /\ UNCHANGED <<ledger, monthRow>>
              /\ pc'[r] \in {"monthCount", "failed"}
              /\ pc'[r] = "monthCount" => m < month(day)
            BY <1>3, <1>4, RecordNow DEF ClaimMonthFind, Passes, Goes, recordVars
        <2>2. CronJob(r)' /\ MonthJob(r)'
            BY <1>1, <1>2, <1>3, <2>1 DEF CronJob, MonthJob
        <2> QED  BY <1>1, <1>2, <2>1, <2>2, RecordServed, Zenon
    <1>5. CASE ClaimMonthCount(r)
        <2>1. PICK n : n = Cardinality(validRows(m))
            OBVIOUS
        <2>2. /\ pc[r] = "monthCount" /\ UNCHANGED <<ledger, monthRow>>
              /\ Learns(r, [validDays |-> n])
              /\ pc'[r] \in {"monthBonus", "failed"}
              /\ pc'[r] = "monthBonus" => n >= ValidMonthDays
            BY <1>3, <1>5, <2>1, RecordNow DEF ClaimMonthCount, Goes, recordVars
        <2>3. m \in Months /\ m < month(day)
            BY <1>3, <2>2, RecordNow DEF MonthJob
        <2>4. n \in Nat /\ daysEarned(m) \in Nat /\ n <= daysEarned(m)
            <3>1. validRows(m) \subseteq EarnedIn(m)
                BY DEF validRows, daysOf, EarnedIn, RecordInv, RowOk
            <3> QED  BY <2>1, <3>1, DaysCounted
        <2>5. job'[r] = Override(job[r], [validDays |-> n])
            BY <2>2, Learned
        <2>6. "validDays" \in DOMAIN job'[r] /\ job'[r].validDays = n
            BY <2>5 DEF Override
        <2>7. n >= ValidMonthDays => daysEarned(m) >= ValidMonthDays
            BY <2>4, RecordAssumption
        <2>8. CronJob(r)' /\ MonthJob(r)'
            BY <1>1, <1>2, <1>3, <2>2, <2>3, <2>6, <2>7 DEF CronJob, MonthJob
        <2> QED  BY <1>1, <1>2, <2>2, <2>8, RecordServed, Zenon
    <1>6. CASE ClaimMonthBonus(r)
        <2>1. /\ pc[r] = "monthBonus" /\ UNCHANGED <<job, monthRow>>
              /\ \/ ledger' = ledger \cup {monthBonus(m)} /\ pc'[r] = "monthWrite"
                 \/ ledger' = ledger /\ pc'[r] = "failed"
            BY <1>3, <1>6, RecordNow DEF ClaimMonthBonus, Goes, Posts, recordVars
        <2>2. /\ m \in Months /\ m < month(day)
              /\ "validDays" \in DOMAIN job[r] /\ job[r].validDays >= ValidMonthDays
              /\ daysEarned(m) >= ValidMonthDays
            BY <1>3, <2>1, RecordNow DEF MonthJob
        <2>3. KeyOk(monthBonus(m))'
            BY <1>1, <1>2, <2>2, MonthsInt DEF KeyOk, monthBonus
        <2>4. CronJob(r)' /\ MonthJob(r)'
            BY <1>1, <1>2, <1>3, <2>1, <2>2 DEF CronJob, MonthJob
        <2> QED  BY <1>1, <1>2, <2>1, <2>3, <2>4, RecordServed, Zenon
    <1>7. CASE ClaimMonthWrite(r)
        <2>1. PICK row : row = [claimed |-> TRUE, validDays |-> job[r].validDays]
            OBVIOUS
        <2>2. /\ pc[r] = "monthWrite" /\ ledger' = ledger /\ pc'[r] = "done"
              /\ monthRow' = [monthRow EXCEPT ![m] = row]
            BY <1>3, <1>7, <2>1, RecordNow DEF ClaimMonthWrite, Passes, Goes
        <2>3. /\ m \in Months /\ job[r].validDays >= ValidMonthDays
              /\ monthBonus(m) \in ledger
            BY <1>3, <2>2, RecordNow DEF MonthJob
        <2>4. MonthOk(m, row)'
            BY <2>1, <2>2, <2>3 DEF MonthOk
        <2>5. CronJob(r)' /\ MonthJob(r)'
            BY <2>2 DEF CronJob, MonthJob
        <2>6. /\ DOMAIN monthRow' = DOMAIN monthRow
              /\ \A x \in Months : monthRow'[x] = monthRow[x] \/ MonthOk(x, monthRow[x])'
            <3>1. DOMAIN monthRow = Months
                BY DEF RecordInv
            <3>2. ASSUME NEW x \in Months
                  PROVE  monthRow'[x] = monthRow[x] \/ MonthOk(x, monthRow[x])'
                <4>1. CASE x = m
                    <5>1. monthRow'[x] = row
                        BY <2>2, <2>3, <3>1, <4>1
                    <5> QED  BY <2>4, <4>1, <5>1
                <4>2. CASE x # m
                    BY <2>2, <3>1, <4>2
                <4> QED  BY <4>1, <4>2
            <3> QED  BY <2>2, <3>1, <3>2
        <2> QED  BY <1>1, <1>2, <2>2, <2>5, <2>6, RecordServed, Zenon
    <1> QED  BY <1>4, <1>5, <1>6, <1>7

LEMMA RecordStep ==
    ASSUME Routes, RecordInv, [Next]_vars
    PROVE  RecordInv'
    <1>1. ASSUME NEW r \in Requests, LiveRecordStep(r), Serves(r, RecordOps, RecordTags)
          PROVE  RecordInv'
        BY <1>1, SessionMoves, SumMoves, CronMoves, MonthMoves DEF LiveRecordStep
    <1> QED  BY <1>1, RecordSteps, RecordRests, RoutesStep

LEMMA RecordEarned ==
    ASSUME Routes, RecordInv
    PROVE  RewardsAreEarned
    <1>1. ASSUME NEW m \in Months, eligible(m)
          PROVE  daysEarned(m) >= ValidMonthDays
        <2>1. validRows(m) \subseteq EarnedIn(m)
            BY DEF validRows, daysOf, EarnedIn, RecordInv, RowOk
        <2>2. Shown(m) \subseteq EarnedIn(m)
            BY <2>1 DEF Shown, isValid, EarnedIn, earned, Routes
        <2>3. Cardinality(Shown(m)) \in Nat /\ daysEarned(m) \in Nat
              /\ Cardinality(Shown(m)) <= daysEarned(m)
            BY <2>2, DaysCounted
        <2> QED  BY <1>1, <2>3, RecordAssumption DEF eligible
    <1> QED  BY <1>1 DEF RewardsAreEarned, RecordInv, KeyOk, RowOk, MonthOk

\* Live record: whatever crons overlap, sessions come late and claims race, a reward is
\* paid only for a day the host earned, and a bonus only for a month that is over and had
\* the days; no row says of money what is not so.
THEOREM RewardsAlwaysEarned == Spec => []RewardsAreEarned
    <1>1. Init => Routes /\ RecordInv
        BY RoutesInit, RecordInit
    <1>2. Routes /\ RecordInv /\ [Next]_vars => (Routes /\ RecordInv)'
        BY RoutesStep, RecordStep
    <1>3. Routes /\ RecordInv => RewardsAreEarned
        BY RecordEarned
    <1> QED  BY <1>1, <1>2, <1>3, PTL DEF Spec

------------------------------------------------------------------------------
\* The daily reward.


DailyPlaces == {"dailyState", "dailyReset", "dailyWindow", "dailyDate", "dailyGrant",
                "dailySave"}

DatesTo(x) == {d \in grantedDates : d <= x}

\* A row of the user, as it is or as a claim has read it: as many dates had a grant as its
\* streak is long; up to its last claim, unless a restart has reset that one alone.
StateOk(s) ==
    /\ DOMAIN s = {"version", "current", "last", "total"}
    /\ s.version \in 1 .. dailyConfig.version /\ s.current \in 0 .. LastDay
    /\ s.last \in 0 .. day /\ s.total \in Nat
    /\ s.current <= Cardinality(grantedDates)
    /\ s.last # 0 => s.current <= Cardinality(DatesTo(s.last))
    /\ dailyConfig.version = 1 => s.total <= Cardinality(DatesTo(s.last))

ConfigOk(c) ==
    /\ {"version", "days"} \subseteq DOMAIN c
    /\ c.version \in 1 .. dailyConfig.version
    /\ Rewarding(c.days)

\* A claim: its date is later than the last it knows of, and has a grant when it saves.
ClaimJob(r) ==
    /\ pc[r] \in DailyPlaces => "config" \in DOMAIN job[r] /\ ConfigOk(job[r].config)
    /\ pc[r] \in DailyPlaces \ {"dailyState"} =>
          "state" \in DOMAIN job[r] /\ StateOk(job[r].state)
    /\ pc[r] = "dailyReset" => dailyConfig.version # 1
    /\ pc[r] \in {"dailyDate", "dailyGrant", "dailySave"} =>
          /\ "day" \in DOMAIN job[r]
          /\ job[r].day \in DOMAIN job[r].config.days
          /\ job[r].day <= Cardinality(DatesTo(job[r].state.last)) + 1
          /\ job[r].state.last < day
    /\ pc[r] \in {"dailyGrant", "dailySave"} =>
          /\ "date" \in DOMAIN job[r]
          /\ job[r].date \in 1 .. day
          /\ job[r].state.last < job[r].date
    /\ pc[r] = "dailyGrant" =>
          /\ "next" \in DOMAIN job[r]
          /\ job[r].next \in Nat
          /\ job[r].next > 1 => job[r].date \in grantedDates
    /\ pc[r] = "dailySave" => job[r].date \in grantedDates

DatesOk == \A d \in grantedDates : d \in 1 .. day

DailyInv ==
    /\ DOMAIN dailyConfig = {"version", "days", "active"} /\ ConfigOk(dailyConfig)
    /\ StateOk(streak) /\ DatesOk
    /\ \A r \in Requests : ClaimJob(r)

------------------------------------------------------------------------------
\* The dates with a grant up to some day are counted.
LEMMA DatesCounted ==
    ASSUME day \in Nat, DatesOk
    PROVE  /\ \A x : IsFiniteSet(DatesTo(x)) /\ Cardinality(DatesTo(x)) \in Nat
           /\ DatesTo(day) = grantedDates /\ Cardinality(grantedDates) \in Nat
           /\ \A x, y \in Int : x <= y =>
                Cardinality(DatesTo(x)) <= Cardinality(DatesTo(y))
           /\ \A x, y \in Int, d \in grantedDates : x < d /\ d <= y =>
                Cardinality(DatesTo(x)) + 1 <= Cardinality(DatesTo(y))
    <1>1. IsFiniteSet(grantedDates)
        <2>1. 1 \in Int /\ day \in Int
            OBVIOUS
        <2>2. IsFiniteSet(1 .. day)
            BY <2>1, FS_Interval
        <2>3. grantedDates \subseteq 1 .. day
            BY DEF DatesOk
        <2> QED  BY <2>2, <2>3, FS_Subset
    <1>2. \A x : IsFiniteSet(DatesTo(x)) /\ Cardinality(DatesTo(x)) \in Nat
        BY <1>1, FS_Subset, FS_CardinalityType DEF DatesTo
    <1>3. ASSUME NEW x \in Int, NEW y \in Int, x <= y
          PROVE  Cardinality(DatesTo(x)) <= Cardinality(DatesTo(y))
        <2>1. DatesTo(x) \subseteq DatesTo(y)
            BY <1>3 DEF DatesTo, DatesOk
        <2> QED  BY <1>2, <2>1, FS_Subset
    <1>4. ASSUME NEW x \in Int, NEW y \in Int, NEW d \in grantedDates, x < d, d <= y
          PROVE  Cardinality(DatesTo(x)) + 1 <= Cardinality(DatesTo(y))
        <2>1. DatesTo(x) \subseteq DatesTo(y) /\ d \in DatesTo(y) /\ d \notin DatesTo(x)
            BY <1>4 DEF DatesTo, DatesOk
        <2>2. /\ Cardinality(DatesTo(x)) <= Cardinality(DatesTo(y))
              /\ Cardinality(DatesTo(x)) # Cardinality(DatesTo(y))
            BY <1>2, <2>1, FS_Subset
        <2> QED  BY <1>2, <2>2
    <1>5. DatesTo(day) = grantedDates
        BY DEF DatesTo, DatesOk
    <1> QED  BY <1>2, <1>3, <1>4, <1>5

\* They grow with the ledger.
LEMMA DatesGrow ==
    ASSUME day \in Nat, day' \in Nat, DatesOk, DatesOk', ledger \subseteq ledger'
    PROVE  /\ grantedDates \subseteq grantedDates'
           /\ Cardinality(grantedDates) \in Nat /\ Cardinality(grantedDates)' \in Nat
           /\ Cardinality(grantedDates) <= Cardinality(grantedDates)'
           /\ \A x : /\ Cardinality(DatesTo(x)) \in Nat /\ Cardinality(DatesTo(x))' \in Nat
                     /\ Cardinality(DatesTo(x)) <= Cardinality(DatesTo(x))'
    <1>1. grantedDates \subseteq grantedDates'
        BY DEF grantedDates
    <1>2. IsFiniteSet(grantedDates) /\ IsFiniteSet(grantedDates')
        <2>1. 1 \in Int /\ day \in Int /\ day' \in Int
            OBVIOUS
        <2>2. IsFiniteSet(1 .. day) /\ IsFiniteSet(1 .. day')
            BY <2>1, FS_Interval
        <2>3. grantedDates \subseteq 1 .. day /\ grantedDates' \subseteq 1 .. day'
            BY DEF DatesOk
        <2> QED  BY <2>2, <2>3, FS_Subset
    <1>3. ASSUME NEW x
          PROVE  /\ Cardinality(DatesTo(x)) \in Nat /\ Cardinality(DatesTo(x))' \in Nat
                 /\ Cardinality(DatesTo(x)) <= Cardinality(DatesTo(x))'
        <2>1. IsFiniteSet(DatesTo(x)) /\ IsFiniteSet(DatesTo(x)')
            BY <1>2, FS_Subset DEF DatesTo
        <2>2. DatesTo(x) \subseteq DatesTo(x)'
            BY <1>1 DEF DatesTo
        <2> QED  BY <2>1, <2>2, FS_Subset, FS_CardinalityType
    <1>4. /\ Cardinality(grantedDates) \in Nat /\ Cardinality(grantedDates)' \in Nat
          /\ Cardinality(grantedDates) <= Cardinality(grantedDates)'
        BY <1>1, <1>2, FS_Subset, FS_CardinalityType
    <1> QED  BY <1>1, <1>3, <1>4

\* What was read stays good.
LEMMA DailyGrows ==
    ASSUME day \in Nat, day' \in Nat, day <= day', DatesOk, DatesOk', ledger \subseteq ledger',
           dailyConfig.version \in Nat \ {0},
           dailyConfig'.version \in {dailyConfig.version, dailyConfig.version + 1}
    PROVE  /\ \A s : StateOk(s) => StateOk(s)'
           /\ \A c : ConfigOk(c) => ConfigOk(c)'
           /\ grantedDates \subseteq grantedDates'
    <1>1. /\ grantedDates \subseteq grantedDates'
          /\ Cardinality(grantedDates) \in Nat /\ Cardinality(grantedDates)' \in Nat
          /\ Cardinality(grantedDates) <= Cardinality(grantedDates)'
          /\ \A x : /\ Cardinality(DatesTo(x)) \in Nat /\ Cardinality(DatesTo(x))' \in Nat
                    /\ Cardinality(DatesTo(x)) <= Cardinality(DatesTo(x))'
        BY DatesGrow
    <1>2. dailyConfig'.version = 1 => dailyConfig.version = 1
        OBVIOUS
    <1>3. ASSUME NEW s, StateOk(s)
          PROVE  StateOk(s)'
        <2>1. PICK x : x = s.last
            OBVIOUS
        <2>2. /\ Cardinality(DatesTo(x)) \in Nat /\ Cardinality(DatesTo(x))' \in Nat
              /\ Cardinality(DatesTo(x)) <= Cardinality(DatesTo(x))'
            BY <1>1
        <2>3. x # 0 => s.current <= Cardinality(DatesTo(x))'
            BY <1>3, <2>1, <2>2 DEF StateOk
        <2>6. s.current <= Cardinality(grantedDates)'
            BY <1>1, <1>3 DEF StateOk
        <2>4. dailyConfig'.version = 1 => s.total <= Cardinality(DatesTo(x))'
            BY <1>2, <1>3, <2>1, <2>2 DEF StateOk
        <2>5. s.version \in 1 .. dailyConfig'.version /\ s.last \in 0 .. day'
            BY <1>3 DEF StateOk
        <2> QED  BY <1>3, <2>1, <2>3, <2>4, <2>5, <2>6 DEF StateOk
    <1>4. \A c : ConfigOk(c) => ConfigOk(c)'
        BY DEF ConfigOk, Rewarding
    <1> QED  BY <1>1, <1>3, <1>4

LEMMA DailyInit == EveryDayGrants /\ Init => DailyInv
    <1> SUFFICES ASSUME EveryDayGrants, Init  PROVE DailyInv
        OBVIOUS
    <1>1. /\ dailyConfig = [version |-> 1, days |-> FirstConfig, active |-> TRUE]
          /\ streak = [version |-> 1, current |-> 0, last |-> 0, total |-> 0]
          /\ day = 1 /\ ledger = {} /\ grantedDates = {}
        BY DEF Init, DailyRewardInit, ServiceInit, grantedDates
    <1>2. DOMAIN dailyConfig = {"version", "days", "active"} /\ ConfigOk(dailyConfig)
        BY <1>1 DEF ConfigOk, EveryDayGrants
    <1>3. DatesTo(0) = {} /\ Cardinality(DatesTo(0)) = 0 /\ Cardinality(grantedDates) = 0
        BY <1>1, FS_EmptySet DEF DatesTo
    <1>4. StateOk(streak)
        BY <1>1, <1>3, CycleAssumption DEF StateOk
    <1>5. \A r \in Requests : pc[r] = "idle"
        BY DEF Init, ServiceInit, Requests
    <1> QED  BY <1>1, <1>2, <1>4, <1>5 DEF DailyInv, DatesOk, ClaimJob, DailyPlaces

LEMMA DailySteps ==
    ASSUME Routes, [Next]_vars
    PROVE  \/ \E r \in Requests : DailyRewardStep(r) /\ Serves(r, DailyOps, {"daily"})
           \/ \E r \in Requests : Halts(r) /\ UNCHANGED dailyVars
           \/ Quiet(DailyOps, {"daily"}) /\ UNCHANGED dailyVars
    <1>1. ASSUME NEW r, NEW ops \in {PoolOps, HookOps, BallOps, RecordOps, ShopOps, HonorOps},
                 NEW tags \in {{"assign"}, {"revenuecat"}, {"ball"}, {"store", "svip"}, {},
                     {"live-valid-day-reward", "live-valid-month-bonus"}},
                 Serves(r, ops, tags)
          PROVE  Quiet(DailyOps, {"daily"})
        <2>1. ops \cap DailyOps = {} /\ tags \cap {"daily"} = {}
            BY DEF PoolOps, HookOps, DailyOps, BallOps, RecordOps, ShopOps, HonorOps
        <2> QED  BY <1>1, <2>1, ServesQuiet
    <1> QED  BY <1>1, StepKinds, QuietMidnight DEF rewardVars, vars

\* What is known before a step of r.
LEMMA DailyNow ==
    ASSUME Routes, DailyInv
    PROVE  /\ day \in Nat \ {0} /\ DatesOk /\ StateOk(streak) /\ ConfigOk(dailyConfig)
           /\ dailyConfig.version \in Nat \ {0}
           /\ DOMAIN job = Requests /\ DOMAIN pc = Requests
           /\ \A r \in Requests : Routed(r, pc[r]) /\ ClaimJob(r)
    <1>1. day \in Nat \ {0}
        BY WorkloadAssumption DEF Routes
    <1> QED  BY <1>1 DEF Routes, DailyInv, ConfigOk

\* A claim that nobody moved is as good as it was.
LEMMA ClaimKept ==
    ASSUME Routes, DailyInv, DatesOk', day' \in {day, day + 1}, ledger \subseteq ledger',
           dailyConfig'.version \in {dailyConfig.version, dailyConfig.version + 1},
           NEW s \in Requests, pc'[s] = "stopped" \/ (pc'[s] = pc[s] /\ job'[s] = job[s])
    PROVE  ClaimJob(s)'
    <1>1. day \in Nat /\ day' \in Nat /\ day <= day' /\ dailyConfig.version \in Nat \ {0}
        BY DailyNow
    <1>2. /\ \A t : StateOk(t) => StateOk(t)'
          /\ \A c : ConfigOk(c) => ConfigOk(c)'
          /\ grantedDates \subseteq grantedDates'
        BY <1>1, DailyGrows DEF DailyInv
    <1>3. CASE pc'[s] = "stopped"
        BY <1>3 DEF ClaimJob, DailyPlaces
    <1>4. CASE pc'[s] = pc[s] /\ job'[s] = job[s]
        <2> DEFINE now == pc'[s]
        <2>1. ClaimJob(s)
            BY DEF DailyInv
        <2>2. now \in DailyPlaces => "config" \in DOMAIN job'[s] /\ ConfigOk(job[s].config)'
            BY <1>2, <1>4, <2>1 DEF ClaimJob
        <2>3. now \in DailyPlaces \ {"dailyState"} =>
                  "state" \in DOMAIN job'[s] /\ StateOk(job[s].state)'
                     /\ job[s].state.last \in Nat
            <3>1. PICK t : t = job[s].state
                OBVIOUS
            <3>2. StateOk(t) => StateOk(t)'
                BY <1>2
            <3>3. StateOk(t) => t.last \in Nat
                BY <1>1 DEF StateOk
            <3> QED  BY <1>4, <2>1, <3>1, <3>2, <3>3 DEF ClaimJob, DailyPlaces
        <2>4. now = "dailyReset" => dailyConfig'.version # 1
            BY <1>1, <1>4, <2>1 DEF ClaimJob
        <2>5. now \in {"dailyDate", "dailyGrant", "dailySave"} =>
                  /\ "day" \in DOMAIN job'[s]
                  /\ job'[s].day \in DOMAIN job'[s].config.days
                  /\ (job[s].day <= Cardinality(DatesTo(job[s].state.last)) + 1)'
                  /\ job'[s].state.last < day'
            <3> SUFFICES ASSUME now \in {"dailyDate", "dailyGrant", "dailySave"}
                         PROVE  /\ "day" \in DOMAIN job'[s]
                                /\ job'[s].day \in DOMAIN job'[s].config.days
                                /\ (job[s].day <= Cardinality(DatesTo(job[s].state.last)) + 1)'
                                /\ job'[s].state.last < day'
                OBVIOUS
            <3>1. PICK d, x : d = job[s].day /\ x = job[s].state.last
                OBVIOUS
            <3>2. /\ "day" \in DOMAIN job'[s] /\ d \in DOMAIN job'[s].config.days
                  /\ d <= Cardinality(DatesTo(x)) + 1 /\ x < day /\ x \in Nat
                BY <1>4, <2>1, <2>3, <3>1 DEF ClaimJob, DailyPlaces
            <3>3. /\ Cardinality(DatesTo(x)) \in Nat /\ Cardinality(DatesTo(x))' \in Nat
                  /\ Cardinality(DatesTo(x)) <= Cardinality(DatesTo(x))'
                BY <1>1, DailyNow, DatesGrow
            <3>4. d \in Nat
                BY <1>4, <2>2, <3>2, <3>1 DEF DailyPlaces, ConfigOk, Rewarding
            <3>5. d <= Cardinality(DatesTo(x))' + 1 /\ x < day'
                BY <1>1, <3>2, <3>3, <3>4
            <3> QED  BY <1>4, <3>1, <3>2, <3>5 DEF DatesTo
        <2>6. now \in {"dailyGrant", "dailySave"} =>
                  /\ "date" \in DOMAIN job'[s]
                  /\ job'[s].date \in 1 .. day'
                  /\ job'[s].state.last < job'[s].date
            BY <1>1, <1>4, <2>1 DEF ClaimJob
        <2>7. now = "dailyGrant" =>
                  /\ "next" \in DOMAIN job'[s]
                  /\ job'[s].next \in Nat
                  /\ job'[s].next > 1 => job'[s].date \in grantedDates'
            BY <1>2, <1>4, <2>1 DEF ClaimJob
        <2>8. now = "dailySave" => job'[s].date \in grantedDates'
            BY <1>2, <1>4, <2>1 DEF ClaimJob
        <2> QED  BY <2>2, <2>3, <2>4, <2>5, <2>6, <2>7, <2>8 DEF ClaimJob
    <1> QED  BY <1>3, <1>4

\* The step of the claim r, when it, the row and the configuration are as they should be.
LEMMA DailyServed ==
    ASSUME Routes, DailyInv, NEW r \in Requests, Serves(r, DailyOps, {"daily"}),
           DatesOk', ClaimJob(r)', StateOk(streak)' \/ streak' = streak,
           dailyConfig' = dailyConfig
                \/ (/\ DOMAIN dailyConfig' = {"version", "days", "active"} /\ ConfigOk(dailyConfig)'
                    /\ dailyConfig'.version = dailyConfig.version + 1)
    PROVE  DailyInv'
    <1>1. Requests' = Requests /\ day' = day /\ ledger \subseteq ledger'
          /\ \A s \in Requests : s # r => pc'[s] = pc[s] /\ job'[s] = job[s]
        BY DEF Serves, Requests
    <1>2. \A s \in Requests : ClaimJob(s)'
        BY <1>1, ClaimKept
    <1>3. /\ \A t : StateOk(t) => StateOk(t)'
          /\ \A c : ConfigOk(c) => ConfigOk(c)'
        BY <1>1, DailyNow, DailyGrows
    <1>4. StateOk(streak)'
        <2>1. ASSUME NEW t, t = streak, streak' = streak
              PROVE  StateOk(streak)'
            <3>1. StateOk(t)'
                BY <1>3, <2>1 DEF DailyInv
            <3> QED  BY <2>1, <3>1 DEF StateOk
        <2> QED  BY <2>1
    <1>5. DOMAIN dailyConfig' = {"version", "days", "active"} /\ ConfigOk(dailyConfig)'
        BY <1>3 DEF DailyInv, ConfigOk
    <1> QED  BY <1>1, <1>2, <1>4, <1>5 DEF DailyInv

LEMMA DailyRests ==
    ASSUME Routes, DailyInv, Routes', UNCHANGED dailyVars,
           \/ \E r \in Requests : Halts(r)
           \/ Quiet(DailyOps, {"daily"})
    PROVE  DailyInv'
    <1>1. Requests' = Requests /\ day' \in {day, day + 1} /\ ledger \subseteq ledger'
          /\ dailyConfig' = dailyConfig /\ streak' = streak
          /\ \A r \in Requests : call(r)' = call(r)
        BY DEF Halts, Quiet, dailyVars, Requests, call
    <1>2. day \in Nat /\ day' \in Nat /\ day <= day' /\ dailyConfig.version \in Nat \ {0}
        BY <1>1, DailyNow
    <1>3. grantedDates' = grantedDates
        <2>1. \A k : k[1] = "daily" => (k \in ledger' <=> k \in ledger)
            BY DEF Halts, Quiet
        <2> QED  BY <2>1 DEF grantedDates
    <1>4. DatesOk'
        BY <1>2, <1>3, DailyNow DEF DatesOk
    <1>5. /\ \A t : StateOk(t) => StateOk(t)'
          /\ \A c : ConfigOk(c) => ConfigOk(c)'
        BY <1>1, <1>2, <1>4, DailyNow, DailyGrows
    <1>6. ASSUME NEW s \in Requests
          PROVE  ClaimJob(s)'
        <2>1. CASE pc'[s] = "stopped" \/ (pc'[s] = pc[s] /\ job'[s] = job[s])
            BY <1>1, <1>4, <2>1, ClaimKept
        <2>2. CASE call(s).op \notin DailyOps
            <3>1. Routed(s, pc[s])'
                BY <1>1 DEF Routes
            <3> QED  BY <1>1, <2>2, <3>1 DEF Routed, DailyOps, ClaimJob, DailyPlaces
        <2> QED  BY <2>1, <2>2 DEF Halts, Quiet
    <1>7. StateOk(streak)' /\ ConfigOk(dailyConfig)'
        <2>1. ASSUME NEW t, t = streak, NEW c, c = dailyConfig
              PROVE  StateOk(streak)' /\ ConfigOk(dailyConfig)'
            <3>1. StateOk(t)' /\ ConfigOk(c)'
                BY <1>5, <2>1 DEF DailyInv
            <3> QED  BY <1>1, <2>1, <3>1 DEF StateOk, ConfigOk
        <2> QED  BY <2>1
    <1> QED  BY <1>1, <1>4, <1>6, <1>7 DEF DailyInv

\* What a claim has learned leaves the rest of what it knew.
LEMMA LearnedOne ==
    ASSUME Routes, NEW r \in Requests, NEW f, Learns(r, f)
    PROVE  /\ DOMAIN job'[r] = DOMAIN job[r] \cup DOMAIN f
           /\ \A x \in DOMAIN f : job'[r][x] = f[x]
           /\ \A x \in DOMAIN job[r] \ DOMAIN f : job'[r][x] = job[r][x]
    <1>1. job'[r] = Override(job[r], f)
        BY Learned
    <1> QED  BY <1>1 DEF Override

LEMMA ReadMoves ==
    ASSUME Routes, DailyInv, NEW r \in Requests, Serves(r, DailyOps, {"daily"}),
           DailyConfigRead(r) \/ DailyStateRead(r) \/ DailyReset(r)
    PROVE  DailyInv'
    <1>1. UNCHANGED <<day, ledger, dailyConfig>>
        BY DEF DailyConfigRead, DailyStateRead, DailyReset, Goes, dailyVars
    <1>2. grantedDates' = grantedDates /\ DatesOk'
        BY <1>1, DailyNow DEF grantedDates, DatesOk
    <1>3. \A t, c : (StateOk(t)' <=> StateOk(t)) /\ (ConfigOk(c)' <=> ConfigOk(c))
        BY <1>1, <1>2 DEF StateOk, ConfigOk, DatesTo
    <1>4. PICK c : c = dailyConfig
        OBVIOUS
    <1>5. PICK t : t = streak
        OBVIOUS
    <1>6. CASE DailyConfigRead(r)
        <2>1. Learns(r, [config |-> c]) /\ pc'[r] = "dailyState" /\ streak' = streak
            BY <1>4, <1>6, DailyNow DEF DailyConfigRead, Goes, dailyVars
        <2>2. "config" \in DOMAIN job'[r] /\ job'[r].config = c
            BY <2>1, LearnedOne
        <2>3. ConfigOk(c)'
            BY <1>3, <1>4, DailyNow
        <2>4. ClaimJob(r)'
            BY <2>1, <2>2, <2>3 DEF ClaimJob
        <2> QED  BY <1>1, <1>2, <2>1, <2>4, DailyServed
    <1>7. CASE DailyStateRead(r)
        <2>1. /\ Learns(r, [state |-> t]) /\ streak' = streak /\ pc[r] = "dailyState"
              /\ pc'[r] \in {"dailyReset", "dailyWindow"}
              /\ pc'[r] = "dailyReset" => streak.version # job[r].config.version
            BY <1>5, <1>7, DailyNow DEF DailyStateRead, Goes, dailyVars
        <2>2. "config" \in DOMAIN job[r] /\ ConfigOk(job[r].config)
            BY <2>1, DailyNow DEF ClaimJob, DailyPlaces
        <2>3. {"config", "state"} \subseteq DOMAIN job'[r]
              /\ job'[r].state = t /\ job'[r].config = job[r].config
            BY <2>1, <2>2, LearnedOne
        <2>4. StateOk(t)' /\ StateOk(t)
            BY <1>3, <1>5, DailyNow
        <2>5. PICK d : d = job[r].config
            OBVIOUS
        <2>6. ConfigOk(d)' /\ ConfigOk(d)
            BY <1>3, <2>2, <2>5
        <2>7. pc'[r] = "dailyReset" => dailyConfig.version # 1
            BY <1>5, <2>1, <2>4, <2>5, <2>6, DailyNow DEF StateOk, ConfigOk
        <2>8. ClaimJob(r)'
            BY <1>1, <2>1, <2>3, <2>4, <2>5, <2>6, <2>7 DEF ClaimJob, DailyPlaces
        <2> QED  BY <1>1, <1>2, <2>1, <2>8, DailyServed
    <1>8. CASE DailyReset(r)
        <2>1. PICK d : d = job[r].config
            OBVIOUS
        <2>2. PICK s : s = job[r].state
            OBVIOUS
        <2>3. PICK new : new = Restarted(s, s, d.version)
            OBVIOUS
        <2>4. /\ Learns(r, [state |-> new]) /\ streak' = Restarted(t, s, d.version)
              /\ pc[r] = "dailyReset" /\ pc'[r] = "dailyWindow"
            BY <1>5, <1>8, <2>1, <2>2, <2>3, DailyNow DEF DailyReset, Goes
        <2>5. /\ {"config", "state"} \subseteq DOMAIN job[r] /\ ConfigOk(d) /\ StateOk(s)
              /\ dailyConfig.version # 1
            BY <2>1, <2>2, <2>4, DailyNow DEF ClaimJob, DailyPlaces
        <2>6. \A u : StateOk(u) => StateOk(Restarted(u, s, d.version))
            <3> SUFFICES ASSUME NEW u, StateOk(u)
                         PROVE  StateOk(Restarted(u, s, d.version))
                OBVIOUS
            <3>1. PICK n : n = Restarted(u, s, d.version)
                OBVIOUS
            <3>2. /\ DOMAIN n = {"version", "current", "last", "total"}
                  /\ n.version = d.version /\ n.current \in {0, u.current}
                  /\ n.last \in {0, u.last} /\ n.total = u.total
                BY <3>1 DEF StateOk, Restarted
            <3>3. Cardinality(DatesTo(n.last)) \in Nat /\ Cardinality(grantedDates) \in Nat
                BY DailyNow, DatesCounted
            <3>4. n.last # 0 => n.last = u.last
                BY <3>2
            <3>5. n.current <= Cardinality(grantedDates) /\ n.current \in 0 .. LastDay
                  /\ n.last \in 0 .. day
                BY <3>2, <3>3, DailyNow, CycleAssumption DEF StateOk
            <3>6. n.last # 0 => n.current <= Cardinality(DatesTo(n.last))
                BY <3>2, <3>3, <3>4 DEF StateOk
            <3>7. StateOk(n)
                BY <2>5, <3>2, <3>5, <3>6 DEF StateOk, ConfigOk
            <3> QED  BY <3>1, <3>7
        <2>7. StateOk(new)' /\ StateOk(streak)'
            <3>1. PICK n : n = streak'
                OBVIOUS
            <3>2. StateOk(n)' /\ StateOk(new)'
                BY <1>3, <1>5, <2>3, <2>4, <2>5, <2>6, <3>1, DailyNow
            <3> QED  BY <3>1, <3>2 DEF StateOk
        <2>8. {"config", "state"} \subseteq DOMAIN job'[r]
              /\ job'[r].state = new /\ job'[r].config = d
            BY <2>1, <2>4, <2>5, LearnedOne
        <2>9. ConfigOk(d)'
            BY <1>3, <2>5
        <2>10. ClaimJob(r)'
            BY <2>4, <2>7, <2>8, <2>9 DEF ClaimJob, DailyPlaces
        <2> QED  BY <1>1, <1>2, <2>7, <2>10, DailyServed
    <1> QED  BY <1>6, <1>7, <1>8

LEMMA WindowMoves ==
    ASSUME Routes, DailyInv, NEW r \in Requests, Serves(r, DailyOps, {"daily"}),
           DailyWindow(r) \/ DailyDate(r)
    PROVE  DailyInv'
    <1>1. UNCHANGED <<day, ledger, dailyConfig, streak>>
        BY DEF DailyWindow, DailyDate, Goes, dailyVars
    <1>2. grantedDates' = grantedDates /\ DatesOk'
        BY <1>1, DailyNow DEF grantedDates, DatesOk
    <1>3. \A t, c : (StateOk(t)' <=> StateOk(t)) /\ (ConfigOk(c)' <=> ConfigOk(c))
        BY <1>1, <1>2 DEF StateOk, ConfigOk, DatesTo
    <1>4. PICK c, s : c = job[r].config /\ s = job[r].state
        OBVIOUS
    <1>5. pc[r] \in {"dailyWindow", "dailyDate"}
        BY DEF DailyWindow, DailyDate
    <1>6. {"config", "state"} \subseteq DOMAIN job[r] /\ ConfigOk(c) /\ StateOk(s)
        BY <1>4, <1>5, DailyNow DEF ClaimJob, DailyPlaces
    <1>7. ConfigOk(c)' /\ StateOk(s)'
        BY <1>3, <1>6
    <1>8. CASE DailyWindow(r)
        <2>1. PICK d : d = todayDay(s, day)
            OBVIOUS
        <2>2. /\ Learns(r, [day |-> d, left |-> {}])
              /\ pc'[r] \in {"dailyDate", "failed"}
              /\ pc'[r] = "dailyDate" => CanClaim(s, day) /\ d \in DOMAIN c.days
            BY <1>4, <1>8, <2>1, DailyNow DEF DailyWindow, Goes
        <2>3. d <= Cardinality(DatesTo(s.last))' + 1
            <3>1. Cardinality(DatesTo(s.last)) \in Nat /\ DatesTo(s.last)' = DatesTo(s.last)
                BY <1>2, DailyNow, DatesCounted DEF DatesTo
            <3>2. d \in Int /\ (d = 1 \/ (s.last # 0 /\ d <= s.current + 1)) /\ s.current \in Int
                BY <1>6, <2>1, CycleAssumption DEF todayDay, following, StateOk
            <3>3. d <= Cardinality(DatesTo(s.last)) + 1
                BY <1>6, <3>1, <3>2 DEF StateOk
            <3> QED  BY <3>1, <3>3
        <2>4. CanClaim(s, day) => s.last < day
            BY <1>6, DailyNow DEF CanClaim, StateOk
        <2>5. /\ {"config", "state", "day"} \subseteq DOMAIN job'[r]
              /\ job'[r].config = c /\ job'[r].state = s /\ job'[r].day = d
            BY <1>4, <1>6, <2>2, LearnedOne
        <2>6. ClaimJob(r)'
            BY <1>1, <1>7, <2>2, <2>3, <2>4, <2>5 DEF ClaimJob, DailyPlaces
        <2> QED  BY <1>1, <1>2, <2>6, DailyServed
    <1>9. CASE DailyDate(r)
        <2>1. /\ pc[r] = "dailyDate" /\ pc'[r] = "dailyGrant"
              /\ Learns(r, [date |-> day, next |-> 1])
            BY <1>9, DailyNow DEF DailyDate, Goes
        <2>2. /\ "day" \in DOMAIN job[r] /\ job[r].day \in DOMAIN c.days
              /\ job[r].day <= Cardinality(DatesTo(s.last)) + 1 /\ s.last < day
              /\ DatesTo(s.last)' = DatesTo(s.last)
            BY <1>2, <1>4, <2>1, DailyNow DEF ClaimJob, DatesTo
        <2>3. /\ {"config", "state", "day", "date", "next"} \subseteq DOMAIN job'[r]
              /\ job'[r].config = c /\ job'[r].state = s /\ job'[r].day = job[r].day
              /\ job'[r].date = day /\ job'[r].next = 1
            BY <1>4, <1>6, <2>1, <2>2, LearnedOne
        <2>4. ClaimJob(r)'
            BY <1>1, <1>7, <2>1, <2>2, <2>3, DailyNow DEF ClaimJob, DailyPlaces
        <2> QED  BY <1>1, <1>2, <2>4, DailyServed
    <1> QED  BY <1>8, <1>9

LEMMA GrantMoves ==
    ASSUME Routes, DailyInv, NEW r \in Requests, Serves(r, DailyOps, {"daily"}), DailyGrant(r)
    PROVE  DailyInv'
    <1>1. UNCHANGED <<day, dailyConfig, streak>> /\ pc[r] = "dailyGrant"
        BY DEF DailyGrant, Goes, Passes, dailyVars
    <1>2. PICK c, s, d, i, date : /\ c = job[r].config /\ s = job[r].state /\ d = job[r].day
                                  /\ i = job[r].next /\ date = job[r].date
        OBVIOUS
    <1>3. /\ {"config", "state", "day", "date", "next"} \subseteq DOMAIN job[r]
          /\ ConfigOk(c) /\ StateOk(s)
          /\ d \in DOMAIN c.days /\ d <= Cardinality(DatesTo(s.last)) + 1 /\ s.last < day
          /\ date \in 1 .. day /\ s.last < date
          /\ i \in Nat /\ (i > 1 => date \in grantedDates)
        BY <1>1, <1>2, DailyNow DEF ClaimJob, DailyPlaces
    <1>4. c.days[d] \in Nat \ {0} /\ d \in Nat
        BY <1>3 DEF ConfigOk, Rewarding
    <1>7. ASSUME DatesOk', ledger \subseteq ledger'
          PROVE  d <= Cardinality(DatesTo(s.last))' + 1
        <2>1. PICK x : x = s.last
            OBVIOUS
        <2>2. /\ Cardinality(DatesTo(x)) \in Nat /\ Cardinality(DatesTo(x))' \in Nat
              /\ Cardinality(DatesTo(x)) <= Cardinality(DatesTo(x))'
            BY <1>1, <1>7, DailyNow, DatesGrow
        <2> QED  BY <1>3, <1>4, <2>1, <2>2
    <1>5. CASE i <= c.days[d]
        <2>1. /\ ledger' = ledger \cup {reward(date, i)}
              /\ Learns(r, [next |-> i + 1]) /\ pc'[r] = "dailyGrant"
            BY <1>2, <1>5, DailyNow DEF DailyGrant, Posts, Goes
        <2>2. grantedDates' = grantedDates \cup {date}
            <3>1. reward(date, i)[1] = "daily" /\ reward(date, i)[2] = date
                BY DEF reward
            <3> QED  BY <2>1, <3>1 DEF grantedDates
        <2>3. DatesOk'
            BY <1>1, <1>3, <2>2, DailyNow DEF DatesOk
        <2>4. ConfigOk(c)' /\ StateOk(s)'
            BY <1>1, <1>3, <2>1, <2>3, DailyNow, DailyGrows
        <2>5. /\ DOMAIN job'[r] = DOMAIN job[r] \cup {"next"}
              /\ job'[r].config = c /\ job'[r].state = s /\ job'[r].day = d
              /\ job'[r].date = date /\ job'[r].next = i + 1
            BY <1>2, <1>3, <2>1, LearnedOne
        <2>6. ClaimJob(r)'
            BY <1>1, <1>3, <1>7, <2>1, <2>2, <2>3, <2>4, <2>5 DEF ClaimJob, DailyPlaces
        <2> QED  BY <1>1, <2>3, <2>6, DailyServed
    <1>6. CASE ~(i <= c.days[d])
        <2>1. pc'[r] = "dailySave" /\ UNCHANGED <<job, ledger>>
            BY <1>2, <1>6, DailyNow DEF DailyGrant, Passes, Goes
        <2>2. grantedDates' = grantedDates /\ date \in grantedDates
            BY <1>3, <1>4, <1>6, <2>1 DEF grantedDates
        <2>3. DatesOk'
            BY <1>1, <2>2, DailyNow DEF DatesOk
        <2>4. ConfigOk(c)' /\ StateOk(s)'
            BY <1>1, <1>3, <2>1, <2>3, DailyNow, DailyGrows
        <2>5. ClaimJob(r)'
            BY <1>1, <1>2, <1>3, <1>7, <2>1, <2>2, <2>3, <2>4 DEF ClaimJob, DailyPlaces
        <2> QED  BY <1>1, <2>3, <2>5, DailyServed
    <1> QED  BY <1>5, <1>6

LEMMA SaveMoves ==
    ASSUME Routes, DailyInv, NEW r \in Requests, Serves(r, DailyOps, {"daily"}), DailySave(r)
    PROVE  DailyInv'
    <1>1. UNCHANGED <<day, ledger, dailyConfig>> /\ pc[r] = "dailySave" /\ pc'[r] = "done"
        BY DailyNow DEF DailySave, Goes, Passes
    <1>2. PICK s, d, date, t : /\ s = job[r].state /\ d = job[r].day /\ date = job[r].date
                               /\ t = streak
        OBVIOUS
    <1>3. PICK new : new = IF d = LastDay THEN 0 ELSE d
        OBVIOUS
    <1>4. PICK n : n = [t EXCEPT !.current = IF new = s.current THEN @ ELSE new,
                                 !.last = day, !.total = s.total + 1]
        OBVIOUS
    <1>5. streak' = n
        BY <1>2, <1>3, <1>4 DEF DailySave
    <1>6. /\ StateOk(s) /\ d \in 1 .. LastDay /\ s.last < day
          /\ d <= Cardinality(DatesTo(s.last)) + 1
          /\ date \in 1 .. day /\ s.last < date /\ date \in grantedDates
        BY <1>1, <1>2, DailyNow DEF ClaimJob, DailyPlaces, ConfigOk, Rewarding
    <1>7. /\ DOMAIN n = {"version", "current", "last", "total"} /\ n.version = t.version
          /\ n.current = (IF new = s.current THEN t.current ELSE new)
          /\ n.last = day /\ n.total = s.total + 1
        BY <1>2, <1>4, DailyNow DEF StateOk
    <1>8. PICK g, h : g = Cardinality(DatesTo(s.last)) /\ h = Cardinality(DatesTo(day))
        OBVIOUS
    <1>9. g \in Nat /\ h \in Nat /\ g + 1 <= h /\ h = Cardinality(grantedDates)
        <2>1. s.last \in Int /\ day \in Int /\ date <= day
            BY <1>2, <1>6, DailyNow DEF StateOk
        <2> QED  BY <1>6, <1>8, <2>1, DailyNow, DatesCounted
    <1>10. n.current \in 0 .. LastDay /\ n.current <= h
        <2>1. t.current \in 0 .. LastDay /\ t.current <= h /\ d <= g + 1
            BY <1>2, <1>6, <1>8, <1>9, DailyNow DEF StateOk
        <2> QED  BY <1>3, <1>6, <1>7, <1>9, <2>1, CycleAssumption
    <1>11. n.total \in Nat /\ (dailyConfig.version = 1 => n.total <= h)
        <2>1. s.total \in Nat /\ (dailyConfig.version = 1 => s.total <= g)
            BY <1>6, <1>8 DEF StateOk
        <2> QED  BY <1>7, <1>9, <2>1
    <1>12. StateOk(n)
        BY <1>2, <1>7, <1>8, <1>9, <1>10, <1>11, DailyNow DEF StateOk
    <1>13. grantedDates' = grantedDates /\ DatesOk'
        BY <1>1, DailyNow DEF grantedDates, DatesOk
    <1>14. StateOk(n)'
        BY <1>1, <1>12, <1>13 DEF StateOk, DatesTo
    <1>15. StateOk(streak)'
        BY <1>5, <1>14 DEF StateOk
    <1>16. ClaimJob(r)'
        BY <1>1 DEF ClaimJob, DailyPlaces
    <1> QED  BY <1>1, <1>13, <1>15, <1>16, DailyServed

LEMMA ConfigMoves ==
    ASSUME EveryDayGrants, Routes, DailyInv, NEW r \in Requests,
           Serves(r, DailyOps, {"daily"}), UpsertConfig(r)
    PROVE  DailyInv'
    <1>1. UNCHANGED <<day, ledger, streak>> /\ pc'[r] = "done"
          /\ dailyConfig' = [version |-> dailyConfig.version + 1, days |-> call(r).days,
                             active |-> call(r).active]
          /\ call(r).op = "dailyConfig"
        BY DailyNow DEF UpsertConfig, Begins, Passes, Goes
    <1>2. Rewarding(call(r).days)
        BY <1>1 DEF EveryDayGrants, call, Requests, Routes
    <1>3. DOMAIN dailyConfig' = {"version", "days", "active"} /\ ConfigOk(dailyConfig)'
          /\ dailyConfig'.version = dailyConfig.version + 1
        <2>1. PICK d : d = call(r).days
            OBVIOUS
        <2>2. PICK c : c = dailyConfig'
            OBVIOUS
        <2>3. /\ DOMAIN c = {"version", "days", "active"} /\ c.days = d
              /\ c.version = dailyConfig.version + 1
            BY <1>1, <2>1, <2>2
        <2>4. Rewarding(c.days)'
            BY <1>2, <2>1, <2>3 DEF Rewarding
        <2> QED  BY <2>2, <2>3, <2>4, DailyNow DEF ConfigOk, Rewarding
    <1>4. DatesOk'
        BY <1>1, DailyNow DEF grantedDates, DatesOk
    <1>5. ClaimJob(r)'
        BY <1>1 DEF ClaimJob, DailyPlaces
    <1> QED  BY <1>1, <1>3, <1>4, <1>5, DailyServed

LEMMA DailyStep ==
    ASSUME EveryDayGrants, Routes, DailyInv, [Next]_vars
    PROVE  DailyInv'
    <1>1. ASSUME NEW r \in Requests, DailyRewardStep(r), Serves(r, DailyOps, {"daily"})
          PROVE  DailyInv'
        BY <1>1, ReadMoves, WindowMoves, GrantMoves, SaveMoves, ConfigMoves DEF DailyRewardStep
    <1> QED  BY <1>1, DailySteps, DailyRests, RoutesStep

LEMMA DailyEarned ==
    ASSUME Routes, DailyInv
    PROVE  StreakIsEarned
    <1>1. PICK s : s = streak
        OBVIOUS
    <1>2. /\ DatesTo(day) = grantedDates
          /\ Cardinality(DatesTo(s.last)) <= Cardinality(grantedDates)
        <2>1. s.last \in Int /\ day \in Int /\ s.last <= day
            BY <1>1, DailyNow DEF StateOk
        <2>2. DatesTo(day) = grantedDates
            BY DailyNow DEF DatesTo, DatesOk
        <2> QED  BY <2>1, <2>2, DailyNow, DatesCounted
    <1>3. Cardinality(DatesTo(s.last)) \in Nat /\ Cardinality(grantedDates) \in Nat
        BY DailyNow, DatesCounted
    <1> QED  BY <1>1, <1>2, <1>3, DailyNow, CycleAssumption DEF StreakIsEarned, StateOk

\* Daily reward, magic ball and live record: what is earned is paid once, and only when it
\* was earned, for any number of taps, days and nightly jobs, when no day of a daily
\* configuration is left without a reward.
THEOREM EarnedPaidOnce == ASSUME EveryDayGrants PROVE Spec => []EarnedIsPaidOnce
    <1>1. Init => Routes /\ BallInv /\ RecordInv /\ DailyInv
        BY RoutesInit, BallInit, RecordInit, DailyInit
    <1>2. Routes /\ BallInv /\ RecordInv /\ DailyInv /\ [Next]_vars
            => (Routes /\ BallInv /\ RecordInv /\ DailyInv)'
        BY RoutesStep, BallStep, RecordStep, DailyStep
    <1>3. Routes /\ BallInv /\ RecordInv /\ DailyInv => EarnedIsPaidOnce
        BY BallPaidOnce, RecordEarned, DailyEarned DEF EarnedIsPaidOnce
    <1> QED  BY <1>1, <1>2, <1>3, PTL DEF Spec

------------------------------------------------------------------------------
\* The highest of some numbers.

LEMMA MaxIs ==
    ASSUME NEW S, IsFiniteSet(S), S # {}, S \subseteq Int
    PROVE  Max(S) \in S /\ \A y \in S : y <= Max(S)
    <1> DEFINE G == {T \in SUBSET S : T = {} \/ \E m \in T : \A y \in T : m >= y}
    <1>1. {} \in G
        OBVIOUS
    <1>2. ASSUME NEW T \in SUBSET S, NEW x \in S, T \in G, x \notin T
          PROVE  T \cup {x} \in G
        <2>1. CASE T = {}
            BY <2>1
        <2>2. CASE T # {}
            <3>1. PICK m \in T : \A y \in T : m >= y
                BY <1>2, <2>2
            <3>2. CASE m >= x
                BY <3>1, <3>2
            <3>3. CASE x >= m
                <4>1. \A y \in T \cup {x} : x >= y
                    BY <3>1, <3>3
                <4> QED  BY <4>1
            <3> QED  BY <3>2, <3>3
        <2> QED  BY <2>1, <2>2
    <1>3. S \in G
        <2> HIDE DEF G
        <2> QED  BY <1>1, <1>2, SetInduction
    <1> QED  BY <1>3 DEF Max

\* The tier a value qualifies for is none, or one whose target it meets.
LEMMA QualifyingMeets ==
    ASSUME NEW targets \in Seq(Int), NEW v \in Int
    PROVE  LET t == Qualifying(targets, v)
           IN  t # 0 => t \in DOMAIN targets /\ targets[t] <= v
    <1> DEFINE S == {0} \cup {i \in DOMAIN targets : targets[i] > 0 /\ v >= targets[i]}
    <1>1. Len(targets) \in Nat /\ 0 \in Int /\ Len(targets) \in Int
        OBVIOUS
    <1>2. IsFiniteSet(0 .. Len(targets))
        BY <1>1, FS_Interval
    <1>3. S \subseteq 0 .. Len(targets) /\ S # {} /\ S \subseteq Int
        OBVIOUS
    <1>4. IsFiniteSet(S)
        BY <1>2, <1>3, FS_Subset
    <1>5. Qualifying(targets, v) = Max(S)
        BY DEF Qualifying
    <1>6. Max(S) \in S
        <2> HIDE DEF S
        <2> QED  BY <1>3, <1>4, MaxIs
    <1> QED  BY <1>5, <1>6

LEMMA MaxOfTwo ==
    ASSUME NEW a \in Int, NEW b \in Int
    PROVE  Max({a, b}) \in Int /\ a <= Max({a, b}) /\ b <= Max({a, b})
    <1>1. IsFiniteSet({a, b})
        <2>1. IsFiniteSet({a})
            BY FS_Singleton
        <2>2. {a, b} = {a} \cup {b}
            OBVIOUS
        <2> QED  BY <2>1, <2>2, FS_AddElement
    <1>2. {a, b} # {} /\ {a, b} \subseteq Int
        OBVIOUS
    <1>3. Max({a, b}) \in {a, b} /\ \A y \in {a, b} : y <= Max({a, b})
        BY <1>1, <1>2, MaxIs
    <1> QED  BY <1>3

------------------------------------------------------------------------------
\* The medals.

EvalPlaces == {"honorValue", "honorProgress", "honorFind", "honorCreate", "honorSave"}

HonorTypes ==
    /\ metric \in Int /\ peak \in Int /\ metric <= peak /\ 0 <= peak
    /\ DOMAIN catalogOf = DOMAIN Honors
    /\ \A h \in DOMAIN Honors :
          {"active", "tiers"} \subseteq DOMAIN catalogOf[h] /\ catalogOf[h].tiers = Honors[h]

\* A target of a medal that the user has reached.
Reached(h, t, v) == h \in DOMAIN Honors /\ t \in DOMAIN Honors[h] /\ Honors[h][t] <= v

MedalOk(h, row) ==
    /\ DOMAIN row = {"tier", "source", "progress", "slot"}
    /\ row.progress \in Int /\ row.progress <= peak
    /\ row.source = "task" => Reached(h, row.tier, peak)

\* An evaluation: the value was the user's, and the tier is one that the value meets.
EvalJob(r) ==
    /\ call(r).op = "evaluate" /\ "value" \in DOMAIN job[r]
          => job[r].value \in Int /\ job[r].value <= peak
    /\ pc[r] \in EvalPlaces =>
          /\ {"todo", "rules"} \subseteq DOMAIN job[r]
          /\ job[r].todo \in Seq(DOMAIN Honors) /\ job[r].todo # <<>>
          /\ \A i \in DOMAIN job[r].todo : job[r].rules[job[r].todo[i]] = Honors[job[r].todo[i]]
    /\ pc[r] \in EvalPlaces \ {"honorValue"} => "value" \in DOMAIN job[r]
    /\ pc[r] \in {"honorFind", "honorCreate", "honorSave"} =>
          /\ "tier" \in DOMAIN job[r]
          /\ Reached(Head(job[r].todo), job[r].tier, job[r].value)

HonorInv ==
    /\ HonorTypes
    /\ \A h \in DOMAIN medals : MedalOk(h, medals[h])
    /\ \A r \in Requests : EvalJob(r)

LEMMA HonorInit == Init => HonorInv
    BY HonorsAssumption
    DEF Init, ServiceInit, HonorsInit, HonorInv, HonorTypes, EvalJob, EvalPlaces, Requests

LEMMA HonorSteps ==
    ASSUME Routes, [Next]_vars
    PROVE  \/ \E r \in Requests : HonorsStep(r) /\ Serves(r, HonorOps, {})
           \/ \E r \in Requests : Halts(r) /\ UNCHANGED honorVars
           \/ Quiet(HonorOps, {}) /\ UNCHANGED honorVars
    <1>1. ASSUME NEW r, NEW ops \in {PoolOps, HookOps, DailyOps, BallOps, RecordOps, ShopOps},
                 NEW tags, Serves(r, ops, tags)
          PROVE  Quiet(HonorOps, {})
        <2>1. ops \cap HonorOps = {}
            BY DEF PoolOps, HookOps, DailyOps, BallOps, RecordOps, ShopOps, HonorOps
        <2> QED  BY <1>1, <2>1, ServesQuiet
    <1> QED  BY <1>1, StepKinds, QuietMidnight DEF shopVars, vars

LEMMA ReachedGrows ==
    ASSUME NEW h, NEW t, NEW v \in Int, NEW w \in Int, v <= w, Reached(h, t, v)
    PROVE  Reached(h, t, w)
    <1>1. Honors[h][t] \in Int
        BY HonorsAssumption DEF Reached
    <1> QED  BY <1>1 DEF Reached

\* What is known before a step of r.
LEMMA HonorNow ==
    ASSUME Routes, HonorInv
    PROVE  /\ HonorTypes /\ metric \in Int /\ peak \in Int /\ metric <= peak /\ 0 <= peak
           /\ DOMAIN job = Requests /\ DOMAIN pc = Requests
           /\ \A r \in Requests : Routed(r, pc[r]) /\ EvalJob(r)
           /\ \A h \in DOMAIN medals : MedalOk(h, medals[h])
    BY DEF Routes, HonorInv, HonorTypes

\* A higher peak leaves medals and evaluations good.
LEMMA HonorGrows ==
    ASSUME Routes, HonorInv, load' = load, peak' \in Int, peak <= peak'
    PROVE  /\ \A h, row : MedalOk(h, row) => MedalOk(h, row)'
           /\ \A s \in Requests :
                \/ pc'[s] = pc[s] /\ job'[s] = job[s]
                \/ pc'[s] = "stopped" /\ job'[s] = Override(job[s], [at |-> pc[s]])
                => EvalJob(s)'
    <1>1. peak \in Int
        BY HonorNow
    <1>2. ASSUME NEW h, NEW row, MedalOk(h, row)
          PROVE  MedalOk(h, row)'
        <2>1. row.source = "task" => Reached(h, row.tier, peak')
            BY <1>1, <1>2, ReachedGrows DEF MedalOk
        <2>2. row.progress <= peak'
            BY <1>1, <1>2 DEF MedalOk
        <2> QED  BY <1>2, <2>1, <2>2 DEF MedalOk, Reached
    <1>3. ASSUME NEW s \in Requests, pc'[s] = pc[s], job'[s] = job[s]
          PROVE  EvalJob(s)'
        <2>1. EvalJob(s) /\ call(s)' = call(s)
            BY HonorNow DEF call
        <2>2. call(s).op = "evaluate" /\ "value" \in DOMAIN job'[s]
                => job'[s].value \in Int /\ job'[s].value <= peak'
            BY <1>1, <1>3, <2>1 DEF EvalJob
        <2> QED  BY <1>3, <2>1, <2>2 DEF EvalJob, EvalPlaces, Reached
    <1>4. ASSUME NEW s \in Requests, pc'[s] = "stopped",
                 job'[s] = Override(job[s], [at |-> pc[s]])
          PROVE  EvalJob(s)'
        <2>1. EvalJob(s) /\ call(s)' = call(s)
            BY HonorNow DEF call
        <2>2. "value" \in DOMAIN job'[s] =>
                  "value" \in DOMAIN job[s] /\ job'[s].value = job[s].value
            BY <1>4 DEF Override
        <2>3. call(s).op = "evaluate" /\ "value" \in DOMAIN job'[s]
                => job'[s].value \in Int /\ job'[s].value <= peak'
            BY <1>1, <2>1, <2>2 DEF EvalJob
        <2> QED  BY <1>4, <2>1, <2>3 DEF EvalJob, EvalPlaces
    <1> QED  BY <1>2, <1>3, <1>4

\* The step of r, when it and the rows it writes are as they should be.
LEMMA HonorServed ==
    ASSUME Routes, HonorInv, NEW r \in Requests, Serves(r, HonorOps, {}),
           HonorTypes', peak <= peak', EvalJob(r)',
           \A h \in DOMAIN medals' :
                (h \in DOMAIN medals /\ medals'[h] = medals[h]) \/ MedalOk(h, medals[h])'
    PROVE  HonorInv'
    <1>1. load' = load /\ Requests' = Requests /\ peak' \in Int
          /\ \A s \in Requests : s # r => pc'[s] = pc[s] /\ job'[s] = job[s]
        BY DEF Serves, Requests, HonorTypes
    <1>2. /\ \A h, row : MedalOk(h, row) => MedalOk(h, row)'
          /\ \A s \in Requests : pc'[s] = pc[s] /\ job'[s] = job[s] => EvalJob(s)'
        BY <1>1, HonorGrows
    <1>3. \A s \in Requests : EvalJob(s)'
        BY <1>1, <1>2
    <1>4. \A h \in DOMAIN medals' : MedalOk(h, medals[h])'
        <2>1. ASSUME NEW h \in DOMAIN medals, NEW row, row = medals[h], medals'[h] = medals[h]
              PROVE  MedalOk(h, medals[h])'
            <3>1. MedalOk(h, row)'
                BY <1>2, <2>1, HonorNow
            <3> QED  BY <2>1, <3>1 DEF MedalOk
        <2> QED  BY <2>1
    <1> QED  BY <1>1, <1>3, <1>4 DEF HonorInv

LEMMA HonorRests ==
    ASSUME Routes, HonorInv, UNCHANGED honorVars, Routes',
           \/ \E r \in Requests : Halts(r)
           \/ Quiet(HonorOps, {})
    PROVE  HonorInv'
    <1>1. load' = load /\ Requests' = Requests /\ \A r \in Requests : call(r)' = call(r)
        BY DEF Halts, Quiet, Requests, call
    <1>2. HonorTypes' /\ peak' \in Int /\ peak <= peak' /\ medals' = medals
        BY HonorNow DEF honorVars, HonorTypes
    <1>3. /\ \A h, row : MedalOk(h, row) => MedalOk(h, row)'
          /\ \A s \in Requests :
                \/ pc'[s] = pc[s] /\ job'[s] = job[s]
                \/ pc'[s] = "stopped" /\ job'[s] = Override(job[s], [at |-> pc[s]])
                => EvalJob(s)'
        BY <1>1, <1>2, HonorGrows
    <1>4. ASSUME NEW s \in Requests
          PROVE  EvalJob(s)'
        <2>1. CASE \/ pc'[s] = pc[s] /\ job'[s] = job[s]
                   \/ pc'[s] = "stopped" /\ job'[s] = Override(job[s], [at |-> pc[s]])
            BY <1>3, <2>1
        <2>2. CASE call(s).op \notin HonorOps
            <3>1. Routed(s, pc[s])'
                BY <1>1 DEF Routes
            <3> QED  BY <1>1, <2>2, <3>1 DEF Routed, HonorOps, EvalJob, EvalPlaces
        <2> QED  BY <2>1, <2>2 DEF Halts, Quiet
    <1>5. \A h \in DOMAIN medals : MedalOk(h, medals[h])'
        <2>1. ASSUME NEW h \in DOMAIN medals, NEW row, row = medals[h]
              PROVE  MedalOk(h, medals[h])'
            <3>1. MedalOk(h, row)'
                BY <1>3, <2>1, HonorNow
            <3> QED  BY <1>2, <2>1, <3>1 DEF MedalOk
        <2> QED  BY <2>1
    <1> QED  BY <1>1, <1>2, <1>4, <1>5 DEF HonorInv

\* The calls that are no evaluation.
LEMMA NoEvaluation ==
    ASSUME Routes, NEW r \in Requests, Serves(r, HonorOps, {}), call(r).op # "evaluate"
    PROVE  EvalJob(r)'
    <1>1. call(r)' = call(r) /\ Routed(r, pc'[r])
        BY DEF Serves, call
    <1> QED  BY <1>1 DEF EvalJob, Routed, EvalPlaces

LEMMA WallMoves ==
    ASSUME TargetsStay, Routes, HonorInv, NEW r \in Requests, Serves(r, HonorOps, {}),
           \/ ChangeMetric(r) \/ GrantRead(r) \/ GrantUpsert(r) \/ Revoke(r) \/ UpdateHonor(r)
           \/ WearFind(r) \/ WearVacate(r) \/ WearSave(r)
    PROVE  HonorInv'
    <1>1. call(r).op # "evaluate"
        BY HonorNow DEF ChangeMetric, GrantRead, GrantUpsert, Revoke, UpdateHonor, WearFind,
                        WearVacate, WearSave, Begins, Routed
    <1>2. EvalJob(r)'
        BY <1>1, NoEvaluation
    <1>3. CASE ChangeMetric(r)
        <2>1. PICK v : v = call(r).value
            OBVIOUS
        <2>2. v \in Int
            BY <1>3, <2>1, MetricAssumption DEF ChangeMetric, Begins, Routes, Requests, call
        <2>3. metric' = v /\ peak' = Max({peak, v}) /\ catalogOf' = catalogOf /\ medals' = medals
            BY <1>3, <2>1 DEF ChangeMetric
        <2>4. peak' \in Int /\ peak <= peak' /\ v <= peak'
            BY <2>2, <2>3, MaxOfTwo, HonorNow
        <2>5. 0 <= peak'
            BY <2>4, HonorNow
        <2>6. HonorTypes'
            BY <2>2, <2>3, <2>4, <2>5, HonorNow DEF HonorTypes
        <2> QED  BY <1>2, <2>3, <2>4, <2>6, HonorServed
    <1>4. CASE GrantRead(r) \/ WearFind(r)
        <2>1. UNCHANGED honorVars
            BY <1>4 DEF GrantRead, WearFind
        <2>2. HonorTypes' /\ peak <= peak' /\ medals' = medals
            BY <2>1, HonorNow DEF HonorTypes, honorVars
        <2> QED  BY <1>2, <2>2, HonorServed
    <1>5. CASE UpdateHonor(r)
        <2>1. PICK h, f : h = call(r).honor /\ f = call(r).fields
            OBVIOUS
        <2>2. "tiers" \notin DOMAIN f
            BY <1>5, <2>1 DEF UpdateHonor, Begins, TargetsStay, Routes, Requests, call
        <2>3. /\ catalogOf' = [catalogOf EXCEPT ![h] = Override(@, f)]
              /\ UNCHANGED <<medals, metric, peak>>
            BY <1>5, <2>1 DEF UpdateHonor
        <2>4. \A c : {"active", "tiers"} \subseteq DOMAIN c =>
                  /\ {"active", "tiers"} \subseteq DOMAIN Override(c, f)
                  /\ Override(c, f).tiers = c.tiers
            BY <2>2 DEF Override
        <2>5. HonorTypes'
            BY <2>3, <2>4, HonorNow DEF HonorTypes
        <2> QED  BY <1>2, <2>3, <2>5, HonorNow, HonorServed
    <1>6. CASE GrantUpsert(r) \/ Revoke(r) \/ WearVacate(r) \/ WearSave(r)
        <2>1. UNCHANGED <<catalogOf, metric, peak>>
            BY <1>6 DEF GrantUpsert, Revoke, WearVacate, WearSave
        <2>2. HonorTypes' /\ peak <= peak'
            BY <2>1, HonorNow DEF HonorTypes
        <2>3. \A h, row : MedalOk(h, row)' <=> MedalOk(h, row)
            BY <2>1 DEF MedalOk, Reached
        <2>4. ASSUME NEW h, NEW row, h \in DOMAIN medals', row = medals'[h]
              PROVE  MedalOk(h, row)
            <3>1. CASE GrantUpsert(r)
                <4>1. PICK g, t : g = call(r).honor /\ t = job[r].tier
                    OBVIOUS
                <4>2. PICK old : old = IF g \in DOMAIN medals THEN medals[g]
                                       ELSE [progress |-> 0, slot |-> -1]
                    OBVIOUS
                <4>3. PICK new : new = Override(old, [tier |-> t, source |-> "admin"])
                    OBVIOUS
                <4>4. medals' = Put(medals, g, new)
                    BY <3>1, <4>1, <4>2, <4>3 DEF GrantUpsert
                <4>5. /\ {"progress", "slot"} \subseteq DOMAIN old
                      /\ DOMAIN old \subseteq {"tier", "source", "progress", "slot"}
                      /\ old.progress \in Int /\ old.progress <= peak
                    BY <4>2, HonorNow DEF MedalOk
                <4>6. MedalOk(g, new)
                    BY <4>3, <4>5 DEF MedalOk, Override
                <4> QED  BY <2>4, <4>4, <4>6, HonorNow DEF Put
            <3>2. CASE Revoke(r)
                BY <2>4, <3>2, HonorNow DEF Revoke, Restrict
            <3>3. CASE WearVacate(r)
                BY <2>4, <3>3, HonorNow DEF WearVacate, MedalOk
            <3>4. CASE WearSave(r)
                BY <2>4, <3>4, HonorNow DEF WearSave, MedalOk
            <3> QED  BY <1>6, <3>1, <3>2, <3>3, <3>4
        <2>5. \A h \in DOMAIN medals' : MedalOk(h, medals[h])'
            <3>1. ASSUME NEW h \in DOMAIN medals', NEW row, row = medals'[h]
                  PROVE  MedalOk(h, medals[h])'
                <4>1. MedalOk(h, row)'
                    BY <2>3, <2>4, <3>1
                <4> QED  BY <3>1, <4>1 DEF MedalOk
            <3> QED  BY <3>1
        <2> QED  BY <1>2, <2>2, <2>5, HonorServed
    <1> QED  BY <1>3, <1>4, <1>5, <1>6

LEMMA TailIs ==
    ASSUME NEW S, NEW s \in Seq(S), s # <<>>
    PROVE  /\ Tail(s) \in Seq(S) /\ Len(Tail(s)) = Len(s) - 1
           /\ DOMAIN s = 1 .. Len(s) /\ DOMAIN Tail(s) = 1 .. (Len(s) - 1)
           /\ \A i \in 1 .. (Len(s) - 1) : Tail(s)[i] = s[i + 1]
    OBVIOUS

\* The rest of an evaluation after a medal.
LEMMA NextEval ==
    ASSUME Routes, HonorInv, NEW r \in Requests, pc[r] \in EvalPlaces \ {"honorValue"},
           NextHonor(r), peak' = peak, load' = load
    PROVE  EvalJob(r)'
    <1>1. PICK todo, rules, v : todo = job[r].todo /\ rules = job[r].rules /\ v = job[r].value
        OBVIOUS
    <1>2. /\ {"todo", "rules", "value"} \subseteq DOMAIN job[r]
          /\ todo \in Seq(DOMAIN Honors) /\ todo # <<>>
          /\ \A i \in DOMAIN todo : rules[todo[i]] = Honors[todo[i]]
          /\ call(r).op = "evaluate"
        BY <1>1, HonorNow DEF EvalJob, EvalPlaces, Routed
    <1>3. v \in Int /\ v <= peak
        BY <1>1, <1>2, HonorNow DEF EvalJob
    <1>4. PICK rest : rest = Tail(todo)
        OBVIOUS
    <1>5. /\ Learns(r, [todo |-> rest])
          /\ pc'[r] \in {"honorValue", "done"}
          /\ pc'[r] = "honorValue" => Len(todo) > 1
        BY <1>1, <1>4, HonorNow DEF NextHonor, Goes
    <1>6. /\ {"todo", "rules", "value"} \subseteq DOMAIN job'[r]
          /\ job'[r].todo = rest /\ job'[r].rules = rules /\ job'[r].value = v
        BY <1>1, <1>2, <1>5, LearnedOne
    <1>7. /\ rest \in Seq(DOMAIN Honors) /\ (Len(todo) > 1 => rest # <<>>)
          /\ \A i \in DOMAIN rest : i + 1 \in DOMAIN todo /\ rest[i] = todo[i + 1]
        <2>1. /\ rest \in Seq(DOMAIN Honors) /\ Len(rest) = Len(todo) - 1
              /\ DOMAIN todo = 1 .. Len(todo) /\ DOMAIN rest = 1 .. (Len(todo) - 1)
              /\ \A i \in 1 .. (Len(todo) - 1) : rest[i] = todo[i + 1]
            BY <1>2, <1>4, TailIs
        <2>2. Len(todo) \in Nat
            BY <1>2
        <2> QED  BY <2>1, <2>2
    <1>8. \A i \in DOMAIN rest : rules[rest[i]] = Honors[rest[i]]
        BY <1>2, <1>7
    <1> QED  BY <1>3, <1>5, <1>6, <1>7, <1>8 DEF EvalJob, EvalPlaces

\* What an evaluation knows.
LEMMA EvalNow ==
    ASSUME Routes, HonorInv, NEW r \in Requests, pc[r] \in EvalPlaces
    PROVE  /\ {"todo", "rules"} \subseteq DOMAIN job[r]
           /\ thisHonor(r) \in DOMAIN Honors
           /\ job[r].rules[thisHonor(r)] = Honors[thisHonor(r)]
           /\ call(r).op = "evaluate"
           /\ "value" \in DOMAIN job[r] => job[r].value \in Int /\ job[r].value <= peak
           /\ pc[r] # "honorValue" => "value" \in DOMAIN job[r]
    <1>1. EvalJob(r) /\ Routed(r, pc[r])
        BY HonorNow
    <1>2. PICK todo : todo = job[r].todo
        OBVIOUS
    <1>3. todo \in Seq(DOMAIN Honors) /\ todo # <<>>
          /\ \A i \in DOMAIN todo : job[r].rules[todo[i]] = Honors[todo[i]]
        BY <1>1, <1>2 DEF EvalJob
    <1>4. 1 \in DOMAIN todo /\ Head(todo) = todo[1] /\ todo[1] \in DOMAIN Honors
        BY <1>3
    <1> QED  BY <1>1, <1>2, <1>3, <1>4 DEF EvalJob, EvalPlaces, Routed, thisHonor

LEMMA EvalMoves ==
    ASSUME Routes, HonorInv, NEW r \in Requests, Serves(r, HonorOps, {}),
           \/ EvaluateCatalog(r) \/ EvaluateValue(r) \/ EvaluateProgress(r)
           \/ EvaluateFind(r) \/ EvaluateCreate(r) \/ EvaluateSave(r)
    PROVE  HonorInv'
    <1>1. UNCHANGED <<load, catalogOf, metric, peak>> /\ call(r)' = call(r)
        BY DEF EvaluateCatalog, EvaluateValue, EvaluateProgress, EvaluateFind, EvaluateCreate,
               EvaluateSave, honorVars, NextHonor, Goes, Passes, call
    <1>2. HonorTypes' /\ peak <= peak'
        BY <1>1, HonorNow DEF HonorTypes
    <1>3. \A h, row : MedalOk(h, row)' <=> MedalOk(h, row)
        BY <1>1 DEF MedalOk, Reached
    <1>4. ASSUME EvalJob(r)',
                 \A h \in DOMAIN medals' :
                    (h \in DOMAIN medals /\ medals'[h] = medals[h])
                        \/ \E row : row = medals'[h] /\ MedalOk(h, row)
          PROVE  HonorInv'
        <2>1. ASSUME NEW h \in DOMAIN medals', NEW row, row = medals'[h], MedalOk(h, row)
              PROVE  MedalOk(h, medals[h])'
            <3>1. MedalOk(h, row)'
                BY <1>3, <2>1
            <3> QED  BY <2>1, <3>1 DEF MedalOk
        <2>2. \A h \in DOMAIN medals' :
                 (h \in DOMAIN medals /\ medals'[h] = medals[h]) \/ MedalOk(h, medals[h])'
            BY <1>4, <2>1
        <2> QED  BY <1>2, <1>4, <2>2, HonorServed
    <1>5. CASE EvaluateCatalog(r)
        <2> DEFINE active == {h \in DOMAIN Honors : catalogOf[h].active
                                                        /\ catalogOf[h].tiers # <<>>}
        <2>1. PICK todo \in SetToSeqs(active) :
                /\ Learns(r, [todo |-> todo, rules |-> [h \in active |-> catalogOf[h].tiers]])
                /\ Goes(r, IF todo = <<>> THEN "done" ELSE "honorValue")
            BY <1>5 DEF EvaluateCatalog
        <2>2. PICK rules : rules = [h \in active |-> catalogOf[h].tiers]
            OBVIOUS
        <2>3. Cardinality(active) \in Nat
            BY HonorsAssumption, FS_Subset, FS_CardinalityType
        <2>4. todo \in [1 .. Cardinality(active) -> active]
            BY DEF SetToSeqs
        <2>5. todo \in Seq(active)
            <3> HIDE DEF active
            <3> QED  BY <2>3, <2>4
        <2>6. todo \in Seq(DOMAIN Honors)
            BY <2>5
        <2>7. \A i \in DOMAIN todo : rules[todo[i]] = Honors[todo[i]]
            BY <2>2, <2>4, HonorNow DEF HonorTypes
        <2>8. /\ {"todo", "rules"} \subseteq DOMAIN job'[r]
              /\ job'[r].todo = todo /\ job'[r].rules = rules
              /\ \A x \in DOMAIN job[r] \ {"todo", "rules"} : job'[r][x] = job[r][x]
              /\ DOMAIN job'[r] = DOMAIN job[r] \cup {"todo", "rules"}
            <3>1. Learns(r, [todo |-> todo, rules |-> rules])
                BY <2>1, <2>2
            <3> HIDE DEF active
            <3> QED  BY <3>1, LearnedOne
        <2>9. call(r).op = "evaluate" /\ UNCHANGED medals
            BY <1>5 DEF EvaluateCatalog, Begins, honorVars
        <2>10. "value" \in DOMAIN job'[r] => job'[r].value \in Int /\ job'[r].value <= peak
            BY <2>8, <2>9, HonorNow DEF EvalJob
        <2>11. pc'[r] = "done" \/ (pc'[r] = "honorValue" /\ todo # <<>>)
            BY <2>1, HonorNow DEF Goes
        <2>12. EvalJob(r)'
            <3> HIDE DEF active
            <3> QED  BY <1>1, <2>6, <2>7, <2>8, <2>10, <2>11 DEF EvalJob, EvalPlaces
        <2> QED  BY <1>4, <2>9, <2>12
    <1>6. CASE EvaluateValue(r)
        <2>1. PICK v : v = IF "value" \in DOMAIN job[r] THEN job[r].value ELSE metric
            OBVIOUS
        <2>2. PICK h : h = thisHonor(r)
            OBVIOUS
        <2>3. PICK t : t = Qualifying(Honors[h], v)
            OBVIOUS
        <2>4. pc[r] = "honorValue" /\ UNCHANGED medals
            BY <1>6 DEF EvaluateValue, honorVars
        <2>5. /\ {"todo", "rules"} \subseteq DOMAIN job[r] /\ h \in DOMAIN Honors
              /\ job[r].rules[h] = Honors[h] /\ v \in Int /\ v <= peak
            BY <2>1, <2>2, <2>4, EvalNow, HonorNow DEF EvalPlaces
        <2>6. /\ Learns(r, [value |-> v, tier |-> t])
              /\ pc'[r] \in {"honorProgress", "honorFind"}
              /\ pc'[r] = "honorFind" => t # 0
            BY <1>6, <2>1, <2>2, <2>3, <2>5, HonorNow DEF EvaluateValue, Goes
        <2>7. t # 0 => Reached(h, t, v)
            BY <2>3, <2>5, HonorsAssumption, QualifyingMeets DEF Reached
        <2>8. /\ {"todo", "rules", "value", "tier"} \subseteq DOMAIN job'[r]
              /\ job'[r].todo = job[r].todo /\ job'[r].rules = job[r].rules
              /\ job'[r].value = v /\ job'[r].tier = t
            BY <2>5, <2>6, LearnedOne
        <2>9. /\ job[r].todo \in Seq(DOMAIN Honors) /\ job[r].todo # <<>>
              /\ \A i \in DOMAIN job[r].todo :
                    job[r].rules[job[r].todo[i]] = Honors[job[r].todo[i]]
            BY <2>4, HonorNow DEF EvalJob, EvalPlaces
        <2>10. EvalJob(r)'
            BY <1>1, <2>2, <2>5, <2>6, <2>7, <2>8, <2>9
            DEF EvalJob, EvalPlaces, thisHonor, Reached
        <2> QED  BY <1>4, <2>4, <2>10
    <1>7. CASE EvaluateProgress(r)
        <2>1. PICK v, g : v = job[r].value /\ g = thisHonor(r)
            OBVIOUS
        <2>2. pc[r] = "honorProgress" /\ NextHonor(r)
              /\ medals' = IF g \in DOMAIN medals THEN [medals EXCEPT ![g].progress = v]
                           ELSE medals
            BY <1>7, <2>1 DEF EvaluateProgress
        <2>3. v \in Int /\ v <= peak /\ EvalJob(r)'
            BY <1>1, <2>1, <2>2, EvalNow, NextEval DEF EvalPlaces
        <2>4. \A h \in DOMAIN medals' : MedalOk(h, medals'[h])
            BY <2>2, <2>3, HonorNow DEF MedalOk
        <2> QED  BY <1>4, <2>3, <2>4
    <1>8. CASE EvaluateFind(r)
        <2>1. pc[r] = "honorFind" /\ UNCHANGED medals /\ \E w : Learns(r, [was |-> w])
              /\ pc'[r] \in {"honorCreate", "honorSave"}
            BY <1>8, HonorNow DEF EvaluateFind, honorVars, Goes
        <2>2. /\ \A x \in DOMAIN job[r] \ {"was"} : x \in DOMAIN job'[r] /\ job'[r][x] = job[r][x]
            BY <2>1, LearnedOne
        <2>3. /\ {"todo", "rules", "value", "tier"} \subseteq DOMAIN job[r]
              /\ job[r].todo \in Seq(DOMAIN Honors) /\ job[r].todo # <<>>
              /\ \A i \in DOMAIN job[r].todo :
                    job[r].rules[job[r].todo[i]] = Honors[job[r].todo[i]]
              /\ Reached(Head(job[r].todo), job[r].tier, job[r].value)
              /\ job[r].value \in Int /\ job[r].value <= peak
            BY <2>1, EvalNow, HonorNow DEF EvalJob, EvalPlaces
        <2>4. /\ {"todo", "rules", "value", "tier"} \subseteq DOMAIN job'[r]
              /\ job'[r].todo = job[r].todo /\ job'[r].rules = job[r].rules
              /\ job'[r].value = job[r].value /\ job'[r].tier = job[r].tier
            BY <2>2, <2>3
        <2>5. EvalJob(r)'
            BY <1>1, <2>1, <2>3, <2>4 DEF EvalJob, EvalPlaces, Reached
        <2> QED  BY <1>4, <2>1, <2>5
    <1>9. CASE EvaluateCreate(r) \/ EvaluateSave(r)
        <2>1. PICK v, g, t : v = job[r].value /\ g = thisHonor(r) /\ t = job[r].tier
            OBVIOUS
        <2>2. pc[r] \in {"honorCreate", "honorSave"}
            BY <1>9 DEF EvaluateCreate, EvaluateSave
        <2>3. /\ v \in Int /\ v <= peak /\ Reached(g, t, v)
              /\ \/ NextHonor(r)
                 \/ pc'[r] = "failed" /\ job' = job
            BY <1>9, <2>1, <2>2, EvalNow, HonorNow
            DEF EvaluateCreate, EvaluateSave, Passes, Goes, EvalJob, EvalPlaces, thisHonor
        <2>4. EvalJob(r)'
            <3>1. CASE NextHonor(r)
                BY <1>1, <2>2, <3>1, NextEval DEF EvalPlaces
            <3>2. CASE pc'[r] = "failed" /\ job' = job
                BY <1>1, <3>2, HonorNow DEF EvalJob, EvalPlaces
            <3> QED  BY <2>3, <3>1, <3>2
        <2>5. Reached(g, t, peak)
            BY <2>3, HonorNow, ReachedGrows
        <2>6. CASE EvaluateCreate(r)
            <3>1. PICK row : row = [tier |-> t, source |-> "task", progress |-> v, slot |-> -1]
                OBVIOUS
            <3>2. MedalOk(g, row)
                BY <2>3, <2>5, <3>1 DEF MedalOk
            <3>3. medals' = medals \/ medals' = Put(medals, g, row)
                BY <2>1, <2>6, <3>1 DEF EvaluateCreate
            <3>4. \A h \in DOMAIN medals' : MedalOk(h, medals'[h])
                BY <3>2, <3>3, HonorNow DEF Put
            <3> QED  BY <1>4, <2>4, <3>4
        <2>7. CASE EvaluateSave(r)
            <3>1. PICK moved : moved = [medals[g] EXCEPT !.progress = v]
                OBVIOUS
            <3>2. PICK up : up = [moved EXCEPT !.tier = t, !.source = "task"]
                OBVIOUS
            <3>3. \/ medals' = medals
                  \/ g \in DOMAIN medals /\ medals' \in {[medals EXCEPT ![g] = up],
                                                         [medals EXCEPT ![g] = moved]}
                BY <2>1, <2>7, <3>1, <3>2 DEF EvaluateSave
            <3>4. g \in DOMAIN medals => MedalOk(g, moved)
                BY <2>3, <3>1, HonorNow DEF MedalOk
            <3>5. g \in DOMAIN medals => MedalOk(g, up)
                BY <2>5, <3>2, <3>4 DEF MedalOk
            <3>6. \A h \in DOMAIN medals' : MedalOk(h, medals'[h])
                BY <3>3, <3>4, <3>5, HonorNow
            <3> QED  BY <1>4, <2>4, <3>6
        <2> QED  BY <1>9, <2>6, <2>7
    <1> QED  BY <1>5, <1>6, <1>7, <1>8, <1>9

LEMMA HonorStep ==
    ASSUME TargetsStay, Routes, HonorInv, [Next]_vars
    PROVE  HonorInv'
    <1>1. ASSUME NEW r \in Requests, HonorsStep(r), Serves(r, HonorOps, {})
          PROVE  HonorInv'
        BY <1>1, WallMoves, EvalMoves DEF HonorsStep
    <1> QED  BY <1>1, HonorSteps, HonorRests, RoutesStep

\* Honors: with any number of evaluations, grants and revocations in any order, a medal the
\* rules gave has a tier whose target the user has reached, and no progress was recorded
\* that the user never had, as long as nobody replaces the targets.
THEOREM HonorsAlwaysEarned == ASSUME TargetsStay PROVE Spec => []HonorsAreEarned
    <1>1. Init => Routes /\ HonorInv
        BY RoutesInit, HonorInit
    <1>2. Routes /\ HonorInv /\ [Next]_vars => (Routes /\ HonorInv)'
        BY RoutesStep, HonorStep
    <1>3. Routes /\ HonorInv => HonorsAreEarned
        BY DEF HonorInv, HonorsAreEarned, MedalOk, Reached
    <1> QED  BY <1>1, <1>2, <1>3, PTL DEF Spec

------------------------------------------------------------------------------
\* A patient user: at most one request is under way.

Active(r) == pc[r] \notin Over \cup {"idle"}

OneActive == \A r, s \in Requests : Active(r) /\ Active(s) => r = s

Patience == load.patient => OneActive

\* A service moves a request that is under way or begins; a webhook that was given up
\* waits to be sent again.
Takes(r) == Active(r) \/ \E op : Begins(r, op)

LEMMA PoolTakes ==
    ASSUME NEW r, ResellersStep(r)  PROVE Takes(r)
    BY DEF ResellersStep, TopupFind, TopupRead, TopupInc, TopupLedger, TopupReverse, AssignFind,
           AssignRead, AssignTransfer, UpdateStatus, UpdateLimit, Takes, Active, Over

LEMMA HookTakes ==
    ASSUME Routes, NEW r \in Requests, RevenueCatStep(r)  PROVE Takes(r) \/ ~Active(r)'
    BY DEF RevenueCatStep, WebhookStep, WebhookFind, WebhookBase, WebhookBonus, Redeliver,
           UpdatePackage, Takes, Active, Over, Passes, Goes, Routes

LEMMA DailyTakes ==
    ASSUME NEW r, DailyRewardStep(r)  PROVE Takes(r)
    BY DEF DailyRewardStep, DailyConfigRead, DailyStateRead, DailyReset, DailyWindow, DailyDate,
           DailyGrant, DailySave, UpsertConfig, Takes, Active, Over

LEMMA BallTakes ==
    ASSUME NEW r, MagicBallStep(r)  PROVE Takes(r)
    BY DEF MagicBallStep, IncrementProgress, ClaimTask, ClaimCheck, ClaimPush, ClaimCredit,
           UpdateTask, DeleteTask, Takes, Active, Over

LEMMA RecordTakes ==
    ASSUME NEW r, LiveRecordStep(r)  PROVE Takes(r)
    BY DEF LiveRecordStep, EndSession, InsertSession, Aggregate, FindDayRow, CreditDay,
           WriteDayRow, ClaimMonthFind, ClaimMonthCount, ClaimMonthBonus, ClaimMonthWrite,
           Takes, Active, Over

LEMMA CosmeticsTake ==
    ASSUME NEW r, CosmeticsStep(r)  PROVE Takes(r)
    BY DEF CosmeticsStep, GrantFind, GrantExtend, GrantCreate, EquipFind, EquipPeers, EquipSave,
           UnequipFind, UnequipSave, SvipOwned, SvipPeers, SvipWinners, UnequipSvip, UpdateItem,
           Takes, Active, Over

LEMMA StoreTakes ==
    ASSUME NEW r, StoreStep(r)  PROVE Takes(r)
    BY DEF StoreStep, BuyListing, BuyItem, BuyDebit, UpdateListing, Buys, Takes, Active, Over

LEMMA SvipTakes ==
    ASSUME NEW r, SvipStep(r)  PROVE Takes(r)
    BY DEF SvipStep, TierFind, TierStatus, TierDebit, TierSave, TierItems, ActivateFind,
           ActivateSave, DeactivateFind, DeactivateSave, UpdateTier, Takes, Active, Over

LEMMA HonorsTake ==
    ASSUME NEW r, HonorsStep(r)  PROVE Takes(r)
    BY DEF HonorsStep, ChangeMetric, EvaluateCatalog, EvaluateValue, EvaluateProgress,
           EvaluateFind, EvaluateCreate, EvaluateSave, GrantRead, GrantUpsert, Revoke,
           UpdateHonor, WearFind, WearVacate, WearSave, Takes, Active, Over

\* Who takes a step finds nobody else under way.
LEMMA TakesAlone ==
    ASSUME Patience, load.patient, NEW r \in Requests, Takes(r), NEW s \in Requests, Active(s)
    PROVE  s = r
    BY DEF Patience, OneActive, Takes, Begins, Active

LEMMA PatienceInit == Init => Patience
    BY DEF Init, ServiceInit, Patience, OneActive, Active, Requests

LEMMA PatienceStep ==
    ASSUME Routes, Patience, [Next]_vars
    PROVE  Patience'
    <1> SUFFICES ASSUME load'.patient  PROVE OneActive'
        BY DEF Patience
    <1>1. ASSUME NEW r \in Requests, NEW ops, NEW tags, Serves(r, ops, tags),
                 Takes(r) \/ ~Active(r)'
          PROVE  OneActive'
        <2>1. load' = load /\ Requests' = Requests
              /\ \A s \in Requests : s # r => (Active(s)' <=> Active(s))
            BY <1>1 DEF Serves, Requests, Active
        <2>2. ASSUME NEW s \in Requests, NEW t \in Requests, Active(s)', Active(t)'
              PROVE  s = t
            <3>1. CASE s = r \/ t = r
                BY <1>1, <2>1, <2>2, <3>1, TakesAlone
            <3>2. CASE s # r /\ t # r
                BY <2>1, <2>2, <3>2 DEF Patience, OneActive
            <3> QED  BY <3>1, <3>2
        <2> QED  BY <2>1, <2>2 DEF OneActive
    <1>2. ASSUME NEW r \in Requests, Halts(r)
          PROVE  OneActive'
        <2>1. load' = load /\ Requests' = Requests
              /\ \A s \in Requests : Active(s)' => Active(s)
            BY <1>2 DEF Halts, Requests, Active, Over
        <2> QED  BY <2>1 DEF Patience, OneActive
    <1>3. CASE Midnight \/ UNCHANGED vars
        <2>1. load' = load /\ Requests' = Requests /\ pc' = pc
            BY <1>3 DEF Midnight, vars, serviceVars, Requests
        <2> QED  BY <2>1 DEF Patience, OneActive, Active
    <1> QED
        BY <1>1, <1>2, <1>3, StepKinds, PoolTakes, HookTakes, DailyTakes, BallTakes, RecordTakes,
           CosmeticsTake, StoreTakes, SvipTakes, HonorsTake DEF Shops

------------------------------------------------------------------------------
\* One medal in a slot.

SlotsApart ==
    \A g, h \in DOMAIN medals :
        medals[g].slot = medals[h].slot /\ medals[g].slot # -1 => g = h

\* The slot is free when the medal is put there.
WearReady ==
    \A r \in Requests : pc[r] = "wearSave" /\ call(r).op = "wear" =>
        \A h \in DOMAIN medals : medals[h].slot = call(r).slot => call(r).slot = -1

RowsHaveSlot == \A h \in DOMAIN medals : "slot" \in DOMAIN medals[h]

WallInv == RowsHaveSlot /\ (load.patient => SlotsApart /\ WearReady)

LEMMA WallInit == Init => WallInv
    BY DEF Init, ServiceInit, HonorsInit, WallInv, RowsHaveSlot, SlotsApart, WearReady, Requests

\* Medals stay in their slots, leave them, or are new.
Clearing ==
    \A h \in DOMAIN medals' :
        /\ "slot" \in DOMAIN medals'[h]
        /\ \/ medals'[h].slot = -1
           \/ h \in DOMAIN medals /\ medals'[h].slot = medals[h].slot

LEMMA WallClears ==
    ASSUME WallInv, Clearing,
           load' = load, load.patient => WearReady'
    PROVE  WallInv'
    <1>1. RowsHaveSlot'
        BY DEF Clearing, RowsHaveSlot
    <1>2. ASSUME load.patient
          PROVE  SlotsApart'
        BY <1>2 DEF WallInv, SlotsApart, Clearing
    <1> QED  BY <1>1, <1>2 DEF WallInv

LEMMA WearClears ==
    ASSUME Routes, WallInv, NEW r \in Requests, HonorsStep(r),
           ~WearSave(r)
    PROVE  Clearing
    <1>1. RowsHaveSlot
        BY DEF WallInv
    <1>2. ASSUME UNCHANGED medals
          PROVE  Clearing
        BY <1>1, <1>2 DEF Clearing, RowsHaveSlot
    <1>3. CASE \/ ChangeMetric(r) \/ EvaluateCatalog(r) \/ EvaluateValue(r) \/ EvaluateFind(r)
               \/ GrantRead(r) \/ UpdateHonor(r) \/ WearFind(r)
        BY <1>2, <1>3 DEF ChangeMetric, EvaluateCatalog, EvaluateValue, EvaluateFind, GrantRead,
                          UpdateHonor, WearFind, honorVars
    <1>4. CASE EvaluateProgress(r)
        BY <1>1, <1>4 DEF EvaluateProgress, Clearing, RowsHaveSlot
    <1>5. CASE EvaluateCreate(r)
        BY <1>1, <1>5 DEF EvaluateCreate, Clearing, RowsHaveSlot, Put
    <1>6. CASE EvaluateSave(r)
        BY <1>1, <1>6 DEF EvaluateSave, Clearing, RowsHaveSlot
    <1>7. CASE GrantUpsert(r)
        <2>1. PICK g, f : g = call(r).honor /\ f = [tier |-> job[r].tier, source |-> "admin"]
            OBVIOUS
        <2>2. PICK old : old = IF g \in DOMAIN medals THEN medals[g]
                               ELSE [progress |-> 0, slot |-> -1]
            OBVIOUS
        <2>3. medals' = Put(medals, g, Override(old, f))
            BY <1>7, <2>1, <2>2 DEF GrantUpsert
        <2>4. "slot" \in DOMAIN Override(old, f) /\ Override(old, f).slot = old.slot
            BY <1>1, <2>1, <2>2 DEF Override, RowsHaveSlot
        <2> QED  BY <1>1, <2>2, <2>3, <2>4 DEF Clearing, RowsHaveSlot, Put
    <1>8. CASE Revoke(r)
        BY <1>1, <1>8 DEF Revoke, Restrict, Clearing, RowsHaveSlot
    <1>9. CASE WearVacate(r)
        BY <1>1, <1>9 DEF WearVacate, Clearing, RowsHaveSlot
    <1> QED
        BY <1>3, <1>4, <1>5, <1>6, <1>7, <1>8, <1>9 DEF HonorsStep

LEMMA WallStep ==
    ASSUME Routes, Patience, WallInv, [Next]_vars
    PROVE  WallInv'
    <1>1. ASSUME NEW r \in Requests, HonorsStep(r), Serves(r, HonorOps, {})
          PROVE  WallInv'
        <2>1. /\ load' = load /\ Requests' = Requests /\ \A s \in Requests : call(s)' = call(s)
              /\ \A s \in Requests : s # r => pc'[s] = pc[s]
            BY <1>1 DEF Serves, Requests, call
        <2>2. Takes(r)
            BY <1>1, HonorsTake
        <2>3. ASSUME load.patient, NEW s \in Requests, pc'[s] = "wearSave"
              PROVE  s = r
            BY <2>1, <2>2, <2>3, TakesAlone DEF Active, Over
        <2>4. ASSUME load.patient, pc'[r] = "wearSave", call(r).op = "wear"
              PROVE  WearVacate(r)
            BY <1>1, <2>4
            DEF HonorsStep, ChangeMetric, EvaluateCatalog, EvaluateValue, EvaluateProgress,
                EvaluateFind, EvaluateCreate, EvaluateSave, GrantRead, GrantUpsert, Revoke,
                UpdateHonor, WearFind, WearSave, Passes, Goes, NextHonor, Routes
        <2>5. ASSUME load.patient
              PROVE  WearReady'
            <3>1. ASSUME NEW s \in Requests, pc'[s] = "wearSave", call(s).op = "wear",
                         NEW h \in DOMAIN medals', medals'[h].slot = call(s).slot
                  PROVE  call(s).slot = -1
                <4>1. s = r /\ WearVacate(r)
                    BY <2>3, <2>4, <2>5, <3>1
                <4> QED  BY <3>1, <4>1 DEF WearVacate, WallInv, RowsHaveSlot
            <3> QED  BY <2>1, <3>1 DEF WearReady
        <2>6. CASE ~WearSave(r)
            BY <1>1, <2>1, <2>5, <2>6, WearClears, WallClears
        <2>7. CASE WearSave(r)
            <3>1. PICK g : g = call(r).honor
                OBVIOUS
            <3>2. PICK n : n = IF call(r).op = "wear" THEN call(r).slot ELSE -1
                OBVIOUS
            <3>3. \/ medals' = medals
                  \/ g \in DOMAIN medals /\ medals' = [medals EXCEPT ![g].slot = n]
                BY <2>7, <3>1, <3>2 DEF WearSave
            <3>4. RowsHaveSlot'
                BY <3>3 DEF WallInv, RowsHaveSlot
            <3>5. load.patient => \A h \in DOMAIN medals : medals[h].slot = n => n = -1
                BY <2>7, <3>2 DEF WallInv, WearReady, WearSave
            <3>6. ASSUME load.patient
                  PROVE  SlotsApart'
                BY <3>3, <3>5, <3>6 DEF WallInv, SlotsApart, RowsHaveSlot
            <3> QED  BY <2>1, <2>5, <3>4, <3>6 DEF WallInv
        <2> QED  BY <2>6, <2>7
    <1>2. ASSUME UNCHANGED honorVars,
                 (\E r \in Requests : Halts(r)) \/ Quiet(HonorOps, {})
          PROVE  WallInv'
        <2>1. load' = load /\ Requests' = Requests /\ medals' = medals
              /\ \A s \in Requests : call(s)' = call(s)
            BY <1>2 DEF Halts, Quiet, Requests, call, honorVars
        <2>2. \A s \in Requests : pc'[s] = "wearSave" /\ call(s).op = "wear"
                    => pc[s] = "wearSave"
            BY <1>2 DEF Halts, Quiet, HonorOps
        <2> QED  BY <2>1, <2>2 DEF WallInv, RowsHaveSlot, SlotsApart, WearReady
    <1> QED  BY <1>1, <1>2, HonorSteps

\* With unhurried requests two medals of the wall are never worn in one place: place() empties
\* the place in one update before save() puts the medal there, and a request that waits between
\* the two keeps every other request out of the wall.
THEOREM MedalsStayApart == Spec => []OneMedalPerSlot
    <1>1. Init => Routes /\ Patience /\ WallInv
        BY RoutesInit, PatienceInit, WallInit
    <1>2. Routes /\ Patience /\ WallInv /\ [Next]_vars => (Routes /\ Patience /\ WallInv)'
        BY RoutesStep, PatienceStep, WallStep
    <1>3. WallInv => OneMedalPerSlot
        BY DEF WallInv, SlotsApart, OneMedalPerSlot, RowsHaveSlot
    <1> QED  BY <1>1, <1>2, <1>3, PTL DEF Spec

------------------------------------------------------------------------------
\* FlattenSeq: the rows an approval or an activation grants.

\* F solves the recursion of FlattenSeq up to n.
Joins(F, seqs, n) ==
    F = [i \in 1 .. n |-> IF i = 1 THEN seqs[i] ELSE F[i - 1] \o seqs[i]]

LEMMA FlattenJoins ==
    ASSUME NEW seqs, Len(seqs) # 0
    PROVE  FlattenSeq(seqs) = (CHOOSE F : Joins(F, seqs, Len(seqs)))[Len(seqs)]
    BY DEF FlattenSeq, Joins

LEMMA JoinExists ==
    ASSUME NEW S, NEW seqs \in Seq(Seq(S)), NEW n \in Nat, n <= Len(seqs)
    PROVE  \E F \in [1 .. n -> Seq(S)] : Joins(F, seqs, n)
    <1>1. PICK G : G = {k \in 0 .. n : \E F \in [1 .. k -> Seq(S)] : Joins(F, seqs, k)}
        OBVIOUS
    <1>2. 0 \in G
        <2>1. PICK F : F = [i \in 1 .. 0 |-> IF i = 1 THEN seqs[i] ELSE <<>>]
            OBVIOUS
        <2>2. F \in [1 .. 0 -> Seq(S)] /\ Joins(F, seqs, 0)
            BY <2>1 DEF Joins
        <2>3. 0 \in 0 .. n
            OBVIOUS
        <2> QED  BY <1>1, <2>2, <2>3
    <1>3. ASSUME NEW k \in 0 .. (n - 1), k \in G
          PROVE  k + 1 \in G
        <2>1. PICK F \in [1 .. k -> Seq(S)] : Joins(F, seqs, k)
            BY <1>1, <1>3
        <2>2. k + 1 \in 1 .. Len(seqs) /\ seqs[k + 1] \in Seq(S)
            OBVIOUS
        <2>3. PICK s : s = IF k = 0 THEN seqs[1] ELSE F[k] \o seqs[k + 1]
            OBVIOUS
        <2>4. s \in Seq(S)
            BY <2>1, <2>2, <2>3
        <2>5. PICK H : H = [i \in 1 .. (k + 1) |-> IF i = k + 1 THEN s ELSE F[i]]
            OBVIOUS
        <2>6. H \in [1 .. (k + 1) -> Seq(S)]
            BY <2>1, <2>4, <2>5
        <2>7. ASSUME NEW i \in 1 .. (k + 1)
              PROVE  H[i] = IF i = 1 THEN seqs[i] ELSE H[i - 1] \o seqs[i]
            <3>1. CASE i = k + 1
                BY <2>3, <2>5, <3>1
            <3>2. CASE i # k + 1
                <4>1. i \in 1 .. k /\ H[i] = F[i]
                    BY <2>5, <3>2
                <4>2. F[i] = IF i = 1 THEN seqs[i] ELSE F[i - 1] \o seqs[i]
                    BY <2>1, <4>1 DEF Joins
                <4>3. i # 1 => H[i - 1] = F[i - 1]
                    BY <2>5, <4>1
                <4> QED  BY <4>1, <4>2, <4>3
            <3> QED  BY <3>1, <3>2
        <2>8. Joins(H, seqs, k + 1)
            BY <2>6, <2>7 DEF Joins
        <2> QED  BY <1>1, <2>6, <2>8
    <1>4. n \in G
        BY <1>2, <1>3, InductionUpTo
    <1> QED  BY <1>1, <1>4

LEMMA JoinsAgree ==
    ASSUME NEW seqs, NEW n \in Nat, NEW E, NEW F, Joins(E, seqs, n), Joins(F, seqs, n)
    PROVE  \A i \in 1 .. n : E[i] = F[i]
    <1>1. PICK G : G = {k \in 0 .. n : \A i \in 1 .. k : E[i] = F[i]}
        OBVIOUS
    <1>2. ASSUME NEW k \in 0 .. (n - 1), k \in G
          PROVE  k + 1 \in G
        <2>1. PICK i \in 1 .. n : i = k + 1
            OBVIOUS
        <2>2. E[i] = IF i = 1 THEN seqs[i] ELSE E[i - 1] \o seqs[i]
            BY Zenon DEF Joins
        <2>3. F[i] = IF i = 1 THEN seqs[i] ELSE F[i - 1] \o seqs[i]
            BY Zenon DEF Joins
        <2>4. i # 1 => E[i - 1] = F[i - 1]
            BY <1>1, <1>2, <2>1
        <2>5. E[i] = F[i]
            BY <2>2, <2>3, <2>4
        <2> QED  BY <1>1, <1>2, <2>1, <2>5
    <1>3. n \in G
        <2>1. 0 \in G
            BY <1>1
        <2> QED  BY <1>2, <2>1, InductionUpTo
    <1> QED  BY <1>1, <1>3

\* Sequences over S make a sequence over S.
LEMMA FlattenType ==
    ASSUME NEW S, NEW seqs \in Seq(Seq(S))
    PROVE  FlattenSeq(seqs) \in Seq(S)
    <1>1. CASE Len(seqs) = 0
        BY <1>1 DEF FlattenSeq
    <1>2. CASE Len(seqs) # 0
        <2>1. PICK n : n = Len(seqs)
            OBVIOUS
        <2>2. PICK F \in [1 .. n -> Seq(S)] : Joins(F, seqs, n)
            BY <2>1, JoinExists
        <2>3. PICK E : E = CHOOSE H : Joins(H, seqs, n)
            OBVIOUS
        <2>4. Joins(E, seqs, n)
            BY <2>2, <2>3
        <2>5. n \in 1 .. n
            BY <1>2, <2>1
        <2>6. E[n] = F[n]
            BY <2>1, <2>2, <2>4, <2>5, JoinsAgree
        <2> QED  BY <1>2, <2>1, <2>2, <2>3, <2>5, <2>6, FlattenJoins
    <1> QED  BY <1>1, <1>2

------------------------------------------------------------------------------
\* What is bought, granted and owned.

Grants == {"grantFind", "grantExtend", "grantCreate"}

StoreCall(r) == call(r).op \in {"purchase", "gift"}
TierCall(r) == call(r).op \in {"svipBuy", "activate"}

\* The row a purchase is for.
Bought(r) == [user |-> receiver(r), item |-> FirstListings[call(r).listing].item,
              source |-> source(r), ref |-> call(r).key]

\* What r may grant.
TierGrants(u, levels, days) ==
    {Grant(u, i, "svip", l, days, l) : i \in DOMAIN Catalog, l \in levels}

DueTo(r) == IF StoreCall(r) THEN {granted(r)}
            ELSE TierGrants(call(r).user, job[r].levels, job[r].days)

ListingRead(r) ==
    /\ "listing" \in DOMAIN job[r] /\ "item" \in DOMAIN job[r].listing
    /\ job[r].listing.item = FirstListings[call(r).listing].item

\* What a status read earlier says of the present one.
Seen(s) ==
    /\ {"version", "owned", "highest", "current"} \subseteq DOMAIN s
    /\ s.version \in Nat /\ s.version <= status.version
    /\ s.owned \subseteq status.owned
    /\ s.version = status.version => s.owned = status.owned /\ s.highest = status.highest

\* A purchase on its way.
BuyJob(r) ==
    /\ pc[r] \in {"buyItem", "buyDebit"} \cup Grants => ListingRead(r)
    /\ pc[r] \in Grants =>
          /\ ~job[r].bestEffort /\ job[r].then = "done" /\ Len(job[r].grants) = 1
          /\ storeKey(call(r).key) \in ledger
    /\ pc[r] = "done" => Bought(r) \in DOMAIN owned

\* A tier on its way.
TierJob(r) ==
    /\ pc[r] \in {"svipDebit", "svipSave", "activateSave"} =>
          "status" \in DOMAIN job[r] /\ Seen(job[r].status)
    /\ pc[r] = "svipSave" => tierKey(r) \in ledger
    /\ pc[r] = "activateSave" => call(r).level \in status.owned
    /\ pc[r] \in {"svipTiers"} \cup Grants =>
          {"levels", "days"} \subseteq DOMAIN job[r] /\ job[r].levels \subseteq status.owned
    /\ call(r).op = "svipBuy" /\ "levels" \in DOMAIN job[r] => call(r).level \in status.owned

GrantJob(r) ==
    /\ pc[r] \in Grants =>
          /\ {"grants", "bestEffort"} \subseteq DOMAIN job[r]
          /\ job[r].grants \in Seq(DueTo(r)) /\ job[r].grants # <<>>
    /\ pc[r] \in {"grantExtend", "grantCreate"} => "until" \in DOMAIN job[r]
    /\ pc[r] = "grantExtend" => RowKey(thisGrant(r)) \in DOMAIN owned

ShopJob(r) ==
    /\ StoreCall(r) => BuyJob(r)
    /\ TierCall(r) => TierJob(r)
    /\ GrantJob(r)

\* A row is a purchase's, which was paid, or belongs to a tier that is owned.
OwnedOk(k) ==
    /\ k.item \in DOMAIN Catalog
    /\ k.source \in {"store", "gift"} =>
          /\ storeKey(k.ref) \in ledger
          /\ \E s \in Requests : StoreCall(s) /\ k = Bought(s)
    /\ k.source = "svip" => k.ref \in status.owned

StockOk ==
    /\ DOMAIN listings = DOMAIN FirstListings
    /\ \A l \in DOMAIN FirstListings :
          "item" \in DOMAIN listings[l] /\ listings[l].item = FirstListings[l].item
    /\ DOMAIN tiers = Levels
    /\ \A l \in Levels :
          "items" \in DOMAIN tiers[l] /\ tiers[l].items \in Seq(DOMAIN Catalog)

StatusOk ==
    /\ DOMAIN status = {"current", "owned", "highest", "expires", "version"}
    /\ status.version \in Nat /\ status.owned \subseteq Levels
    /\ status.owned \subseteq paidFor
    /\ status.highest = Max(status.owned \cup {0})
    /\ status.current \in status.owned \cup {0}

\* A purchase that is paid and not delivered has a request that was to deliver it.
Awaited(p) ==
    \E r \in Requests :
        /\ StoreCall(r) /\ p = storeKey(call(r).key)
        /\ \/ GotTo(r, "grantFind") \/ GotTo(r, "grantCreate")
           \/ Bought(r) \in DOMAIN owned

ShopInv ==
    /\ StockOk /\ StatusOk
    /\ \A k \in DOMAIN owned : OwnedOk(k) /\ "equipped" \in DOMAIN owned[k]
    /\ \A r \in Requests : ShopJob(r)
    /\ \A p \in ledger : p[1] = "store" => Awaited(p)

LEMMA ShopInit == Init => ShopInv
    <1> SUFFICES ASSUME Init  PROVE ShopInv
        OBVIOUS
    <1> USE DEF Init, ServiceInit, CosmeticsInit, StoreInit, SvipInit
    <1>1. StockOk
        <2>1. \A l \in DOMAIN FirstListings :
                "item" \in DOMAIN listings[l] /\ listings[l].item = FirstListings[l].item
            BY ListingAssumption DEF Override
        <2>2. \A l \in Levels : FirstTiers[l].items \in Seq(DOMAIN Catalog)
                                /\ "items" \in DOMAIN FirstTiers[l]
            <3>1. PICK R : R = [price : Int, days : Nat, items : Seq(DOMAIN Catalog)]
                OBVIOUS
            <3>3. FirstTiers \in Seq(R)
                BY <3>1, TierAssumption
            <3>2. \A l \in Levels : FirstTiers[l] \in R
                BY <3>3 DEF Levels
            <3> QED  BY <3>1, <3>2
        <2>3. \A l \in Levels :
                "items" \in DOMAIN tiers[l] /\ tiers[l].items \in Seq(DOMAIN Catalog)
            BY <2>2 DEF Override
        <2> QED  BY <2>1, <2>3 DEF StockOk
    <1>2. StatusOk
        <2>1. {} \cup {0} = {0} /\ IsFiniteSet({0}) /\ {0} # {} /\ {0} \subseteq Int
            <3>1. IsFiniteSet({0})
                BY FS_Singleton
            <3> QED  BY <3>1
        <2>2. Max({0}) = 0
            BY <2>1, MaxIs
        <2> QED  BY <2>1, <2>2 DEF StatusOk
    <1>3. DOMAIN owned = {}
        OBVIOUS
    <1>4. \A r \in Requests : pc[r] = "idle" /\ DOMAIN job[r] = {}
        BY DEF Requests
    <1> QED
        BY <1>1, <1>2, <1>3, <1>4
        DEF ShopInv, ShopJob, BuyJob, TierJob, GrantJob, Grants

LEMMA ShopSteps ==
    ASSUME Routes, [Next]_vars
    PROVE  \/ \E r \in Requests : Shops(r) /\ Serves(r, ShopOps, {"store", "svip"})
           \/ \E r \in Requests : Halts(r) /\ UNCHANGED <<cosmeticVars, listings, svipVars>>
           \/ Quiet(ShopOps, {"store", "svip"}) /\ UNCHANGED <<cosmeticVars, listings, svipVars>>
    <1>1. ASSUME NEW r, NEW ops \in {PoolOps, HookOps, DailyOps, BallOps, RecordOps, HonorOps},
                 NEW tags, Serves(r, ops, tags), tags \cap {"store", "svip"} = {}
          PROVE  Quiet(ShopOps, {"store", "svip"})
        <2>1. ops \cap ShopOps = {}
            BY DEF PoolOps, HookOps, DailyOps, BallOps, RecordOps, ShopOps, HonorOps
        <2> QED  BY <1>1, <2>1, ServesQuiet
    <1> QED  BY <1>1, StepKinds, QuietMidnight DEF shopVars, vars

\* What is known before a step.
LEMMA ShopNow ==
    ASSUME Routes, ShopInv
    PROVE  /\ StockOk /\ StatusOk /\ load \in Workloads
           /\ DOMAIN job = Requests /\ DOMAIN pc = Requests
           /\ \A r \in Requests : Routed(r, pc[r]) /\ GoesOn(r) /\ ShopJob(r)
           /\ \A k \in DOMAIN owned : OwnedOk(k) /\ "equipped" \in DOMAIN owned[k]
           /\ \A p \in ledger : p[1] = "store" => Awaited(p)
    BY DEF Routes, ShopInv

\* Nothing that was paid, owned or kept is lost.
Keeps ==
    /\ load' = load /\ ledger \subseteq ledger' /\ DOMAIN owned \subseteq DOMAIN owned'
    /\ status.owned \subseteq status'.owned
    /\ status'.version \in Nat /\ status.version <= status'.version
    /\ status'.version = status.version =>
          status'.owned = status.owned /\ status'.highest = status.highest

LEMMA KeepsSeen ==
    ASSUME StatusOk, Keeps, NEW s, Seen(s)
    PROVE  Seen(s)'
    <1>1. s.version \in Nat /\ status.version \in Nat
        BY DEF Seen, StatusOk
    <1>2. s.version <= status'.version
        BY <1>1 DEF Keeps, Seen
    <1>3. s.version = status'.version => status'.version = status.version
        BY <1>1 DEF Keeps, Seen
    <1> QED  BY <1>1, <1>2, <1>3 DEF Keeps, Seen

LEMMA KeepsCalls ==
    ASSUME load' = load
    PROVE  /\ Requests' = Requests
           /\ \A s : /\ call(s)' = call(s) /\ (StoreCall(s) <=> StoreCall(s)')
                     /\ (TierCall(s) <=> TierCall(s)') /\ Bought(s)' = Bought(s)
                     /\ tierKey(s)' = tierKey(s)
    BY DEF Requests, call, StoreCall, TierCall, Bought, receiver, source, tierKey

\* So rows and waiting requests stay as they should be.
LEMMA ShopKeeps ==
    ASSUME Routes, ShopInv, Keeps
    PROVE  /\ \A k : OwnedOk(k) => OwnedOk(k)'
           /\ \A s \in Requests :
                pc'[s] = pc[s] /\ job'[s] = job[s] => ShopJob(s)'
    <1>1. /\ Requests' = Requests
          /\ \A s : /\ call(s)' = call(s) /\ (StoreCall(s) <=> StoreCall(s)')
                    /\ (TierCall(s) <=> TierCall(s)') /\ Bought(s)' = Bought(s)
                    /\ tierKey(s)' = tierKey(s)
        BY KeepsCalls DEF Keeps
    <1>2. ASSUME NEW k, OwnedOk(k)
          PROVE  OwnedOk(k)'
        BY <1>1, <1>2 DEF OwnedOk, Keeps, storeKey
    <1>3. ASSUME NEW s \in Requests, pc'[s] = pc[s], job'[s] = job[s]
          PROVE  ShopJob(s)'
        <2>1. ShopJob(s)
            BY ShopNow
        <2>2. StoreCall(s) => BuyJob(s)'
            BY <1>1, <1>3, <2>1 DEF ShopJob, BuyJob, ListingRead, Keeps, storeKey
        <2>3. TierCall(s) => TierJob(s)'
            <3>1. \A t : Seen(t) => Seen(t)'
                BY ShopNow, KeepsSeen
            <3>2. SUFFICES ASSUME TierJob(s)  PROVE TierJob(s)'
                BY <2>1 DEF ShopJob
            <3>3. PICK t : t = job[s].status
                OBVIOUS
            <3>4. pc'[s] \in {"svipDebit", "svipSave", "activateSave"} =>
                      "status" \in DOMAIN job'[s] /\ Seen(job[s].status)'
                BY <1>3, <3>1, <3>2, <3>3 DEF TierJob, Seen
            <3> QED  BY <1>1, <1>3, <3>2, <3>4 DEF TierJob, Keeps
        <2>4. GrantJob(s)'
            <3>1. DueTo(s)' = DueTo(s) /\ thisGrant(s)' = thisGrant(s)
                <4>1. granted(s)' = granted(s)
                    BY <1>1, <1>3 DEF granted, receiver, source
                <4>2. PICK c, j : c = call(s) /\ j = job[s]
                    OBVIOUS
                <4>3. call(s)' = c /\ job'[s] = j
                    BY <1>1, <1>3, <4>2
                <4>4. DueTo(s)' = DueTo(s)
                    BY <1>1, <4>1, <4>2, <4>3 DEF DueTo
                <4> QED  BY <1>3, <4>4 DEF thisGrant
            <3>2. RowKey(thisGrant(s))' = RowKey(thisGrant(s))
                BY <3>1 DEF RowKey
            <3> QED  BY <1>3, <2>1, <3>1, <3>2 DEF ShopJob, GrantJob, Keeps
        <2> QED  BY <1>1, <2>2, <2>3, <2>4 DEF ShopJob
    <1> QED  BY <1>2, <1>3

\* A waiting purchase stays one, or its row is there.
LEMMA AwaitedStays ==
    ASSUME Routes, ShopInv, Keeps, NEW p, Awaited(p),
           \A s \in Requests : StoreCall(s) =>
              \/ pc'[s] = pc[s] /\ job'[s] = job[s]
              \/ Halts(s)
              \/ pc[s] # "stopped" /\ pc[s] \notin {"grantFind", "grantCreate"}
              \/ pc'[s] \in {"grantFind", "grantCreate"}
              \/ Bought(s) \in DOMAIN owned'
    PROVE  Awaited(p)'
    <1>1. /\ Requests' = Requests
          /\ \A s : /\ call(s)' = call(s) /\ (StoreCall(s) <=> StoreCall(s)')
                    /\ Bought(s)' = Bought(s)
        BY KeepsCalls DEF Keeps
    <1>2. PICK s \in Requests : /\ StoreCall(s) /\ p = storeKey(call(s).key)
                                /\ \/ GotTo(s, "grantFind") \/ GotTo(s, "grantCreate")
                                   \/ Bought(s) \in DOMAIN owned
        BY DEF Awaited
    <1>3. p = storeKey(call(s).key)'
        BY <1>1, <1>2 DEF storeKey
    <1>4. \/ GotTo(s, "grantFind")' \/ GotTo(s, "grantCreate")'
          \/ Bought(s) \in DOMAIN owned'
        <2>1. CASE Bought(s) \in DOMAIN owned
            BY <2>1 DEF Keeps
        <2>2. CASE pc'[s] = pc[s] /\ job'[s] = job[s]
            BY <1>2, <2>1, <2>2 DEF GotTo
        <2>3. CASE Halts(s)
            <3>1. \A l : GotTo(s, l) => GotTo(s, l)'
                BY <2>3 DEF Halts, GotTo
            <3> QED  BY <1>2, <2>1, <3>1
        <2>4. CASE pc[s] # "stopped" /\ pc[s] \notin {"grantFind", "grantCreate"}
            BY <1>2, <2>1, <2>4 DEF GotTo
        <2>5. CASE pc'[s] \in {"grantFind", "grantCreate"}
            BY <2>5 DEF GotTo
        <2> QED  BY <1>2, <2>1, <2>2, <2>3, <2>4, <2>5
    <1> QED  BY <1>1, <1>2, <1>3, <1>4 DEF Awaited

\* The step of r, when its place and what it writes are as they should be.
LEMMA ShopServed ==
    ASSUME Routes, ShopInv, NEW r \in Requests, Serves(r, ShopOps, {"store", "svip"}),
           Takes(r), Keeps, StockOk', StatusOk', ShopJob(r)',
           \A k \in DOMAIN owned' :
              "equipped" \in DOMAIN owned'[k] /\ (k \in DOMAIN owned \/ OwnedOk(k)'),
           StoreCall(r) /\ pc[r] \in {"grantFind", "grantCreate"} =>
              pc'[r] \in {"grantFind", "grantCreate"} \/ Bought(r) \in DOMAIN owned',
           \A p \in ledger' : p[1] = "store" => p \in ledger \/ Awaited(p)'
    PROVE  ShopInv'
    <1>1. /\ Requests' = Requests
          /\ \A s \in Requests : s # r => pc'[s] = pc[s] /\ job'[s] = job[s]
        BY DEF Serves, Requests
    <1>2. \A k : OwnedOk(k) => OwnedOk(k)'
        BY ShopKeeps
    <1>3. \A s \in Requests : ShopJob(s)'
        BY <1>1, ShopKeeps
    <1>4. \A k \in DOMAIN owned' : OwnedOk(k)' /\ "equipped" \in DOMAIN owned'[k]
        BY <1>2, ShopNow
    <1>5. pc[r] # "stopped"
        BY DEF Takes, Active, Over, Begins
    <1>6. ASSUME NEW p \in ledger', p[1] = "store"
          PROVE  Awaited(p)'
        <2>1. CASE p \in ledger
            <3>1. Awaited(p)
                BY <1>6, <2>1, ShopNow
            <3> QED  BY <1>1, <1>5, <3>1, AwaitedStays
        <2>2. CASE p \notin ledger
            BY <1>6, <2>2
        <2> QED  BY <2>1, <2>2
    <1> QED  BY <1>1, <1>3, <1>4, <1>6 DEF ShopInv

\* The steps of others, and a request that stops.
LEMMA ShopRests ==
    ASSUME Routes, Routes', ShopInv, UNCHANGED <<cosmeticVars, listings, svipVars>>,
           \/ \E r \in Requests : Halts(r)
           \/ Quiet(ShopOps, {"store", "svip"})
    PROVE  ShopInv'
    <1>1. Keeps /\ Requests' = Requests
        <2>1. load' = load /\ ledger \subseteq ledger'
            BY DEF Halts, Quiet
        <2>2. owned' = owned /\ status' = status
            BY DEF cosmeticVars, svipVars
        <2>3. status.version \in Nat /\ status.version <= status.version
            BY ShopNow DEF StatusOk
        <2> QED  BY <2>1, <2>2, <2>3 DEF Keeps, Requests
    <1>2. \A p \in ledger' : p[1] \in {"store", "svip"} => p \in ledger
        BY DEF Halts, Quiet
    <1>3. StockOk'
        BY ShopNow DEF StockOk, svipVars
    <1>4. StatusOk'
        <2>1. paidFor \subseteq paidFor'
            BY <1>1 DEF paidFor, Keeps
        <2> QED  BY <2>1, ShopNow DEF StatusOk, svipVars
    <1>5. \A k \in DOMAIN owned' : OwnedOk(k)' /\ "equipped" \in DOMAIN owned'[k]
        BY <1>1, ShopKeeps, ShopNow DEF cosmeticVars
    <1>6. ASSUME NEW s \in Requests
          PROVE  ShopJob(s)'
        <2>1. CASE pc'[s] = pc[s] /\ job'[s] = job[s]
            BY <1>1, <2>1, ShopKeeps
        <2>2. CASE Halts(s)
            <3>1. pc'[s] = "stopped" /\ job'[s] = Override(job[s], [at |-> pc[s]])
                BY <2>2 DEF Halts
            <3>2. "levels" \in DOMAIN job'[s] => "levels" \in DOMAIN job[s]
                BY <3>1 DEF Override
            <3>3. TierCall(s)' => call(s)' = call(s) /\ ShopJob(s) /\ TierCall(s)
                BY <1>1, KeepsCalls, ShopNow DEF Keeps
            <3> QED
                BY <1>1, <3>1, <3>2, <3>3
                DEF ShopJob, TierJob, BuyJob, GrantJob, Grants, Keeps
        <2>3. CASE call(s).op \notin ShopOps
            <3>1. ~StoreCall(s)' /\ ~TierCall(s)'
                BY <1>1, <2>3, KeepsCalls DEF Keeps, StoreCall, TierCall, ShopOps
            <3>2. Routed(s, pc[s])'
                BY <1>1 DEF Routes
            <3>3. pc'[s] \notin Grants
                BY <3>1, <3>2 DEF Routed, StoreCall, TierCall, Grants
            <3> QED  BY <3>1, <3>3 DEF ShopJob, GrantJob, Grants
        <2> QED  BY <2>1, <2>2, <2>3 DEF Halts, Quiet
    <1>7. ASSUME NEW p \in ledger', p[1] = "store"
          PROVE  Awaited(p)'
        <2>1. Awaited(p)
            BY <1>2, <1>7, ShopNow
        <2>2. \A s \in Requests : StoreCall(s) =>
                 \/ pc'[s] = pc[s] /\ job'[s] = job[s]
                 \/ Halts(s)
            BY DEF Halts, Quiet, StoreCall, ShopOps
        <2> QED  BY <1>1, <2>1, <2>2, AwaitedStays
    <1> QED  BY <1>1, <1>3, <1>4, <1>5, <1>6, <1>7 DEF ShopInv

\* A step that neither buys nor grants, and leaves every row its owner.
LEMMA ShopAside ==
    ASSUME Routes, ShopInv, NEW r \in Requests, Serves(r, ShopOps, {"store", "svip"}),
           Takes(r), ledger' = ledger, status' = status, StockOk',
           DOMAIN owned' = DOMAIN owned,
           \A k \in DOMAIN owned' : "equipped" \in DOMAIN owned'[k],
           pc'[r] \notin Grants \cup {"svipTiers", "svipDebit", "svipSave", "activateSave"},
           StoreCall(r) => pc'[r] = "failed" /\ pc[r] \notin Grants,
           TierCall(r) /\ "levels" \in DOMAIN job'[r] => "levels" \in DOMAIN job[r]
    PROVE  ShopInv'
    <1>1. Keeps
        BY ShopNow DEF Serves, Keeps, StatusOk
    <1>2. StatusOk'
        <2>1. paidFor' = paidFor
            BY DEF paidFor
        <2> QED  BY <2>1, ShopNow DEF StatusOk
    <1>3. ShopJob(r)'
        <2>1. ShopJob(r) /\ call(r)' = call(r) /\ (StoreCall(r) <=> StoreCall(r)')
              /\ (TierCall(r) <=> TierCall(r)')
            BY <1>1, ShopNow, KeepsCalls DEF Keeps
        <2> QED  BY <2>1 DEF ShopJob, BuyJob, TierJob, GrantJob, Grants
    <1> QED  BY <1>1, <1>2, <1>3, ShopServed DEF Grants

\* A request that grants.
LEMMA GrantNow ==
    ASSUME Routes, ShopInv, NEW r \in Requests, pc[r] \in Grants
    PROVE  /\ {"grants", "bestEffort", "then"} \subseteq DOMAIN job[r]
           /\ job[r].grants \in Seq(DueTo(r)) /\ job[r].grants # <<>>
           /\ thisGrant(r) \in DueTo(r)
           /\ OwnedOk(RowKey(thisGrant(r)))
           /\ Onward(r, job[r].then)
           /\ StoreCall(r) => /\ RowKey(thisGrant(r)) = Bought(r)
                              /\ Len(job[r].grants) = 1 /\ job[r].then = "done"
                              /\ ListingRead(r) /\ ~job[r].bestEffort
           /\ StoreCall(r) \/ TierCall(r)
           /\ ~(StoreCall(r) /\ TierCall(r))
           /\ TierCall(r) => {"levels", "days"} \subseteq DOMAIN job[r]
    <1>1. /\ ShopJob(r) /\ Routed(r, pc[r]) /\ GoesOn(r)
        BY ShopNow
    <1>2. (StoreCall(r) \/ TierCall(r)) /\ ~(StoreCall(r) /\ TierCall(r))
        BY <1>1 DEF Routed, Grants, StoreCall, TierCall
    <1>3. /\ {"grants", "bestEffort"} \subseteq DOMAIN job[r]
          /\ job[r].grants \in Seq(DueTo(r)) /\ job[r].grants # <<>>
        BY <1>1 DEF ShopJob, GrantJob
    <1>4. thisGrant(r) \in DueTo(r)
        BY <1>3 DEF thisGrant
    <1>5. CASE StoreCall(r)
        <2>1. BuyJob(r)
            BY <1>1, <1>5 DEF ShopJob
        <2>2. thisGrant(r) = granted(r)
            BY <1>4, <1>5 DEF DueTo
        <2>3. RowKey(granted(r)) = Bought(r)
            BY <2>1 DEF BuyJob, ListingRead, RowKey, granted, Grant, Bought
        <2>4. load \in Workloads /\ Bought(r).item \in DOMAIN Catalog
              /\ Bought(r).source \in {"store", "gift"}
              /\ storeKey(Bought(r).ref) = storeKey(call(r).key)
            <3>1. call(r).listing \in DOMAIN FirstListings
                BY <1>5, ShopNow, ListingAssumption DEF StoreCall, call, Requests
            <3> QED  BY <3>1, ShopNow, ListingAssumption DEF Bought, source
        <2>5. OwnedOk(Bought(r))
            BY <1>5, <2>1, <2>4 DEF BuyJob, OwnedOk
        <2> QED  BY <1>1, <1>2, <1>3, <1>4, <1>5, <2>1, <2>2, <2>3, <2>5
                 DEF BuyJob, GoesOn, Granting, Grants
    <1>6. CASE TierCall(r)
        <2>1. TierJob(r)
            BY <1>1, <1>6 DEF ShopJob
        <2>2. PICK i \in DOMAIN Catalog, l \in job[r].levels :
                thisGrant(r) = Grant(call(r).user, i, "svip", l, job[r].days, l)
            BY <1>2, <1>4, <1>6 DEF DueTo, TierGrants
        <2>3. l \in status.owned
            BY <2>1 DEF TierJob
        <2>4. OwnedOk(RowKey(thisGrant(r)))
            BY <2>2, <2>3 DEF OwnedOk, RowKey, Grant
        <2> QED  BY <1>1, <1>2, <1>3, <1>4, <1>6, <2>1, <2>4
                 DEF TierJob, GoesOn, Granting, Grants
    <1> QED  BY <1>2, <1>5, <1>6

\* The grants that are left are due as well.
LEMMA GrantsLeft ==
    ASSUME NEW S, NEW s \in Seq(S), s # <<>>
    PROVE  /\ Tail(s) \in Seq(S) /\ (Len(s) > 1 => Tail(s) # <<>>)
           /\ (Len(s) = 1 => ~(Len(s) > 1))
    <1>1. PICK n \in Nat : n = Len(s)
        OBVIOUS
    <1>2. PICK t : t = Tail(s)
        OBVIOUS
    <1>3. t \in Seq(S) /\ Len(t) = n - 1
        BY <1>1, <1>2, TailIs
    <1>4. Len(<<>>) = 0
        OBVIOUS
    <1>5. t = <<>> => n = 1
        BY <1>3, <1>4
    <1> QED  BY <1>1, <1>2, <1>3, <1>5

\* What is due to r stays so while r remembers it.
LEMMA DueKept ==
    ASSUME Routes, ShopInv, NEW r \in Requests, pc[r] \in Grants, Keeps,
           \A x \in {"listing", "levels", "days"} : x \in DOMAIN job[r] => job'[r][x] = job[r][x]
    PROVE  DueTo(r)' = DueTo(r)
    <1>1. /\ call(r)' = call(r) /\ (StoreCall(r) <=> StoreCall(r)')
          /\ (TierCall(r) <=> TierCall(r)')
        BY KeepsCalls DEF Keeps
    <1>2. CASE StoreCall(r)
        <2>1. job'[r].listing = job[r].listing
            BY <1>2, GrantNow DEF ListingRead
        <2>2. granted(r)' = granted(r)
            BY <1>1, <2>1 DEF granted, receiver, source
        <2> QED  BY <1>1, <1>2, <2>2 DEF DueTo
    <1>3. CASE TierCall(r) /\ ~StoreCall(r)
        <2>1. PICK c, l, d : c = call(r) /\ l = job[r].levels /\ d = job[r].days
            OBVIOUS
        <2>2. call(r)' = c /\ job'[r].levels = l /\ job'[r].days = d
            BY <1>1, <1>3, <2>1, GrantNow
        <2> QED  BY <1>1, <1>3, <2>1, <2>2 DEF DueTo, TierGrants
    <1> QED  BY <1>2, <1>3, GrantNow

\* After a grant, the row of which is there now.
LEMMA NextGranted ==
    ASSUME Routes, ShopInv, NEW r \in Requests, pc[r] \in Grants, NextGrant(r), Keeps,
           StoreCall(r) => Bought(r) \in DOMAIN owned'
    PROVE  ShopJob(r)'
    <1>1. PICK gs : gs = job[r].grants
        OBVIOUS
    <1>2. PICK rest : rest = Tail(gs)
        OBVIOUS
    <1>3. PICK to : to = IF Len(gs) > 1 THEN "grantFind" ELSE job[r].then
        OBVIOUS
    <1>4. Learns(r, [grants |-> rest]) /\ pc'[r] = to
        BY <1>1, <1>2, <1>3, ShopNow DEF NextGrant, Goes
    <1>5. /\ DOMAIN job'[r] = DOMAIN job[r] /\ job'[r].grants = rest
          /\ \A x \in DOMAIN job[r] \ {"grants"} : job'[r][x] = job[r][x]
        <2>1. PICK f : f = [grants |-> rest]
            OBVIOUS
        <2>2. Learns(r, f) /\ DOMAIN f = {"grants"} /\ f.grants = rest
            BY <1>4, <2>1
        <2>3. DOMAIN job[r] = DOMAIN job[r] \cup {"grants"}
            BY GrantNow
        <2>4. /\ DOMAIN job'[r] = DOMAIN job[r] \cup DOMAIN f
              /\ \A x \in DOMAIN f : job'[r][x] = f[x]
              /\ \A x \in DOMAIN job[r] \ DOMAIN f : job'[r][x] = job[r][x]
            BY <2>2, LearnedOne
        <2>5. job'[r].grants = f.grants
            BY <2>2, <2>4
        <2> QED  BY <2>2, <2>3, <2>4, <2>5
    <1>6. /\ call(r)' = call(r) /\ (StoreCall(r) <=> StoreCall(r)')
          /\ (TierCall(r) <=> TierCall(r)') /\ Bought(r)' = Bought(r)
        BY KeepsCalls DEF Keeps
    <1>7. DueTo(r)' = DueTo(r)
        BY <1>5, DueKept
    <1>8. gs \in Seq(DueTo(r)) /\ gs # <<>>
        BY <1>1, GrantNow
    <1>9. /\ rest \in Seq(DueTo(r)) /\ (to = "grantFind" => rest # <<>> \/ to = job[r].then)
          /\ (StoreCall(r) => to = "done") /\ to \in {"grantFind", "done", "svipOwned"}
        <2>1. to \in {"grantFind", job[r].then} /\ (Len(gs) = 1 => to = job[r].then)
            BY <1>3, <1>8, GrantsLeft
        <2> QED  BY <1>1, <1>2, <1>3, <1>8, <2>1, GrantsLeft, GrantNow DEF Onward
    <1>10. job[r].then # "grantFind"
        BY GrantNow DEF Onward
    <1>11. GrantJob(r)'
        BY <1>4, <1>5, <1>7, <1>9, <1>10, GrantNow DEF GrantJob, Grants
    <1>12. StoreCall(r) => BuyJob(r)'
        BY <1>4, <1>6, <1>9 DEF BuyJob, Grants
    <1>13. TierCall(r) => TierJob(r)'
        <2>1. TierCall(r) => TierJob(r)
            BY ShopNow DEF ShopJob
        <2>2. TierCall(r) => /\ {"levels", "days"} \subseteq DOMAIN job[r]
                             /\ job[r].levels \subseteq status.owned
            BY <2>1 DEF TierJob
        <2>3. TierCall(r) => /\ {"levels", "days"} \subseteq DOMAIN job'[r]
                             /\ job'[r].levels \subseteq status'.owned
            BY <1>5, <2>2 DEF Keeps
        <2>4. TierCall(r) /\ call(r).op = "svipBuy" => call(r).level \in status'.owned
            BY <2>1, <2>2 DEF TierJob, Keeps
        <2> QED  BY <1>4, <1>6, <1>9, <2>3, <2>4 DEF TierJob
    <1> QED  BY <1>6, <1>11, <1>12, <1>13 DEF ShopJob

\* A request that looks for the row of its grant and goes on to write it.
LEMMA GrantWaits ==
    ASSUME Routes, ShopInv, NEW r \in Requests, pc[r] = "grantFind", Keeps,
           NEW e, Learns(r, [until |-> e]), NEW to, pc'[r] = to,
           to = IF RowKey(thisGrant(r)) \in DOMAIN owned THEN "grantExtend" ELSE "grantCreate"
    PROVE  ShopJob(r)'
    <1>1. PICK f : f = [until |-> e]
        OBVIOUS
    <1>2. Learns(r, f) /\ DOMAIN f = {"until"}
        BY <1>1
    <1>3. /\ DOMAIN job'[r] = DOMAIN job[r] \cup DOMAIN f
          /\ \A x \in DOMAIN job[r] \ DOMAIN f : job'[r][x] = job[r][x]
        BY <1>2, LearnedOne
    <1>4. DOMAIN job'[r] = DOMAIN job[r] \cup {"until"}
          /\ \A x \in DOMAIN job[r] : x # "until" => job'[r][x] = job[r][x]
        BY <1>2, <1>3
    <1>5. /\ call(r)' = call(r) /\ (StoreCall(r) <=> StoreCall(r)')
          /\ (TierCall(r) <=> TierCall(r)') /\ Bought(r)' = Bought(r)
        BY KeepsCalls DEF Keeps
    <1>6. pc[r] \in Grants /\ pc'[r] \in Grants /\ ShopJob(r)
        BY ShopNow DEF Grants
    <1>7. job'[r].grants = job[r].grants /\ {"grants", "bestEffort", "then"} \subseteq DOMAIN job[r]
        BY <1>4, <1>6, GrantNow
    <1>8. DueTo(r)' = DueTo(r)
        BY <1>4, <1>6, DueKept
    <1>9. RowKey(thisGrant(r))' = RowKey(thisGrant(r))
        BY <1>7 DEF thisGrant, RowKey
    <1>10. GrantJob(r)'
        BY <1>4, <1>6, <1>7, <1>8, <1>9, GrantNow DEF GrantJob, Keeps
    <1>11. StoreCall(r) => BuyJob(r)'
        <2>1. StoreCall(r) => BuyJob(r) /\ ListingRead(r)'
            BY <1>4, <1>5, <1>6, GrantNow DEF ShopJob, ListingRead
        <2>2. /\ job'[r].bestEffort = job[r].bestEffort /\ job'[r].then = job[r].then
              /\ storeKey(call(r).key)' = storeKey(call(r).key)
            BY <1>4, <1>5, <1>7 DEF storeKey
        <2> QED  BY <1>6, <1>7, <2>1, <2>2, <1>5 DEF BuyJob, Keeps, Grants
    <1>12. TierCall(r) => TierJob(r)'
        <2>1. TierCall(r) => TierJob(r)
            BY <1>6 DEF ShopJob
        <2>2. TierCall(r) => /\ {"levels", "days"} \subseteq DOMAIN job[r]
                             /\ job[r].levels \subseteq status.owned
            BY <1>6, <2>1 DEF TierJob
        <2>3. TierCall(r) => /\ {"levels", "days"} \subseteq DOMAIN job'[r]
                             /\ job'[r].levels \subseteq status'.owned
            BY <1>4, <2>2 DEF Keeps
        <2>4. TierCall(r) /\ call(r).op = "svipBuy" => call(r).level \in status'.owned
            BY <2>1, <2>2 DEF TierJob, Keeps
        <2> QED  BY <1>5, <1>6, <2>3, <2>4 DEF TierJob, Grants
    <1> QED  BY <1>5, <1>10, <1>11, <1>12 DEF ShopJob

\* A step that leaves the offers and the status alone, and loses no row.
LEMMA RowsKeep ==
    ASSUME Routes, ShopInv, load' = load, ledger' = ledger,
           UNCHANGED <<listings, tiers, status>>, DOMAIN owned \subseteq DOMAIN owned'
    PROVE  Keeps /\ StockOk' /\ StatusOk'
    <1>1. Keeps
        BY ShopNow DEF Keeps, StatusOk
    <1>2. paidFor' = paidFor
        BY DEF paidFor
    <1> QED  BY <1>1, <1>2, ShopNow DEF StockOk, StatusOk

LEMMA GrantsMove ==
    ASSUME Routes, ShopInv, NEW r \in Requests, Serves(r, ShopOps, {"store", "svip"}),
           UNCHANGED <<listings, svipVars>>,
           GrantFind(r) \/ GrantExtend(r) \/ GrantCreate(r)
    PROVE  ShopInv'
    <1>1. /\ load' = load /\ UNCHANGED <<listings, tiers, status>> /\ pc[r] \in Grants
          /\ Takes(r) /\ (StoreCall(r) <=> StoreCall(r)') /\ ledger' = ledger
        <2>1. load' = load /\ Takes(r)
            BY CosmeticsTake DEF Serves, CosmeticsStep
        <2> QED  BY <2>1, KeepsCalls DEF GrantFind, GrantExtend, GrantCreate, Grants, svipVars,
                    NextGrant, Passes
    <1>2. PICK k : k = RowKey(thisGrant(r))
        OBVIOUS
    <1>3. OwnedOk(k) /\ (StoreCall(r) => k = Bought(r)) /\ Onward(r, job[r].then)
        BY <1>1, <1>2, GrantNow
    <1>4. ASSUME owned' = owned, k \in DOMAIN owned, NextGrant(r)
          PROVE  ShopInv'
        <2>1. Keeps /\ StockOk' /\ StatusOk'
            BY <1>1, <1>4, RowsKeep
        <2>2. ShopJob(r)'
            BY <1>1, <1>3, <1>4, <2>1, NextGranted
        <2> QED  BY <1>1, <1>3, <1>4, <2>1, <2>2, ShopNow, ShopServed
    <1>5. CASE GrantFind(r) /\ ~NextGrant(r)
        <2>1. /\ pc[r] = "grantFind" /\ owned' = owned
              /\ Learns(r, [until |-> expiry(thisGrant(r).days)])
              /\ pc'[r] = IF k \in DOMAIN owned THEN "grantExtend" ELSE "grantCreate"
            BY <1>2, <1>5, ShopNow DEF GrantFind, Goes, cosmeticVars
        <2>2. Keeps /\ StockOk' /\ StatusOk'
            BY <1>1, <2>1, RowsKeep
        <2>3. ShopJob(r)'
            BY <1>2, <2>1, <2>2, GrantWaits
        <2>4. k \in DOMAIN owned => k \in DOMAIN owned'
            BY <2>1
        <2>5. StoreCall(r) => pc'[r] \in {"grantFind", "grantCreate"} \/ Bought(r) \in DOMAIN owned'
            BY <1>3, <2>1, <2>4
        <2> QED  BY <1>1, <2>1, <2>2, <2>3, <2>5, ShopNow, ShopServed
    <1>6. CASE GrantFind(r) /\ NextGrant(r)
        <2>1. owned' = owned
            BY <1>6 DEF GrantFind, cosmeticVars
        <2>2. CASE k \in DOMAIN owned
            BY <1>4, <1>6, <2>1, <2>2
        <2>3. CASE k \notin DOMAIN owned
            <3>1. Goes(r, "grantCreate") /\ Learns(r, [until |-> expiry(thisGrant(r).days)])
                BY <1>2, <1>6, <2>3 DEF GrantFind
            <3>2. /\ pc[r] = "grantFind" /\ owned' = owned
                  /\ pc'[r] = IF k \in DOMAIN owned THEN "grantExtend" ELSE "grantCreate"
                BY <1>6, <2>1, <2>3, <3>1, ShopNow DEF GrantFind, Goes
            <3>3. Keeps /\ StockOk' /\ StatusOk'
                BY <1>1, <2>1, RowsKeep
            <3>4. ShopJob(r)'
                BY <1>2, <3>1, <3>2, <3>3, GrantWaits
            <3> QED  BY <1>1, <2>3, <3>2, <3>3, <3>4, ShopNow, ShopServed
        <2> QED  BY <2>2, <2>3
    <1>7. CASE GrantExtend(r)
        <2>1. /\ NextGrant(r) /\ k \in DOMAIN owned
              /\ owned' = [owned EXCEPT ![k].expires = job[r].until]
            BY <1>2, <1>7, ShopNow DEF GrantExtend, ShopJob, GrantJob
        <2>2. DOMAIN owned' = DOMAIN owned
              /\ \A l \in DOMAIN owned : DOMAIN owned'[l] = DOMAIN owned[l]
            BY <2>1
        <2>3. Keeps /\ StockOk' /\ StatusOk'
            BY <1>1, <2>2, RowsKeep
        <2>4. ShopJob(r)'
            BY <1>1, <1>3, <2>1, <2>2, <2>3, NextGranted
        <2> QED  BY <1>1, <1>3, <2>1, <2>2, <2>3, <2>4, ShopNow, ShopServed
    <1>8. CASE GrantCreate(r) /\ k \notin DOMAIN owned
        <2>1. NextGrant(r)
            BY <1>2, <1>8 DEF GrantCreate
        <2>2. PICK row : /\ row = [equipped |-> FALSE, expires |-> job[r].until,
                                   tier |-> thisGrant(r).tier]
                         /\ owned' = Put(owned, k, row)
            BY <1>2, <1>8 DEF GrantCreate
        <2>3. DOMAIN owned' = DOMAIN owned \cup {k} /\ owned'[k] = row
              /\ \A l \in DOMAIN owned : owned'[l] = owned[l]
            BY <1>8, <2>2 DEF Put
        <2>4. "equipped" \in DOMAIN row
            BY <2>2
        <2>5. Keeps /\ StockOk' /\ StatusOk'
            BY <1>1, <2>3, RowsKeep
        <2>6. ShopJob(r)'
            BY <1>1, <1>3, <2>1, <2>3, <2>5, NextGranted
        <2>7. OwnedOk(k)'
            BY <1>3, <2>5, ShopKeeps
        <2> QED  BY <1>1, <1>3, <2>3, <2>4, <2>5, <2>6, <2>7, ShopNow, ShopServed
    <1>9. CASE GrantCreate(r) /\ k \in DOMAIN owned
        <2>1. owned' = owned /\ (NextGrant(r) \/ (Passes(r, "failed") /\ ~job[r].bestEffort))
            BY <1>2, <1>9 DEF GrantCreate
        <2>2. CASE NextGrant(r)
            BY <1>4, <1>9, <2>1, <2>2
        <2>3. CASE Passes(r, "failed")
            <3>1. pc'[r] = "failed" /\ job' = job
                BY <2>3, ShopNow DEF Passes, Goes
            <3>2. Keeps /\ StockOk' /\ StatusOk'
                BY <1>1, <2>1, RowsKeep
            <3>3. ShopJob(r)'
                <4>1. ShopJob(r) /\ call(r)' = call(r) /\ (StoreCall(r) <=> StoreCall(r)')
                      /\ (TierCall(r) <=> TierCall(r)')
                    BY <1>1, ShopNow, KeepsCalls
                <4> QED  BY <3>1, <3>2, <4>1 DEF ShopJob, BuyJob, TierJob, GrantJob, Grants, Keeps
            <3> QED  BY <1>1, <1>3, <1>9, <2>1, <3>2, <3>3, ShopNow, ShopServed
        <2> QED  BY <2>1, <2>2, <2>3
    <1> QED  BY <1>5, <1>6, <1>7, <1>8, <1>9

LEMMA WearMoves ==
    ASSUME Routes, ShopInv, NEW r \in Requests, Serves(r, ShopOps, {"store", "svip"}),
           UNCHANGED <<listings, svipVars>>, CosmeticsStep(r),
           ~(GrantFind(r) \/ GrantExtend(r) \/ GrantCreate(r))
    PROVE  ShopInv'
    <1>1. Takes(r) /\ UNCHANGED <<listings, tiers, status>> /\ load' = load
        BY CosmeticsTake DEF svipVars, Serves
    <1>2. StockOk'
        BY <1>1, ShopNow DEF StockOk
    <1>3. Routed(r, pc[r]) /\ DOMAIN pc = Requests
        BY ShopNow
    <1>4. /\ ledger' = ledger /\ DOMAIN owned' = DOMAIN owned
          /\ \A k \in DOMAIN owned' : "equipped" \in DOMAIN owned'[k]
        <2>1. \/ owned' = owned
              \/ \E rows, on : Wear(rows, on)
            BY DEF CosmeticsStep, EquipFind, EquipPeers, EquipSave, UnequipFind, UnequipSave,
                   SvipOwned, SvipPeers, SvipWinners, UnequipSvip, UpdateItem, cosmeticVars
        <2>2. DOMAIN owned' = DOMAIN owned
              /\ \A k \in DOMAIN owned : DOMAIN owned'[k] = DOMAIN owned[k]
            BY <2>1 DEF Wear
        <2>3. ledger' = ledger
            BY DEF CosmeticsStep, EquipFind, EquipPeers, EquipSave, UnequipFind, UnequipSave,
                   SvipOwned, SvipPeers, SvipWinners, UnequipSvip, UpdateItem, Passes
        <2> QED  BY <2>2, <2>3, ShopNow
    <1>5. CASE EquipFind(r) \/ EquipPeers(r) \/ EquipSave(r) \/ UnequipFind(r) \/ UnequipSave(r)
               \/ UnequipSvip(r) \/ UpdateItem(r)
        <2>1. ~StoreCall(r) /\ ~TierCall(r)
            BY <1>3, <1>5 DEF EquipFind, EquipPeers, EquipSave, UnequipFind, UnequipSave,
                   UnequipSvip, UpdateItem, Begins, Routed, StoreCall, TierCall
        <2>2. pc'[r] \in {"equipPeers", "failed", "equipSave", "done", "unequipSave"}
            BY <1>3, <1>5 DEF EquipFind, EquipPeers, EquipSave, UnequipFind, UnequipSave,
                   UnequipSvip, UpdateItem, Passes, Goes
        <2> QED  BY <1>1, <1>2, <1>4, <2>1, <2>2, ShopAside DEF Grants
    <1>6. CASE SvipOwned(r) \/ SvipPeers(r) \/ SvipWinners(r)
        <2>1. ~StoreCall(r)
            BY <1>3, <1>6 DEF SvipOwned, SvipPeers, SvipWinners, Routed, StoreCall
        <2>2. pc'[r] \in {"svipPeers", "svipWinners", "done"}
            BY <1>3, <1>6 DEF SvipOwned, SvipPeers, SvipWinners, Passes, Goes
        <2>3. job' = job \/ \E W : Learns(r, [winners |-> W])
            BY <1>6 DEF SvipOwned, SvipPeers, SvipWinners, Passes
        <2>4. "levels" \in DOMAIN job'[r] => "levels" \in DOMAIN job[r]
            <3>1. ASSUME NEW W, Learns(r, [winners |-> W])
                  PROVE  "levels" \in DOMAIN job'[r] => "levels" \in DOMAIN job[r]
                <4>1. PICK f : f = [winners |-> W]
                    OBVIOUS
                <4>2. Learns(r, f) /\ DOMAIN f = {"winners"}
                    BY <3>1, <4>1
                <4>3. DOMAIN job'[r] = DOMAIN job[r] \cup DOMAIN f
                    BY <4>2, LearnedOne
                <4> QED  BY <4>2, <4>3
            <3> QED  BY <2>3, <3>1
        <2> QED  BY <1>1, <1>2, <1>4, <2>1, <2>2, <2>4, ShopAside DEF Grants
    <1> QED  BY <1>5, <1>6 DEF CosmeticsStep

LEMMA BuyMoves ==
    ASSUME Routes, ShopInv, NEW r \in Requests, Serves(r, ShopOps, {"store", "svip"}),
           UNCHANGED svipVars, StoreStep(r)
    PROVE  ShopInv'
    <1>1. /\ load' = load /\ UNCHANGED <<owned, tiers, status>> /\ Takes(r)
          /\ (StoreCall(r) <=> StoreCall(r)') /\ (TierCall(r) <=> TierCall(r)')
          /\ call(r)' = call(r) /\ Bought(r)' = Bought(r) /\ load \in Workloads
        <2>1. load' = load /\ Takes(r) /\ load \in Workloads
            BY StoreTakes, ShopNow DEF Serves
        <2>2. UNCHANGED <<owned, tiers, status>>
            BY DEF StoreStep, BuyListing, BuyItem, BuyDebit, UpdateListing, cosmeticVars, svipVars
        <2> QED  BY <2>1, <2>2, KeepsCalls
    <1>2. Keeps /\ StatusOk'
        <2>1. ledger \subseteq ledger'
            BY DEF Serves
        <2>2. Keeps
            BY <1>1, <2>1, ShopNow DEF Keeps, StatusOk
        <2>3. paidFor \subseteq paidFor'
            BY <2>1 DEF paidFor
        <2> QED  BY <1>1, <2>2, <2>3, ShopNow DEF StatusOk
    <1>3. Routed(r, pc[r]) /\ ShopJob(r) /\ DOMAIN pc = Requests
        BY ShopNow
    <1>4. call(r).op = "listing" \/ (StoreCall(r) /\ ~TierCall(r))
        BY <1>3 DEF StoreStep, BuyListing, BuyItem, BuyDebit, UpdateListing, Buys, Begins, Routed,
               StoreCall, TierCall
    <1>5. StoreCall(r) => call(r).listing \in DOMAIN FirstListings
        BY <1>1, ListingAssumption DEF StoreCall, call, Requests
    <1>6. StockOk'
        <2>1. CASE listings' = listings
            BY <1>1, <2>1, ShopNow DEF StockOk
        <2>2. CASE UpdateListing(r)
            <3>1. PICK f, l : f = call(r).fields /\ l = call(r).listing
                OBVIOUS
            <3>2. "item" \notin DOMAIN f
                BY <1>1, <2>2, <3>1, ListingAssumption DEF UpdateListing, Begins, call, Requests
            <3>3. listings' = [listings EXCEPT ![l] = Override(@, f)]
                BY <2>2, <3>1 DEF UpdateListing
            <3>4. \A x \in DOMAIN listings :
                    "item" \in DOMAIN listings[x] =>
                      "item" \in DOMAIN listings'[x] /\ listings'[x].item = listings[x].item
                BY <3>2, <3>3 DEF Override
            <3> QED  BY <1>1, <3>3, <3>4, ShopNow DEF StockOk
        <2> QED  BY <2>1, <2>2 DEF StoreStep, BuyListing, BuyItem, BuyDebit
    <1>7. ASSUME ShopJob(r)', pc[r] \notin {"grantFind", "grantCreate"}, ledger' = ledger
          PROVE  ShopInv'
        <2>1. \A k \in DOMAIN owned' : "equipped" \in DOMAIN owned'[k] /\ k \in DOMAIN owned
            BY <1>1, ShopNow
        <2> QED  BY <1>1, <1>2, <1>6, <1>7, <2>1, ShopServed
    <1>8. ASSUME pc'[r] = "failed", ledger' = ledger, pc[r] \notin {"grantFind", "grantCreate"},
                 StoreCall(r)
          PROVE  ShopInv'
        <2>1. ~TierCall(r)'
            BY <1>1, <1>8 DEF StoreCall, TierCall
        <2>2. ShopJob(r)'
            BY <1>8, <2>1 DEF ShopJob, BuyJob, GrantJob, Grants
        <2> QED  BY <1>7, <1>8, <2>2
    <1>9. CASE BuyListing(r)
        <2>1. pc[r] = "idle" /\ ledger' = ledger /\ StoreCall(r) /\ ~TierCall(r)
            BY <1>9 DEF BuyListing, Buys, Begins, StoreCall, TierCall
        <2>2. CASE Goes(r, "failed")
            BY <1>3, <1>8, <2>1, <2>2 DEF Goes
        <2>3. CASE ~Goes(r, "failed")
            <3>1. PICK f : f = [listing |-> listings[call(r).listing]]
                OBVIOUS
            <3>2. Learns(r, f) /\ pc'[r] = "buyItem"
                BY <1>3, <1>9, <2>3, <3>1 DEF BuyListing, Goes
            <3>3. DOMAIN f = {"listing"} /\ f.listing = listings[call(r).listing]
                BY <3>1
            <3>4. "listing" \in DOMAIN job'[r] /\ job'[r].listing = f.listing
                BY <3>2, <3>3, LearnedOne
            <3>5. ListingRead(r)'
                BY <1>1, <1>5, <2>1, <3>3, <3>4, ShopNow DEF ListingRead, StockOk
            <3>6. ShopJob(r)'
                BY <1>1, <2>1, <3>2, <3>5 DEF ShopJob, BuyJob, GrantJob, Grants
            <3> QED  BY <1>7, <2>1, <3>6
        <2> QED  BY <2>2, <2>3
    <1>10. CASE BuyItem(r)
        <2>1. /\ pc[r] = "buyItem" /\ ledger' = ledger /\ StoreCall(r) /\ ~TierCall(r)
              /\ job' = job /\ pc'[r] \in {"buyDebit", "failed"}
            BY <1>3, <1>10 DEF BuyItem, Passes, Goes, Routed, StoreCall, TierCall
        <2>2. ListingRead(r)'
            BY <1>1, <1>3, <2>1 DEF ShopJob, BuyJob, ListingRead
        <2>3. ShopJob(r)'
            BY <1>1, <2>1, <2>2 DEF ShopJob, BuyJob, GrantJob, Grants
        <2> QED  BY <1>7, <2>1, <2>3
    <1>11. CASE BuyDebit(r)
        <2>1. pc[r] = "buyDebit" /\ StoreCall(r) /\ ~TierCall(r)
            BY <1>3, <1>11 DEF BuyDebit, Routed, StoreCall, TierCall
        <2>2. CASE Passes(r, "failed")
            BY <1>3, <1>8, <2>1, <2>2 DEF Passes, Goes
        <2>3. CASE ~Passes(r, "failed")
            <3>1. PICK f : f = [grants |-> <<granted(r)>>, bestEffort |-> FALSE, then |-> "done"]
                OBVIOUS
            <3>2. Learns(r, f) /\ pc'[r] = "grantFind" /\ Posts(storeKey(call(r).key))
                BY <1>3, <1>11, <2>3, <3>1 DEF BuyDebit, Goes
            <3>3. /\ DOMAIN f = {"grants", "bestEffort", "then"}
                  /\ f.grants = <<granted(r)>> /\ f.bestEffort = FALSE /\ f.then = "done"
                BY <3>1
            <3>4. /\ DOMAIN job'[r] = DOMAIN job[r] \cup DOMAIN f
                  /\ \A x \in DOMAIN f : job'[r][x] = f[x]
                  /\ \A x \in DOMAIN job[r] \ DOMAIN f : job'[r][x] = job[r][x]
                BY <3>2, LearnedOne
            <3>5. /\ {"grants", "bestEffort", "then"} \subseteq DOMAIN job'[r]
                  /\ job'[r].grants = <<granted(r)>> /\ ~job'[r].bestEffort
                  /\ job'[r].then = "done"
                BY <3>3, <3>4
            <3>6. ListingRead(r)
                BY <1>3, <2>1 DEF ShopJob, BuyJob
            <3>7. "listing" \in DOMAIN job'[r] /\ job'[r].listing = job[r].listing
                BY <3>3, <3>4, <3>6 DEF ListingRead
            <3>8. granted(r)' = granted(r) /\ ListingRead(r)'
                BY <1>1, <3>6, <3>7 DEF granted, receiver, source, ListingRead
            <3>9. job'[r].grants \in Seq(DueTo(r)') /\ job'[r].grants # <<>>
                  /\ Len(job'[r].grants) = 1
                <4>1. DueTo(r)' = {granted(r)}
                    BY <1>1, <2>1, <3>8 DEF DueTo
                <4> QED  BY <3>5, <4>1
            <3>10. storeKey(call(r).key) \in ledger' /\ storeKey(call(r).key)' = storeKey(call(r).key)
                BY <1>1, <3>2 DEF Posts, storeKey
            <3>11. ShopJob(r)'
                BY <1>1, <2>1, <3>2, <3>5, <3>8, <3>9, <3>10 DEF ShopJob, BuyJob, GrantJob, Grants
            <3>12. \A p \in ledger' : p \in ledger \/ Awaited(p)'
                <4>1. Requests' = Requests /\ GotTo(r, "grantFind")'
                    BY <1>1, <3>2 DEF GotTo, Requests
                <4>2. Awaited(storeKey(call(r).key))'
                    BY <1>1, <2>1, <3>10, <4>1 DEF Awaited
                <4> QED  BY <3>2, <3>10, <4>2 DEF Posts, Awaited
            <3>13. \A k \in DOMAIN owned' : "equipped" \in DOMAIN owned'[k] /\ k \in DOMAIN owned
                BY <1>1, ShopNow
            <3> QED  BY <1>1, <1>2, <1>6, <2>1, <3>11, <3>12, <3>13, ShopServed
        <2> QED  BY <2>2, <2>3
    <1>12. CASE UpdateListing(r)
        <2>1. pc'[r] = "done" /\ ledger' = ledger /\ ~StoreCall(r) /\ ~TierCall(r) /\ pc[r] = "idle"
            BY <1>3, <1>12 DEF UpdateListing, Passes, Goes, Begins, StoreCall, TierCall
        <2>2. ShopJob(r)'
            BY <1>1, <2>1 DEF ShopJob, GrantJob, Grants
        <2> QED  BY <1>7, <2>1, <2>2
    <1> QED  BY <1>9, <1>10, <1>11, <1>12 DEF StoreStep

\* The cosmetics of some tiers, of which a request may grant any.
LEMMA GrantsOfType ==
    ASSUME StockOk, NEW u, NEW levels, NEW days
    PROVE  GrantsOf(u, levels, days) \in Seq(TierGrants(u, levels, days))
    <1>1. PICK S : S = TierGrants(u, levels, days)
        OBVIOUS
    <1>2. PICK seqs : seqs = [l \in Levels |->
              IF l \notin levels THEN <<>>
              ELSE [i \in DOMAIN tiers[l].items |->
                      Grant(u, tiers[l].items[i], "svip", l, days, l)]]
        OBVIOUS
    <1>3. ASSUME NEW l \in Levels
          PROVE  seqs[l] \in Seq(S)
        <2>1. CASE l \notin levels
            BY <1>2, <2>1
        <2>2. CASE l \in levels
            <3>1. PICK items1 \in Seq(DOMAIN Catalog) : items1 = tiers[l].items
                BY DEF StockOk
            <3>2. DOMAIN items1 = 1 .. Len(items1) /\ Len(items1) \in Nat
                OBVIOUS
            <3>3. seqs[l] = [i \in 1 .. Len(items1) |-> Grant(u, items1[i], "svip", l, days, l)]
                BY <1>2, <2>2, <3>1, <3>2
            <3>4. \A i \in 1 .. Len(items1) : Grant(u, items1[i], "svip", l, days, l) \in S
                BY <1>1, <2>2, <3>1 DEF TierGrants
            <3> QED  BY <3>2, <3>3, <3>4
        <2> QED  BY <2>1, <2>2
    <1>4. seqs \in Seq(Seq(S))
        <2>1. FirstTiers \in Seq([price : Int, days : Nat, items : Seq(DOMAIN Catalog)])
            BY TierAssumption
        <2>2. Levels = 1 .. Len(FirstTiers) /\ Len(FirstTiers) \in Nat
            BY <2>1 DEF Levels
        <2> QED  BY <1>2, <1>3, <2>2
    <1>5. FlattenSeq(seqs) \in Seq(S)
        BY <1>4, FlattenType
    <1> QED  BY <1>1, <1>2, <1>5 DEF GrantsOf

\* One more tier.
LEMMA HighestOwned ==
    ASSUME NEW S, S \subseteq Levels, NEW l \in Levels
    PROVE  Max(S \cup {l} \cup {0}) = IF l > Max(S \cup {0}) THEN l ELSE Max(S \cup {0})
    <1>1. FirstTiers \in Seq([price : Int, days : Nat, items : Seq(DOMAIN Catalog)])
        BY TierAssumption
    <1>2. Levels = 1 .. Len(FirstTiers) /\ Len(FirstTiers) \in Nat
        BY <1>1 DEF Levels
    <1>3. Len(FirstTiers) \in Int /\ 0 \in Int
        BY <1>2
    <1>4. IsFiniteSet(0 .. Len(FirstTiers))
        BY <1>3, FS_Interval
    <1>5. PICK A : A = S \cup {0}
        OBVIOUS
    <1>6. PICK B : B = S \cup {l} \cup {0}
        OBVIOUS
    <1>7. A \subseteq 0 .. Len(FirstTiers) /\ B \subseteq 0 .. Len(FirstTiers)
        BY <1>2, <1>5, <1>6
    <1>8. IsFiniteSet(A) /\ IsFiniteSet(B) /\ A # {} /\ B # {}
          /\ A \subseteq Int /\ B \subseteq Int
        <2>1. A # {} /\ B # {} /\ A \subseteq Int /\ B \subseteq Int
            BY <1>3, <1>5, <1>6, <1>7
        <2> QED  BY <1>4, <1>7, <2>1, FS_Subset
    <1>9. /\ Max(A) \in A /\ \A y \in A : y <= Max(A)
          /\ Max(B) \in B /\ \A y \in B : y <= Max(B)
        BY <1>8, MaxIs
    <1>10. B = A \cup {l} /\ l \in Int
        BY <1>2, <1>5, <1>6
    <1>11. Max(A) \in Int /\ Max(B) \in Int /\ Max(A) <= Max(B) /\ l <= Max(B)
           /\ (Max(B) = l \/ Max(B) <= Max(A))
        BY <1>8, <1>9, <1>10
    <1>12. Max(B) = IF l > Max(A) THEN l ELSE Max(A)
        BY <1>10, <1>11
    <1> QED  BY <1>5, <1>6, <1>12

\* What a step of SVIP must establish.
LEMMA SvipServed ==
    ASSUME Routes, ShopInv, NEW r \in Requests, Serves(r, ShopOps, {"store", "svip"}),
           UNCHANGED <<owned, listings>>, SvipStep(r), Keeps, StockOk', StatusOk',
           TierCall(r) => TierJob(r)', pc'[r] \in Grants => GrantJob(r)',
           \A p \in ledger' : p[1] = "store" => p \in ledger
    PROVE  ShopInv'
    <1>1. /\ Takes(r) /\ call(r)' = call(r) /\ (StoreCall(r) <=> StoreCall(r)')
          /\ (TierCall(r) <=> TierCall(r)')
        BY SvipTakes, KeepsCalls DEF Keeps
    <1>2. Routed(r, pc[r])
        BY ShopNow
    <1>3. ~StoreCall(r)
        BY <1>2 DEF SvipStep, TierFind, TierStatus, TierDebit, TierSave, TierItems, ActivateFind,
               ActivateSave, DeactivateFind, DeactivateSave, UpdateTier, Begins, Routed, StoreCall
    <1>4. ShopJob(r)'
        BY <1>1, <1>3 DEF ShopJob, GrantJob, Grants
    <1>5. \A k \in DOMAIN owned' : "equipped" \in DOMAIN owned'[k] /\ k \in DOMAIN owned
        BY ShopNow
    <1> QED  BY <1>1, <1>3, <1>4, <1>5, ShopServed

\* The tiers change in an update only.
LEMMA TiersUpdate ==
    ASSUME Routes, ShopInv, NEW r \in Requests, listings' = listings, SvipStep(r)
    PROVE  StockOk'
    <1>1. CASE tiers' = tiers
        BY <1>1, ShopNow DEF StockOk
    <1>2. CASE UpdateTier(r)
        <2>1. PICK f, l : f = call(r).fields /\ l = call(r).level
            OBVIOUS
        <2>2. "items" \in DOMAIN f => f.items \in Seq(DOMAIN Catalog)
            BY <1>2, <2>1, ShopNow, TierAssumption DEF UpdateTier, Begins, call, Requests
        <2>3. tiers' = [tiers EXCEPT ![l] = Override(@, f)]
            BY <1>2, <2>1 DEF UpdateTier
        <2>4. \A x \in DOMAIN tiers :
                "items" \in DOMAIN tiers[x] /\ tiers[x].items \in Seq(DOMAIN Catalog) =>
                  "items" \in DOMAIN tiers'[x] /\ tiers'[x].items \in Seq(DOMAIN Catalog)
            BY <2>2, <2>3 DEF Override
        <2> QED  BY <2>3, <2>4, ShopNow DEF StockOk
    <1> QED  BY <1>1, <1>2 DEF SvipStep, TierFind, TierStatus, TierDebit, TierSave, TierItems,
                 ActivateFind, ActivateSave, DeactivateFind, DeactivateSave, svipVars

LEMMA TierMoves ==
    ASSUME Routes, ShopInv, NEW r \in Requests, Serves(r, ShopOps, {"store", "svip"}),
           listings' = listings, SvipStep(r)
    PROVE  ShopInv'
    <1>1. /\ load' = load /\ owned' = owned /\ load \in Workloads /\ call(r)' = call(r)
          /\ (TierCall(r) <=> TierCall(r)') /\ tierKey(r)' = tierKey(r)
          /\ DOMAIN pc = Requests /\ Requests' = Requests
        <2>1. load' = load /\ DOMAIN pc = Requests /\ load \in Workloads
            BY ShopNow DEF Serves
        <2>2. owned' = owned
            BY DEF SvipStep, TierFind, TierStatus, TierDebit, TierSave, TierItems, ActivateFind,
                   ActivateSave, DeactivateFind, DeactivateSave, UpdateTier, cosmeticVars
        <2> QED  BY <2>1, <2>2, KeepsCalls
    <1>2. StockOk'
        BY TiersUpdate
    <1>3. Routed(r, pc[r]) /\ ShopJob(r) /\ StatusOk
        BY ShopNow
    <1>4. ASSUME status' = status, ledger' = ledger,
                 TierCall(r) => TierJob(r)', pc'[r] \in Grants => GrantJob(r)'
          PROVE  ShopInv'
        <2>1. Keeps
            BY <1>1, <1>3, <1>4 DEF Keeps, StatusOk
        <2>2. StatusOk'
            <3>1. paidFor' = paidFor
                BY <1>4 DEF paidFor
            <3> QED  BY <1>3, <1>4, <3>1 DEF StatusOk
        <2> QED  BY <1>1, <1>2, <1>4, <2>1, <2>2, SvipServed
    <1>5. Seen(status)
        BY <1>3 DEF StatusOk, Seen
    <1>6. CASE TierFind(r) \/ UpdateTier(r) \/ DeactivateFind(r)
        <2>1. /\ status' = status /\ ledger' = ledger
              /\ pc'[r] \in {"svipStatus", "failed", "done", "deactivateSave"}
              /\ TierCall(r) => job' = job \/ \E t : Learns(r, [tier |-> t])
            BY <1>1, <1>6 DEF TierFind, UpdateTier, DeactivateFind, Passes, Goes, svipVars, Begins,
                   TierCall
        <2>2. TierCall(r) => ("levels" \in DOMAIN job'[r] => "levels" \in DOMAIN job[r])
            <3>1. ASSUME NEW t, Learns(r, [tier |-> t])
                  PROVE  "levels" \in DOMAIN job'[r] => "levels" \in DOMAIN job[r]
                <4>1. PICK f : f = [tier |-> t]
                    OBVIOUS
                <4>2. Learns(r, f) /\ DOMAIN f = {"tier"}
                    BY <3>1, <4>1
                <4>3. DOMAIN job'[r] = DOMAIN job[r] \cup DOMAIN f
                    BY <4>2, LearnedOne
                <4> QED  BY <4>2, <4>3
            <3> QED  BY <2>1, <3>1
        <2>3. TierCall(r) => TierJob(r)'
            BY <1>1, <1>3, <2>1, <2>2 DEF ShopJob, TierJob, Grants
        <2>4. pc'[r] \notin Grants
            BY <2>1 DEF Grants
        <2> QED  BY <1>4, <2>1, <2>3, <2>4
    <1>7. CASE TierStatus(r) \/ ActivateFind(r)
        <2>1. status' = status /\ ledger' = ledger /\ call(r).op \in {"svipBuy", "activate"}
            BY <1>3, <1>7 DEF TierStatus, ActivateFind, Begins, Routed, svipVars
        <2>2. /\ pc'[r] \in {"failed", "svipDebit", "activateSave"}
              /\ pc'[r] = "activateSave" => call(r).level \in status.owned
            BY <1>1, <1>7 DEF TierStatus, ActivateFind, Goes
        <2>3. \/ pc'[r] = "failed" /\ job' = job
              \/ Learns(r, [status |-> status])
            BY <1>1, <1>7 DEF TierStatus, ActivateFind, Goes
        <2>4. pc'[r] \notin Grants
            BY <2>2 DEF Grants
        <2>5. CASE pc'[r] = "failed" /\ job' = job
            <3>1. TierJob(r)'
                BY <1>1, <1>3, <2>1, <2>5 DEF ShopJob, TierJob, Grants, TierCall
            <3> QED  BY <1>4, <2>1, <2>4, <3>1
        <2>6. CASE Learns(r, [status |-> status])
            <3>1. PICK f : f = [status |-> status]
                OBVIOUS
            <3>2. Learns(r, f) /\ DOMAIN f = {"status"} /\ f.status = status
                BY <2>6, <3>1
            <3>3. /\ DOMAIN job'[r] = DOMAIN job[r] \cup DOMAIN f
                  /\ \A x \in DOMAIN f : job'[r][x] = f[x]
                BY <3>2, LearnedOne
            <3>4. "status" \in DOMAIN job'[r] /\ job'[r].status = status
                  /\ ("levels" \in DOMAIN job'[r] => "levels" \in DOMAIN job[r])
                BY <3>2, <3>3
            <3>5. PICK s : s = status
                OBVIOUS
            <3>6. Seen(job[r].status)'
                BY <1>5, <2>1, <3>4, <3>5 DEF Seen
            <3>7. TierJob(r)'
                BY <1>1, <1>3, <2>1, <2>2, <3>4, <3>6 DEF ShopJob, TierJob, Grants, TierCall
            <3> QED  BY <1>4, <2>1, <2>4, <3>7
        <2> QED  BY <2>3, <2>5, <2>6
    <1>8. CASE TierDebit(r)
        <2>1. /\ call(r).op = "svipBuy" /\ status' = status /\ pc[r] = "svipDebit" /\ job' = job
              /\ \/ Posts(tierKey(r)) /\ pc'[r] = "svipSave"
                 \/ ledger' = ledger /\ pc'[r] = "failed"
            BY <1>1, <1>3, <1>8 DEF TierDebit, Passes, Goes, Routed, svipVars
        <2>2. /\ ledger \subseteq ledger' /\ \A p \in ledger' : p \in ledger \/ p = tierKey(r)
              /\ (pc'[r] = "svipSave" => tierKey(r) \in ledger')
            BY <2>1 DEF Posts
        <2>3. tierKey(r)[1] # "store"
            BY DEF tierKey
        <2>4. Keeps
            BY <1>1, <1>3, <2>1, <2>2 DEF Keeps, StatusOk
        <2>5. StatusOk'
            <3>1. paidFor \subseteq paidFor'
                BY <2>2 DEF paidFor
            <3> QED  BY <1>3, <2>1, <3>1 DEF StatusOk
        <2>6. TierJob(r)'
            <3>1. TierJob(r)
                BY <1>3, <2>1 DEF ShopJob, TierCall
            <3>2. Seen(job[r].status)'
                BY <2>1, <3>1 DEF TierJob, Seen
            <3> QED  BY <1>1, <2>1, <2>2, <3>1, <3>2 DEF TierJob, Grants
        <2>7. pc'[r] \notin Grants
            BY <2>1 DEF Grants
        <2> QED  BY <1>1, <1>2, <2>2, <2>3, <2>4, <2>5, <2>6, <2>7, SvipServed
    <1>9. ASSUME NEW levels, NEW days, NEW to, ThenGrants(r, levels, days, to), Keeps,
                 levels \subseteq status'.owned,
                 call(r).op = "svipBuy" => call(r).level \in status'.owned
          PROVE  TierJob(r)' /\ pc'[r] \notin Grants
        <2>1. PICK f : f = [levels |-> levels, days |-> days, then |-> to, level |-> call(r).level]
            OBVIOUS
        <2>2. Learns(r, f) /\ pc'[r] = "svipTiers"
            BY <1>1, <1>9, <2>1 DEF ThenGrants, Goes
        <2>3. DOMAIN f = {"levels", "days", "then", "level"} /\ f.levels = levels
            BY <2>1
        <2>4. /\ DOMAIN job'[r] = DOMAIN job[r] \cup DOMAIN f
              /\ \A x \in DOMAIN f : job'[r][x] = f[x]
            BY <2>2, LearnedOne
        <2>5. {"levels", "days"} \subseteq DOMAIN job'[r] /\ job'[r].levels = levels
            BY <2>3, <2>4
        <2> QED  BY <1>1, <1>9, <2>2, <2>5 DEF TierJob, Grants
    <1>10. CASE TierSave(r)
        <2>1. call(r).op = "svipBuy" /\ pc[r] = "svipSave" /\ ledger' = ledger
              /\ TierJob(r) /\ call(r).level \in Levels /\ TierCall(r)
            <3>1. call(r).op = "svipBuy" /\ pc[r] = "svipSave" /\ ledger' = ledger
                BY <1>3, <1>10 DEF TierSave, Routed
            <3>2. call(r).level \in Levels
                BY <1>1, <3>1, TierAssumption DEF call, Requests, Levels
            <3> QED  BY <1>3, <3>1, <3>2 DEF ShopJob, TierCall
        <2>2. CASE status.version = job[r].status.version
            <3>1. PICK s, l : s = job[r].status /\ l = call(r).level
                OBVIOUS
            <3>2. Seen(s) /\ s.version = status.version
                BY <2>1, <2>2, <3>1 DEF TierJob
            <3>3. s.owned = status.owned /\ s.highest = status.highest
                BY <3>2 DEF Seen
            <3>4. status' = Saved(r)
                BY <1>10, <2>2 DEF TierSave
            <3>5. /\ DOMAIN status' = {"current", "owned", "highest", "expires", "version"}
                  /\ status'.owned = status.owned \cup {l}
                  /\ status'.version = status.version + 1
                  /\ status'.highest = IF l > status.highest THEN l ELSE status.highest
                  /\ status'.current \in {l, status.current}
                BY <3>1, <3>3, <3>4 DEF Saved
            <3>6. status.version \in Nat
                BY <1>3 DEF StatusOk
            <3>7. Keeps
                BY <1>1, <2>1, <3>5, <3>6 DEF Keeps
            <3>8. StatusOk'
                <4>1. paidFor' = paidFor /\ l \in paidFor
                    <5>1. tierKey(r) \in ledger /\ tierKey(r)[1] = "svip" /\ tierKey(r)[2] = l
                        BY <2>1, <3>1 DEF TierJob, tierKey
                    <5> QED  BY <2>1, <5>1 DEF paidFor
                <4>2. status'.highest = Max(status'.owned \cup {0})
                    <5>1. PICK S : S = status.owned
                        OBVIOUS
                    <5>2. S \subseteq Levels /\ l \in Levels /\ status.highest = Max(S \cup {0})
                        BY <1>3, <2>1, <3>1, <5>1 DEF StatusOk
                    <5>3. Max(S \cup {l} \cup {0}) =
                            IF l > Max(S \cup {0}) THEN l ELSE Max(S \cup {0})
                        BY <5>2, HighestOwned
                    <5> QED  BY <3>5, <5>1, <5>2, <5>3
                <4>3. status'.version \in Nat
                    BY <3>5, <3>6
                <4> QED  BY <1>3, <2>1, <3>1, <3>5, <4>1, <4>2, <4>3 DEF StatusOk
            <3>9. \E days, to : ThenGrants(r, status'.owned, days, to)
                BY <1>10, <2>2 DEF TierSave
            <3>10. TierJob(r)' /\ pc'[r] \notin Grants
                BY <1>9, <3>1, <3>5, <3>7, <3>9
            <3> QED  BY <1>1, <1>2, <2>1, <3>7, <3>8, <3>10, SvipServed
        <2>3. CASE status.version # job[r].status.version
            <3>1. status' = status /\ pc'[r] = "failed" /\ job' = job
                BY <1>1, <1>10, <2>3 DEF TierSave, Goes
            <3>2. TierJob(r)' /\ pc'[r] \notin Grants
                BY <1>1, <2>1, <3>1 DEF TierJob, Grants
            <3> QED  BY <1>4, <2>1, <3>1, <3>2
        <2> QED  BY <2>2, <2>3
    <1>11. ASSUME NEW l, Current(r, l), l \in status.owned \cup {0}, ledger' = ledger
           PROVE  Keeps /\ StatusOk'
        <2>1. /\ DOMAIN status' = DOMAIN status /\ status'.owned = status.owned
              /\ status'.highest = status.highest /\ status'.version = status.version
              /\ status'.current \in {l, status.current}
            BY <1>3, <1>11 DEF Current, StatusOk
        <2>2. paidFor' = paidFor
            BY <1>11 DEF paidFor
        <2>3. status.version \in Nat /\ status.version <= status.version
            BY <1>3 DEF StatusOk
        <2> QED  BY <1>1, <1>3, <1>11, <2>1, <2>2, <2>3 DEF Keeps, StatusOk
    <1>12. CASE ActivateSave(r)
        <2>1. /\ call(r).op = "activate" /\ pc[r] = "activateSave" /\ ledger' = ledger
              /\ Current(r, call(r).level)
              /\ ThenGrants(r, job[r].status.owned, 0, "svipOwned")
            BY <1>3, <1>12 DEF ActivateSave, Routed, ThenGrants, cosmeticVars
        <2>2. call(r).level \in status.owned /\ Seen(job[r].status)
            BY <1>3, <2>1 DEF ShopJob, TierCall, TierJob
        <2>3. Keeps /\ StatusOk'
            BY <1>11, <2>1, <2>2
        <2>4. job[r].status.owned \subseteq status'.owned
            BY <2>2, <2>3 DEF Seen, Keeps
        <2>5. TierJob(r)' /\ pc'[r] \notin Grants
            BY <1>9, <2>1, <2>3, <2>4
        <2> QED  BY <1>1, <1>2, <2>1, <2>3, <2>5, SvipServed
    <1>13. CASE DeactivateSave(r)
        <2>1. /\ ledger' = ledger /\ Current(r, 0) /\ ~TierCall(r) /\ pc'[r] = "unequipSvip"
            BY <1>1, <1>3, <1>13 DEF DeactivateSave, Passes, Goes, Routed, TierCall
        <2>2. Keeps /\ StatusOk'
            BY <1>11, <2>1
        <2>3. pc'[r] \notin Grants
            BY <2>1 DEF Grants
        <2> QED  BY <1>1, <1>2, <2>1, <2>2, <2>3, SvipServed
    <1>14. CASE TierItems(r)
        <2>1. /\ pc[r] = "svipTiers" /\ status' = status /\ ledger' = ledger /\ TierJob(r)
              /\ TierCall(r) /\ ~StoreCall(r)
            BY <1>3, <1>14 DEF TierItems, Routed, ShopJob, TierCall, StoreCall, svipVars
        <2>2. PICK u, levels, days : u = call(r).user /\ levels = job[r].levels /\ days = job[r].days
            OBVIOUS
        <2>3. PICK g : g = GrantsOf(u, {l \in levels : tiers[l].active}, days)
            OBVIOUS
        <2>4. PICK f : f = [grants |-> g, bestEffort |-> TRUE]
            OBVIOUS
        <2>5. /\ Learns(r, f) /\ DOMAIN f = {"grants", "bestEffort"} /\ f.grants = g
              /\ pc'[r] = IF g = <<>> THEN job[r].then ELSE "grantFind"
            BY <1>1, <1>14, <2>2, <2>3, <2>4 DEF TierItems, Goes
        <2>6. g \in Seq(TierGrants(u, levels, days))
            <3>1. g \in Seq(TierGrants(u, {l \in levels : tiers[l].active}, days))
                BY <2>3, ShopNow, GrantsOfType
            <3>2. PICK S, T : /\ S = TierGrants(u, {l \in levels : tiers[l].active}, days)
                              /\ T = TierGrants(u, levels, days)
                OBVIOUS
            <3>3. S \subseteq T
                BY <3>2 DEF TierGrants
            <3> QED  BY <3>1, <3>2, <3>3
        <2>7. {"levels", "days"} \subseteq DOMAIN job[r] /\ job[r].levels \subseteq status.owned
              /\ (call(r).op = "svipBuy" => call(r).level \in status.owned)
            BY <2>1 DEF TierJob
        <2>8. /\ DOMAIN job'[r] = DOMAIN job[r] \cup DOMAIN f
              /\ \A x \in DOMAIN f : job'[r][x] = f[x]
              /\ \A x \in DOMAIN job[r] \ DOMAIN f : job'[r][x] = job[r][x]
            BY <2>5, LearnedOne
        <2>9. /\ {"levels", "days", "grants", "bestEffort"} \subseteq DOMAIN job'[r]
              /\ job'[r].levels = levels /\ job'[r].days = days /\ job'[r].grants = g
            BY <2>2, <2>5, <2>7, <2>8
        <2>10. pc'[r] \in {"done", "svipOwned", "grantFind"}
               /\ (pc'[r] = "grantFind" => g # <<>>)
            BY <2>1, <2>5, ShopNow DEF GoesOn, Granting, Onward
        <2>11. TierJob(r)'
            BY <1>1, <2>1, <2>2, <2>7, <2>9, <2>10 DEF TierJob, Grants
        <2>12. DueTo(r)' = TierGrants(u, levels, days)
            <3>1. ~StoreCall(r)' /\ call(r)' = call(r)
                BY <1>1, <2>1 DEF StoreCall
            <3> QED  BY <2>2, <2>9, <3>1 DEF DueTo, TierGrants
        <2>13. pc'[r] \in Grants => GrantJob(r)'
            BY <2>6, <2>9, <2>10, <2>12 DEF GrantJob, Grants
        <2> QED  BY <1>4, <2>1, <2>11, <2>13
    <1> QED  BY <1>6, <1>7, <1>8, <1>10, <1>12, <1>13, <1>14 DEF SvipStep

LEMMA ShopKept ==
    ASSUME Routes, ShopInv, [Next]_vars
    PROVE  ShopInv'
    <1>1. ASSUME NEW r \in Requests, Shops(r), Serves(r, ShopOps, {"store", "svip"})
          PROVE  ShopInv'
        <2>1. CASE CosmeticsStep(r) /\ UNCHANGED <<listings, svipVars>>
            BY <1>1, <2>1, GrantsMove, WearMoves
        <2>2. CASE StoreStep(r) /\ UNCHANGED svipVars
            BY <1>1, <2>2, BuyMoves
        <2>3. CASE SvipStep(r) /\ listings' = listings
            BY <1>1, <2>3, TierMoves
        <2> QED  BY <1>1, <2>1, <2>2, <2>3 DEF Shops
    <1>2. CASE \/ \E r \in Requests : Halts(r) /\ UNCHANGED <<cosmeticVars, listings, svipVars>>
               \/ Quiet(ShopOps, {"store", "svip"})
                     /\ UNCHANGED <<cosmeticVars, listings, svipVars>>
        BY <1>2, RoutesStep, ShopRests
    <1> QED  BY <1>1, <1>2, ShopSteps

------------------------------------------------------------------------------
\* The coins of a tier: what a purchase owes, and the days it adds.

Buying == {"svipStatus", "svipDebit", "svipSave"}
BuysTier(r) == call(r).op = "svipBuy"

\* A purchase that was refused at its save has met a later version.
Overtaken(r) ==
    /\ pc[r] = "failed" /\ job[r].status.version \in Nat
    /\ job[r].status.version < status.version

\* Until the save the purchase has its tier and, once read, the expiry of its version;
\* a debit leads to the save, or was cut off or overtaken there.
PurchaseOk(r) ==
    /\ pc[r] \in Buying \cup {"idle"} => "levels" \notin DOMAIN job[r]
    /\ pc[r] \in Buying => "tier" \in DOMAIN job[r] /\ job[r].tier.days \in Nat
    /\ pc[r] \in {"svipDebit", "svipSave"} /\ job[r].status.version = status.version
          => job[r].status.expires = status.expires
    /\ "levels" \in DOMAIN job[r] =>
          "days" \in DOMAIN job[r] /\ job[r].days \in Nat /\ tierKey(r) \in ledger
    /\ tierKey(r) \in ledger =>
          "levels" \in DOMAIN job[r] \/ GotTo(r, "svipSave") \/ Overtaken(r)

TierDays == \A l \in Levels : "days" \in DOMAIN tiers[l] /\ tiers[l].days \in Nat

TimeOk ==
    /\ saved = {} => status.expires = Never
    /\ saved # {} /\ (\A r \in saved : job[r].days > 0) /\ daysPaid + day < Never =>
           status.expires \in daysPaid + 1 .. daysPaid + day

PaidOk ==
    /\ TierDays /\ TimeOk
    /\ \A r \in Requests : BuysTier(r) => PurchaseOk(r)

LEMMA PaidInit == Init => PaidOk
    <1> SUFFICES ASSUME Init  PROVE PaidOk
        OBVIOUS
    <1> USE DEF Init, ServiceInit, SvipInit
    <1>1. TierDays
        <2>1. PICK R : R = [price : Int, days : Nat, items : Seq(DOMAIN Catalog)]
            OBVIOUS
        <2>2. FirstTiers \in Seq(R)
            BY <2>1, TierAssumption
        <2>3. \A l \in Levels : FirstTiers[l] \in R
            BY <2>2 DEF Levels
        <2> QED  BY <2>1, <2>3 DEF TierDays, Override
    <1>2. \A r \in Requests : pc[r] = "idle" /\ DOMAIN job[r] = {}
        BY DEF Requests
    <1>3. TimeOk
        BY <1>2 DEF TimeOk, saved
    <1> QED  BY <1>1, <1>2, <1>3 DEF PaidOk, PurchaseOk, Buying

\* The days of a tier change in an update only, which keeps them days.
LEMMA TierDaysStay ==
    ASSUME Routes, TierDays, DOMAIN tiers = Levels, NEW r \in Requests, SvipStep(r)
    PROVE  TierDays'
    <1>1. CASE tiers' = tiers
        BY <1>1 DEF TierDays
    <1>2. CASE UpdateTier(r)
        <2>1. PICK f, l : f = call(r).fields /\ l = call(r).level
            OBVIOUS
        <2>2. "days" \in DOMAIN f => f.days \in Nat
            BY <1>2, <2>1, TierAssumption DEF UpdateTier, Begins, call, Requests, Routes
        <2>3. tiers' = [tiers EXCEPT ![l] = Override(@, f)]
            BY <1>2, <2>1 DEF UpdateTier
        <2> QED  BY <2>2, <2>3 DEF Override, TierDays
    <1> QED  BY <1>1, <1>2 DEF SvipStep, TierFind, TierStatus, TierDebit, TierSave, TierItems,
                 ActivateFind, ActivateSave, DeactivateFind, DeactivateSave, svipVars

\* Where no purchase is saved and the expiry stays, the days stay what they were.
LEMMA TimeStays ==
    ASSUME Routes, PaidOk, load' = load, day' \in {day, day + 1},
           status'.expires = status.expires, saved' = saved,
           \A s \in saved : job'[s].days = job[s].days
    PROVE  TimeOk'
    <1>1. IsFiniteSet(saved) /\ \A s \in saved : job[s].days \in Int
        <2>1. IsFiniteSet(Requests)
            BY WorkloadAssumption DEF Routes, Requests
        <2>2. saved \subseteq Requests
            BY DEF saved
        <2> QED  BY <2>1, <2>2, FS_Subset DEF PaidOk, PurchaseOk, saved, BuysTier
    <1>2. PICK S, f, g : /\ S = saved /\ f = [r \in saved |-> job[r].days]
                         /\ g = [r \in saved |-> job'[r].days]
        OBVIOUS
    <1>3. SumFunctionOnSet(g, S) = SumFunctionOnSet(f, S)
        BY <1>1, <1>2, SumSame
    <1>4. daysPaid = SumFunctionOnSet(f, S)
        BY <1>2, Zenon DEF daysPaid
    <1>5. daysPaid' = SumFunctionOnSet(g, S)
        BY <1>2, Zenon DEF daysPaid
    <1>6. daysPaid \in Int
        BY <1>1, <1>2, <1>4, SumType
    <1>7. daysPaid' = daysPaid
        BY <1>3, <1>4, <1>5
    <1>8. day \in Nat
        BY WorkloadAssumption DEF Routes
    <1>9. (\A s \in saved' : job'[s].days > 0) => \A s \in saved : job[s].days > 0
        OBVIOUS
    <1>10. ASSUME saved' # {}, \A s \in saved' : job'[s].days > 0, daysPaid' + day' < Never
           PROVE  status'.expires \in daysPaid' + 1 .. daysPaid' + day'
        <2>1. saved # {} /\ \A s \in saved : job[s].days > 0
            BY <1>9, <1>10
        <2>2. PICK n \in Int : n = daysPaid
            BY <1>6
        <2>3. n + day' < Never /\ n + day < Never
            <3>1. daysPaid' = n
                BY <1>7, <2>2
            <3>2. n + day' < Never
                BY <1>10, <3>1
            <3>3. n \in Int /\ day \in Nat /\ (day' = day \/ day' = day + 1)
                BY <1>8, <2>2
            <3>4. ASSUME NEW d, NEW e, d \in Nat, e = d \/ e = d + 1, n + e < Never
                  PROVE  n + d < Never
                BY <3>3, <3>4 DEF Never
            <3>5. n + day < Never
                BY <3>2, <3>3, <3>4
            <3> QED  BY <3>2, <3>3, <3>5
        <2>4. status.expires \in n + 1 .. n + day
            BY <2>1, <2>2, <2>3 DEF TimeOk, PaidOk
        <2>5. status.expires \in n + 1 .. n + day'
            BY <1>8, <2>4
        <2> QED  BY <1>7, <2>2, <2>5
    <1>11. saved' = {} => status'.expires = Never
        BY DEF TimeOk, PaidOk
    <1> QED  BY <1>10, <1>11 DEF TimeOk

\* A purchase that does nothing, stops, or is past its save when it goes on.
Passive(s) ==
    \/ pc'[s] = pc[s] /\ job'[s] = job[s]
    \/ Halts(s)
    \/ /\ pc[s] \notin Over \cup Buying \cup {"idle"}
       /\ pc'[s] \notin Buying \cup {"idle", "stopped"}
       /\ "levels" \in DOMAIN job'[s] <=> "levels" \in DOMAIN job[s]
       /\ "levels" \in DOMAIN job[s] =>
             "days" \in DOMAIN job'[s] /\ job'[s].days = job[s].days

LEMMA PassivePurchase ==
    ASSUME Routes, ShopInv, PaidOk, NEW s \in Requests, BuysTier(s), load' = load, Passive(s),
           tierKey(s) \in ledger' <=> tierKey(s) \in ledger,
           status.version <= status'.version, status'.version \in Nat,
           status'.version = status.version => status'.expires = status.expires
    PROVE  /\ PurchaseOk(s)' /\ ("levels" \in DOMAIN job'[s] <=> "levels" \in DOMAIN job[s])
           /\ "levels" \in DOMAIN job[s] => job'[s].days = job[s].days
    <1>1. /\ PurchaseOk(s) /\ tierKey(s)' = tierKey(s) /\ status.version \in Nat
          /\ pc[s] \in {"svipDebit", "svipSave"} => Seen(job[s].status)
        BY ShopNow DEF PaidOk, tierKey, call, StatusOk, ShopJob, TierCall, TierJob, BuysTier
    <1>2. CASE pc'[s] = pc[s] /\ job'[s] = job[s]
        <2>1. pc[s] \in {"svipDebit", "svipSave"} /\ job[s].status.version = status'.version
                  => status'.expires = job[s].status.expires
            BY <1>1 DEF Seen, PurchaseOk
        <2>2. Overtaken(s) => Overtaken(s)'
            BY <1>1, <1>2 DEF Overtaken
        <2>3. GotTo(s, "svipSave") => GotTo(s, "svipSave")'
            BY <1>2 DEF GotTo
        <2> QED  BY <1>1, <1>2, <2>1, <2>2, <2>3 DEF PurchaseOk
    <1>3. CASE Halts(s)
        <2>1. /\ pc'[s] = "stopped" /\ job'[s].at = pc[s]
              /\ job'[s] = Override(job[s], [at |-> pc[s]])
              /\ pc[s] \notin {"failed", "stopped"}
            BY <1>3 DEF Halts
        <2>2. PICK f : f = [at |-> pc[s]]
            OBVIOUS
        <2>3. /\ DOMAIN job'[s] = DOMAIN job[s] \cup {"at"}
              /\ "days" \in DOMAIN job[s] => job'[s].days = job[s].days
            BY <2>1 DEF Override
        <2>4. GotTo(s, "svipSave") => GotTo(s, "svipSave")'
            BY <2>1 DEF GotTo
        <2> QED  BY <1>1, <2>1, <2>3, <2>4 DEF PurchaseOk, Overtaken, Buying
    <1>4. CASE /\ pc[s] \notin Over \cup Buying \cup {"idle"}
               /\ pc'[s] \notin Buying \cup {"idle", "stopped"}
               /\ "levels" \in DOMAIN job'[s] <=> "levels" \in DOMAIN job[s]
               /\ "levels" \in DOMAIN job[s] =>
                     "days" \in DOMAIN job'[s] /\ job'[s].days = job[s].days
        BY <1>1, <1>4 DEF PurchaseOk, Overtaken, GotTo, Buying, Over
    <1> QED  BY <1>2, <1>3, <1>4 DEF Passive

\* Where every purchase is passive and the expiry stays.
LEMMA PaidStays ==
    ASSUME Routes, ShopInv, PaidOk, load' = load, day' \in {day, day + 1}, TierDays',
           status'.version = status.version, status'.expires = status.expires,
           \A s \in Requests : BuysTier(s) =>
              Passive(s) /\ (tierKey(s) \in ledger' <=> tierKey(s) \in ledger)
    PROVE  PaidOk'
    <1>1. Requests' = Requests /\ \A s : (BuysTier(s) <=> BuysTier(s)') /\ call(s)' = call(s)
        BY DEF Requests, call, BuysTier
    <1>2. status.version \in Nat /\ status.version <= status.version
        BY ShopNow DEF StatusOk
    <1>3. \A s \in Requests : BuysTier(s) =>
             /\ PurchaseOk(s)' /\ ("levels" \in DOMAIN job'[s] <=> "levels" \in DOMAIN job[s])
             /\ "levels" \in DOMAIN job[s] => job'[s].days = job[s].days
        BY <1>2, PassivePurchase
    <1>4. saved' = saved /\ \A s \in saved : job'[s].days = job[s].days
        BY <1>1, <1>3 DEF saved, BuysTier
    <1>5. TimeOk'
        BY <1>4, TimeStays
    <1> QED  BY <1>1, <1>3, <1>5 DEF PaidOk

\* The steps of others, and a request that stops.
LEMMA PaidRests ==
    ASSUME Routes, ShopInv, PaidOk, UNCHANGED svipVars,
           \/ \E r \in Requests : Halts(r)
           \/ Quiet(ShopOps, {"store", "svip"})
    PROVE  PaidOk'
    <1>1. load' = load /\ day' \in {day, day + 1} /\ status' = status /\ tiers' = tiers
        BY DEF Halts, Quiet, svipVars
    <1>2. \A s \in Requests : tierKey(s) \in ledger' <=> tierKey(s) \in ledger
        BY DEF Halts, Quiet, tierKey
    <1>3. \A s \in Requests : BuysTier(s) => Passive(s)
        BY DEF Halts, Quiet, Passive, BuysTier, ShopOps
    <1>4. TierDays'
        BY <1>1 DEF TierDays, PaidOk
    <1> QED  BY <1>1, <1>2, <1>3, <1>4, PaidStays

\* A request that buys no tier: the status keeps its expiry and its version.
LEMMA PaidAside ==
    ASSUME Routes, ShopInv, PaidOk, NEW r \in Requests, Shops(r),
           Serves(r, ShopOps, {"store", "svip"}), ~BuysTier(r)
    PROVE  PaidOk'
    <1>1. Routed(r, pc[r]) /\ DOMAIN tiers = Levels /\ DOMAIN status =
              {"current", "owned", "highest", "expires", "version"}
        BY ShopNow DEF StockOk, StatusOk
    <1>2. load' = load /\ day' = day
          /\ \A s \in Requests : BuysTier(s) => pc'[s] = pc[s] /\ job'[s] = job[s]
        BY DEF Serves
    <1>3. CASE CosmeticsStep(r) /\ UNCHANGED <<listings, svipVars>>
        <2>1. ledger' = ledger
            BY <1>3 DEF CosmeticsStep, GrantFind, GrantExtend, GrantCreate, NextGrant, EquipFind,
                   EquipPeers, EquipSave, UnequipFind, UnequipSave, SvipOwned, SvipPeers,
                   SvipWinners, UnequipSvip, UpdateItem, Passes
        <2>2. TierDays' /\ status' = status
            BY <1>3 DEF svipVars, TierDays, PaidOk
        <2> QED  BY <1>2, <2>1, <2>2, PaidStays DEF Passive
    <1>4. CASE StoreStep(r) /\ UNCHANGED svipVars
        <2>1. ledger' = ledger \/ ledger' = ledger \cup {storeKey(call(r).key)}
            BY <1>4 DEF StoreStep, BuyListing, BuyItem, BuyDebit, UpdateListing, Passes, Posts
        <2>2. \A s : tierKey(s) # storeKey(call(r).key)
            BY DEF tierKey, storeKey
        <2>3. TierDays' /\ status' = status
            BY <1>4 DEF svipVars, TierDays, PaidOk
        <2> QED  BY <1>2, <2>1, <2>2, <2>3, PaidStays DEF Passive
    <1>5. CASE SvipStep(r) /\ listings' = listings
        <2>1. TierDays'
            BY <1>1, <1>5, TierDaysStay DEF PaidOk
        <2>2. \/ TierItems(r) \/ ActivateFind(r) \/ ActivateSave(r) \/ DeactivateFind(r)
              \/ DeactivateSave(r) \/ UpdateTier(r)
            BY <1>1, <1>5 DEF SvipStep, TierFind, TierStatus, TierDebit, TierSave, Begins, Routed,
                   BuysTier
        <2>3. /\ ledger' = ledger
              /\ status' = status \/ \E l : status' = [status EXCEPT !.current = l]
            BY <2>2 DEF TierItems, ActivateFind, ActivateSave, DeactivateFind, DeactivateSave,
                   UpdateTier, Current, Passes, svipVars
        <2>4. status'.version = status.version /\ status'.expires = status.expires
            BY <1>1, <2>3
        <2> QED  BY <1>2, <2>1, <2>3, <2>4, PaidStays DEF Passive
    <1> QED  BY <1>3, <1>4, <1>5 DEF Shops

\* What a purchase learns once it is saved changes neither its tiers nor its days.
LEMMA LaterPassive ==
    ASSUME Routes, ShopInv, PaidOk, NEW r \in Requests, BuysTier(r),
           NEW f, Learns(r, f), DOMAIN f \cap {"levels", "days"} = {},
           pc[r] \notin Over \cup Buying \cup {"idle"},
           pc'[r] \notin Buying \cup {"idle", "stopped"}
    PROVE  Passive(r)
    <1>1. /\ DOMAIN job'[r] = DOMAIN job[r] \cup DOMAIN f
          /\ \A x \in DOMAIN job[r] \ DOMAIN f : job'[r][x] = job[r][x]
        BY LearnedOne
    <1>2. "levels" \in DOMAIN job[r] => "days" \in DOMAIN job[r]
        BY DEF PaidOk, PurchaseOk
    <1> QED  BY <1>1, <1>2 DEF Passive

\* A purchase after its save.
LEMMA PaidLater ==
    ASSUME Routes, ShopInv, PaidOk, NEW r \in Requests, BuysTier(r),
           Serves(r, ShopOps, {"store", "svip"}),
           (CosmeticsStep(r) /\ UNCHANGED svipVars) \/ TierItems(r)
    PROVE  PaidOk'
    <1>1. /\ Routed(r, pc[r]) /\ GoesOn(r)
          /\ load' = load /\ day' = day /\ DOMAIN pc = Requests
          /\ \A s \in Requests : s # r => pc'[s] = pc[s] /\ job'[s] = job[s]
        BY ShopNow DEF Serves
    <1>2. \/ GrantFind(r) \/ GrantExtend(r) \/ GrantCreate(r) \/ SvipOwned(r) \/ SvipPeers(r)
          \/ SvipWinners(r) \/ TierItems(r)
        BY <1>1 DEF CosmeticsStep, EquipFind, EquipPeers, EquipSave, UnequipFind, UnequipSave,
               UnequipSvip, UpdateItem, Begins, Routed, BuysTier
    <1>3. status' = status /\ tiers' = tiers /\ ledger' = ledger
        BY <1>2 DEF svipVars, GrantFind, GrantExtend, GrantCreate, NextGrant, SvipOwned,
               SvipPeers, SvipWinners, TierItems, Passes
    <1>4. pc[r] \in {"grantFind", "grantExtend", "grantCreate", "svipOwned", "svipPeers",
                     "svipWinners", "svipTiers"}
        BY <1>2 DEF GrantFind, GrantExtend, GrantCreate, SvipOwned, SvipPeers, SvipWinners,
               TierItems
    <1>5. pc[r] \notin Over \cup Buying \cup {"idle"}
        BY <1>4 DEF Over, Buying
    <1>6. pc[r] \in Granting => job[r].then \in {"done", "svipOwned"}
        BY <1>1 DEF GoesOn, Onward
    <1>7. ASSUME NextGrant(r), pc[r] \in Granting
          PROVE  Passive(r)
        <2>1. PICK f : f = [grants |-> Tail(job[r].grants)]
            OBVIOUS
        <2>2. Learns(r, f) /\ DOMAIN f = {"grants"}
            BY <1>7, <2>1 DEF NextGrant
        <2>3. pc'[r] \in {"grantFind", "done", "svipOwned"}
            BY <1>1, <1>6, <1>7 DEF NextGrant, Goes
        <2> QED  BY <1>5, <2>2, <2>3, LaterPassive DEF Buying
    <1>8. ASSUME NEW to, Passes(r, to), to \in {"failed", "done", "svipWinners"}
          PROVE  Passive(r)
        <2>1. job' = job /\ pc'[r] = to
            BY <1>1, <1>8 DEF Passes, Goes
        <2>2. "levels" \in DOMAIN job[r] => "days" \in DOMAIN job[r]
            BY DEF PaidOk, PurchaseOk
        <2> QED  BY <1>5, <1>8, <2>1, <2>2 DEF Passive, Buying
    <1>9. ASSUME GrantFind(r)  PROVE Passive(r)
        <2>1. CASE NextGrant(r)
            BY <1>7, <1>9, <2>1 DEF GrantFind, Granting
        <2>2. CASE ~NextGrant(r)
            <3>1. PICK f : f = [until |-> expiry(thisGrant(r).days)]
                OBVIOUS
            <3>2. Learns(r, f) /\ DOMAIN f = {"until"} /\ pc'[r] \in {"grantExtend", "grantCreate"}
                BY <1>1, <1>9, <2>2, <3>1 DEF GrantFind, Goes
            <3> QED  BY <1>5, <3>2, LaterPassive DEF Buying
        <2> QED  BY <2>1, <2>2
    <1>10. ASSUME GrantExtend(r) \/ GrantCreate(r)  PROVE Passive(r)
        BY <1>7, <1>8, <1>10 DEF GrantExtend, GrantCreate, Granting
    <1>11. ASSUME SvipOwned(r)  PROVE Passive(r)
        <2>1. CASE Passes(r, "done")
            BY <1>8, <2>1
        <2>2. CASE ~Passes(r, "done")
            <3>1. PICK W : Learns(r, [winners |-> W]) /\ Goes(r, "svipPeers")
                BY <1>11, <2>2 DEF SvipOwned
            <3>2. PICK f : f = [winners |-> W]
                OBVIOUS
            <3>3. Learns(r, f) /\ DOMAIN f = {"winners"} /\ pc'[r] = "svipPeers"
                BY <1>1, <3>1, <3>2 DEF Goes
            <3> QED  BY <1>5, <3>3, LaterPassive DEF Buying
        <2> QED  BY <2>1, <2>2
    <1>12. ASSUME SvipPeers(r) \/ SvipWinners(r)  PROVE Passive(r)
        BY <1>8, <1>12 DEF SvipPeers, SvipWinners
    <1>13. ASSUME TierItems(r)  PROVE Passive(r)
        <2>1. PICK g : g = GrantsOf(call(r).user, {l \in job[r].levels : tiers[l].active}, job[r].days)
            OBVIOUS
        <2>2. PICK f : f = [grants |-> g, bestEffort |-> TRUE]
            OBVIOUS
        <2>3. /\ Learns(r, f) /\ DOMAIN f = {"grants", "bestEffort"} /\ pc[r] = "svipTiers"
              /\ pc'[r] = IF g = <<>> THEN job[r].then ELSE "grantFind"
            BY <1>1, <1>13, <2>1, <2>2 DEF TierItems, Goes
        <2>4. pc'[r] \in {"grantFind", "done", "svipOwned"}
            BY <1>6, <2>3 DEF Granting
        <2> QED  BY <1>5, <2>3, <2>4, LaterPassive DEF Buying
    <1>14. Passive(r)
        BY <1>2, <1>9, <1>10, <1>11, <1>12, <1>13
    <1>15. TierDays'
        BY <1>3 DEF TierDays, PaidOk
    <1>16. \A s \in Requests : BuysTier(s) => Passive(s)
        BY <1>1, <1>14 DEF Passive
    <1> QED  BY <1>1, <1>3, <1>15, <1>16, PaidStays

\* A step of a purchase before its save.
LEMMA PaidBefore ==
    ASSUME Routes, ShopInv, PaidOk, NEW r \in Requests, Serves(r, ShopOps, {"store", "svip"}),
           UNCHANGED svipVars, "levels" \notin DOMAIN job[r], "levels" \notin DOMAIN job'[r],
           \A k \in ledger' : k \in ledger \/ k = tierKey(r), PurchaseOk(r)'
    PROVE  PaidOk'
    <1>1. /\ load' = load /\ day' = day /\ status' = status /\ tiers' = tiers
          /\ Requests' = Requests /\ status.version \in Nat
          /\ \A s \in Requests : s # r => pc'[s] = pc[s] /\ job'[s] = job[s]
          /\ \A s : (BuysTier(s) <=> BuysTier(s)') /\ call(s)' = call(s)
        BY ShopNow DEF Serves, svipVars, Requests, call, BuysTier, StatusOk
    <1>2. \A s \in Requests : s # r => (tierKey(s) \in ledger' <=> tierKey(s) \in ledger)
        BY DEF tierKey, Serves
    <1>3. status.version <= status'.version /\ status'.version \in Nat
        BY <1>1
    <1>4. \A s \in Requests : BuysTier(s) => PurchaseOk(s)'
        BY <1>1, <1>2, <1>3, PassivePurchase DEF Passive
    <1>5. saved' = saved /\ \A s \in saved : job'[s].days = job[s].days
        BY <1>1 DEF saved
    <1>6. TimeOk'
        BY <1>1, <1>5, TimeStays
    <1> QED  BY <1>1, <1>4, <1>6 DEF PaidOk, TierDays

LEMMA PaidBegins ==
    ASSUME Routes, ShopInv, PaidOk, NEW r \in Requests, BuysTier(r),
           Serves(r, ShopOps, {"store", "svip"}), TierFind(r) \/ TierStatus(r) \/ TierDebit(r)
    PROVE  PaidOk'
    <1>1. /\ PurchaseOk(r) /\ load' = load /\ DOMAIN pc = Requests /\ tierKey(r)' = tierKey(r)
          /\ call(r)' = call(r) /\ ledger \subseteq ledger'
        BY ShopNow DEF Serves, PaidOk, tierKey, call
    <1>2. pc[r] \in {"idle", "svipStatus", "svipDebit"} /\ UNCHANGED svipVars
          /\ "levels" \notin DOMAIN job[r]
        BY <1>1 DEF TierFind, TierStatus, TierDebit, Begins, PurchaseOk, Buying
    <1>3. tierKey(r) \notin ledger
        BY <1>1, <1>2 DEF PurchaseOk, GotTo, Overtaken
    <1>4. CASE TierFind(r)
        <2>1. PICK t : t = tiers[call(r).level]
            OBVIOUS
        <2>2. t.days \in Nat
            <3>1. call(r).level \in Levels
                BY ShopNow, TierAssumption DEF BuysTier, call, Requests, Levels
            <3> QED  BY <2>1, <3>1 DEF PaidOk, TierDays
        <2>3. /\ ledger' = ledger
              /\ \/ pc'[r] = "svipStatus" /\ Learns(r, [tier |-> t])
                 \/ pc'[r] = "failed" /\ job' = job
            BY <1>1, <1>4, <2>1 DEF TierFind, Goes
        <2>4. CASE pc'[r] = "svipStatus" /\ Learns(r, [tier |-> t])
            <3>1. PICK f : f = [tier |-> t]
                OBVIOUS
            <3>2. Learns(r, f) /\ DOMAIN f = {"tier"} /\ f.tier = t
                BY <2>4, <3>1
            <3>3. /\ DOMAIN job'[r] = DOMAIN job[r] \cup DOMAIN f
                  /\ \A x \in DOMAIN f : job'[r][x] = f[x]
                BY <3>2, LearnedOne
            <3>4. "levels" \notin DOMAIN job'[r] /\ "tier" \in DOMAIN job'[r] /\ job'[r].tier = t
                BY <1>2, <3>2, <3>3
            <3>5. PurchaseOk(r)'
                BY <1>1, <1>3, <2>2, <2>3, <2>4, <3>4 DEF PurchaseOk
            <3> QED  BY <1>2, <2>3, <3>4, <3>5, PaidBefore
        <2>5. CASE pc'[r] = "failed" /\ job' = job
            <3>1. PurchaseOk(r)'
                BY <1>1, <1>2, <1>3, <2>3, <2>5 DEF PurchaseOk, Buying
            <3> QED  BY <1>2, <2>3, <2>5, <3>1, PaidBefore
        <2> QED  BY <2>3, <2>4, <2>5
    <1>5. CASE TierStatus(r)
        <2>1. PICK s : s = status
            OBVIOUS
        <2>2. PICK f : f = [status |-> s]
            OBVIOUS
        <2>3. /\ Learns(r, f) /\ DOMAIN f = {"status"} /\ f.status = s
              /\ ledger' = ledger /\ pc[r] = "svipStatus" /\ pc'[r] \in {"failed", "svipDebit"}
            BY <1>1, <1>5, <2>1, <2>2 DEF TierStatus, Goes
        <2>4. /\ DOMAIN job'[r] = DOMAIN job[r] \cup DOMAIN f
              /\ \A x \in DOMAIN f : job'[r][x] = f[x]
              /\ \A x \in DOMAIN job[r] \ DOMAIN f : job'[r][x] = job[r][x]
            BY <2>3, LearnedOne
        <2>5. "tier" \in DOMAIN job[r] /\ job[r].tier.days \in Nat
            BY <1>1, <2>3 DEF PurchaseOk, Buying
        <2>6. /\ "levels" \notin DOMAIN job'[r] /\ "tier" \in DOMAIN job'[r]
              /\ job'[r].tier = job[r].tier /\ job'[r].status = s
            BY <1>2, <2>3, <2>4, <2>5
        <2>7. job'[r].status.expires = status'.expires
            BY <1>2, <2>1, <2>6 DEF svipVars
        <2>8. PurchaseOk(r)'
            BY <1>1, <1>3, <2>3, <2>5, <2>6, <2>7 DEF PurchaseOk, Buying
        <2> QED  BY <1>2, <2>3, <2>6, <2>8, PaidBefore
    <1>6. CASE TierDebit(r)
        <2>1. /\ job' = job /\ pc[r] = "svipDebit" /\ status' = status
              /\ \/ ledger' = ledger \cup {tierKey(r)} /\ pc'[r] = "svipSave"
                 \/ ledger' = ledger /\ pc'[r] = "failed"
            BY <1>1, <1>6 DEF TierDebit, Passes, Posts, Goes, svipVars
        <2>2. PurchaseOk(r)'
            BY <1>1, <1>2, <1>3, <2>1 DEF PurchaseOk, Buying, GotTo
        <2> QED  BY <1>2, <2>1, <2>2, PaidBefore
    <1> QED  BY <1>4, <1>5, <1>6

\* Days are added to what is left, or to today.
LEMMA ExpiryAdds ==
    ASSUME NEW d \in Nat \ {0}, NEW sum \in Nat, day \in Nat \ {0}, NEW s, NEW t,
           t.days = d, sum + d + day < Never,
           (sum = 0 /\ s.expires = Never) \/ s.expires \in sum + 1 .. sum + day
    PROVE  newExpiry(s, t) \in sum + d + 1 .. sum + d + day
    BY DEF newExpiry, Never

\* The days of one more purchase.
LEMMA DaysAdd ==
    ASSUME Routes, PaidOk, NEW r \in Requests, r \notin saved, saved' = saved \cup {r},
           \A s \in saved : job'[s].days = job[s].days, NEW d \in Nat, job'[r].days = d
    PROVE  daysPaid \in Nat /\ daysPaid' = daysPaid + d /\ (saved = {} => daysPaid = 0)
    <1>1. IsFiniteSet(saved) /\ \A s \in saved : job[s].days \in Nat
        <2>1. IsFiniteSet(Requests)
            BY WorkloadAssumption DEF Routes, Requests
        <2>2. saved \subseteq Requests
            BY DEF saved
        <2> QED  BY <2>1, <2>2, FS_Subset DEF PaidOk, PurchaseOk, saved, BuysTier
    <1>2. PICK S, f, g : /\ S = saved /\ f = [s \in saved |-> job[s].days]
                         /\ g = [s \in saved \cup {r} |-> job'[s].days]
        OBVIOUS
    <1>3. daysPaid = SumFunctionOnSet(f, S)
        BY <1>2, Zenon DEF daysPaid
    <1>4. daysPaid' = SumFunctionOnSet(g, S \cup {r})
        BY <1>2, Zenon DEF daysPaid
    <1>5. /\ \A s \in S : f[s] \in Nat /\ f[s] \in Int /\ g[s] = f[s]
          /\ \A s \in S \cup {r} : g[s] \in Int
          /\ g[r] = d /\ r \notin S /\ IsFiniteSet(S)
        BY <1>1, <1>2
    <1>6. SumFunctionOnSet(g, S \cup {r}) = SumFunctionOnSet(g, S) + d
        BY <1>5, SumAddElement
    <1>7. SumFunctionOnSet(g, S) = SumFunctionOnSet(f, S)
        BY <1>5, SumSame
    <1>8. SumFunctionOnSet(f, S) \in Nat
        BY <1>5, SumPart
    <1>9. S = {} => SumFunctionOnSet(f, S) = 0
        BY SumEmpty
    <1> QED  BY <1>2, <1>3, <1>4, <1>6, <1>7, <1>8, <1>9

LEMMA PaidSaves ==
    ASSUME Routes, ShopInv, PaidOk, NEW r \in Requests, BuysTier(r),
           Serves(r, ShopOps, {"store", "svip"}), TierSave(r)
    PROVE  PaidOk'
    <1>1. /\ PurchaseOk(r) /\ load' = load /\ day' = day /\ DOMAIN pc = Requests
          /\ tierKey(r)' = tierKey(r) /\ Requests' = Requests
          /\ \A s \in Requests : s # r => pc'[s] = pc[s] /\ job'[s] = job[s]
          /\ \A s : (BuysTier(s) <=> BuysTier(s)') /\ call(s)' = call(s)
        BY ShopNow DEF Serves, PaidOk, tierKey, call, Requests, BuysTier
    <1>2. /\ pc[r] = "svipSave" /\ ledger' = ledger /\ tiers' = tiers
          /\ "levels" \notin DOMAIN job[r] /\ job[r].tier.days \in Nat
          /\ job[r].status.version = status.version => job[r].status.expires = status.expires
        BY <1>1 DEF TierSave, PurchaseOk, Buying
    <1>3. Seen(job[r].status) /\ tierKey(r) \in ledger /\ status.version \in Nat
        BY <1>2, ShopNow DEF ShopJob, TierCall, TierJob, BuysTier, StatusOk
    <1>4. CASE status.version # job[r].status.version
        <2>1. /\ status' = status /\ pc'[r] = "failed" /\ job' = job
            BY <1>1, <1>4 DEF TierSave, Goes
        <2>2. job[r].status.version \in Nat /\ job[r].status.version < status.version
            BY <1>3, <1>4 DEF Seen
        <2>3. PurchaseOk(r)'
            BY <1>1, <1>2, <2>1, <2>2 DEF PurchaseOk, Buying, Overtaken
        <2> QED  BY <1>2, <2>1, <2>3, PaidBefore DEF svipVars
    <1>5. CASE status.version = job[r].status.version
        <2>1. PICK d, s, t : d = job[r].tier.days /\ s = job[r].status /\ t = job[r].tier
            OBVIOUS
        <2>2. /\ status' = Saved(r)
              /\ \E to : ThenGrants(r, status'.owned, d, to)
            BY <1>5, <2>1 DEF TierSave
        <2>3. /\ status'.version = status.version + 1 /\ status'.expires = newExpiry(s, t)
            BY <2>1, <2>2 DEF Saved
        <2>4. PICK levels, to : ThenGrants(r, levels, d, to)
            BY <2>2
        <2>5. PICK f : f = [levels |-> levels, days |-> d, then |-> to, level |-> call(r).level]
            OBVIOUS
        <2>6. Learns(r, f) /\ pc'[r] = "svipTiers"
            BY <1>1, <2>4, <2>5 DEF ThenGrants, Goes
        <2>7. DOMAIN f = {"levels", "days", "then", "level"} /\ f.days = d
            BY <2>5
        <2>8. {"levels", "days"} \subseteq DOMAIN job'[r] /\ job'[r].days = d
            BY <2>6, <2>7, LearnedOne
        <2>9. PurchaseOk(r)'
            BY <1>1, <1>2, <1>3, <2>1, <2>6, <2>8 DEF PurchaseOk, Buying
        <2>10. \A x \in Requests : BuysTier(x) => PurchaseOk(x)'
            <3>1. status.version <= status'.version /\ status'.version \in Nat
                  /\ status'.version # status.version
                BY <1>3, <2>3
            <3> QED  BY <1>1, <1>2, <2>9, <3>1, PassivePurchase DEF Passive
        <2>11. /\ r \notin saved /\ saved' = saved \cup {r}
               /\ \A x \in saved : job'[x].days = job[x].days
            BY <1>1, <1>2, <2>8 DEF saved, BuysTier
        <2>12. /\ daysPaid \in Nat /\ daysPaid' = daysPaid + d /\ (saved = {} => daysPaid = 0)
               /\ d \in Nat
            BY <1>2, <2>1, <2>8, <2>11, DaysAdd
        <2>13. ASSUME \A x \in saved' : job'[x].days > 0, daysPaid' + day' < Never
               PROVE  status'.expires \in daysPaid' + 1 .. daysPaid' + day'
            <3>1. d \in Nat \ {0} /\ \A x \in saved : job[x].days > 0
                BY <2>8, <2>11, <2>12, <2>13
            <3>2. day \in Nat \ {0}
                BY WorkloadAssumption DEF Routes
            <3>3. daysPaid + d + day < Never /\ daysPaid + day < Never
                BY <1>1, <2>12, <2>13, <3>1, <3>2 DEF Never
            <3>4. s.expires = status.expires
                BY <1>2, <1>5, <2>1
            <3>5. (daysPaid = 0 /\ s.expires = Never)
                  \/ s.expires \in daysPaid + 1 .. daysPaid + day
                BY <2>12, <3>1, <3>3, <3>4 DEF PaidOk, TimeOk
            <3>6. newExpiry(s, t) \in daysPaid + d + 1 .. daysPaid + d + day
                BY <2>1, <2>12, <3>1, <3>2, <3>3, <3>5, ExpiryAdds
            <3> QED  BY <1>1, <2>3, <2>12, <3>6
        <2>14. TimeOk'
            BY <2>11, <2>13 DEF TimeOk
        <2> QED  BY <1>1, <1>2, <2>10, <2>14 DEF PaidOk, TierDays
    <1> QED  BY <1>4, <1>5

LEMMA PaidKept ==
    ASSUME Routes, ShopInv, PaidOk, [Next]_vars
    PROVE  PaidOk'
    <1>1. ASSUME NEW r \in Requests, Shops(r), Serves(r, ShopOps, {"store", "svip"})
          PROVE  PaidOk'
        <2>1. CASE ~BuysTier(r)
            BY <1>1, <2>1, PaidAside
        <2>2. CASE BuysTier(r) /\ CosmeticsStep(r) /\ UNCHANGED <<listings, svipVars>>
            BY <1>1, <2>2, PaidLater
        <2>3. CASE BuysTier(r) /\ StoreStep(r)
            BY <2>3, ShopNow DEF StoreStep, BuyListing, BuyItem, BuyDebit, UpdateListing, Buys,
                   Begins, Routed, BuysTier
        <2>4. CASE BuysTier(r) /\ SvipStep(r)
            <3>1. \/ TierFind(r) \/ TierStatus(r) \/ TierDebit(r) \/ TierSave(r) \/ TierItems(r)
                BY <2>4, ShopNow DEF SvipStep, ActivateFind, ActivateSave, DeactivateFind,
                       DeactivateSave, UpdateTier, Begins, Routed, BuysTier
            <3> QED  BY <1>1, <2>4, <3>1, PaidBegins, PaidSaves, PaidLater
        <2> QED  BY <1>1, <2>1, <2>2, <2>3, <2>4 DEF Shops
    <1>2. CASE \/ \E r \in Requests : Halts(r) /\ UNCHANGED <<cosmeticVars, listings, svipVars>>
               \/ Quiet(ShopOps, {"store", "svip"})
                     /\ UNCHANGED <<cosmeticVars, listings, svipVars>>
        BY <1>2, PaidRests
    <1> QED  BY <1>1, <1>2, ShopSteps

LEMMA TiersAreKept ==
    ASSUME Routes, ShopInv, PaidOk
    PROVE  TiersKept
    <1>1. StatusOk /\ (\A k \in DOMAIN owned : OwnedOk(k)) /\ \A r \in Requests : ShopJob(r)
        BY ShopNow
    <1>2. ASSUME NEW r \in debited
          PROVE  \/ call(r).level \in status.owned
                 \/ GotTo(r, "svipSave")
                 \/ pc[r] = "failed" /\ job[r].status.version < status.version
        <2>1. r \in Requests /\ BuysTier(r) /\ PurchaseOk(r) /\ tierKey(r) \in ledger
            BY DEF debited, PaidOk, BuysTier
        <2>2. "levels" \in DOMAIN job[r] => call(r).level \in status.owned
            BY <1>1, <2>1 DEF ShopJob, TierCall, TierJob, BuysTier
        <2> QED  BY <2>1, <2>2 DEF PurchaseOk, Overtaken
    <1>3. PaidTiersOwned
        BY <1>2 DEF PaidTiersOwned
    <1>4. OwnedTiersPaid
        BY <1>1 DEF OwnedTiersPaid, StatusOk, OwnedOk
    <1>5. saved \subseteq debited
        BY DEF saved, debited, PaidOk, PurchaseOk, BuysTier
    <1>6. PaidTimeAdded
        BY <1>5 DEF PaidTimeAdded, PaidOk, TimeOk
    <1> QED  BY <1>3, <1>4, <1>6 DEF TiersKept

LEMMA PurchasesAreDelivered ==
    ASSUME KeysAreOwn, Routes, ShopInv
    PROVE  PurchasesDelivered
    <1>1. /\ \A k \in storeRows : OwnedOk(k) /\ k.source \in {"store", "gift"}
          /\ \A r \in Requests : ShopJob(r)
          /\ load \in Workloads
        BY ShopNow DEF storeRows
    <1>2. \A k \in storeRows : storeKey(k.ref) \in ledger
        BY <1>1 DEF OwnedOk
    <1>3. ASSUME NEW r \in Requests, StoreCall(r), Bought(r) \in DOMAIN owned
          PROVE  \E k \in storeRows :
                     k.ref = call(r).key /\ k.user = receiver(r) /\ k.source = source(r)
        <2>1. /\ Bought(r).ref = call(r).key /\ Bought(r).user = receiver(r)
              /\ Bought(r).source = source(r) /\ source(r) \in {"store", "gift"}
            BY DEF Bought, source
        <2> QED  BY <1>3, <2>1 DEF storeRows
    <1>4. ASSUME NEW r \in Requests, call(r).op \in {"purchase", "gift"}, pc[r] = "done"
          PROVE  \E k \in storeRows :
                     k.ref = call(r).key /\ k.user = receiver(r) /\ k.source = source(r)
        BY <1>1, <1>3, <1>4 DEF ShopJob, StoreCall, BuyJob
    <1>5. ASSUME NEW k \in storeRows, NEW l \in storeRows, k.ref = l.ref
          PROVE  k = l
        <2>1. PICK r \in Requests, s \in Requests :
                StoreCall(r) /\ k = Bought(r) /\ StoreCall(s) /\ l = Bought(s)
            BY <1>1 DEF OwnedOk
        <2>2. call(r).key = call(s).key
            BY <1>5, <2>1 DEF Bought
        <2>3. call(r) = call(s)
            BY <1>1, <2>1, <2>2 DEF KeysAreOwn, StoreCall, call, Requests
        <2> QED  BY <2>1, <2>3 DEF Bought, receiver, source
    <1>6. ASSUME NEW p \in ledger, p[1] = "store", \A k \in storeRows : k.ref # p[2]
          PROVE  \E r \in Requests : GotTo(r, "grantFind") \/ GotTo(r, "grantCreate")
        <2>1. PICK r \in Requests : /\ StoreCall(r) /\ p = storeKey(call(r).key)
                                    /\ \/ GotTo(r, "grantFind") \/ GotTo(r, "grantCreate")
                                       \/ Bought(r) \in DOMAIN owned
            BY <1>6, ShopNow DEF Awaited
        <2>2. Bought(r) \notin DOMAIN owned
            BY <1>3, <1>6, <2>1 DEF storeKey
        <2> QED  BY <2>1, <2>2
    <1> QED  BY <1>2, <1>4, <1>5, <1>6 DEF PurchasesDelivered

\* store and svip, whatever overlaps or crashes: an item that was paid is delivered once,
\* before the purchase answers; of the tiers, what TiersAlwaysKept says.
THEOREM BoughtAlwaysKept == ASSUME KeysAreOwn PROVE Spec => []BoughtIsKept
    <1>1. Init => Routes /\ ShopInv /\ PaidOk
        BY RoutesInit, ShopInit, PaidInit
    <1>2. Routes /\ ShopInv /\ PaidOk /\ [Next]_vars => (Routes /\ ShopInv /\ PaidOk)'
        BY RoutesStep, ShopKept, PaidKept
    <1>3. Routes /\ ShopInv /\ PaidOk => BoughtIsKept
        BY TiersAreKept, PurchasesAreDelivered DEF BoughtIsKept
    <1> QED  BY <1>1, <1>2, <1>3, PTL DEF Spec

\* purchaseTier, activateTier, deactivate, for which the keys of purchases do not matter: a
\* tier whose debit is in the ledger is owned, or its purchase is at the save, was cut off
\* there, or was refused there after another one was saved; an owned tier was paid; the
\* days of timed purchases add up.
THEOREM TiersAlwaysKept == Spec => []TiersKept
    <1>1. Init => Routes /\ ShopInv /\ PaidOk
        BY RoutesInit, ShopInit, PaidInit
    <1>2. Routes /\ ShopInv /\ PaidOk /\ [Next]_vars => (Routes /\ ShopInv /\ PaidOk)'
        BY RoutesStep, ShopKept, PaidKept
    <1>3. Routes /\ ShopInv /\ PaidOk => TiersKept
        BY TiersAreKept
    <1> QED  BY <1>1, <1>2, <1>3, PTL DEF Spec

------------------------------------------------------------------------------
\* One item in a slot.

TypesHold ==
    /\ DOMAIN items = DOMAIN Catalog
    /\ \A i \in DOMAIN Catalog : "type" \in DOMAIN items[i] /\ items[i].type = Catalog[i]

WornApart ==
    \A k, l \in DOMAIN owned :
        /\ k.user = l.user /\ slot(k.item) = slot(l.item)
        /\ owned[k].equipped /\ owned[l].equipped
        => k = l

\* One row of u for each slot.
Chosen(W, u) ==
    /\ \A w \in W : w.user = u
    /\ \A v, w \in W : slot(v.item) = slot(w.item) => v = w

\* Whoever is about to put something on has swept its slot.
Swept(r) ==
    /\ pc[r] = "equipSave" =>
          \A k \in DOMAIN owned :
              k.user = call(r).row.user /\ slot(k.item) = slot(call(r).row.item)
              => ~owned[k].equipped
    /\ pc[r] \in {"svipPeers", "svipWinners"} => Chosen(job[r].winners, call(r).user)
    /\ pc[r] = "svipWinners" =>
          \A k \in DOMAIN owned, w \in job[r].winners :
              k.user = call(r).user /\ slot(k.item) = slot(w.item) => ~owned[k].equipped

WornInv ==
    /\ TypesHold
    /\ load.patient => WornApart /\ \A r \in Requests : Swept(r)

LEMMA WornInit == Init => WornInv
    BY DEF Init, ServiceInit, CosmeticsInit, WornInv, TypesHold, WornApart, Swept, Requests

LEMMA WearSets ==
    ASSUME Routes, ShopInv, NEW rows, NEW on, Wear(rows, on)
    PROVE  /\ DOMAIN owned' = DOMAIN owned
           /\ \A k \in DOMAIN owned :
                /\ k \in rows => owned'[k].equipped = on
                /\ k \notin rows => owned'[k] = owned[k]
    BY ShopNow DEF Wear

\* The rows that are worn were worn before.
Fewer ==
    \A k \in DOMAIN owned' : owned'[k].equipped => k \in DOMAIN owned /\ owned[k].equipped

LEMMA FewerApart ==
    ASSUME Routes, ShopInv, TypesHold, TypesHold', WornApart, Fewer
    PROVE  WornApart'
    <1>1. \A k \in DOMAIN owned : slot(k.item)' = slot(k.item)
        BY ShopNow DEF OwnedOk, TypesHold, slot
    <1> QED  BY <1>1 DEF WornApart, Fewer

\* The types hold, and the worn items stay apart, where only r can be about to wear something.
LEMMA WornServed ==
    ASSUME Routes, Patience, WornInv, NEW r \in Requests, Takes(r),
           NEW ops, NEW tags, Serves(r, ops, tags), TypesHold',
           load.patient => WornApart' /\ Swept(r)'
    PROVE  WornInv'
    <1>1. /\ load' = load /\ Requests' = Requests
          /\ \A s \in Requests : s # r => pc'[s] = pc[s]
        BY DEF Serves, Requests
    <1>2. ASSUME load.patient, NEW s \in Requests, s # r
          PROVE  Swept(s)'
        <2>1. ~Active(s)
            BY <1>2, TakesAlone
        <2>2. pc'[s] \in Over \cup {"idle"}
            BY <1>1, <1>2, <2>1 DEF Active
        <2> QED  BY <2>2 DEF Swept, Over
    <1> QED  BY <1>1, <1>2 DEF WornInv

LEMMA WornRests ==
    ASSUME Routes, WornInv, UNCHANGED <<cosmeticVars, listings, svipVars>>,
           \/ \E r \in Requests : Halts(r)
           \/ Quiet(ShopOps, {"store", "svip"}), Routes'
    PROVE  WornInv'
    <1>1. load' = load /\ Requests' = Requests /\ owned' = owned /\ items' = items
          /\ \A s \in Requests : call(s)' = call(s)
        BY DEF Halts, Quiet, Requests, cosmeticVars, call
    <1>2. ASSUME NEW s \in Requests, Swept(s)
          PROVE  Swept(s)'
        <2>1. CASE pc'[s] = pc[s] /\ job'[s] = job[s]
            <3>1. PICK c, W : c = call(s) /\ W = job[s].winners
                OBVIOUS
            <3>2. call(s)' = c /\ job'[s].winners = W
                BY <1>1, <2>1, <3>1
            <3> QED  BY <1>1, <1>2, <2>1, <3>1, <3>2 DEF Swept, Chosen, slot
        <2>2. CASE Halts(s)
            BY <2>2 DEF Halts, Swept
        <2>3. CASE call(s).op \notin ShopOps
            <3>1. Routed(s, pc[s])'
                BY <1>1 DEF Routes
            <3> QED  BY <1>1, <2>3, <3>1 DEF Routed, ShopOps, Swept
        <2> QED  BY <2>1, <2>2, <2>3 DEF Halts, Quiet
    <1> QED  BY <1>1, <1>2 DEF WornInv, TypesHold, WornApart, slot

\* The steps that put nothing on.
LEMMA NothingWorn ==
    ASSUME Routes, Patience, ShopInv, WornInv, TypesStay, NEW r \in Requests,
           NEW ops, NEW tags, Serves(r, ops, tags), Takes(r), TypesHold',
           Fewer, pc'[r] \notin {"equipSave", "svipPeers", "svipWinners"}
    PROVE  WornInv'
    <1>1. Swept(r)'
        BY DEF Swept
    <1>2. load.patient => WornApart'
        BY FewerApart DEF WornInv
    <1> QED  BY <1>1, <1>2, WornServed

LEMMA WornStep ==
    ASSUME Routes, Patience, ShopInv, WornInv, TypesStay, NEW r \in Requests,
           Shops(r), Serves(r, ShopOps, {"store", "svip"})
    PROVE  WornInv'
    <1>1. Takes(r) /\ load' = load /\ call(r)' = call(r) /\ DOMAIN pc = Requests
          /\ load \in Workloads /\ Routed(r, pc[r])
        BY CosmeticsTake, StoreTakes, SvipTakes, ShopNow DEF Shops, Serves, call
    <1>2. TypesHold'
        <2>1. CASE items' = items
            BY <2>1 DEF WornInv, TypesHold
        <2>2. CASE UpdateItem(r)
            <3>1. PICK f, i : f = call(r).fields /\ i = call(r).item
                OBVIOUS
            <3>2. "type" \notin DOMAIN f
                BY <1>1, <2>2, <3>1 DEF UpdateItem, Begins, TypesStay, call, Requests
            <3>3. items' = [items EXCEPT ![i] = Override(@, f)]
                BY <2>2, <3>1 DEF UpdateItem
            <3>4. \A x \in DOMAIN items :
                    "type" \in DOMAIN items[x] =>
                      "type" \in DOMAIN items'[x] /\ items'[x].type = items[x].type
                BY <3>2, <3>3 DEF Override
            <3> QED  BY <3>3, <3>4 DEF WornInv, TypesHold
        <2>3. items' = items \/ UpdateItem(r)
            BY DEF Shops, CosmeticsStep, GrantFind, GrantExtend, GrantCreate, EquipFind, EquipPeers,
                   EquipSave, UnequipFind, UnequipSave, SvipOwned, SvipPeers, SvipWinners,
                   UnequipSvip, StoreStep, BuyListing, BuyItem, BuyDebit, UpdateListing, SvipStep,
                   TierFind, TierStatus, TierDebit, TierSave, TierItems, ActivateFind, ActivateSave,
                   DeactivateFind, DeactivateSave, UpdateTier, cosmeticVars
        <2> QED  BY <2>1, <2>2, <2>3
    <1>3. CASE owned' = owned /\ pc'[r] \notin {"equipSave", "svipPeers", "svipWinners"}
        BY <1>1, <1>2, <1>3, NothingWorn DEF Fewer
    <1>4. CASE StoreStep(r) \/ SvipStep(r)
        <2>1. owned' = owned
            BY <1>4 DEF StoreStep, BuyListing, BuyItem, BuyDebit, UpdateListing, SvipStep,
                   TierFind, TierStatus, TierDebit, TierSave, TierItems, ActivateFind, ActivateSave,
                   DeactivateFind, DeactivateSave, UpdateTier, cosmeticVars
        <2>2. pc'[r] \notin {"equipSave", "svipPeers", "svipWinners"}
            <3>1. \/ \E to \in {"buyItem", "failed", "buyDebit", "grantFind", "done", "svipStatus",
                                "svipDebit", "svipSave", "svipTiers", "activateSave",
                                "deactivateSave", "unequipSvip"} : Goes(r, to)
                  \/ TierItems(r)
                BY <1>4 DEF StoreStep, BuyListing, BuyItem, BuyDebit, UpdateListing, SvipStep,
                   TierFind, TierStatus, TierDebit, TierSave, ActivateFind, ActivateSave,
                   DeactivateFind, DeactivateSave, UpdateTier, Passes, ThenGrants
            <3>2. CASE TierItems(r)
                <4>1. pc'[r] \in {job[r].then, "grantFind"} /\ Onward(r, job[r].then)
                    BY <1>1, <3>2, ShopNow DEF TierItems, Goes, GoesOn, Granting
                <4> QED  BY <4>1 DEF Onward
            <3> QED  BY <1>1, <3>1, <3>2 DEF Goes
        <2> QED  BY <1>3, <2>1, <2>2
    <1>5. CASE GrantFind(r) \/ GrantExtend(r) \/ GrantCreate(r)
        <2>1. pc[r] \in Grants
            BY <1>5 DEF GrantFind, GrantExtend, GrantCreate, Grants
        <2>2. pc'[r] \in {"grantFind", "grantExtend", "grantCreate", "failed", job[r].then}
            BY <1>1, <1>5 DEF GrantFind, GrantExtend, GrantCreate, NextGrant, Passes, Goes
        <2>3. pc'[r] \notin {"equipSave", "svipPeers", "svipWinners"}
            BY <2>1, <2>2, GrantNow DEF Onward
        <2>4. Fewer
            <3>1. CASE owned' = owned
                BY <3>1 DEF Fewer
            <3>2. CASE GrantExtend(r)
                <4>1. PICK k : owned' = [owned EXCEPT ![k].expires = job[r].until]
                    BY <3>2 DEF GrantExtend
                <4>2. \A l \in DOMAIN owned : owned'[l].equipped = owned[l].equipped
                    BY <4>1, ShopNow
                <4> QED  BY <4>1, <4>2 DEF Fewer
            <3>3. CASE GrantCreate(r) /\ owned' # owned
                <4>1. PICK k, row : /\ row = [equipped |-> FALSE, expires |-> job[r].until,
                                              tier |-> thisGrant(r).tier]
                                    /\ owned' = Put(owned, k, row) /\ k \notin DOMAIN owned
                    BY <3>3 DEF GrantCreate
                <4>2. ~row.equipped
                    BY <4>1
                <4> QED  BY <4>1, <4>2 DEF Fewer, Put
            <3> QED  BY <1>5, <3>1, <3>2, <3>3 DEF GrantFind, cosmeticVars
        <2> QED  BY <1>1, <1>2, <2>3, <2>4, NothingWorn
    <1>6. CASE EquipFind(r) \/ UnequipFind(r) \/ UpdateItem(r)
        <2>1. owned' = owned
            BY <1>6 DEF EquipFind, UnequipFind, UpdateItem, cosmeticVars
        <2>2. pc'[r] \in {"equipPeers", "failed", "unequipSave", "done"}
            BY <1>1, <1>6 DEF EquipFind, UnequipFind, UpdateItem, Passes, Goes
        <2> QED  BY <1>3, <2>1, <2>2
    <1>7. ASSUME NEW rows, Wear(rows, FALSE)
          PROVE  Fewer
        BY <1>7, WearSets DEF Fewer
    <1>8. CASE UnequipSave(r) \/ UnequipSvip(r)
        <2>1. pc'[r] = "done" /\ \E rows : Wear(rows, FALSE)
            BY <1>1, <1>8 DEF UnequipSave, UnequipSvip, Passes, Goes
        <2> QED  BY <1>1, <1>2, <1>7, <2>1, NothingWorn
    <1>9. CASE EquipPeers(r)
        <2>1. PICK u, t : u = call(r).row.user /\ t = slot(call(r).row.item)
            OBVIOUS
        <2>2. Wear(InSlots(u, {t}), FALSE) /\ pc'[r] = "equipSave" /\ items' = items
            BY <1>1, <1>9, <2>1 DEF EquipPeers, Passes, Goes
        <2>3. load.patient => WornApart'
            BY <1>2, <1>7, <2>2, FewerApart DEF WornInv
        <2>4. ASSUME NEW k \in DOMAIN owned', k.user = u, slot(k.item) = t
              PROVE  ~owned'[k].equipped
            <3>1. k \in DOMAIN owned /\ k \in InSlots(u, {t})
                BY <2>2, <2>4, WearSets DEF InSlots, RowsOf
            <3> QED  BY <2>2, <3>1, WearSets
        <2>5. \A i : slot(i)' = slot(i)
            BY <2>2 DEF slot
        <2>6. Swept(r)'
            BY <1>1, <2>1, <2>2, <2>4, <2>5 DEF Swept
        <2> QED  BY <1>1, <1>2, <2>3, <2>6, WornServed
    <1>10. CASE EquipSave(r)
        <2>1. pc[r] = "equipSave" /\ pc'[r] = "done" /\ items' = items
              /\ (owned' = owned \/ Wear({call(r).row}, TRUE))
            BY <1>1, <1>10 DEF EquipSave, Passes, Goes
        <2>2. Swept(r)'
            BY <2>1 DEF Swept
        <2>3. ASSUME load.patient, Wear({call(r).row}, TRUE)
              PROVE  WornApart'
            <3>1. PICK row : row = call(r).row
                OBVIOUS
            <3>2. WornApart /\ \A k \in DOMAIN owned :
                    k.user = row.user /\ slot(k.item) = slot(row.item) => ~owned[k].equipped
                BY <2>1, <2>3, <3>1 DEF WornInv, Swept
            <3>3. /\ DOMAIN owned' = DOMAIN owned
                  /\ \A k \in DOMAIN owned : k # row => owned'[k] = owned[k]
                BY <2>3, <3>1, WearSets
            <3>4. \A i : slot(i)' = slot(i)
                BY <2>1 DEF slot
            <3> QED  BY <3>2, <3>3, <3>4 DEF WornApart
        <2>4. load.patient /\ owned' = owned => WornApart'
            BY <2>1 DEF WornInv, WornApart, slot
        <2> QED  BY <1>1, <1>2, <2>1, <2>2, <2>3, <2>4, WornServed
    <1>11. CASE SvipOwned(r)
        <2>1. owned' = owned /\ items' = items
            BY <1>11 DEF SvipOwned, cosmeticVars
        <2>2. CASE Passes(r, "done")
            BY <1>1, <1>3, <2>1, <2>2 DEF Passes, Goes
        <2>3. CASE ~Passes(r, "done")
            <3>1. PICK rows : rows = svipRows(call(r).user, job[r].level)
                OBVIOUS
            <3>2. PICK W \in SUBSET rows :
                    /\ Best(W, rows) /\ Learns(r, [winners |-> W]) /\ Goes(r, "svipPeers")
                BY <1>11, <2>3, <3>1 DEF SvipOwned
            <3>3. PICK f : f = [winners |-> W]
                OBVIOUS
            <3>4. Learns(r, f) /\ DOMAIN f = {"winners"} /\ f.winners = W
                BY <3>2, <3>3
            <3>5. job'[r].winners = W
                BY <3>4, LearnedOne
            <3>6. pc'[r] = "svipPeers"
                BY <1>1, <3>2 DEF Goes
            <3>7. \A w \in W : w \in rows /\ w.user = call(r).user
                BY <3>1, <3>2 DEF svipRows, RowsOf
            <3>8. Chosen(W, call(r).user)
                BY <3>2, <3>7 DEF Best, Chosen
            <3>9. Swept(r)'
                <4>1. PICK u : u = call(r).user
                    OBVIOUS
                <4>2. Chosen(W, u)' /\ call(r)'.user = u
                    BY <1>1, <2>1, <3>8, <4>1 DEF Chosen, slot
                <4> QED  BY <3>5, <3>6, <4>2 DEF Swept, Chosen
            <3>10. load.patient => WornApart'
                BY <2>1 DEF WornInv, WornApart, slot
            <3> QED  BY <1>1, <1>2, <3>9, <3>10, WornServed
        <2> QED  BY <2>2, <2>3
    <1>12. CASE SvipPeers(r)
        <2>1. PICK u, W : u = call(r).user /\ W = job[r].winners
            OBVIOUS
        <2>2. PICK types : types = {slot(k.item) : k \in W}
            OBVIOUS
        <2>3. /\ Wear(InSlots(u, types), FALSE) /\ pc[r] = "svipPeers"
              /\ pc'[r] = "svipWinners" /\ items' = items /\ job' = job
            BY <1>1, <1>12, <2>1, <2>2 DEF SvipPeers, Passes, Goes
        <2>4. load.patient => WornApart'
            BY <1>2, <1>7, <2>3, FewerApart DEF WornInv
        <2>5. ASSUME NEW k \in DOMAIN owned', NEW w \in W, k.user = u, slot(k.item) = slot(w.item)
              PROVE  ~owned'[k].equipped
            <3>0. k \in DOMAIN owned /\ slot(k.item) \in types
                BY <2>2, <2>3, <2>5, WearSets
            <3>1. k \in DOMAIN owned /\ k \in InSlots(u, types)
                BY <2>5, <3>0 DEF InSlots, RowsOf
            <3> QED  BY <2>3, <3>1, WearSets
        <2>6. \A i : slot(i)' = slot(i)
            BY <2>3 DEF slot
        <2>7. load.patient => Chosen(W, u)
            BY <2>1, <2>3 DEF WornInv, Swept
        <2>8. load.patient => Chosen(W, u)'
            BY <2>6, <2>7 DEF Chosen
        <2>9. call(r)'.user = u /\ job'[r].winners = W
            BY <1>1, <2>1, <2>3
        <2>10. load.patient => Swept(r)'
            BY <2>3, <2>5, <2>6, <2>8, <2>9 DEF Swept, Chosen
        <2> QED  BY <1>1, <1>2, <2>4, <2>10, WornServed
    <1>13. CASE SvipWinners(r)
        <2>1. PICK u, W : u = call(r).user /\ W = job[r].winners
            OBVIOUS
        <2>2. /\ Wear(W, TRUE) /\ pc[r] = "svipWinners" /\ pc'[r] = "done" /\ items' = items
            BY <1>1, <1>13, <2>1 DEF SvipWinners, Passes, Goes
        <2>3. Swept(r)'
            BY <2>2 DEF Swept
        <2>4. ASSUME load.patient
              PROVE  WornApart'
            <3>1. /\ WornApart /\ Chosen(W, u)
                  /\ \A k \in DOMAIN owned, w \in W :
                        k.user = u /\ slot(k.item) = slot(w.item) => ~owned[k].equipped
                BY <2>1, <2>2, <2>4 DEF WornInv, Swept
            <3>2. /\ DOMAIN owned' = DOMAIN owned
                  /\ \A k \in DOMAIN owned : k \notin W => owned'[k] = owned[k]
                BY <2>2, WearSets
            <3>3. \A i : slot(i)' = slot(i)
                BY <2>2 DEF slot
            <3> QED  BY <3>1, <3>2, <3>3 DEF WornApart, Chosen
        <2> QED  BY <1>1, <1>2, <2>3, <2>4, WornServed
    <1> QED  BY <1>4, <1>5, <1>6, <1>8, <1>9, <1>10, <1>11, <1>12, <1>13
             DEF Shops, CosmeticsStep

\* With unhurried requests nobody wears two items of a slot, nor two medals in a place: the
\* sweep empties the slot in one update before the row is put on, and a request that waits
\* between the two keeps every other request out of the wardrobe.
THEOREM WornOneEach == ASSUME TypesStay PROVE Spec => []OneOfEachSlot
    <1>1. Init => Routes /\ Patience /\ ShopInv /\ WornInv /\ WallInv
        BY RoutesInit, PatienceInit, ShopInit, WornInit, WallInit
    <1>2. Routes /\ Patience /\ ShopInv /\ WornInv /\ [Next]_vars => WornInv'
        <2>1. ASSUME Routes, Patience, ShopInv, WornInv, [Next]_vars
              PROVE  WornInv'
            BY <2>1, WornStep, WornRests, ShopSteps, RoutesStep
        <2> QED  BY <2>1
    <1>3. Routes /\ Patience /\ ShopInv /\ WornInv /\ WallInv /\ [Next]_vars
            => (Routes /\ Patience /\ ShopInv /\ WornInv /\ WallInv)'
        BY <1>2, RoutesStep, PatienceStep, ShopKept, WallStep
    <1>4. WornInv /\ WallInv => OneOfEachSlot
        BY DEF WornInv, WornApart, WallInv, SlotsApart, RowsHaveSlot, OneOfEachSlot,
               OneItemPerSlot, OneMedalPerSlot
    <1> QED  BY <1>1, <1>3, <1>4, PTL DEF Spec
==============================================================================
