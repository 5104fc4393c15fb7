---------------------------------- MODULE Svip ----------------------------------
(***************************************************************************)
(* SVIP (modules/svip/svip.service.ts): a user buys tiers, shows one of    *)
(* them or none, and owns the cosmetics of all of them.  The status is one *)
(* document, read before the wallet is debited and saved after: a save     *)
(* that replaces the list of tiers is refused when the list has changed.   *)
(***************************************************************************)
EXTENDS Cosmetics

CONSTANTS
    FirstTiers      \* level -> [price, days, items]; 0 days is for ever

\* A tier has the ids of items, also after an update.
ASSUME TierAssumption ==
    /\ FirstTiers \in Seq([price : Int, days : Nat, items : Seq(DOMAIN Catalog)])
    /\ \A w \in Workloads : \A r \in DOMAIN w.calls :
          LET c == w.calls[r] IN
          /\ c.op \in {"svipBuy", "activate", "tier"} => c.level \in DOMAIN FirstTiers
          /\ c.op = "tier" /\ "items" \in DOMAIN c.fields => c.fields.items \in Seq(DOMAIN Catalog)
          /\ c.op = "tier" /\ "days" \in DOMAIN c.fields => c.fields.days \in Nat

VARIABLES
    tiers,          \* the tiers, each also [active]
    status          \* [current, owned, highest, expires, version] of a user

svipVars == <<tiers, status>>

Levels == DOMAIN FirstTiers

SvipInit ==
    /\ tiers = [l \in Levels |-> Override(FirstTiers[l], [active |-> TRUE])]
    /\ status = [current |-> 0, owned |-> {}, highest |-> 0, expires |-> Never, version |-> 0]

------------------------------------------------------------------------------
\* purchaseTier.

TierFind(r) ==
    LET t == tiers[call(r).level] IN
    /\ Begins(r, "svipBuy")
    /\ IF t.active /\ t.price > 0
       THEN Learns(r, [tier |-> t]) /\ Goes(r, "svipStatus")
       ELSE Goes(r, "failed") /\ UNCHANGED job
    /\ UNCHANGED <<ledger, cosmeticVars, svipVars>>

TierStatus(r) ==
    /\ pc[r] = "svipStatus"
    /\ Learns(r, [status |-> status])
    /\ Goes(r, IF call(r).level \in status.owned THEN "failed" ELSE "svipDebit")
    /\ UNCHANGED <<ledger, cosmeticVars, svipVars>>

\* Every request has a key of its own.
tierKey(r) == <<"svip", call(r).level, r>>

TierDebit(r) ==
    /\ pc[r] = "svipDebit"
    /\ \/ Posts(tierKey(r)) /\ Goes(r, "svipSave") /\ UNCHANGED job
       \/ Passes(r, "failed")
    /\ UNCHANGED <<cosmeticVars, svipVars>>

\* The time that is left is forgotten.
MutantNewExpiry(s, t) == IF t.days = 0 THEN Never ELSE t.days + day

\* From the later of now and the expiry that was read.
newExpiry(s, t) ==
    IF t.days = 0 THEN Never
    ELSE t.days + (IF s.expires # Never /\ s.expires > day THEN s.expires ELSE day)

bumped(r) == call(r).level > job[r].status.current

\* What is saved: the new list, and the fields that differ from what was read.
Saved(r) ==
    LET s == job[r].status
        l == call(r).level
    IN  [current |-> IF bumped(r) THEN l ELSE status.current,
         owned   |-> s.owned \cup {l},
         highest |-> IF l > s.highest THEN l ELSE status.highest,
         expires |-> newExpiry(s, job[r].tier),
         version |-> status.version + 1]

\* The cosmetics of the tiers, in their order.
GrantsOf(u, levels, days) ==
    FlattenSeq([l \in Levels |->
        IF l \notin levels THEN <<>>
        ELSE [i \in DOMAIN tiers[l].items |-> Grant(u, tiers[l].items[i], "svip", l, days, l)]])

\* The tiers are read again for their cosmetics, which are granted one by one.
ThenGrants(r, levels, days, to) ==
    /\ Learns(r, [levels |-> levels, days |-> days, then |-> to, level |-> call(r).level])
    /\ Goes(r, "svipTiers")

TierItems(r) ==
    LET g == GrantsOf(call(r).user, {l \in job[r].levels : tiers[l].active}, job[r].days) IN
    /\ pc[r] = "svipTiers"
    /\ Learns(r, [grants |-> g, bestEffort |-> TRUE])
    /\ Goes(r, IF g = <<>> THEN job[r].then ELSE "grantFind")
    /\ UNCHANGED <<ledger, cosmeticVars, svipVars>>

MutantTierSave(r) ==
    /\ pc[r] = "svipSave"
    /\ status' = Saved(r)
    /\ ThenGrants(r, status'.owned, job[r].tier.days, IF bumped(r) THEN "svipOwned" ELSE "done")
    /\ UNCHANGED <<ledger, cosmeticVars, tiers>>

TierSave(r) ==
    /\ pc[r] = "svipSave"
    /\ IF status.version = job[r].status.version
       THEN /\ status' = Saved(r)
            /\ ThenGrants(r, status'.owned, job[r].tier.days,
                          IF bumped(r) THEN "svipOwned" ELSE "done")
       ELSE UNCHANGED status /\ Goes(r, "failed") /\ UNCHANGED job
    /\ UNCHANGED <<ledger, cosmeticVars, tiers>>

------------------------------------------------------------------------------
\* activateTier and deactivate: one field is saved, the version is not asked for.

ActivateFind(r) ==
    LET l == call(r).level IN
    /\ Begins(r, "activate")
    /\ IF tiers[l].active /\ l \in status.owned
       THEN Learns(r, [status |-> status]) /\ Goes(r, "activateSave")
       ELSE Goes(r, "failed") /\ UNCHANGED job
    /\ UNCHANGED <<ledger, cosmeticVars, svipVars>>

Current(r, l) == status' = IF job[r].status.current = l THEN status
                           ELSE [status EXCEPT !.current = l]

ActivateSave(r) ==
    /\ pc[r] = "activateSave"
    /\ Current(r, call(r).level)
    /\ ThenGrants(r, job[r].status.owned, 0, "svipOwned")
    /\ UNCHANGED <<ledger, cosmeticVars, tiers>>

DeactivateFind(r) ==
    /\ Begins(r, "deactivate")
    /\ Learns(r, [status |-> status]) /\ Goes(r, "deactivateSave")
    /\ UNCHANGED <<ledger, cosmeticVars, svipVars>>

DeactivateSave(r) ==
    /\ pc[r] = "deactivateSave"
    /\ Current(r, 0)
    /\ Passes(r, "unequipSvip") /\ UNCHANGED <<cosmeticVars, tiers>>

\* update and softDelete of a tier.
UpdateTier(r) ==
    /\ Begins(r, "tier")
    /\ tiers' = [tiers EXCEPT ![call(r).level] = Override(@, call(r).fields)]
    /\ Passes(r, "done") /\ UNCHANGED <<cosmeticVars, status>>

SvipStep(r) ==
    \/ TierFind(r) \/ TierStatus(r) \/ TierDebit(r) \/ TierSave(r) \/ TierItems(r)
    \/ ActivateFind(r) \/ ActivateSave(r) \/ DeactivateFind(r) \/ DeactivateSave(r)
    \/ UpdateTier(r)

------------------------------------------------------------------------------
\* The properties.

paidFor == {k[2] : k \in {k \in ledger : k[1] = "svip"}}

\* The purchases that were debited; those that got past their save, and their days.
debited == {r \in Requests : call(r).op = "svipBuy" /\ tierKey(r) \in ledger}
saved == {r \in Requests : call(r).op = "svipBuy" /\ "levels" \in DOMAIN job[r]}
daysPaid == SumFunctionOnSet([r \in saved |-> job[r].days], saved)

\* purchaseTier debits before it saves.  A tier that was paid is owned, unless its
\* purchase is still at the save, was cut off there, or was refused there because
\* another purchase was saved since it read the status: no save takes a tier away, and
\* nothing else comes between a debit and its tier.
PaidTiersOwned ==
    \A r \in debited :
        \/ call(r).level \in status.owned
        \/ GotTo(r, "svipSave")
        \/ pc[r] = "failed" /\ job[r].status.version < status.version

\* An owned tier was paid for, the highest is the highest ever owned, the one shown is
\* owned, and an SVIP item in anybody's inventory belongs to a tier he owns.
OwnedTiersPaid ==
    /\ status.owned \subseteq paidFor
    /\ status.highest = Max(status.owned \cup {0})
    /\ status.current \in status.owned \cup {0}
    /\ \A k \in DOMAIN owned : k.source = "svip" => k.ref \in status.owned

\* Purchases of timed tiers add their days up, however they overlap: the expiry is the
\* days of all that were saved after the first day, and no more than those after today.
\* (As long as no date is as late as the number that stands for Never.)
PaidTimeAdded ==
    /\ saved \subseteq debited
    /\ saved # {} /\ (\A r \in saved : job[r].days > 0) /\ daysPaid + day < Never =>
           status.expires \in daysPaid + 1 .. daysPaid + day

\* purchaseTier, activateTier, deactivate: whatever overlaps, what is paid is owned, but for
\* the purchases cut off or overtaken at their save; what is owned was paid; and paid days
\* add up.
TiersKept == PaidTiersOwned /\ OwnedTiersPaid /\ PaidTimeAdded
==============================================================================
