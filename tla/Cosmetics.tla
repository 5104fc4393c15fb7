------------------------------- MODULE Cosmetics -------------------------------
(***************************************************************************)
(* The cosmetics users own and wear (modules/cosmetics/cosmetics.service.ts). *)
(* The store and SVIP grant them, through the steps of grantToUser: a read *)
(* by the unique key, then an extension or an insert.  Wearing an item is  *)
(* a read, a sweep of the slot and a save.                                 *)
(*                                                                         *)
(* A date is a day; a cosmetic without an expiry has Never.                *)
(***************************************************************************)
EXTENDS Service

CONSTANTS
    Catalog     \* the cosmetic items: id -> type

VARIABLES
    items,      \* the cosmetic items: id -> [active, type]
    owned       \* the rows of users: key -> [equipped, expires, tier]

cosmeticVars == <<items, owned>>

Never == 1000

CosmeticsInit ==
    /\ items = [i \in DOMAIN Catalog |-> [active |-> TRUE, type |-> Catalog[i]]]
    /\ owned = <<>>

\* The unique index of a row.
RowKey(g) == [user |-> g.user, item |-> g.item, source |-> g.source, ref |-> g.ref]

\* The slot an item is worn in.
slot(i) == items[i].type

lives(k) == owned[k].expires > day

RowsOf(u) == {k \in DOMAIN owned : k.user = u}

InSlots(u, types) == {k \in RowsOf(u) : slot(k.item) \in types}

\* updateMany over the equipped flag of rows.
Wear(rows, on) ==
    owned' = [k \in DOMAIN owned |->
                 IF k \in rows THEN [owned[k] EXCEPT !.equipped = on] ELSE owned[k]]

------------------------------------------------------------------------------
\* grantToUser, for each of job[r].grants; then the request is at job[r].then.
\* Where the caller swallows errors (best effort) the next grant follows.

Grant(u, i, src, ref, n, t) == [user |-> u, item |-> i, source |-> src, ref |-> ref,
                                days |-> n, tier |-> t]

thisGrant(r) == Head(job[r].grants)

NextGrant(r) ==
    /\ Learns(r, [grants |-> Tail(job[r].grants)])
    /\ Goes(r, IF Len(job[r].grants) > 1 THEN "grantFind" ELSE job[r].then)
    /\ UNCHANGED ledger

expiry(days) == IF days = 0 THEN Never ELSE day + days

\* A longer expiry is taken, no expiry always; a row without one takes any.
Extends(k, date) ==
    owned[k].expires # date /\ (owned[k].expires = Never \/ owned[k].expires < date)

GrantFind(r) ==
    LET k == RowKey(thisGrant(r))
        e == expiry(thisGrant(r).days)
    IN  /\ pc[r] = "grantFind"
        /\ IF k \in DOMAIN owned /\ ~Extends(k, e)
           THEN NextGrant(r)
           ELSE /\ Learns(r, [until |-> e])
                /\ Goes(r, IF k \in DOMAIN owned THEN "grantExtend" ELSE "grantCreate")
                /\ UNCHANGED ledger
        /\ UNCHANGED cosmeticVars

GrantExtend(r) ==
    /\ pc[r] = "grantExtend"
    /\ owned' = [owned EXCEPT ![RowKey(thisGrant(r))].expires = job[r].until]
    /\ NextGrant(r) /\ UNCHANGED items

\* The insert fails on the unique index when another made the row meanwhile.
GrantCreate(r) ==
    LET k == RowKey(thisGrant(r)) IN
    /\ pc[r] = "grantCreate"
    /\ IF k \in DOMAIN owned
       THEN /\ UNCHANGED owned
            /\ IF job[r].bestEffort THEN NextGrant(r) ELSE Passes(r, "failed")
       ELSE /\ owned' = Put(owned, k, [equipped |-> FALSE, expires |-> job[r].until,
                                     tier |-> thisGrant(r).tier])
            /\ NextGrant(r)
    /\ UNCHANGED items

------------------------------------------------------------------------------
\* equip and unequip, of the row call(r).row.

EquipFind(r) ==
    LET k == call(r).row IN
    /\ Begins(r, "equip")
    /\ IF k \in DOMAIN owned /\ lives(k)
       THEN Learns(r, [wasOn |-> owned[k].equipped]) /\ Goes(r, "equipPeers")
       ELSE Goes(r, "failed") /\ UNCHANGED job
    /\ UNCHANGED <<ledger, cosmeticVars>>

\* The sweep takes off whatever is in the slot.
MutantEquipPeers(r) ==
    /\ pc[r] = "equipPeers"
    /\ Wear({k \in RowsOf(call(r).row.user) : k.item = call(r).row.item}, FALSE)
    /\ Passes(r, "equipSave") /\ UNCHANGED items

EquipPeers(r) ==
    /\ pc[r] = "equipPeers"
    /\ Wear(InSlots(call(r).row.user, {slot(call(r).row.item)}), FALSE)
    /\ Passes(r, "equipSave") /\ UNCHANGED items

\* A flag that was on when the row was read has not changed, and is not saved.
EquipSave(r) ==
    /\ pc[r] = "equipSave"
    /\ IF job[r].wasOn THEN UNCHANGED owned ELSE Wear({call(r).row}, TRUE)
    /\ Passes(r, "done") /\ UNCHANGED items

UnequipFind(r) ==
    LET k == call(r).row IN
    /\ Begins(r, "unequip")
    /\ Passes(r, IF k \notin DOMAIN owned THEN "failed"
                 ELSE IF owned[k].equipped THEN "unequipSave" ELSE "done")
    /\ UNCHANGED cosmeticVars

UnequipSave(r) ==
    /\ pc[r] = "unequipSave"
    /\ Wear({call(r).row}, FALSE)
    /\ Passes(r, "done") /\ UNCHANGED items

------------------------------------------------------------------------------
\* equipSvipTier, for job[r].level of user call(r).user; then the request is done.

svipRows(u, level) == {k \in RowsOf(u) : k.source = "svip" /\ owned[k].tier <= level /\ lives(k)}

\* W has the row of the highest tier for each slot; among equals the one acquired
\* last, whichever that is.
Best(W, rows) ==
    /\ \A k \in rows : \E w \in W : slot(w.item) = slot(k.item)
    /\ \A w \in W, k \in rows : slot(k.item) = slot(w.item) =>
          owned[k].tier <= owned[w].tier /\ (k \in W => k = w)

SvipOwned(r) ==
    LET rows == svipRows(call(r).user, job[r].level) IN
    /\ pc[r] = "svipOwned"
    /\ IF rows = {} THEN Passes(r, "done")
       ELSE \E W \in SUBSET rows :
                /\ Best(W, rows)
                /\ Learns(r, [winners |-> W]) /\ Goes(r, "svipPeers") /\ UNCHANGED ledger
    /\ UNCHANGED cosmeticVars

SvipPeers(r) ==
    /\ pc[r] = "svipPeers"
    /\ Wear(InSlots(call(r).user, {slot(k.item) : k \in job[r].winners}), FALSE)
    /\ Passes(r, "svipWinners") /\ UNCHANGED items

SvipWinners(r) ==
    /\ pc[r] = "svipWinners"
    /\ Wear(job[r].winners, TRUE)
    /\ Passes(r, "done") /\ UNCHANGED items

\* unequipBySource.
UnequipSvip(r) ==
    /\ pc[r] = "unequipSvip"
    /\ Wear({k \in RowsOf(call(r).user) : k.source = "svip"}, FALSE)
    /\ Passes(r, "done") /\ UNCHANGED items

------------------------------------------------------------------------------
\* update and softDelete of an item.

UpdateItem(r) ==
    /\ Begins(r, "item")
    /\ items' = [items EXCEPT ![call(r).item] = Override(@, call(r).fields)]
    /\ Passes(r, "done") /\ UNCHANGED owned

CosmeticsStep(r) ==
    \/ GrantFind(r) \/ GrantExtend(r) \/ GrantCreate(r)
    \/ EquipFind(r) \/ EquipPeers(r) \/ EquipSave(r) \/ UnequipFind(r) \/ UnequipSave(r)
    \/ SvipOwned(r) \/ SvipPeers(r) \/ SvipWinners(r) \/ UnequipSvip(r)
    \/ UpdateItem(r)

------------------------------------------------------------------------------
\* The properties.

\* No admin gives an item another type, which may bring two worn items into one slot.
TypesStay ==
    \A w \in Workloads : \A r \in DOMAIN w.calls :
        w.calls[r].op = "item" => "type" \notin DOMAIN w.calls[r].fields

\* equip, unequip, equipSvipTier, unequipBySource: a user who waits for each answer
\* before the next call, whose calls may crash half way, never wears two items of one
\* slot, be they bought, presents, or the items of several SVIP tiers.
OneItemPerSlot ==
    load.patient => \A k, l \in DOMAIN owned :
        /\ k.user = l.user /\ slot(k.item) = slot(l.item)
        /\ owned[k].equipped /\ owned[l].equipped
        => k = l
==============================================================================
