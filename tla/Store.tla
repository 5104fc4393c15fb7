---------------------------------- MODULE Store ----------------------------------
(***************************************************************************)
(* The store (modules/store/store.service.ts): a listing is bought for     *)
(* oneself or as a present.  A purchase checks the listing, then the item, *)
(* debits the buyer under the client's key and grants the item under the   *)
(* same key; a present looks its receiver up as well.                      *)
(***************************************************************************)
EXTENDS Cosmetics

CONSTANTS
    FirstListings   \* listing -> [item, days, giftable, from, until]

\* The item of a listing is none of the fields that update writes.
ASSUME ListingAssumption ==
    /\ \A l \in DOMAIN FirstListings :
          "item" \in DOMAIN FirstListings[l] /\ FirstListings[l].item \in DOMAIN Catalog
    /\ \A w \in Workloads : \A r \in DOMAIN w.calls :
          LET c == w.calls[r] IN
          /\ c.op \in {"purchase", "gift"} => c.listing \in DOMAIN FirstListings
          /\ c.op = "listing" => "item" \notin DOMAIN c.fields

VARIABLES
    listings        \* the listings, each also [active]

StoreInit == listings = [l \in DOMAIN FirstListings |-> Override(FirstListings[l], [active |-> TRUE])]

Buys(r) == Begins(r, "purchase") \/ Begins(r, "gift")

Purchasable(l) == listings[l].active /\ day \in listings[l].from .. listings[l].until

\* The listing is read; its item, length and price are those of this moment.
BuyListing(r) ==
    LET l == call(r).listing IN
    /\ Buys(r)
    /\ IF Purchasable(l) /\ (call(r).op = "gift" => listings[l].giftable)
       THEN Learns(r, [listing |-> listings[l]]) /\ Goes(r, "buyItem")
       ELSE Goes(r, "failed") /\ UNCHANGED job
    /\ UNCHANGED <<ledger, cosmeticVars, listings>>

\* The item; for a present the receiver too, who is somebody else.
BuyItem(r) ==
    /\ pc[r] = "buyItem"
    /\ Passes(r, IF items[job[r].listing.item].active
                    /\ (call(r).op = "gift" => call(r).to # call(r).user)
                 THEN "buyDebit" ELSE "failed")
    /\ UNCHANGED <<cosmeticVars, listings>>

storeKey(k) == <<"store", k>>

source(r) == IF call(r).op = "gift" THEN "gift" ELSE "store"
receiver(r) == IF call(r).op = "gift" THEN call(r).to ELSE call(r).user

granted(r) == Grant(receiver(r), job[r].listing.item, source(r), call(r).key,
                    job[r].listing.days, 0)

MutantBuyDebit(r) ==
    /\ pc[r] = "buyDebit"
    /\ Learns(r, [grants |-> <<granted(r)>>, bestEffort |-> FALSE, then |-> "done"])
    /\ Goes(r, "grantFind")
    /\ (Posts(storeKey(call(r).key)) \/ UNCHANGED ledger)
    /\ UNCHANGED <<cosmeticVars, listings>>

\* The wallet may be short, unless it has debited this key before.
BuyDebit(r) ==
    /\ pc[r] = "buyDebit"
    /\ \/ /\ Posts(storeKey(call(r).key))
          /\ Learns(r, [grants |-> <<granted(r)>>, bestEffort |-> FALSE, then |-> "done"])
          /\ Goes(r, "grantFind")
       \/ storeKey(call(r).key) \notin ledger /\ Passes(r, "failed")
    /\ UNCHANGED <<cosmeticVars, listings>>

\* update and softDelete.
UpdateListing(r) ==
    /\ Begins(r, "listing")
    /\ listings' = [listings EXCEPT ![call(r).listing] = Override(@, call(r).fields)]
    /\ Passes(r, "done") /\ UNCHANGED cosmeticVars

StoreStep(r) == BuyListing(r) \/ BuyItem(r) \/ BuyDebit(r) \/ UpdateListing(r)

------------------------------------------------------------------------------
\* The properties.

storeRows == {k \in DOMAIN owned : k.source \in {"store", "gift"}}

\* Every purchase has a key of its own: only a retry comes with the same.
KeysAreOwn ==
    \A w \in Workloads : \A r, s \in DOMAIN w.calls :
        LET c == w.calls[r]
            d == w.calls[s]
        IN  {c.op, d.op} \subseteq {"purchase", "gift"} /\ c.key = d.key => c = d

\* purchase and gift: an item from the store was paid for; a purchase that answered
\* has been paid, once, and its receiver has the row, once; and of the purchases that
\* were paid and have no row, none has answered: each is under way, or it crashed.
PurchasesDelivered ==
    /\ \A k \in storeRows : storeKey(k.ref) \in ledger
    /\ \A r \in Requests : call(r).op \in {"purchase", "gift"} /\ pc[r] = "done" =>
          \E k \in storeRows :
              k.ref = call(r).key /\ k.user = receiver(r) /\ k.source = source(r)
    /\ \A k, l \in storeRows : k.ref = l.ref => k = l
    /\ \A p \in ledger : p[1] = "store" /\ (\A k \in storeRows : k.ref # p[2]) =>
          \E r \in Requests : GotTo(r, "grantFind") \/ GotTo(r, "grantCreate")
==============================================================================
