------------------------------ MODULE RevenueCat ------------------------------
(***************************************************************************)
(* The webhook of the app stores (modules/revenuecat/revenuecat.service.ts *)
(* and its controller): a billable event of a known user is credited as a  *)
(* base and a bonus, each under a key of its own.  The store sends an      *)
(* event again until it gets an answer other than an error.  Events that   *)
(* are not billable, or sandboxed, change nothing and are left out.        *)
(***************************************************************************)
EXTENDS Service

CONSTANTS Events     \* the ids of the events

VARIABLES
    package     \* [active, bonus]: the recharge package of the event's product

RevenueCatInit == package = [active |-> TRUE, bonus |-> TRUE]

base(e) == <<"revenuecat", e, "base">>
bonus(e) == <<"revenuecat", e, "bonus">>

\* The package is looked up; without one the event is acknowledged and dropped.
WebhookFind(r) ==
    /\ Begins(r, "webhook")
    /\ Learns(r, [bonus |-> package.bonus])
    /\ Goes(r, IF package.active THEN "webhookBase" ELSE "failed")
    /\ UNCHANGED <<ledger, package>>

MutantWebhookBase(r) ==
    /\ pc[r] = "webhookBase"
    /\ Posts(base(call(r).event))
    /\ Goes(r, IF job[r].bonus /\ base(call(r).event) \notin ledger
               THEN "webhookBonus" ELSE "done")
    /\ UNCHANGED <<job, package>>

WebhookBase(r) ==
    /\ pc[r] = "webhookBase"
    /\ Posts(base(call(r).event))
    /\ Goes(r, IF job[r].bonus THEN "webhookBonus" ELSE "done")
    /\ UNCHANGED <<job, package>>

\* A base that is there already is taken for an event that was complete.
WebhookBonus(r) ==
    /\ pc[r] = "webhookBonus"
    /\ Posts(bonus(call(r).event))
    /\ Goes(r, "done")
    /\ UNCHANGED <<job, package>>

\* The wallet or the database refused, or the process died: the store was answered
\* with an error, or not at all, and sends the event again.
Redeliver(r) ==
    /\ pc[r] = "stopped" /\ call(r).op = "webhook"
    /\ Passes(r, "idle") /\ UNCHANGED package

UpdatePackage(r) ==
    /\ Begins(r, "package")
    /\ package' = [active |-> call(r).active, bonus |-> call(r).bonus]
    /\ Passes(r, "done")

WebhookStep(r) ==
    WebhookFind(r) \/ WebhookBase(r) \/ WebhookBonus(r) \/ Redeliver(r)
RevenueCatStep(r) == WebhookStep(r) \/ UpdatePackage(r)

------------------------------------------------------------------------------
\* The properties.

\* The store has not had its answer.
Reported(e) == \E r \in Requests :
    /\ call(r).op = "webhook" /\ call(r).event = e
    /\ pc[r] \notin {"done", "failed"}

\* handleEvent: a purchase the store keeps reporting is in the end credited with
\* base and bonus, failures between the two included, unless an admin touches the
\* package meanwhile.
PurchasesComplete ==
    \A e \in Events :
        Reported(e) ~> \/ {base(e), bonus(e)} \subseteq ledger
                       \/ ~package.active \/ ~package.bonus
==============================================================================
