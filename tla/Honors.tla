--------------------------------- MODULE Honors ---------------------------------
(***************************************************************************)
(* The medals of one user (modules/honors): events make the service        *)
(* evaluate the user against the rules of the catalog, admins grant and    *)
(* revoke medals, the user wears them in the slots of the honor wall.  An  *)
(* evaluation reads the catalog, the values of the metrics and the user's  *)
(* row, each by a query of its own, and then writes.                       *)
(***************************************************************************)
EXTENDS Service

CONSTANTS
    Honors      \* medal -> the targets of its tiers, in order; the metric is one

ASSUME HonorsAssumption ==
    IsFiniteSet(DOMAIN Honors) /\ \A h \in DOMAIN Honors : Honors[h] \in Seq(Int)

ASSUME MetricAssumption ==
    \A w \in Workloads : \A r \in DOMAIN w.calls :
        w.calls[r].op = "metric" => w.calls[r].value \in Int

VARIABLES
    catalogOf,  \* the medals' catalog rows: [active, tiers]
    medals,     \* the user's rows: medal -> [tier, source, progress, slot]
    metric,     \* what metrics.service reads
    peak        \* the highest metric so far

honorVars == <<catalogOf, medals, metric, peak>>

HonorsInit ==
    /\ catalogOf = [h \in DOMAIN Honors |-> [active |-> TRUE, tiers |-> Honors[h]]]
    /\ medals = <<>>
    /\ metric = 0 /\ peak = 0

maxTier(h) == Len(catalogOf[h].tiers)

\* The highest tier whose target the value meets; 0 is none.
MutantQualifying(targets, value) ==
    Max({0} \cup {i \in DOMAIN targets : targets[i] > 0 /\ value + 1 >= targets[i]})

Qualifying(targets, value) ==
    Max({0} \cup {i \in DOMAIN targets : targets[i] > 0 /\ value >= targets[i]})

\* The other modules move the number the metric reads, up or down.
ChangeMetric(r) ==
    /\ Begins(r, "metric")
    /\ metric' = call(r).value
    /\ peak' = Max({peak, call(r).value})
    /\ Passes(r, "done") /\ UNCHANGED <<catalogOf, medals>>

------------------------------------------------------------------------------
\* evaluateUser, one medal after another.

EvaluateCatalog(r) ==
    LET active == {h \in DOMAIN Honors : catalogOf[h].active /\ catalogOf[h].tiers # <<>>} IN
    /\ Begins(r, "evaluate")
    /\ \E todo \in SetToSeqs(active) :
          /\ Learns(r, [todo |-> todo, rules |-> [h \in active |-> catalogOf[h].tiers]])
          /\ Goes(r, IF todo = <<>> THEN "done" ELSE "honorValue")
    /\ UNCHANGED <<ledger, honorVars>>

thisHonor(r) == Head(job[r].todo)

\* The value is read for the first medal and kept for the rest.
EvaluateValue(r) ==
    LET v == IF "value" \in DOMAIN job[r] THEN job[r].value ELSE metric
        t == Qualifying(job[r].rules[thisHonor(r)], v)
    IN  /\ pc[r] = "honorValue"
        /\ Learns(r, [value |-> v, tier |-> t])
        /\ Goes(r, IF t = 0 THEN "honorProgress" ELSE "honorFind")
        /\ UNCHANGED <<ledger, honorVars>>

NextHonor(r) ==
    /\ Learns(r, [todo |-> Tail(job[r].todo)])
    /\ Goes(r, IF Len(job[r].todo) > 1 THEN "honorValue" ELSE "done")
    /\ UNCHANGED ledger

\* Without a tier only the progress of a row that exists moves.
EvaluateProgress(r) ==
    LET h == thisHonor(r) IN
    /\ pc[r] = "honorProgress"
    /\ medals' = IF h \in DOMAIN medals THEN [medals EXCEPT ![h].progress = job[r].value]
                 ELSE medals
    /\ NextHonor(r) /\ UNCHANGED <<catalogOf, metric, peak>>

EvaluateFind(r) ==
    LET h == thisHonor(r)
        was == IF h \in DOMAIN medals THEN medals[h].tier ELSE 0
    IN  /\ pc[r] = "honorFind"
        /\ Learns(r, [was |-> was])
        /\ Goes(r, IF was = 0 THEN "honorCreate" ELSE "honorSave")
        /\ UNCHANGED <<ledger, honorVars>>

\* The unique index on user and medal refuses a second row; the rest of the
\* catalog is then not evaluated.
EvaluateCreate(r) ==
    LET h == thisHonor(r)
        row == [tier |-> job[r].tier, source |-> "task", progress |-> job[r].value, slot |-> -1]
    IN  /\ pc[r] = "honorCreate"
        /\ IF h \in DOMAIN medals
           THEN UNCHANGED medals /\ Passes(r, "failed")
           ELSE medals' = Put(medals, h, row) /\ NextHonor(r)
        /\ UNCHANGED <<catalogOf, metric, peak>>

\* A higher tier is saved whatever the row has become; a save of a row that was
\* revoked meanwhile throws.
EvaluateSave(r) ==
    LET h == thisHonor(r)
        moved == [medals[h] EXCEPT !.progress = job[r].value]
    IN  /\ pc[r] = "honorSave"
        /\ IF h \notin DOMAIN medals
           THEN UNCHANGED medals /\ Passes(r, "failed")
           ELSE /\ medals' = [medals EXCEPT ![h] =
                       IF job[r].was < job[r].tier
                       THEN [moved EXCEPT !.tier = job[r].tier, !.source = "task"]
                       ELSE moved]
                /\ NextHonor(r)
        /\ UNCHANGED <<catalogOf, metric, peak>>

------------------------------------------------------------------------------
\* grantToUser and revokeFromUser, of an admin; update of the catalog.

Clamp(t, h) == Min({Max({t, 1}), maxTier(h)})

GrantRead(r) ==
    LET h == call(r).honor IN
    /\ Begins(r, "honorGrant")
    /\ IF catalogOf[h].active
       THEN Learns(r, [tier |-> Clamp(call(r).tier, h)]) /\ Goes(r, "honorUpsert")
       ELSE Goes(r, "failed") /\ UNCHANGED job
    /\ UNCHANGED <<ledger, honorVars>>

\* The upsert sets the tier, be it lower.
GrantUpsert(r) ==
    LET h == call(r).honor
        old == IF h \in DOMAIN medals THEN medals[h] ELSE [progress |-> 0, slot |-> -1]
    IN  /\ pc[r] = "honorUpsert"
        /\ medals' = Put(medals, h, Override(old, [tier |-> job[r].tier, source |-> "admin"]))
        /\ Passes(r, "done") /\ UNCHANGED <<catalogOf, metric, peak>>

Revoke(r) ==
    /\ Begins(r, "honorRevoke")
    /\ medals' = Restrict(medals, DOMAIN medals \ {call(r).honor})
    /\ Passes(r, "done") /\ UNCHANGED <<catalogOf, metric, peak>>

UpdateHonor(r) ==
    /\ Begins(r, "honorUpdate")
    /\ catalogOf' = [catalogOf EXCEPT ![call(r).honor] = Override(@, call(r).fields)]
    /\ Passes(r, "done") /\ UNCHANGED <<medals, metric, peak>>

------------------------------------------------------------------------------
\* wear and unwear.

WearFind(r) ==
    LET h == call(r).honor IN
    /\ Begins(r, "wear") \/ Begins(r, "unwear")
    /\ IF h \in DOMAIN medals
       THEN /\ Learns(r, [was |-> medals[h].slot])
            /\ Goes(r, IF call(r).op = "wear" THEN "wearVacate"
                       ELSE IF medals[h].slot = -1 THEN "done" ELSE "wearSave")
       ELSE Goes(r, "failed") /\ UNCHANGED job
    /\ UNCHANGED <<ledger, honorVars>>

MutantWearVacate(r) ==
    /\ pc[r] = "wearVacate"
    /\ Passes(r, "wearSave") /\ UNCHANGED honorVars

WearVacate(r) ==
    /\ pc[r] = "wearVacate"
    /\ medals' = [h \in DOMAIN medals |->
                     IF medals[h].slot = call(r).slot THEN [medals[h] EXCEPT !.slot = -1]
                     ELSE medals[h]]
    /\ Passes(r, "wearSave") /\ UNCHANGED <<catalogOf, metric, peak>>

\* A slot equal to the one read is not saved.
WearSave(r) ==
    LET h == call(r).honor
        slot == IF call(r).op = "wear" THEN call(r).slot ELSE -1
    IN  /\ pc[r] = "wearSave"
        /\ IF slot = job[r].was THEN UNCHANGED medals /\ Passes(r, "done")
           ELSE IF h \notin DOMAIN medals THEN UNCHANGED medals /\ Passes(r, "failed")
           ELSE medals' = [medals EXCEPT ![h].slot = slot] /\ Passes(r, "done")
        /\ UNCHANGED <<catalogOf, metric, peak>>

HonorsStep(r) ==
    \/ ChangeMetric(r)
    \/ EvaluateCatalog(r) \/ EvaluateValue(r) \/ EvaluateProgress(r)
    \/ EvaluateFind(r) \/ EvaluateCreate(r) \/ EvaluateSave(r)
    \/ GrantRead(r) \/ GrantUpsert(r) \/ Revoke(r) \/ UpdateHonor(r)
    \/ WearFind(r) \/ WearVacate(r) \/ WearSave(r)

------------------------------------------------------------------------------
\* The properties.

\* No update of a medal replaces its targets.
TargetsStay ==
    \A w \in Workloads : \A r \in DOMAIN w.calls :
        w.calls[r].op = "honorUpdate" => "tiers" \notin DOMAIN w.calls[r].fields

\* evaluateUser, with grants, revocations and other evaluations in between: a medal
\* the rules gave has a tier whose target the user has reached, now or earlier, and
\* no progress was recorded that the user never had.
HonorsAreEarned ==
    \A h \in DOMAIN medals :
        /\ medals[h].progress <= peak
        /\ medals[h].source = "task" =>
              medals[h].tier \in DOMAIN Honors[h] /\ Honors[h][medals[h].tier] <= peak

\* wear: "Each slot holds at most one medal", for a user who waits for each answer,
\* whatever crashed half way, and whatever medals were granted or revoked.
OneMedalPerSlot ==
    load.patient => \A g, h \in DOMAIN medals :
        medals[g].slot = medals[h].slot /\ medals[g].slot # -1 => g = h
==============================================================================
