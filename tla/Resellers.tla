------------------------------- MODULE Resellers -------------------------------
(***************************************************************************)
(* The coin pool of one reseller (modules/resellers/resellers.service.ts): *)
(* an admin tops it up, the reseller assigns coins of it to users, and an  *)
(* admin suspends, reinstates or limits the reseller.  A top-up is a check *)
(* of its key, a check of a pool read earlier, an increment, and a ledger  *)
(* row; an assignment is one transaction over both ledgers.                *)
(***************************************************************************)
EXTENDS Service

CONSTANTS OpeningLimit      \* creditLimit; 0 is no limit

ASSUME LimitAssumption == OpeningLimit \in Nat

\* The coins of a top-up or an assignment: @IsInt, @Min(1).
ASSUME AmountAssumption ==
    \A w \in Workloads : \A r \in DOMAIN w.calls :
        w.calls[r].op \in {"topup", "assign"} => w.calls[r].amount \in Nat \ {0}

VARIABLES
    reseller,       \* [active, creditLimit, coinPool, received, assigned]
    poolRows        \* the reseller's ledger: [key, direction, amount]

poolVars == <<reseller, poolRows>>

ResellersInit ==
    /\ reseller = [active |-> TRUE, creditLimit |-> OpeningLimit,
                   coinPool |-> 0, received |-> 0, assigned |-> 0]
    /\ poolRows = {}

\* idempotencyKey is unique, whatever the direction.
PoolRowFor(k) == \E l \in poolRows : l.key = k

Row(c, d) == [key |-> c.key, direction |-> d, amount |-> c.amount]

------------------------------------------------------------------------------
\* topupPool.

TopupFind(r) ==
    /\ Begins(r, "topup")
    /\ Passes(r, IF PoolRowFor(call(r).key) THEN "done" ELSE "topupRead")
    /\ UNCHANGED poolVars

\* The pool is read, its status and limit checked.
TopupRead(r) ==
    LET fits == \/ reseller.creditLimit = 0
                \/ reseller.coinPool + call(r).amount <= reseller.creditLimit
    IN  /\ pc[r] = "topupRead"
        /\ Passes(r, IF reseller.active /\ fits THEN "topupInc" ELSE "failed")
        /\ UNCHANGED poolVars

\* The increment asks for the status again.
TopupInc(r) ==
    /\ pc[r] = "topupInc"
    /\ IF reseller.active
       THEN /\ reseller' = [reseller EXCEPT !.coinPool = @ + call(r).amount,
                                            !.received = @ + call(r).amount]
            /\ Passes(r, "topupLedger")
       ELSE UNCHANGED reseller /\ Passes(r, "failed")
    /\ UNCHANGED poolRows

TopupLedger(r) ==
    /\ pc[r] = "topupLedger"
    /\ IF PoolRowFor(call(r).key)
       THEN UNCHANGED poolRows /\ Passes(r, "topupReverse")
       ELSE poolRows' = poolRows \cup {Row(call(r), "credit")} /\ Passes(r, "done")
    /\ UNCHANGED reseller

\* The key was taken meanwhile: the increment is taken back.
MutantTopupReverse(r) ==
    /\ pc[r] = "topupReverse"
    /\ reseller' = [reseller EXCEPT !.received = @ - call(r).amount]
    /\ Passes(r, "done") /\ UNCHANGED poolRows

TopupReverse(r) ==
    /\ pc[r] = "topupReverse"
    /\ reseller' = [reseller EXCEPT !.coinPool = @ - call(r).amount,
                                    !.received = @ - call(r).amount]
    /\ Passes(r, "done") /\ UNCHANGED poolRows

------------------------------------------------------------------------------
\* assignToUser.

AssignFind(r) ==
    /\ Begins(r, "assign")
    /\ Passes(r, IF PoolRowFor(call(r).key) THEN "done" ELSE "assignRead")
    /\ UNCHANGED poolVars

AssignRead(r) ==
    /\ pc[r] = "assignRead"
    /\ Passes(r, IF reseller.active THEN "assignTransfer" ELSE "failed")
    /\ UNCHANGED poolVars

\* The transaction: pool, wallet, and both entries; or nothing, if the pool is
\* short, the reseller suspended, the wallet frozen or the key taken by now.
AssignTransfer(r) ==
    LET c == call(r) IN
    /\ pc[r] = "assignTransfer"
    /\ \/ /\ reseller.active /\ reseller.coinPool >= c.amount
          /\ ~PoolRowFor(c.key) /\ <<"assign", c.key>> \notin ledger
          /\ reseller' = [reseller EXCEPT !.coinPool = @ - c.amount,
                                          !.assigned = @ + c.amount]
          /\ poolRows' = poolRows \cup {Row(c, "debit")}
          /\ Posts(<<"assign", c.key>>)
          /\ Goes(r, "done") /\ UNCHANGED job
       \/ Passes(r, "failed") /\ UNCHANGED poolVars

------------------------------------------------------------------------------
\* updateStatus and update: they save the one field they set.

UpdateStatus(r) ==
    /\ Begins(r, "resellerStatus")
    /\ reseller' = [reseller EXCEPT !.active = call(r).active]
    /\ Passes(r, "done") /\ UNCHANGED poolRows

UpdateLimit(r) ==
    /\ Begins(r, "resellerLimit")
    /\ reseller' = [reseller EXCEPT !.creditLimit = call(r).limit]
    /\ Passes(r, "done") /\ UNCHANGED poolRows

ResellersStep(r) ==
    \/ TopupFind(r) \/ TopupRead(r) \/ TopupInc(r) \/ TopupLedger(r) \/ TopupReverse(r)
    \/ AssignFind(r) \/ AssignRead(r) \/ AssignTransfer(r)
    \/ UpdateStatus(r) \/ UpdateLimit(r)

------------------------------------------------------------------------------
\* The properties.

bookedAs(d) == [l \in poolRows |-> IF l.direction = d THEN l.amount ELSE 0]
rowSum(d) == SumFunction(bookedAs(d))

\* Coins that are in the pool although no row of the ledger says so: those of
\* top-ups between their increment and their row or reversal, crashed ones too.
notBooked(r) == GotTo(r, "topupLedger") \/ GotTo(r, "topupReverse")
unbookedOf == [r \in Requests |-> IF notBooked(r) THEN call(r).amount ELSE 0]
unbooked == SumFunction(unbookedOf)

\* topupPool and assignToUser, whatever overlaps, is retried or crashes: the pool
\* and its two counters are what the reseller's ledger says plus what is not
\* booked yet, a row of the ledger that gave coins away has its entry in the
\* user's wallet and the other way round, and an acknowledged call has its row.
PoolReconciled ==
    /\ reseller.received = rowSum("credit") + unbooked
    /\ reseller.assigned = rowSum("debit")
    /\ reseller.coinPool = reseller.received - reseller.assigned
    /\ {l.key : l \in {l \in poolRows : l.direction = "debit"}}
       = {k[2] : k \in {k \in ledger : k[1] = "assign"}}
    /\ \A r \in Requests :
          pc[r] = "done" /\ call(r).op \in {"topup", "assign"} => PoolRowFor(call(r).key)
==============================================================================
