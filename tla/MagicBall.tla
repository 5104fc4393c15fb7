------------------------------- MODULE MagicBall -------------------------------
(***************************************************************************)
(* One daily task of one user (modules/magic-ball/magic-ball.service.ts):  *)
(* other modules report progress, the user claims the reward once a day, an *)
(* admin edits or deletes the task.  A claim is marked by a conditional    *)
(* push before it is paid.                                                 *)
(***************************************************************************)
EXTENDS Service

CONSTANTS FirstTask     \* [goal, rewardCoins] of the task

ASSUME TaskAssumption == FirstTask \in [goal : Nat, rewardCoins : Nat \ {0}]

\* incrementProgress drops an amount that is not positive; an edit is @IsInt, @Min(0).
ASSUME BallCallsAssumption ==
    \A w \in Workloads : \A r \in DOMAIN w.calls :
        LET c == w.calls[r] IN
        /\ c.op = "progress" => c.amount \in Nat \ {0}
        /\ c.op = "ballTask" =>
              \A x \in DOMAIN c.fields \cap {"goal", "rewardCoins"} : c.fields[x] \in Nat

VARIABLES
    task,       \* [exists, active, goal, rewardCoins]
    progress    \* the user's row per day: [counter, claimed, cumulative]

ballVars == <<task, progress>>

MagicBallInit ==
    /\ task = Override(FirstTask, [exists |-> TRUE, active |-> TRUE])
    /\ progress = [d \in 1 .. load.days |->
                      [counter |-> 0, claimed |-> 0, cumulative |-> 0]]

\* incrementProgress: one atomic upsert of the day's row.
IncrementProgress(r) ==
    /\ Begins(r, "progress")
    /\ progress' = [progress EXCEPT ![day].counter = @ + call(r).amount]
    /\ Passes(r, "done") /\ UNCHANGED task

\* claimReward reads the task and fixes the day.
ClaimTask(r) ==
    /\ Begins(r, "ball")
    /\ Learns(r, [task |-> task, date |-> day])
    /\ Goes(r, IF task.exists /\ task.active THEN "ballCheck" ELSE "failed")
    /\ UNCHANGED <<ledger, ballVars>>

\* The row of the day: not claimed and complete.
ClaimCheck(r) ==
    LET p == progress[job[r].date] IN
    /\ pc[r] = "ballCheck"
    /\ Passes(r, IF p.claimed = 0 /\ p.counter >= job[r].task.goal
                 THEN "ballPush" ELSE "failed")
    /\ UNCHANGED ballVars

Claimed(p, coins) == [p EXCEPT !.claimed = @ + 1, !.cumulative = @ + coins]

MutantClaimPush(r) ==
    LET d == job[r].date IN
    /\ pc[r] = "ballPush"
    /\ progress' = [progress EXCEPT ![d] = Claimed(@, job[r].task.rewardCoins)]
    /\ Passes(r, "ballCredit") /\ UNCHANGED task

\* The filter asks again that the task is not among the claimed.
ClaimPush(r) ==
    LET d == job[r].date IN
    /\ pc[r] = "ballPush"
    /\ IF progress[d].claimed = 0
       THEN /\ progress' = [progress EXCEPT ![d] = Claimed(@, job[r].task.rewardCoins)]
            /\ Passes(r, "ballCredit")
       ELSE UNCHANGED progress /\ Passes(r, "failed")
    /\ UNCHANGED task

ballKey(d) == <<"ball", d>>

\* The wallet may refuse; the claim stays marked.
ClaimCredit(r) ==
    /\ pc[r] = "ballCredit"
    /\ \/ /\ Posts(ballKey(job[r].date))
          /\ Learns(r, [paid |-> TRUE]) /\ Goes(r, "done")
       \/ Learns(r, [paid |-> FALSE]) /\ Goes(r, "failed") /\ UNCHANGED ledger
    /\ UNCHANGED ballVars

\* updateTask and deleteTask.
UpdateTask(r) ==
    /\ Begins(r, "ballTask") /\ task.exists
    /\ task' = Override(task, call(r).fields)
    /\ Passes(r, "done") /\ UNCHANGED progress

DeleteTask(r) ==
    /\ Begins(r, "ballDelete")
    /\ task' = [task EXCEPT !.exists = FALSE]
    /\ Passes(r, "done") /\ UNCHANGED progress

MagicBallStep(r) ==
    \/ IncrementProgress(r) \/ ClaimTask(r) \/ ClaimCheck(r) \/ ClaimPush(r)
    \/ ClaimCredit(r) \/ UpdateTask(r) \/ DeleteTask(r)

------------------------------------------------------------------------------
\* The properties.

\* Claims of day d that won the push: paid, about to be, or given up.
winners(d) == {r \in Requests : call(r).op = "ball" /\ "date" \in DOMAIN job[r]
                  /\ job[r].date = d
                  /\ (GotTo(r, "ballCredit") \/ "paid" \in DOMAIN job[r])}

\* claimReward: each day one claim wins at most, of a task whose goal was reached;
\* the row adds up exactly the reward it promised, and the wallet pays no one else:
\* what was not paid is what was refused or crashed on the way to the wallet.
TaskPaidOnce ==
    \A d \in DOMAIN progress :
        /\ Cardinality(winners(d)) = progress[d].claimed /\ progress[d].claimed <= 1
        /\ \A r \in winners(d) :
              /\ progress[d].cumulative = job[r].task.rewardCoins
              /\ progress[d].counter >= job[r].task.goal
        /\ ballKey(d) \in ledger <=> \E r \in winners(d) : pc[r] = "done"
==============================================================================
