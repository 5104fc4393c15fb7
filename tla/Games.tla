-------------------------------- MODULE Games --------------------------------
(***************************************************************************)
(* The round loop of one wheel-betting game and its bets                   *)
(* (modules/games/games.service.ts).  The process holds timers; a timer    *)
(* that fires, a client's poll or an admin's call starts a task, and the   *)
(* tasks' actions are their database round trips.  A crash loses tasks and *)
(* timers, and a boot starts the loop again from the round documents.      *)
(*                                                                         *)
(* Every bet is of one chip.  The clock is abstract: betting closes for a  *)
(* round at any moment after it opened, and a timer fires at any moment    *)
(* after what it waits for.  The wallet is the abstract one: the key of a  *)
(* payout lets it happen once, and it may fail.                            *)
(* Definitions named Mutant... are faults to check the properties with.    *)
(***************************************************************************)
EXTENDS Integers, Sequences, FiniteSets, FiniteSetsExt, Functions

CONSTANTS
    Bets,           \* the bets users may place
    Items, multiplier, rtpPercent,
    NoItem,
    Tasks,          \* tasks that may run at once
    MaxRounds,      \* bound on the rounds of a behaviour
    MaxCrashes,     \* bound on its crashes
    MaxLoops,       \* bound on the armed timers and running tasks at once
    Polls,          \* do clients poll getCurrentRound while rounds are wedged?
    Admins          \* do admins pause, resume and reset the game?

ASSUME ItemsAssumption ==
    /\ Items # {} /\ NoItem \notin Items
    /\ multiplier \in [Items -> Nat \ {0}] /\ rtpPercent \in Nat
ASSUME BoundsAssumption ==
    /\ MaxRounds \in Nat /\ MaxCrashes \in Nat /\ MaxLoops \in Nat
    /\ {Polls, Admins} \subseteq BOOLEAN

VARIABLES
    rounds,     \* the round documents, in the order of their creation
    timers,     \* armed timers: [id, kind, round]
    handle,     \* loopTimers.get(gameKey): the id of a timer, or 0
    pc, loc,    \* the tasks
    enabled,    \* the configuration's switch
    up, crashes,
    betPc, bet, \* the bets: where each request is; its round, its item and, for the
                \* properties, whether its round was betting when its row was inserted
    rows,       \* bets whose document is inserted
    payout      \* what became of each bet's payout

taskVars == <<pc, loc>>
timerVars == <<timers, handle>>
betVars == <<betPc, bet, rows>>
envVars == <<enabled, up, crashes>>
vars == <<rounds, timerVars, taskVars, betVars, envVars, payout>>

Phase == {"betting", "closed", "spinning", "result", "completed"}

\* closing: bettingClosesAt has passed.  dead: so long ago that the round counts
\* as wedged (an hour).
Round == [number : Nat \ {0}, phase : Phase, winningItem : Items \cup {NoItem},
          betsByItem : [Items -> Nat], closing : BOOLEAN, dead : BOOLEAN]

TaskPc == {"idle", "scheduleRead", "scheduleResult", "openRead", "openWrite",
           "spinRead", "spinFlip", "spinWrite", "resultRead", "resultFlip",
           "payFind", "pay", "resultComplete", "enrich", "healComplete", "resetClose",
           "deleteConfig"}

\* What a task remembers across its round trips: a round it read, the phase-flipped
\* document's bets, a winner, the bets to pay, whether to schedule after opening.
Loc == [round : Nat, number : Nat, winner : Items \cup {NoItem},
        toPay : SUBSET Bets, then : {"schedule", "end"}]

Fresh == [round |-> 0, number |-> 0, winner |-> NoItem, toPay |-> {}, then |-> "end"]

BetPc == {"new", "debit", "insert", "count", "done", "refused", "lost"}

\* findOne sorted by roundNumber: any of the newest, {} if there is none.
Latest == {i \in DOMAIN rounds : \A j \in DOMAIN rounds :
                                    rounds[j].number <= rounds[i].number}

Over(i) == rounds[i].phase = "completed"

totalBet(r) == FoldFunction(+, 0, r.betsByItem)

payoutOf(r, k) == r.betsByItem[k] * multiplier[k]

maxPayout(r) == (totalBet(r) * rtpPercent) \div 100

\* selectWinner: any item without bets at all; else any whose payout the RTP
\* covers; else a cheapest one (the first in the code's order of items).
selectWinner(r) ==
    IF totalBet(r) = 0 THEN Items
    ELSE LET covered == {k \in Items : payoutOf(r, k) <= maxPayout(r)}
         IN  IF covered # {} THEN covered
             ELSE {k \in Items : \A l \in Items : payoutOf(r, k) <= payoutOf(r, l)}

------------------------------------------------------------------------------
\* Timers and tasks.

At(t, at) == up /\ pc[t] = at

\* The task goes on at `to` with locals l.
Go(t, to, l) ==
    /\ pc' = [pc EXCEPT ![t] = to]
    /\ loc' = [loc EXCEPT ![t] = l]

End(t) == Go(t, "idle", Fresh)

NewId == CHOOSE n \in 1 .. Cardinality(timers) + 1 : \A x \in timers : x.id # n

\* setTimeout, and the handle overwritten whatever it was.
Arm(kind, i) ==
    /\ timers' = timers \cup {[id |-> NewId, kind |-> kind, round |-> i]}
    /\ handle' = NewId

\* clearTimeout of the handle.  The handle of a timer that fired or was cleared is 0
\* here: to clear it again does nothing.
Clear == timers' = {x \in timers : x.id # handle} /\ handle' = 0

\* scheduleNextTransition up to its first await: cancel the previous handle.
Schedule(t) ==
    /\ Clear
    /\ Go(t, "scheduleRead", Fresh)

MutantScheduleRead(t) ==
    /\ At(t, "scheduleRead")
    /\ \/ ~enabled /\ End(t) /\ UNCHANGED timerVars
       \/ enabled /\ Latest = {} /\ Arm("open", 0) /\ End(t)
       \/ \E i \in Latest :
             /\ enabled
             /\ CASE rounds[i].phase = "completed" -> Arm("open", i) /\ End(t)
                  [] rounds[i].phase = "betting" -> Arm("spin", i) /\ End(t)
                  [] rounds[i].phase = "closed" -> Arm("draw", i) /\ End(t)
                  [] rounds[i].phase = "spinning" -> Arm("result", i) /\ End(t)
                  [] rounds[i].phase = "result" -> Arm("spin", i) /\ End(t)
    /\ UNCHANGED <<rounds, betVars, envVars, payout>>

MutantScheduleReadRedraw(t) ==
    /\ At(t, "scheduleRead")
    /\ \/ ~enabled /\ End(t) /\ UNCHANGED timerVars
       \/ enabled /\ Latest = {} /\ Arm("open", 0) /\ End(t)
       \/ \E i \in Latest :
             /\ enabled
             /\ CASE rounds[i].phase = "completed" -> Arm("open", i) /\ End(t)
                  [] rounds[i].phase = "betting" -> Arm("spin", i) /\ End(t)
                  [] rounds[i].phase \in {"closed", "spinning"} -> Arm("draw", i) /\ End(t)
                  [] rounds[i].phase = "result" ->
                        /\ Go(t, "scheduleResult", [Fresh EXCEPT !.round = i])
                        /\ UNCHANGED timerVars
    /\ UNCHANGED <<rounds, betVars, envVars, payout>>

MutantScheduleReadClosed(t) ==
    /\ At(t, "scheduleRead")
    /\ \/ ~enabled /\ End(t) /\ UNCHANGED timerVars
       \/ enabled /\ Latest = {} /\ Arm("open", 0) /\ End(t)
       \/ \E i \in Latest :
             /\ enabled
             /\ CASE rounds[i].phase = "completed" -> Arm("open", i) /\ End(t)
                  [] rounds[i].phase = "closed" -> End(t) /\ UNCHANGED timerVars
                  [] rounds[i].phase = "betting" -> Arm("spin", i) /\ End(t)
                  [] rounds[i].phase = "spinning" -> Arm("result", i) /\ End(t)
                  [] rounds[i].phase = "result" ->
                        /\ Go(t, "scheduleResult", [Fresh EXCEPT !.round = i])
                        /\ UNCHANGED timerVars
    /\ UNCHANGED <<rounds, betVars, envVars, payout>>

\* The rest of it: look at the newest round and arm the timer for what comes next.
ScheduleRead(t) ==
    /\ At(t, "scheduleRead")
    /\ \/ ~enabled /\ End(t) /\ UNCHANGED timerVars
       \/ enabled /\ Latest = {} /\ Arm("open", 0) /\ End(t)
       \/ \E i \in Latest :
             /\ enabled
             /\ CASE rounds[i].phase = "completed" -> Arm("open", i) /\ End(t)
                  [] rounds[i].phase = "betting" -> Arm("spin", i) /\ End(t)
                  [] rounds[i].phase = "closed" -> Arm("draw", i) /\ End(t)
                  [] rounds[i].phase = "spinning" -> Arm("result", i) /\ End(t)
                  [] rounds[i].phase = "result" ->
                        /\ Go(t, "scheduleResult", [Fresh EXCEPT !.round = i])
                        /\ UNCHANGED timerVars
    /\ UNCHANGED <<rounds, betVars, envVars, payout>>

\* A round found in RESULT is marked completed, and the scheduling starts over.
ScheduleResult(t) ==
    /\ At(t, "scheduleResult")
    /\ rounds' = [rounds EXCEPT ![loc[t].round].phase = "completed"]
    /\ Schedule(t)
    /\ UNCHANGED <<betVars, envVars, payout>>

MutantFire(t) ==
    /\ At(t, "idle")
    /\ \E x \in timers :
          /\ timers' = timers \ {x}
          /\ handle' = IF handle = x.id THEN 0 ELSE handle
          /\ CASE x.kind = "open" -> Go(t, "openRead", [Fresh EXCEPT !.then = "schedule"])
               [] x.kind \in {"spin", "draw"} -> Go(t, "spinRead", Fresh)
               [] x.kind = "result" -> Go(t, "resultRead", Fresh)
    /\ UNCHANGED <<rounds, betVars, envVars, payout>>

\* The timer of a round that is open for bets waits until they close; that of one found
\* closed has no delay.
Fire(t) ==
    /\ At(t, "idle")
    /\ \E x \in timers :
          /\ x.kind = "spin" => rounds[x.round].closing
          /\ timers' = timers \ {x}
          /\ handle' = IF handle = x.id THEN 0 ELSE handle
          /\ CASE x.kind = "open" -> Go(t, "openRead", [Fresh EXCEPT !.then = "schedule"])
               [] x.kind \in {"spin", "draw"} -> Go(t, "spinRead", Fresh)
               [] x.kind = "result" -> Go(t, "resultRead", Fresh)
    /\ UNCHANGED <<rounds, betVars, envVars, payout>>

------------------------------------------------------------------------------
\* openNewRound: read the newest number, insert the next.

MutantOpenRead(t) ==
    /\ At(t, "openRead")
    /\ Go(t, "openWrite", [loc[t] EXCEPT !.number =
          IF Latest = {} THEN 1 ELSE Max({rounds[i].number : i \in Latest})])
    /\ UNCHANGED <<rounds, timerVars, betVars, envVars, payout>>

OpenRead(t) ==
    /\ At(t, "openRead")
    /\ Go(t, "openWrite", [loc[t] EXCEPT !.number =
          IF Latest = {} THEN 1 ELSE Max({rounds[i].number : i \in Latest}) + 1])
    /\ UNCHANGED <<rounds, timerVars, betVars, envVars, payout>>

OpenWrite(t) ==
    /\ At(t, "openWrite") /\ Len(rounds) < MaxRounds
    /\ rounds' = Append(rounds,
          [number |-> loc[t].number, phase |-> "betting", winningItem |-> NoItem,
           betsByItem |-> [k \in Items |-> 0], closing |-> FALSE, dead |-> FALSE])
    /\ IF loc[t].then = "schedule" THEN Schedule(t) ELSE End(t) /\ UNCHANGED timerVars
    /\ UNCHANGED <<betVars, envVars, payout>>

------------------------------------------------------------------------------
\* transitionToSpin: read the newest round, flip BETTING to CLOSED, write the spin.

SpinRead(t) ==
    /\ At(t, "spinRead")
    /\ \/ Latest = {} /\ Schedule(t)
       \/ \E i \in Latest :
             IF Over(i) THEN Schedule(t)
             ELSE /\ \E w \in selectWinner(rounds[i]) :
                        Go(t, "spinFlip", [Fresh EXCEPT !.round = i, !.winner = w])
                  /\ UNCHANGED timerVars
    /\ UNCHANGED <<rounds, betVars, envVars, payout>>

\* `working` is the flipped document, or the one read before if it was not BETTING
\* any more: the winner is drawn from whichever it is.
SpinFlip(t) ==
    LET i == loc[t].round IN
    /\ At(t, "spinFlip")
    /\ IF rounds[i].phase = "betting"
       THEN /\ rounds' = [rounds EXCEPT ![i].phase = "closed"]
            /\ \E w \in selectWinner(rounds[i]) :
                  Go(t, "spinWrite", [loc[t] EXCEPT !.winner = w])
       ELSE UNCHANGED rounds /\ Go(t, "spinWrite", loc[t])
    /\ UNCHANGED <<timerVars, betVars, envVars, payout>>

MutantSpinWrite(t) ==
    LET i == loc[t].round IN
    /\ At(t, "spinWrite")
    /\ rounds' = [rounds EXCEPT ![i].phase = "spinning", ![i].winningItem = loc[t].winner]
    /\ Arm("result", i)
    /\ Go(t, "scheduleRead", Fresh)
    /\ UNCHANGED <<betVars, envVars, payout>>

SpinWrite(t) ==
    LET i == loc[t].round IN
    /\ At(t, "spinWrite")
    /\ rounds' = [rounds EXCEPT ![i].phase = "spinning", ![i].winningItem = loc[t].winner]
    /\ Arm("result", i)
    /\ End(t)
    /\ UNCHANGED <<betVars, envVars, payout>>

------------------------------------------------------------------------------
\* transitionToResult: flip to RESULT, pay the winning bets, mark COMPLETED.

ResultRead(t) ==
    /\ At(t, "resultRead")
    /\ \/ Latest = {} /\ Schedule(t)
       \/ \E i \in Latest :
             IF Over(i) THEN Schedule(t)
             ELSE Go(t, "resultFlip", [Fresh EXCEPT !.round = i]) /\ UNCHANGED timerVars
    /\ UNCHANGED <<rounds, betVars, envVars, payout>>

ResultFlip(t) ==
    LET i == loc[t].round IN
    /\ At(t, "resultFlip")
    /\ IF rounds[i].phase \in {"spinning", "closed"}
       THEN /\ rounds' = [rounds EXCEPT ![i].phase = "result"]
            /\ Go(t, "payFind", [loc[t] EXCEPT !.winner = rounds[i].winningItem])
            /\ UNCHANGED timerVars
       ELSE Schedule(t) /\ UNCHANGED rounds
    /\ UNCHANGED <<betVars, envVars, payout>>

MutantPayFind(t) ==
    /\ At(t, "payFind")
    /\ Go(t, "pay", [loc[t] EXCEPT !.toPay =
          {b \in rows : bet[b].round = loc[t].round}])
    /\ UNCHANGED <<rounds, timerVars, betVars, envVars, payout>>

PayFind(t) ==
    /\ At(t, "payFind")
    /\ Go(t, "pay", [loc[t] EXCEPT !.toPay =
          {b \in rows : bet[b].round = loc[t].round /\ bet[b].item = loc[t].winner}])
    /\ UNCHANGED <<rounds, timerVars, betVars, envVars, payout>>

\* One bet of the list; a credit the wallet refuses is logged and skipped.
Pay(t) ==
    /\ At(t, "pay")
    /\ \E b \in loc[t].toPay :
          /\ \E end \in {"paid", "failed"} :
                payout' = [payout EXCEPT ![b] = IF @ = "paid" THEN @ ELSE end]
          /\ Go(t, "pay", [loc[t] EXCEPT !.toPay = @ \ {b}])
    /\ UNCHANGED <<rounds, timerVars, betVars, envVars>>

MutantPayEnd(t) ==
    /\ At(t, "pay")
    /\ Go(t, "resultComplete", loc[t])
    /\ UNCHANGED <<rounds, timerVars, betVars, envVars, payout>>

PayEnd(t) ==
    /\ At(t, "pay") /\ loc[t].toPay = {}
    /\ Go(t, "resultComplete", loc[t])
    /\ UNCHANGED <<rounds, timerVars, betVars, envVars, payout>>

ResultComplete(t) ==
    /\ At(t, "resultComplete")
    /\ rounds' = [rounds EXCEPT ![loc[t].round].phase = "completed"]
    /\ Go(t, "enrich", Fresh)
    /\ UNCHANGED <<timerVars, betVars, envVars, payout>>

\* The winners' names are written to the round, which nothing here reads.
Enrich(t) ==
    /\ At(t, "enrich")
    /\ Schedule(t)
    /\ UNCHANGED <<rounds, betVars, envVars, payout>>

------------------------------------------------------------------------------
\* getCurrentRound, where it does more than read.

\* No round yet: open one, without the loop.
PollFirst(t) ==
    /\ Polls /\ At(t, "idle") /\ Latest = {}
    /\ Go(t, "openRead", Fresh)
    /\ UNCHANGED <<rounds, timerVars, betVars, envVars, payout>>

\* A round an outage left wedged: complete it unpaid, then open a fresh one.
PollDead(t) ==
    /\ Polls /\ At(t, "idle")
    /\ \E i \in Latest :
          /\ rounds[i].dead /\ ~Over(i)
          /\ Go(t, "healComplete", [Fresh EXCEPT !.round = i,
                                                 !.winner = rounds[i].winningItem])
    /\ UNCHANGED <<rounds, timerVars, betVars, envVars, payout>>

HealComplete(t) ==
    LET i == loc[t].round IN
    /\ At(t, "healComplete")
    /\ \E first \in Items :
          rounds' = [rounds EXCEPT ![i].phase = "completed",
                        ![i].winningItem = IF loc[t].winner = NoItem THEN first
                                           ELSE loc[t].winner]
    /\ IF enabled THEN Go(t, "openRead", [Fresh EXCEPT !.then = "schedule"]) ELSE End(t)
    /\ UNCHANGED <<timerVars, betVars, envVars, payout>>

\* A completed round and no timer for long: kick the loop.
PollStale(t) ==
    /\ Polls /\ At(t, "idle") /\ enabled /\ timers = {}
    /\ \E i \in Latest : Over(i)
    /\ Schedule(t)
    /\ UNCHANGED <<rounds, betVars, envVars, payout>>

------------------------------------------------------------------------------
\* Admins: updateConfig's switch (a deleted game is one switched off, to create it
\* again switches it on), resetRounds, deleteGame.

Pause ==
    /\ Admins /\ up /\ enabled' = FALSE
    /\ UNCHANGED <<rounds, timerVars, taskVars, betVars, up, crashes, payout>>

Enable(t) ==
    /\ Admins /\ At(t, "idle")
    /\ enabled' = TRUE
    /\ Schedule(t)
    /\ UNCHANGED <<rounds, betVars, up, crashes, payout>>

resetRounds(t) ==
    /\ Admins /\ At(t, "idle")
    /\ Clear
    /\ Go(t, "resetClose", Fresh)
    /\ UNCHANGED <<rounds, betVars, envVars, payout>>

MutantResetClose(t) ==
    /\ At(t, "resetClose")
    /\ rounds' = [i \in DOMAIN rounds |-> [rounds[i] EXCEPT !.phase = "completed"]]
    /\ Go(t, "openRead", [Fresh EXCEPT !.then = "end"])
    /\ UNCHANGED <<timerVars, betVars, envVars, payout>>

ResetClose(t) ==
    /\ At(t, "resetClose")
    /\ rounds' = [i \in DOMAIN rounds |-> [rounds[i] EXCEPT !.phase = "completed"]]
    /\ Go(t, "openRead", [Fresh EXCEPT !.then = "schedule"])
    /\ UNCHANGED <<timerVars, betVars, envVars, payout>>

\* deleteGame: drop the timer, then the configuration.
deleteGame(t) ==
    /\ Admins /\ At(t, "idle") /\ enabled
    /\ Clear
    /\ Go(t, "deleteConfig", Fresh)
    /\ UNCHANGED <<rounds, betVars, envVars, payout>>

DeleteConfig(t) ==
    /\ At(t, "deleteConfig")
    /\ enabled' = FALSE
    /\ End(t)
    /\ UNCHANGED <<rounds, timerVars, betVars, up, crashes, payout>>

------------------------------------------------------------------------------
\* placeBet: read the newest round, debit, insert the bet, bump the round.

PlaceBet(b) ==
    /\ up /\ betPc[b] = "new"
    /\ \E i \in Latest, k \in Items :
          IF rounds[i].phase = "betting" /\ ~rounds[i].closing
          THEN /\ bet' = [bet EXCEPT ![b] = [round |-> i, item |-> k, inTime |-> FALSE]]
               /\ betPc' = [betPc EXCEPT ![b] = "debit"]
          ELSE /\ betPc' = [betPc EXCEPT ![b] = "refused"]
               /\ UNCHANGED bet
    /\ UNCHANGED <<rounds, timerVars, taskVars, rows, envVars, payout>>

BetDebit(b) ==
    /\ up /\ betPc[b] = "debit"
    /\ \E to \in {"insert", "refused"} : betPc' = [betPc EXCEPT ![b] = to]
    /\ UNCHANGED <<rounds, timerVars, taskVars, bet, rows, envVars, payout>>

BetInsert(b) ==
    /\ up /\ betPc[b] = "insert"
    /\ rows' = rows \cup {b}
    /\ bet' = [bet EXCEPT ![b].inTime = rounds[bet[b].round].phase = "betting"]
    /\ betPc' = [betPc EXCEPT ![b] = "count"]
    /\ UNCHANGED <<rounds, timerVars, taskVars, envVars, payout>>

BetCount(b) ==
    /\ up /\ betPc[b] = "count"
    /\ rounds' = [rounds EXCEPT ![bet[b].round].betsByItem[bet[b].item] = @ + 1]
    /\ betPc' = [betPc EXCEPT ![b] = "done"]
    /\ UNCHANGED <<timerVars, taskVars, bet, rows, envVars, payout>>

------------------------------------------------------------------------------
\* The clock, crashes and boots.

Tick(i) ==
    /\ i \in DOMAIN rounds /\ rounds[i].phase = "betting" /\ ~rounds[i].closing
    /\ rounds' = [rounds EXCEPT ![i].closing = TRUE]
    /\ UNCHANGED <<timerVars, taskVars, betVars, envVars, payout>>

\* An hour without the loop: nothing is armed and nothing runs.
Age(i) ==
    /\ i \in DOMAIN rounds /\ rounds[i].closing /\ ~Over(i) /\ ~rounds[i].dead
    /\ up /\ timers = {} /\ \A t \in Tasks : pc[t] = "idle"
    /\ rounds' = [rounds EXCEPT ![i].dead = TRUE]
    /\ UNCHANGED <<timerVars, taskVars, betVars, envVars, payout>>

Crash ==
    /\ up /\ crashes < MaxCrashes
    /\ up' = FALSE /\ crashes' = crashes + 1
    /\ timers' = {} /\ handle' = 0
    /\ pc' = [t \in Tasks |-> "idle"] /\ loc' = [t \in Tasks |-> Fresh]
    /\ betPc' = [b \in Bets |-> IF betPc[b] \in {"debit", "insert", "count"}
                                THEN "lost" ELSE betPc[b]]
    /\ UNCHANGED <<rounds, bet, rows, enabled, payout>>

\* onModuleInit starts the loop of an enabled game; the outage may have been long.
Boot(t) ==
    /\ ~up /\ up' = TRUE
    /\ \E long \in BOOLEAN :
          rounds' = [i \in DOMAIN rounds |->
                       [rounds[i] EXCEPT !.closing = @ \/ long,
                                         !.dead = @ \/ (long /\ ~Over(i))]]
    /\ IF enabled THEN Schedule(t) ELSE UNCHANGED <<timerVars, taskVars>>
    /\ UNCHANGED <<betVars, enabled, crashes, payout>>

------------------------------------------------------------------------------

Loop(t) ==
    \/ ScheduleRead(t) \/ ScheduleResult(t)
    \/ OpenRead(t) \/ OpenWrite(t)
    \/ SpinRead(t) \/ SpinFlip(t) \/ SpinWrite(t)
    \/ ResultRead(t) \/ ResultFlip(t) \/ PayFind(t) \/ Pay(t) \/ PayEnd(t)
    \/ ResultComplete(t) \/ Enrich(t)
    \/ HealComplete(t) \/ ResetClose(t) \/ DeleteConfig(t)

Busy == {t \in Tasks : pc[t] # "idle"}

Kick(t) ==
    /\ Cardinality(timers) + Cardinality(Busy) < MaxLoops
    /\ \/ PollFirst(t) \/ PollDead(t) \/ PollStale(t)
       \/ Enable(t) \/ resetRounds(t) \/ deleteGame(t)

Betting(b) == BetDebit(b) \/ BetInsert(b) \/ BetCount(b)

Next ==
    \/ \E t \in Tasks : Loop(t) \/ Fire(t) \/ Kick(t) \/ Boot(t)
    \/ \E b \in Bets : PlaceBet(b) \/ Betting(b)
    \/ \E i \in 1 .. MaxRounds : Tick(i) \/ Age(i)
    \/ Pause \/ Crash

Init ==
    /\ rounds = <<>> /\ timers = {} /\ handle = 0
    /\ pc = [t \in Tasks |-> "idle"] /\ loc = [t \in Tasks |-> Fresh]
    /\ enabled = TRUE /\ up = FALSE /\ crashes = 0
    /\ betPc = [b \in Bets |-> "new"]
    /\ bet = [b \in Bets |-> [round |-> 0, item |-> NoItem, inTime |-> FALSE]]
    /\ rows = {} /\ payout = [b \in Bets |-> "none"]

Spec == Init /\ [][Next]_vars

\* The event loop runs every task and every due timer, time passes, and the
\* process is started again after a crash.  Users, clients and admins do nothing
\* they do not want to.
FairSpec ==
    /\ Spec
    /\ \A t \in Tasks : WF_vars(Loop(t)) /\ WF_vars(Boot(t))
    /\ WF_vars(\E t \in Tasks : Fire(t))
    /\ \A b \in Bets : WF_vars(Betting(b))
    /\ \A i \in 1 .. MaxRounds : WF_vars(Tick(i))

------------------------------------------------------------------------------
\* Properties.

\* Every variable stays in the set of values the code gives it.
TypeOK ==
    /\ rounds \in Seq(Round) /\ Len(rounds) <= MaxRounds
    /\ \A x \in timers : x.kind \in {"open", "spin", "draw", "result"} /\ x.round \in 0 .. Len(rounds)
    /\ handle \in Nat
    /\ pc \in [Tasks -> TaskPc] /\ loc \in [Tasks -> Loc]
    /\ enabled \in BOOLEAN /\ up \in BOOLEAN /\ crashes \in 0 .. MaxCrashes
    /\ betPc \in [Bets -> BetPc]
    /\ bet \in [Bets -> [round : 0 .. Len(rounds), item : Items \cup {NoItem},
                          inTime : BOOLEAN]]
    /\ rows \in SUBSET Bets /\ payout \in [Bets -> {"none", "paid", "failed"}]

Winner(i, b) == bet[b].round = i /\ bet[b].item = rounds[i].winningItem

\* A task that ends in scheduleNextTransition or in an armed timer.
KeepsLoop(t) == /\ pc[t] # "idle"
                /\ ~(pc[t] \in {"openRead", "openWrite"} /\ loc[t].then = "end")

\* While the process is up and the game enabled, a timer is armed or a task will
\* arm one: no early return of the loop drops the game
\* ("one call at boot-time keeps the loop running forever").
LoopAlive ==
    up /\ enabled => timers # {} \/ \E t \in Tasks : KeepsLoop(t)

\* With nobody but the loop itself to start tasks there is exactly one of them, as
\* a timer or as a task: it neither forks nor is lost, whatever a crash interrupted.
OneLoop ==
    up => Cardinality(timers) + Cardinality(Busy) = 1

\* No two rounds have one number: "two concurrent processes can't both think
\* they're starting round N+1".
UniqueRoundNumbers ==
    \A i, j \in DOMAIN rounds : i # j => rounds[i].number # rounds[j].number

\* One loop: one timer or task, and one round for each number.
LoopIsOne == TypeOK /\ OneLoop /\ UniqueRoundNumbers

\* A round's phases come in their order ("The runner transitions through these in
\* order"): a resolved round is not played again.
PhaseOrder == <<"betting", "closed", "spinning", "result", "completed">>
Rank(phase) == CHOOSE n \in DOMAIN PhaseOrder : PhaseOrder[n] = phase
PhasesInOrder == \A i \in DOMAIN rounds : Rank(rounds[i].phase) <= Rank(rounds'[i].phase)

\* The winner clients were shown is the winner: two transitions of one round cannot
\* both draw ("if a competing instance also ran the transition, we'll get null back
\* and bail").
WinnerIsFinal ==
    \A i \in DOMAIN rounds : rounds[i].winningItem # NoItem =>
        rounds'[i].winningItem = rounds[i].winningItem

\* A round that went on never comes back: neither its phase nor its winner.
RoundsGoForward == [][PhasesInOrder /\ WinnerIsFinal]_vars

\* A round pays the bets on its winning item and no others: "Atomic phase flip to
\* guard against duplicate payout".
OneWinnerPaid ==
    \A b \in Bets : payout[b] = "paid" => Winner(bet[b].round, b)

\* Whoever interferes with the loop, nothing is paid for a round before its draw.
PaidAfterTheDraw ==
    \A b \in Bets : payout[b] # "none" =>
        /\ b \in rows
        /\ rounds[bet[b].round].winningItem # NoItem
        /\ rounds[bet[b].round].phase \in {"spinning", "result", "completed"}

\* Clients that poll and admins who switch the game may start any number of tasks: the
\* loop is never lost, and nobody is paid before the draw.
KickedRoundsHold == LoopAlive /\ PaidAfterTheDraw

\* A draw happens only after the moment clients were told betting closes.
WindowIsKept == \A i \in DOMAIN rounds : rounds[i].winningItem # NoItem => rounds[i].closing

\* A completed round has tried to pay every winning bet that was inserted while it
\* was betting.
Settled(i) ==
    \A b \in rows : Over(i) /\ Winner(i, b) /\ bet[b].inTime => payout[b] # "none"
TimelyWinnersPaid == crashes = 0 => \A i \in DOMAIN rounds : Settled(i)

\* A round pays its winners: all that bet in time, and never a loser.
WinnersArePaid == OneWinnerPaid /\ TimelyWinnersPaid

\* The same after a restart: "We crashed after the payout but before marking
\* COMPLETED".
CrashedAfterPayout == \A i \in DOMAIN rounds : Settled(i)

\* Every round that opens is completed: "a stuck round can never survive more than
\* one client poll".
RoundsComplete ==
    \A i \in 1 .. MaxRounds : i \in DOMAIN rounds ~> i \in DOMAIN rounds /\ Over(i)

==============================================================================
