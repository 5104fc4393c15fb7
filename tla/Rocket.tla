-------------------------------- MODULE Rocket --------------------------------
(***************************************************************************)
(* The rocket of one room on one day (modules/rocket/rocket.service.ts):   *)
(* gifts fuel it, full levels queue up, and each launch passes a banner    *)
(* and a countdown before its winners are paid.  Whoever finds a phase     *)
(* over drives it on: the gift requests and the sweeper, each on its own   *)
(* copy of the document, by updates that are atomic and guarded by status. *)
(*                                                                         *)
(* A module of steps, whose calls of addEnergy come from Gifts.  The       *)
(* wallet pays once per key, as in Ledger, or refuses, and a credit that   *)
(* is refused is logged and skipped.  Left out: the events sent to clients *)
(* and the limits of 25 transitions and 50 levels per pass.                *)
(* Definitions named Mutant... are faults to check the properties with.    *)
(***************************************************************************)
EXTENDS Integers, Sequences, SequencesExt, FiniteSets, FiniteSetsExt

CONSTANTS
    Users,
    Requests,                   \* the gifts that may be sent
    Levels,                     \* the level numbers an admin may configure
    energyRequired,             \* [Levels -> the fuel a level takes]
    topContributionThreshold,   \* the fuel a top winner must have given
    randomBeneficiaries,        \* how many others are drawn
    Prompt,                     \* a round trip is faster than a phase
    Loads,                      \* bounds: [calls, requests, edits, crashes, purges,
                                \*  refusals]
    NoLaunch                    \* an empty pendingLaunch

\* A launch as the countdown's snapshot and the record afterwards have it.
Launched == [level : Levels, seq : Nat, top : SUBSET [rank : 1 .. 3, userId : Users],
             random : SUBSET Users]

\* Level 1 is where a document starts; 0 is the sweeper, below.
ASSUME RocketAssumption ==
    /\ Levels \subseteq Nat \ {0} /\ 1 \in Levels /\ IsFiniteSet(Levels)
    /\ Users # {} /\ Requests \subseteq Nat \ {0}
    /\ NoLaunch \notin Launched
    /\ energyRequired \in [Levels -> Nat \ {0}]
    /\ topContributionThreshold \in Nat /\ randomBeneficiaries \in Nat
    /\ Prompt \in BOOLEAN

VARIABLES
    doc,        \* the document: fuel, level, phase, queue, winners
    launches,   \* its launch records, in order
    levels,     \* the configured levels; {} stands for a disabled rocket, too
    paid,       \* the wallet's entries, a set of keys
    refused,    \* history: the keys of credits that were refused
    resolved,   \* history: the levels whose fuel was spent, in order
    finished,   \* history: the levels launched or dropped, in order
    today,      \* whether the document's day is not over
    pc,         \* [Process -> where it is]
    job,        \* [Process -> what it has read]
    load,       \* what happens in this run: one of Loads
    edits, crashes

docVars == <<doc, launches, resolved, finished>>
rocketVars == <<docVars, today, levels, paid, refused, pc, job, load, edits, crashes>>

Sweeper == 0
Process == Requests \cup {Sweeper}

RocketStatus == {"idle", "banner", "countdown"}

\* Whether the phase is under way, over, or more than a day old.
Age == {"fresh", "due", "old"}

\* `fuel` and `user` of an addEnergy; `mine` and `levels` as read; `far`: driven
\* by the daily reset, for which every phase is over; `left`: winners to pay.
Idle == [user |-> CHOOSE u \in Users : TRUE, fuel |-> 0, levels |-> {},
         far |-> FALSE, left |-> {}, mine |-> NoLaunch]

AtRocket(p, l) == pc[p] = l

\* A request is over; the sweeper waits for its next tick.
Rest(p) ==
    /\ pc' = [pc EXCEPT ![p] = IF p = Sweeper THEN "idle" ELSE "done"]
    /\ job' = [job EXCEPT ![p] = Idle]

Move(p, l, j) == pc' = [pc EXCEPT ![p] = l] /\ job' = [job EXCEPT ![p] = j]

------------------------------------------------------------------------------
\* Levels and fuel.

required(conf, l) == IF l \in conf THEN energyRequired[l] ELSE 0

lowest(conf) == Min(conf)

\* The next configured level, around to the lowest after the highest.
nextLevelNumber(conf, l) ==
    LET above == {k \in conf : k > l} IN
    IF l \notin conf \/ above = {} THEN lowest(conf) ELSE Min(above)

ensureValidLevel(conf, l) == IF l \in conf THEN l ELSE lowest(conf)

\* By an amount of fuel: the levels that it covers from a level on, and what is left.
affordable[fuel \in Nat] ==
    [conf \in (SUBSET Levels) \ {{}} |-> [l \in Levels |->
        IF fuel < energyRequired[l] THEN [queue |-> <<>>, level |-> l, energy |-> fuel]
        ELSE LET rest == affordable[fuel - energyRequired[l]][conf][nextLevelNumber(conf, l)] IN
             [rest EXCEPT !.queue = <<l>> \o @]]]

covered(conf, m) == affordable[m.energy][conf][ensureValidLevel(conf, m.level)]

------------------------------------------------------------------------------
\* addEnergy.

given(d, u) == {i \in DOMAIN d.contributions : d.contributions[i].userId = u}

\* A gift of the next day fuels another document.
Counts == levels # {} /\ today

AddEnergy(q, u, fuel) ==
    /\ Counts
    /\ Move(q, "addInc", [Idle EXCEPT !.user = u, !.fuel = fuel, !.levels = levels])
    /\ UNCHANGED <<docVars, today, load, levels, paid, refused, edits, crashes>>

\* One update of the user's row, if there is one.
AddInc(q) ==
    LET mineRows == given(doc, job[q].user) IN
    /\ AtRocket(q, "addInc")
    /\ \/ /\ mineRows # {}
          /\ doc' = [doc EXCEPT !.energy = @ + job[q].fuel,
                                !.contributions[Min(mineRows)].energy = @ + job[q].fuel]
          /\ Move(q, "addFetch", job[q])
       \/ mineRows = {} /\ UNCHANGED doc /\ Move(q, "addPush", job[q])
    /\ UNCHANGED <<launches, today, resolved, finished, load, levels, paid, refused,
                   edits, crashes>>

\* An upsert that pushes a row; it does not ask again whether there is one.
AddPush(q) ==
    /\ AtRocket(q, "addPush")
    /\ doc' = [doc EXCEPT !.energy = @ + job[q].fuel,
          !.contributions = Append(@, [userId |-> job[q].user, energy |-> job[q].fuel])]
    /\ Move(q, "addFetch", job[q])
    /\ UNCHANGED <<launches, today, resolved, finished, load, levels, paid, refused,
                   edits, crashes>>

------------------------------------------------------------------------------
\* advanceRoom, on the caller's own copy m of the document.

over(p, m) == m.age # "fresh" \/ job[p].far

\* Whether a pass over m ends here: nothing is due, or nothing is full.
waiting(p, m) ==
    IF m.status = "idle"
    THEN m.queue = <<>> /\ m.energy < required(job[p].levels, ensureValidLevel(job[p].levels, m.level))
    ELSE ~over(p, m)

Continue(p, m) ==
    IF waiting(p, m) THEN Rest(p)
    ELSE Move(p, "step", [job[p] EXCEPT !.mine = m, !.left = {}])

\* The caller reads the document it has fuelled.
AddFetch(q) ==
    /\ AtRocket(q, "addFetch")
    /\ IF doc.level \in job[q].levels
       THEN Continue(q, doc)
       ELSE Move(q, "addSnap", [job[q] EXCEPT !.mine = doc])
    /\ UNCHANGED <<docVars, today, load, levels, paid, refused, edits, crashes>>

\* A level no longer configured is reset to the lowest one.
AddSnap(q) ==
    LET l == lowest(job[q].levels) IN
    /\ AtRocket(q, "addSnap")
    /\ doc' = [doc EXCEPT !.level = l]
    /\ Continue(q, [job[q].mine EXCEPT !.level = l])
    /\ UNCHANGED <<launches, today, resolved, finished, load, levels, paid, refused,
                   edits, crashes>>

\* The write with no guard on the status.
MutantStartCycle(p) ==
    LET m == job[p].mine
        full == covered(job[p].levels, m)
        Write(d) == [d EXCEPT !.status = "banner", !.queue = m.queue \o full.queue,
            !.level = full.level, !.energy = full.energy, !.age = "fresh", !.pending = NoLaunch] IN
    /\ AtRocket(p, "step") /\ m.status = "idle"
    /\ doc' = Write(doc)
    /\ resolved' = resolved \o full.queue
    /\ Continue(p, Write(m))
    /\ UNCHANGED <<launches, today, finished, load, levels, paid, refused, edits, crashes>>

\* tryStartCycle: spends the fuel of the copy on every level it covers, and
\* writes what is left of it, if the document is still idle.
StartCycle(p) ==
    LET m == job[p].mine
        full == covered(job[p].levels, m)
        Write(d) == [d EXCEPT !.status = "banner", !.queue = m.queue \o full.queue,
            !.level = full.level, !.energy = full.energy, !.age = "fresh", !.pending = NoLaunch] IN
    /\ AtRocket(p, "step") /\ m.status = "idle"
    /\ IF doc.status = "idle"
       THEN /\ doc' = Write(doc)
            /\ resolved' = resolved \o full.queue
            /\ Continue(p, Write(m))
       ELSE Rest(p) /\ UNCHANGED <<doc, resolved>>
    /\ UNCHANGED <<launches, today, finished, load, levels, paid, refused, edits, crashes>>

\* The head of the queue, the level about to launch.
Launchable(p, m) == m.queue # <<>> /\ Head(m.queue) \in job[p].levels

after(d, queue) ==
    [d EXCEPT !.status = IF queue = <<>> THEN "idle" ELSE "banner",
              !.queue = queue, !.age = "fresh", !.pending = NoLaunch]

\* dropHeadAndContinue: the copy moves on even if the write matches nothing.
DropHead(p) ==
    LET m == job[p].mine
        queue == IF m.queue = <<>> THEN <<>> ELSE Tail(m.queue) IN
    /\ AtRocket(p, "step")
    /\ \/ m.status = "banner" /\ ~Launchable(p, m)
       \/ m.status = "countdown" /\ m.pending = NoLaunch
    /\ IF doc.status \in {"banner", "countdown"}
       THEN /\ doc' = after(doc, queue)
            /\ finished' = IF doc.queue = queue THEN finished
                           ELSE finished \o SubSeq(m.queue, 1, Min({1, Len(m.queue)}))
       ELSE UNCHANGED <<doc, finished>>
    /\ Continue(p, after(m, queue))
    /\ UNCHANGED <<launches, today, resolved, load, levels, paid, refused, edits, crashes>>

------------------------------------------------------------------------------
\* computeWinners, from the contributions of the copy and whoever is present.

\* The place of a row among the present ones, by fuel and then by position.
place(m, present, i) ==
    1 + Cardinality({k \in DOMAIN m.contributions :
            /\ m.contributions[k].userId \in present
            /\ \/ m.contributions[k].energy > m.contributions[i].energy
               \/ m.contributions[k].energy = m.contributions[i].energy /\ k < i})

topRows(m, present) ==
    {i \in DOMAIN m.contributions :
        /\ m.contributions[i].userId \in present
        /\ m.contributions[i].energy >= topContributionThreshold
        /\ place(m, present, i) <= 3}

\* The user of each place; a user with two rows may have two.
topContributors(m, present) ==
    {[rank |-> place(m, present, i), userId |-> m.contributions[i].userId] :
        i \in topRows(m, present)}

\* The draws of the others who are present.
draws(present, top) ==
    LET pool == present \ {t.userId : t \in top}
        pickCount == Min({randomBeneficiaries, Cardinality(pool)})
    IN  kSubset(pickCount, pool)

\* startCountdown: the heartbeats may show any users as present.
StartCountdown(p) ==
    LET m == job[p].mine IN
    /\ AtRocket(p, "step") /\ m.status = "banner" /\ Launchable(p, m)
    /\ \E present \in SUBSET Users :
       \E random \in draws(present, topContributors(m, present)) :
          LET Write(d) == [d EXCEPT !.status = "countdown", !.age = "fresh",
                  !.pending = [level |-> Head(m.queue), seq |-> m.seq,
                               top |-> topContributors(m, present), random |-> random]] IN
          IF doc.status = "banner"
          THEN doc' = Write(doc) /\ Continue(p, Write(m))
          ELSE UNCHANGED doc /\ Rest(p)
    /\ UNCHANGED <<launches, today, resolved, finished, load, levels, paid, refused,
                   edits, crashes>>

------------------------------------------------------------------------------
\* fireLaunch.

\* The wallet's keys of a launch.
keys(l) ==
    {[list |-> "top", seq |-> l.seq, level |-> l.level, userId |-> t.userId] : t \in l.top}
        \cup {[list |-> "random", seq |-> l.seq, level |-> l.level, userId |-> u] : u \in l.random}

Fire(p) ==
    LET m == job[p].mine IN
    /\ AtRocket(p, "step") /\ m.status = "countdown" /\ m.pending # NoLaunch
    /\ Move(p, "pay", [job[p] EXCEPT !.left = keys(m.pending)])
    /\ UNCHANGED <<docVars, today, load, levels, paid, refused, edits, crashes>>

\* One credit after the other, the top first.  A key paid before is not paid again,
\* and the error of a refused credit is caught: the next winner follows.
Pay(p) ==
    /\ AtRocket(p, "pay")
    /\ \E k \in job[p].left :
          /\ k.list = "random" => \A j \in job[p].left : j.list = "random"
          /\ \/ paid' = paid \cup {k} /\ UNCHANGED refused
             \/ /\ k \notin paid /\ Cardinality(refused) < load.refusals
                /\ refused' = refused \cup {k} /\ UNCHANGED paid
          /\ Move(p, "pay", [job[p] EXCEPT !.left = @ \ {k}])
    /\ UNCHANGED <<docVars, today, load, levels, edits, crashes>>

\* The write that pops the queue comes before the payments are through.
MutantLaunch(p) ==
    LET m == job[p].mine
        Write(d) == [after(d, Tail(m.queue)) EXCEPT !.seq = m.seq + 1] IN
    /\ AtRocket(p, "pay")
    /\ IF doc.status = "countdown"
       THEN /\ doc' = Write(doc)
            /\ launches' = Append(launches, m.pending)
            /\ finished' = Append(finished, m.pending.level)
            /\ Continue(p, Write(m))
       ELSE Rest(p) /\ UNCHANGED <<doc, launches, finished>>
    /\ UNCHANGED <<today, resolved, load, levels, paid, refused, edits, crashes>>

\* The write with no guard on the status.
MutantLaunchAgain(p) ==
    LET m == job[p].mine IN
    /\ AtRocket(p, "pay") /\ job[p].left = {}
    /\ doc' = [after(doc, Tail(m.queue)) EXCEPT !.seq = m.seq + 1]
    /\ launches' = Append(launches, m.pending)
    /\ finished' = Append(finished, m.pending.level)
    /\ Continue(p, [after(m, Tail(m.queue)) EXCEPT !.seq = m.seq + 1])
    /\ UNCHANGED <<today, resolved, load, levels, paid, refused, edits, crashes>>

Launch(p) ==
    LET m == job[p].mine
        Write(d) == [after(d, Tail(m.queue)) EXCEPT !.seq = m.seq + 1] IN
    /\ AtRocket(p, "pay") /\ job[p].left = {}
    /\ IF doc.status = "countdown"
       THEN /\ doc' = Write(doc)
            /\ launches' = Append(launches, m.pending)
            /\ finished' = Append(finished, m.pending.level)
            /\ Continue(p, Write(m))
       ELSE Rest(p) /\ UNCHANGED <<doc, launches, finished>>
    /\ UNCHANGED <<today, resolved, load, levels, paid, refused, edits, crashes>>

------------------------------------------------------------------------------
\* The crons, the clock, the admin and the server.

\* Only countdowns are swept.
MutantSweepRead ==
    /\ AtRocket(Sweeper, "idle") /\ levels # {}
    /\ doc.status = "countdown" /\ doc.age = "due"
    /\ Move(Sweeper, "step", [Idle EXCEPT !.mine = doc, !.levels = levels])
    /\ UNCHANGED <<docVars, today, load, levels, paid, refused, edits, crashes>>

\* sweepDueLaunches, every five seconds.
SweepRead ==
    /\ AtRocket(Sweeper, "idle") /\ levels # {}
    /\ doc.status # "idle" /\ doc.age # "fresh"
    /\ Move(Sweeper, "step", [Idle EXCEPT !.mine = doc, !.levels = levels])
    /\ UNCHANGED <<docVars, today, load, levels, paid, refused, edits, crashes>>

\* Both crons are one process here: each tick of that day has met the phase, too.
\* dailyReset: a phase of more than a day ago is driven to the end of the queue.
ResetRead ==
    /\ AtRocket(Sweeper, "idle") /\ levels # {}
    /\ doc.status # "idle" /\ doc.age = "old"
    /\ Move(Sweeper, "step", [Idle EXCEPT !.mine = doc, !.levels = levels, !.far = TRUE])
    /\ UNCHANGED <<docVars, today, load, levels, paid, refused, edits, crashes>>

Fuelling == {"addInc", "addPush", "addFetch", "addSnap", "step", "pay"}

\* Midnight.  A request that took the day before it goes on with this document.
NextDay ==
    /\ today /\ today' = FALSE
    /\ UNCHANGED <<docVars, load, levels, paid, refused, pc, job, edits, crashes>>

\* Time passes.  A prompt server has no pass under way when a phase ends.
Ripen ==
    /\ doc.status # "idle" /\ doc.age # "old"
    /\ Prompt => \A p \in Process : pc[p] \notin {"addSnap", "step", "pay"}
    /\ doc.age = "due" => ~today /\ \A q \in Requests : pc[q] \notin Fuelling
    /\ doc' = [doc EXCEPT !.age = IF @ = "fresh" THEN "due" ELSE "old"]
    /\ UNCHANGED <<launches, today, resolved, finished, load, levels, paid, refused,
                   pc, job, edits, crashes>>

\* updateConfig removes, adds or disables levels.
UpdateConfig ==
    /\ edits < load.edits /\ edits' = edits + 1
    /\ levels' \in (SUBSET Levels) \ {levels}
    /\ UNCHANGED <<docVars, today, load, paid, refused, pc, job, crashes>>

\* A restart ends every request and the sweep where they are.
Crash ==
    /\ crashes < load.crashes /\ crashes' = crashes + 1
    /\ pc' = [p \in Process |-> IF p # Sweeper /\ pc[p] # "idle" THEN "done" ELSE "idle"]
    /\ job' = [p \in Process |-> IF pc[p] = "idle" THEN job[p] ELSE Idle]
    /\ UNCHANGED <<docVars, today, load, levels, paid, refused, edits>>

Advance(p) ==
    StartCycle(p) \/ DropHead(p) \/ StartCountdown(p) \/ Fire(p) \/ Pay(p) \/ Launch(p)

RocketStep(q) == AddInc(q) \/ AddPush(q) \/ AddFetch(q) \/ AddSnap(q) \/ Advance(q)

Sweep == SweepRead \/ ResetRead \/ Advance(Sweeper)

RocketInit ==
    /\ doc = [energy |-> 0, level |-> 1, status |-> "idle", queue |-> <<>>, age |-> "fresh",
              pending |-> NoLaunch, seq |-> 0, contributions |-> <<>>]
    /\ launches = <<>> /\ resolved = <<>> /\ finished = <<>>
    /\ levels = Levels /\ paid = {} /\ refused = {} /\ today = TRUE
    /\ pc = [p \in Process |-> "idle"] /\ job = [p \in Process |-> Idle]
    /\ load \in Loads /\ edits = 0 /\ crashes = 0
==============================================================================
