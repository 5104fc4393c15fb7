------------------------------ MODULE DailyReward ------------------------------
(***************************************************************************)
(* The daily reward of one user (modules/daily-reward/                     *)
(* daily-reward.service.ts): a claim reads the configuration and the       *)
(* user's state, starts the cycle anew if the configuration has changed,   *)
(* grants the rewards of the day one by one under keys made of the date,   *)
(* and saves the streak last.  Midnight may fall between any two of these, *)
(* and an admin may replace the configuration.                             *)
(***************************************************************************)
EXTENDS Service

CONSTANTS
    LastDay,        \* length of the cycle, 7 in the code
    FirstConfig     \* [day of the cycle -> number of rewards], for the days that have any

ASSUME CycleAssumption ==
    /\ LastDay \in Nat \ {0}
    /\ DOMAIN FirstConfig \subseteq 1 .. LastDay
    /\ FirstConfig \in [DOMAIN FirstConfig -> Nat]

VARIABLES
    dailyConfig,    \* [version, days, active]
    streak          \* the user's row: [version, current, last, total]; last = 0
                    \* if never claimed

dailyVars == <<dailyConfig, streak>>

DailyRewardInit ==
    /\ dailyConfig = [version |-> 1, days |-> FirstConfig, active |-> TRUE]
    /\ streak = [version |-> 1, current |-> 0, last |-> 0, total |-> 0]

\* After the last day, stored as 0, the cycle wraps.
following(s) == IF s.current \in {0, LastDay} THEN 1 ELSE s.current + 1

MutantCanClaim(s, today) == s.last = 0 \/ today >= s.last

\* computeClaimWindow: may the user claim today, and which day of the cycle.
CanClaim(s, today) == s.last = 0 \/ today > s.last
todayDay(s, today) == IF s.last # 0 /\ today = s.last + 1 THEN following(s) ELSE 1

reward(date, i) == <<"daily", date, i>>

------------------------------------------------------------------------------
\* getStateForUser and claim.

DailyConfigRead(r) ==
    /\ Begins(r, "daily")
    /\ Learns(r, [config |-> dailyConfig])
    /\ Goes(r, "dailyState") /\ UNCHANGED <<ledger, dailyVars>>

\* The row is read, or created; a new configuration restarts the streak.
DailyStateRead(r) ==
    /\ pc[r] = "dailyState"
    /\ Learns(r, [state |-> streak])
    /\ Goes(r, IF streak.version # job[r].config.version THEN "dailyReset" ELSE "dailyWindow")
    /\ UNCHANGED <<ledger, dailyVars>>

\* The row row, after a save with version v of what was read as s: the fields that differ.
Restarted(row, s, v) ==
    [row EXCEPT !.version = v, !.current = IF s.current = 0 THEN @ ELSE 0,
                !.last = IF s.last = 0 THEN @ ELSE 0]

DailyReset(r) ==
    LET v == job[r].config.version
        s == job[r].state
    IN  /\ pc[r] = "dailyReset"
        /\ streak' = Restarted(streak, s, v)
        /\ Learns(r, [state |-> Restarted(s, s, v)])
        /\ Goes(r, "dailyWindow") /\ UNCHANGED <<ledger, dailyConfig>>

\* May he claim, is the feature on, and has the day a reward?
DailyWindow(r) ==
    LET s == job[r].state
        c == job[r].config
        d == todayDay(s, day)
    IN  /\ pc[r] = "dailyWindow"
        /\ Learns(r, [day |-> d, left |-> {}])
        /\ Goes(r, IF CanClaim(s, day) /\ c.active /\ d \in DOMAIN c.days THEN "dailyDate"
                   ELSE "failed")
        /\ UNCHANGED <<ledger, dailyVars>>

\* The keys take the date of this moment.
DailyDate(r) ==
    /\ pc[r] = "dailyDate"
    /\ Learns(r, [date |-> day, next |-> 1])
    /\ Goes(r, "dailyGrant") /\ UNCHANGED <<ledger, dailyVars>>

\* The next reward of the day: coins, or a cosmetic granted once per reference.
DailyGrant(r) ==
    LET i == job[r].next IN
    /\ pc[r] = "dailyGrant"
    /\ IF i <= job[r].config.days[job[r].day]
       THEN /\ Posts(reward(job[r].date, i))
            /\ Learns(r, [next |-> i + 1]) /\ Goes(r, "dailyGrant")
       ELSE Passes(r, "dailySave")
    /\ UNCHANGED dailyVars

\* save() writes the fields that differ from what was read.
DailySave(r) ==
    LET s == job[r].state
        new == IF job[r].day = LastDay THEN 0 ELSE job[r].day
    IN  /\ pc[r] = "dailySave"
        /\ streak' = [streak EXCEPT !.current = IF new = s.current THEN @ ELSE new,
                                    !.last = day, !.total = s.total + 1]
        /\ Passes(r, "done") /\ UNCHANGED dailyConfig

\* upsertConfig: a new version with other rewards, on or off.
UpsertConfig(r) ==
    /\ Begins(r, "dailyConfig")
    /\ dailyConfig' = [version |-> dailyConfig.version + 1, days |-> call(r).days,
                       active |-> call(r).active]
    /\ Passes(r, "done") /\ UNCHANGED streak

DailyRewardStep(r) ==
    \/ DailyConfigRead(r) \/ DailyStateRead(r) \/ DailyReset(r) \/ DailyWindow(r)
    \/ DailyDate(r) \/ DailyGrant(r) \/ DailySave(r) \/ UpsertConfig(r)

------------------------------------------------------------------------------
\* The properties.

\* Every day that a configuration names has a reward.  An admin may leave the rewards of
\* a day empty, and a claim of that day then adds to the streak without a grant; of a day
\* that is not named there is no claim.
Rewarding(days) ==
    DOMAIN days \subseteq 1 .. LastDay /\ days \in [DOMAIN days -> Nat \ {0}]

EveryDayGrants ==
    /\ Rewarding(FirstConfig)
    /\ \A w \in Workloads : \A r \in DOMAIN w.calls :
          w.calls[r].op = "dailyConfig" => Rewarding(w.calls[r].days)

grantedDates == {k[2] : k \in {k \in ledger : k[1] = "daily"}}

\* claim: a streak was earned.  As many dates have had a grant as the streak is
\* long, whatever claims overlap, stop half way, are retried or meet midnight, and
\* whenever the configuration changes; and as many as there were claims while it
\* does not.
StreakIsEarned ==
    /\ streak.current <= Cardinality(grantedDates)
    /\ dailyConfig.version = 1 => streak.total <= Cardinality(grantedDates)
==============================================================================
