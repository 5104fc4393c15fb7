------------------------------- MODULE LiveRecord -------------------------------
(***************************************************************************)
(* The live record of one host (modules/live-record): rooms.service.ts     *)
(* writes a session when the host leaves a room, without waiting; an hourly *)
(* cron adds up the sessions that ended yesterday, pays the reward of a     *)
(* valid day and writes the day's row; the host claims the bonus of a month *)
(* that is over.  The cron of several hours, or of several servers, may    *)
(* overlap.                                                                *)
(***************************************************************************)
EXTENDS Service

CONSTANTS
    DaysPerMonth,       \* length of every month
    ValidDayTime,       \* liveValidDayMinutes
    ValidMonthDays      \* liveValidMonthDays

ASSUME RecordAssumption ==
    /\ DaysPerMonth \in Nat \ {0} /\ ValidMonthDays \in Nat
    /\ ValidDayTime \in Nat \ {0}

\* leave drops a session that did not last.
ASSUME SessionAssumption ==
    \A w \in Workloads : \A r \in DOMAIN w.calls :
        w.calls[r].op = "session" => w.calls[r].time \in Nat \ {0}

VARIABLES
    sessions,   \* the rows of LiveSession: [id, endedAt, kind, time]
    dayRows,    \* [day -> row], the days that have one
    monthRow    \* [month -> [claimed, validDays]]

recordVars == <<sessions, dayRows, monthRow>>

month(d) == (d - 1) \div DaysPerMonth + 1
Months == 1 .. month(load.days)

LiveRecordInit ==
    /\ sessions = {} /\ dayRows = <<>>
    /\ monthRow = [m \in Months |-> [claimed |-> FALSE, validDays |-> 0]]

\* The time of one kind in the sessions that ended on d.
Total(d, kind) ==
    SumFunctionOnSet([s \in sessions |-> s.time],
                     {s \in sessions : s.endedAt = d /\ s.kind = kind})

MutantIsValid(t) == t.audio + t.video >= ValidDayTime

isValid(t) == t.audio >= ValidDayTime \/ t.video >= ValidDayTime

\* Audio and video are thrown together.
dayReward(d) == <<"live-valid-day-reward", d>>
monthBonus(m) == <<"live-valid-month-bonus", m>>

------------------------------------------------------------------------------
\* The end of leave in rooms.service.ts.

EndSession(r) ==
    /\ Begins(r, "session")
    /\ Learns(r, [endedAt |-> day])
    /\ Goes(r, "sessionInsert") /\ UNCHANGED <<ledger, recordVars>>

InsertSession(r) ==
    /\ pc[r] = "sessionInsert"
    /\ sessions' = sessions \cup {[id |-> r, endedAt |-> job[r].endedAt,
                                   kind |-> call(r).kind, time |-> call(r).time]}
    /\ Passes(r, "done") /\ UNCHANGED <<dayRows, monthRow>>

------------------------------------------------------------------------------
\* aggregateYesterday and aggregateDay.

\* The sessions of yesterday; hosts without one are not in the result.
Aggregate(r) ==
    LET y == day - 1
        t == [audio |-> Total(y, "audio"), video |-> Total(y, "video")]
    IN  /\ y >= 1 /\ Begins(r, "cron")
        /\ Learns(r, [date |-> y, total |-> t])
        /\ Goes(r, IF \E s \in sessions : s.endedAt = y THEN "cronRow" ELSE "done")
        /\ UNCHANGED <<ledger, recordVars>>

\* The row there is, and whether it says rewarded.
FindDayRow(r) ==
    LET d == job[r].date
        rewarded == d \in DOMAIN dayRows /\ dayRows[d].rewarded
    IN  /\ pc[r] = "cronRow"
        /\ Learns(r, [rewarded |-> rewarded])
        /\ Goes(r, IF isValid(job[r].total) /\ ~rewarded THEN "cronReward" ELSE "cronWrite")
        /\ UNCHANGED <<ledger, recordVars>>

\* A failure of the credit is logged and the row written as not rewarded.
CreditDay(r) ==
    /\ pc[r] = "cronReward"
    /\ \/ Posts(dayReward(job[r].date)) /\ Learns(r, [rewarded |-> TRUE])
       \/ UNCHANGED <<ledger, job>>
    /\ Goes(r, "cronWrite") /\ UNCHANGED recordVars

WriteDayRow(r) ==
    LET row == [total |-> job[r].total, isValid |-> isValid(job[r].total),
                rewarded |-> job[r].rewarded]
    IN  /\ pc[r] = "cronWrite"
        /\ dayRows' = Put(dayRows, job[r].date, row)
        /\ Passes(r, "done") /\ UNCHANGED <<sessions, monthRow>>

------------------------------------------------------------------------------
\* claimMonthly, and getMonthly, which shows what may be claimed.

daysOf(m) == {d \in DOMAIN dayRows : month(d) = m}
validRows(m) == {d \in daysOf(m) : dayRows[d].isValid}

\* getMonthly: the rows, and for today the sessions themselves.
Shown(m) ==
    LET today == [audio |-> Total(day, "audio"), video |-> Total(day, "video")]
    IN  (validRows(m) \ {day}) \cup IF month(day) = m /\ isValid(today) THEN {day} ELSE {}
eligible(m) == Cardinality(Shown(m)) >= ValidMonthDays /\ ~monthRow[m].claimed

\* The month is over and not claimed.
ClaimMonthFind(r) ==
    LET m == call(r).month IN
    /\ Begins(r, "month") /\ m \in Months
    /\ Passes(r, IF m < month(day) /\ ~monthRow[m].claimed THEN "monthCount" ELSE "failed")
    /\ UNCHANGED recordVars

\* Enough valid days.
ClaimMonthCount(r) ==
    LET n == Cardinality(validRows(call(r).month)) IN
    /\ pc[r] = "monthCount"
    /\ Learns(r, [validDays |-> n])
    /\ Goes(r, IF n >= ValidMonthDays THEN "monthBonus" ELSE "failed")
    /\ UNCHANGED <<ledger, recordVars>>

ClaimMonthBonus(r) ==
    /\ pc[r] = "monthBonus"
    /\ \/ Posts(monthBonus(call(r).month)) /\ Goes(r, "monthWrite")
       \/ UNCHANGED ledger /\ Goes(r, "failed")
    /\ UNCHANGED <<job, recordVars>>

ClaimMonthWrite(r) ==
    /\ pc[r] = "monthWrite"
    /\ monthRow' = [monthRow EXCEPT ![call(r).month] =
                        [claimed |-> TRUE, validDays |-> job[r].validDays]]
    /\ Passes(r, "done") /\ UNCHANGED <<sessions, dayRows>>

LiveRecordStep(r) ==
    \/ EndSession(r) \/ InsertSession(r)
    \/ Aggregate(r) \/ FindDayRow(r) \/ CreditDay(r) \/ WriteDayRow(r)
    \/ ClaimMonthFind(r) \/ ClaimMonthCount(r) \/ ClaimMonthBonus(r) \/ ClaimMonthWrite(r)

------------------------------------------------------------------------------
\* The properties.

earned(d) == Total(d, "audio") >= ValidDayTime \/ Total(d, "video") >= ValidDayTime
daysEarned(m) == Cardinality({d \in 1 .. load.days : month(d) = m /\ earned(d)})

\* aggregateDay and claimMonthly, however crons overlap, sessions come late and
\* claims race: a day's reward is paid only for a day the host earned with one kind
\* of room, a row says rewarded only if it was, a bonus is paid only for a month
\* that is over and had the days, and a row says claimed only if it was.
RewardsAreEarned ==
    /\ \A k \in ledger : k[1] = "live-valid-day-reward" => earned(k[2]) /\ k[2] < day
    /\ \A d \in DOMAIN dayRows : dayRows[d].rewarded => dayReward(d) \in ledger
    /\ \A k \in ledger : k[1] = "live-valid-month-bonus" =>
          /\ k[2] < month(day)
          /\ daysEarned(k[2]) >= ValidMonthDays
    /\ \A m \in Months : monthRow[m].claimed =>
          monthBonus(m) \in ledger /\ monthRow[m].validDays >= ValidMonthDays
    /\ \A m \in Months : eligible(m) => daysEarned(m) >= ValidMonthDays
==============================================================================
