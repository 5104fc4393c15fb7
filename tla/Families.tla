-------------------------------- MODULE Families --------------------------------
(***************************************************************************)
(* Families (modules/families/families.service.ts): a user founds one for  *)
(* a fee, others join, are approved, promoted, kicked, and leave; the      *)
(* leader hands over; an admin or the nightly sweep disbands.  A handler   *)
(* reads the family's document, then the row of a member, writes the row,  *)
(* and saves the document it read: fields it changed overwrite, and a save *)
(* that replaces the list of co-leaders is refused when the list has been  *)
(* changed since.                                                          *)
(***************************************************************************)
EXTENDS Service

CONSTANTS
    FirstFamily,    \* the family that exists: its leader, co-leaders, members, mode
    SoloDays        \* how long a family may stay solo

ASSUME SoloAssumption == SoloDays \in Nat \ {0}

\* Its leader is not a co-leader too, and no request has its number.
ASSUME FamilyAssumption ==
    /\ FirstFamily.leader \notin FirstFamily.co
    /\ IsFiniteSet(FirstFamily.co) /\ IsFiniteSet(FirstFamily.members)
    /\ \A w \in Workloads : 0 \notin DOMAIN w.calls

VARIABLES
    families,   \* family -> its document; 0 is the first, others have the request's id
    roster      \* user -> his one row: [id, family, role, status]

familyVars == <<families, roster>>

Document(leader, co, n, mode) ==
    [status |-> "active", mode |-> mode, leader |-> leader, co |-> co,
     count |-> n, solo |-> 0, version |-> 0]

RosterRow(i, f, role, status) == [id |-> i, family |-> f, role |-> role, status |-> status]

FamiliesInit ==
    LET F == FirstFamily
        all == {F.leader} \cup F.co \cup F.members
    IN  /\ families = [f \in {0} |-> Document(F.leader, F.co, Cardinality(all), F.mode)]
        /\ roster = [u \in all |-> RosterRow(0, 0,
               IF u = F.leader THEN "leader" ELSE IF u \in F.co THEN "co" ELSE "member",
               "active")]

\* The row of u in f that a query for the status finds.
HasRow(u, f, st) == u \in DOMAIN roster /\ roster[u].family = f /\ roster[u].status = st

\* The row that was read is still there.
SameRow(u, row) == u \in DOMAIN roster /\ roster[u].id = row.id

RosterWithout(rows) == roster' = Restrict(roster, DOMAIN roster \ rows)

doc(r) == job[r].doc

\* The unique index: one family that is not disbanded per leader.
LeadsAnother(u, f) ==
    \E g \in DOMAIN families \ {f} : families[g].leader = u /\ families[g].status # "disbanded"

\* family.save(): a push to the co-leaders is never refused, a new list may be, and so is
\* a second family for a leader.
SaveFamily(r, new, to) ==
    LET f == call(r).family
        same == new.co = doc(r).co
        pushed == doc(r).co \subseteq new.co /\ ~same
        kept == Saves(families[f], doc(r), new)
        saved == IF same THEN kept
                 ELSE [kept EXCEPT !.version = @ + 1,
                                   !.co = IF pushed THEN families[f].co \cup new.co ELSE @]
        refused == \/ ~same /\ ~pushed /\ families[f].version # doc(r).version
                   \/ saved.status # "disbanded" /\ LeadsAnother(saved.leader, f)
    IN  IF refused THEN UNCHANGED families /\ Passes(r, "failed")
        ELSE families' = [families EXCEPT ![f] = saved] /\ Passes(r, to)

\* The call begins with a read of its family and the checks on it.
ReadsFamily(r, op, ok(_), to) ==
    /\ Begins(r, op)
    /\ call(r).family \in DOMAIN families
    /\ IF ok(families[call(r).family])
       THEN Learns(r, [doc |-> families[call(r).family]]) /\ Goes(r, to)
       ELSE Goes(r, "failed") /\ UNCHANGED job
    /\ UNCHANGED <<ledger, familyVars>>

CanManage(d, u) == u = d.leader \/ u \in d.co

------------------------------------------------------------------------------
\* create.  Every request has a key of its own for the fee.

familyKey(r) == <<"family", r>>

FoundFind(r) ==
    /\ Begins(r, "found")
    /\ Passes(r, IF call(r).user \in DOMAIN roster THEN "failed"
                 ELSE IF call(r).free THEN "foundInsert" ELSE "foundDebit")
    /\ UNCHANGED familyVars

FoundDebit(r) ==
    /\ pc[r] = "foundDebit"
    /\ \/ Posts(familyKey(r)) /\ Goes(r, "foundInsert") /\ UNCHANGED job
       \/ Passes(r, "failed")
    /\ UNCHANGED familyVars

FoundInsert(r) ==
    /\ pc[r] = "foundInsert"
    /\ IF LeadsAnother(call(r).user, r) THEN UNCHANGED families /\ Passes(r, "failed")
       ELSE /\ families' = Put(families, r, Document(call(r).user, {}, 1, call(r).mode))
            /\ Passes(r, "foundLeader")
    /\ UNCHANGED roster

\* A user has one row: the insert fails when he has joined another meanwhile.
InsertRow(r, row, to) ==
    LET u == call(r).user IN
    IF u \in DOMAIN roster THEN UNCHANGED roster /\ Passes(r, "failed")
    ELSE roster' = Put(roster, u, row) /\ Passes(r, to)

FoundLeader(r) ==
    /\ pc[r] = "foundLeader"
    /\ InsertRow(r, RosterRow(r, r, "leader", "active"), "done")
    /\ UNCHANGED families

------------------------------------------------------------------------------
\* requestJoin, approveJoin, rejectJoin.

JoinFamily(r) ==
    ReadsFamily(r, "joinFamily",
        LAMBDA d : d.status = "active" /\ d.mode # "invite" /\ call(r).user \notin DOMAIN roster,
        "joinInsert")

JoinInsert(r) ==
    LET open == doc(r).mode = "open" IN
    /\ pc[r] = "joinInsert"
    /\ InsertRow(r, RosterRow(r, call(r).family, "member", IF open THEN "active" ELSE "pending"),
                 IF open THEN "familyCountUp" ELSE "done")
    /\ UNCHANGED families

\* bumpMemberCount, on the document that was read at the start.
Bumped(d, delta) ==
    LET n == d.count + delta IN
    [d EXCEPT !.count = n, !.solo = IF n > 1 THEN 0 ELSE IF @ = 0 THEN day ELSE @]

CountUp(r) ==
    /\ pc[r] = "familyCountUp"
    /\ SaveFamily(r, Bumped(doc(r), 1), "done")
    /\ UNCHANGED roster

FindsRow(r, st, ok(_), to) ==
    LET u == call(r).user IN
    IF HasRow(u, call(r).family, st) /\ ok(roster[u])
    THEN Learns(r, [row |-> roster[u]]) /\ Goes(r, to) /\ UNCHANGED <<ledger, familyVars>>
    ELSE Passes(r, "failed") /\ UNCHANGED familyVars

Approve(r) == ReadsFamily(r, "approve", LAMBDA d : CanManage(d, call(r).by), "approveFind")

ApproveFind(r) == pc[r] = "approveFind" /\ FindsRow(r, "pending", LAMBDA row : TRUE, "approveSave")

\* The save of a row that is gone throws.
SavesRow(r, u, row, field, value, to) ==
    IF row[field] = value THEN UNCHANGED roster /\ Passes(r, to)
    ELSE IF SameRow(u, row)
    THEN roster' = [roster EXCEPT ![u][field] = value] /\ Passes(r, to)
    ELSE UNCHANGED roster /\ Passes(r, "failed")

ApproveSave(r) ==
    /\ pc[r] = "approveSave"
    /\ SavesRow(r, call(r).user, job[r].row, "status", "active", "familyCountUp")
    /\ UNCHANGED families

Reject(r) == ReadsFamily(r, "reject", LAMBDA d : CanManage(d, call(r).by), "rejectDelete")

RejectDelete(r) ==
    /\ pc[r] = "rejectDelete"
    /\ RosterWithout({u \in {call(r).user} : HasRow(u, call(r).family, "pending")})
    /\ Passes(r, "done") /\ UNCHANGED families

------------------------------------------------------------------------------
\* leave and kick: the row is deleted, then the document saved.

Leave(r) == ReadsFamily(r, "leaveFamily", LAMBDA d : d.leader # call(r).user, "leaveFind")

LeaveFind(r) == pc[r] = "leaveFind" /\ FindsRow(r, "active", LAMBDA row : TRUE, "familyDelete")

Kick(r) ==
    ReadsFamily(r, "kickMember",
        LAMBDA d : CanManage(d, call(r).by) /\ d.leader # call(r).user, "kickFind")

\* Only the leader removes a co-leader.
KickFind(r) ==
    /\ pc[r] = "kickFind"
    /\ FindsRow(r, "active",
           LAMBDA row : row.role = "co" => doc(r).leader = call(r).by, "familyDelete")

DeleteRow(r) ==
    /\ pc[r] = "familyDelete"
    /\ RosterWithout({u \in {call(r).user} : SameRow(u, job[r].row)})
    /\ Passes(r, "familyCountDown") /\ UNCHANGED families

CountDown(r) ==
    LET d == Bumped(doc(r), -1) IN
    /\ pc[r] = "familyCountDown"
    /\ SaveFamily(r, IF job[r].row.role = "co" THEN [d EXCEPT !.co = @ \ {call(r).user}] ELSE d,
                  "done")
    /\ UNCHANGED roster

------------------------------------------------------------------------------
\* promoteToCoLeader and demoteCoLeader.

Rank(r) ==
    \/ ReadsFamily(r, "promote", LAMBDA d : d.leader = call(r).by, "rankFind")
    \/ ReadsFamily(r, "demote", LAMBDA d : d.leader = call(r).by, "rankFind")

RankFind(r) == pc[r] = "rankFind" /\ FindsRow(r, "active", LAMBDA row : TRUE, "rankSave")

RankSave(r) ==
    /\ pc[r] = "rankSave"
    /\ SavesRow(r, call(r).user, job[r].row, "role",
                IF call(r).op = "promote" THEN "co" ELSE "member", "rankDocument")
    /\ UNCHANGED families

RankDocument(r) ==
    /\ pc[r] = "rankDocument"
    /\ SaveFamily(r, [doc(r) EXCEPT !.co = IF call(r).op = "promote" THEN @ \cup {call(r).user}
                                           ELSE @ \ {call(r).user}], "done")
    /\ UNCHANGED roster

------------------------------------------------------------------------------
\* transferLeadership.

Transfer(r) ==
    ReadsFamily(r, "transferFamily",
        LAMBDA d : d.leader = call(r).by /\ d.leader # call(r).user, "transferFind")

\* The rows of the new and the old leader.
TransferFind(r) ==
    LET u == call(r).user
        old == doc(r).leader
    IN  /\ pc[r] = "transferFind"
        /\ IF HasRow(u, call(r).family, "active")
           THEN /\ \/ /\ old \in DOMAIN roster /\ roster[old].family = call(r).family
                    /\ Learns(r, [row |-> roster[u], oldRow |-> roster[old]])
                 \/ /\ ~(old \in DOMAIN roster /\ roster[old].family = call(r).family)
                    /\ Learns(r, [row |-> roster[u]])
                /\ Goes(r, "transferDocument") /\ UNCHANGED ledger
           ELSE Passes(r, "failed")
        /\ UNCHANGED familyVars

MutantTransferDocument(r) ==
    /\ pc[r] = "transferDocument"
    /\ SaveFamily(r, [doc(r) EXCEPT !.leader = call(r).user], "transferNew")
    /\ UNCHANGED roster

TransferDocument(r) ==
    /\ pc[r] = "transferDocument"
    /\ SaveFamily(r, [doc(r) EXCEPT !.leader = call(r).user, !.co = @ \ {call(r).user}],
                  "transferNew")
    /\ UNCHANGED roster

TransferNew(r) ==
    /\ pc[r] = "transferNew"
    /\ SavesRow(r, call(r).user, job[r].row, "role", "leader",
                IF "oldRow" \in DOMAIN job[r] THEN "transferOld" ELSE "done")
    /\ UNCHANGED families

TransferOld(r) ==
    /\ pc[r] = "transferOld"
    /\ SavesRow(r, doc(r).leader, job[r].oldRow, "role", "member", "done")
    /\ UNCHANGED families

------------------------------------------------------------------------------
\* update (the mode) and setStatus.

Settings(r) == ReadsFamily(r, "familyMode", LAMBDA d : CanManage(d, call(r).by), "settingsSave")

SettingsSave(r) ==
    /\ pc[r] = "settingsSave"
    /\ SaveFamily(r, [doc(r) EXCEPT !.mode = call(r).mode], "done")
    /\ UNCHANGED roster

\* Only a family that is not disbanded yet loses its rows first.
SetStatus(r) ==
    LET f == call(r).family IN
    /\ Begins(r, "familyStatus") /\ f \in DOMAIN families
    /\ Learns(r, [doc |-> families[f]])
    /\ Goes(r, IF call(r).status = "disbanded" /\ families[f].status # "disbanded"
               THEN "disbandRows" ELSE "statusSave")
    /\ UNCHANGED <<ledger, familyVars>>

DisbandRows(r) ==
    /\ pc[r] = "disbandRows"
    /\ RosterWithout({u \in DOMAIN roster : roster[u].family = call(r).family})
    /\ Passes(r, "statusSave") /\ UNCHANGED families

StatusSave(r) ==
    LET d == doc(r) IN
    /\ pc[r] = "statusSave"
    /\ SaveFamily(r, IF call(r).status = "disbanded" /\ d.status # "disbanded"
                     THEN [d EXCEPT !.status = "disbanded", !.count = 0, !.solo = 0]
                     ELSE [d EXCEPT !.status = call(r).status], "done")
    /\ UNCHANGED roster

------------------------------------------------------------------------------
\* disbandStaleSolos, every night; the call names the family that it comes to.

Sweep(r) ==
    ReadsFamily(r, "sweepFamilies",
        LAMBDA d : d.status = "active" /\ d.count = 1 /\ d.solo # 0 /\ d.solo + SoloDays <= day,
        "sweepRows")

SweepRows(r) ==
    /\ pc[r] = "sweepRows"
    /\ RosterWithout({u \in DOMAIN roster : roster[u].family = call(r).family})
    /\ Passes(r, "sweepSave") /\ UNCHANGED families

SweepSave(r) ==
    /\ pc[r] = "sweepSave"
    /\ SaveFamily(r, [doc(r) EXCEPT !.status = "disbanded", !.count = 0, !.solo = 0], "done")
    /\ UNCHANGED roster

FamiliesStep(r) ==
    \/ FoundFind(r) \/ FoundDebit(r) \/ FoundInsert(r) \/ FoundLeader(r)
    \/ JoinFamily(r) \/ JoinInsert(r) \/ CountUp(r)
    \/ Approve(r) \/ ApproveFind(r) \/ ApproveSave(r) \/ Reject(r) \/ RejectDelete(r)
    \/ Leave(r) \/ LeaveFind(r) \/ Kick(r) \/ KickFind(r) \/ DeleteRow(r) \/ CountDown(r)
    \/ Rank(r) \/ RankFind(r) \/ RankSave(r) \/ RankDocument(r)
    \/ Transfer(r) \/ TransferFind(r) \/ TransferDocument(r) \/ TransferNew(r) \/ TransferOld(r)
    \/ Settings(r) \/ SettingsSave(r) \/ SetStatus(r) \/ DisbandRows(r) \/ StatusSave(r)
    \/ Sweep(r) \/ SweepRows(r) \/ SweepSave(r)

------------------------------------------------------------------------------
\* The properties.

membersOf(f) == {u \in DOMAIN roster : roster[u].family = f /\ roster[u].status = "active"}
coLeadersOf(f) == {u \in membersOf(f) : roster[u].role = "co"}

\* The rows of f say what the document d says: the leader is a member and alone has the
\* role, the list of co-leaders and the roles are the same, the counter counts the
\* members, and the clock of the sweep runs for a family of one only.
Matches(f, d) ==
    /\ {u \in membersOf(f) : roster[u].role = "leader"} = {d.leader}
    /\ d.co = coLeadersOf(f)
    /\ d.count = Cardinality(membersOf(f))
    /\ d.solo # 0 => d.count = 1

\* Two calls that the handlers let through take the roles apart: a leader who promotes or
\* demotes himself, and a status that brings a disbanded family back without its rows.
RanksLeader(r) ==
    /\ call(r).op \in {"promote", "demote"}
    /\ "doc" \in DOMAIN job[r] /\ call(r).user = doc(r).leader

Revives(r) ==
    /\ call(r).op = "familyStatus" /\ call(r).status # "disbanded"
    /\ "doc" \in DOMAIN job[r] /\ doc(r).status = "disbanded"

Spared(f) == \A r \in Requests : RanksLeader(r) \/ Revives(r) => call(r).family # f

\* The service: whatever crashes or overlaps, a family that was founded was paid for,
\* unless its founder need not pay; and as long as calls wait for each other and none
\* crashes, after any sequence of joins, departures, promotions and transfers the rows and
\* the document of a family that such calls have spared agree.
FamiliesHold ==
    /\ \A f \in DOMAIN families \ {0} : call(f).free \/ familyKey(f) \in ledger
    /\ /\ load.patient /\ stops = 0
       /\ \A r \in Requests : pc[r] \in {"idle", "done", "failed"}
       => \A f \in DOMAIN families :
              families[f].status # "disbanded" /\ Spared(f) => Matches(f, families[f])

\* families.cron.ts: the sweep "disbands families which have been at memberCount === 1".
SweptAreSolo ==
    [][\A r \in Requests : pc[r] = "sweepRows" /\ pc'[r] = "sweepSave" =>
          Cardinality(membersOf(call(r).family)) <= 1]_<<pc, roster>>
==============================================================================
