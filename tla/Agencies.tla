-------------------------------- MODULE Agencies --------------------------------
(***************************************************************************)
(* Agencies: what their owners and admins do in the app                    *)
(* (modules/agencies/app-agencies.service.ts), what the panel does          *)
(* (agencies.service.ts), and the host profile that follows a membership   *)
(* (users.service.ts).  A call by "panel" is the panel's; it is not checked *)
(* against the roster.  The user's profile is read and saved in one step,  *)
(* as the agency in it is overwritten whatever was read.                   *)
(***************************************************************************)
EXTENDS Service

CONSTANTS
    FirstAgencies,  \* agency -> its owner; the codes are those of their own names
    Managers        \* the users who hold `agency.manage`, and the panel

VARIABLES
    agencies,   \* agency -> [status, hosts, code, bid]; new ones have the request's id
    crew,       \* user -> his one row: [id, agency, role]
    joins,      \* request -> a request to join
    bids,       \* request -> a request to found an agency
    hostOf      \* user who is a host -> his agency, or NoAgency

agencyVars == <<agencies, crew, joins, bids, hostOf>>

NoAgency == 0 - 1
NoBid == 0

Agency(n, code, bid) == [status |-> "active", hosts |-> n, code |-> code, bid |-> bid]
CrewRow(i, a, role) == [id |-> i, agency |-> a, role |-> role]

AgenciesInit ==
    /\ agencies = [a \in DOMAIN FirstAgencies |-> Agency(1, <<a, 1>>, NoBid)]
    /\ crew = [u \in Range(FirstAgencies) |->
                  CrewRow(0, CHOOSE a \in DOMAIN FirstAgencies : FirstAgencies[a] = u, "owner")]
    /\ joins = <<>> /\ bids = <<>>
    /\ hostOf = [u \in Range(FirstAgencies) |-> crew[u].agency]

agencyOf(r) == call(r).agency

\* A call names an agency that exists.
Calls(r, op) == Begins(r, op) /\ agencyOf(r) \in DOMAIN agencies

RoleIn(a, u) ==
    IF u \in DOMAIN crew /\ crew[u].agency = a THEN crew[u].role ELSE "none"

CanModerate(r) == RoleIn(agencyOf(r), call(r).by) \in {"owner", "admin"} \/ call(r).by \in Managers
CanGovern(r) == RoleIn(agencyOf(r), call(r).by) = "owner" \/ call(r).by \in Managers

\* A round trip that only reads, and the condition to go on.
Checks(r, ok, to) ==
    Passes(r, IF ok THEN to ELSE "failed") /\ UNCHANGED agencyVars

\* A round trip that reads a document for later, and the condition to go on.
ReadsRow(r, ok, d, to) ==
    IF ok THEN Learns(r, [doc |-> d]) /\ Goes(r, to) /\ UNCHANGED <<ledger, agencyVars>>
    ELSE Passes(r, "failed") /\ UNCHANGED agencyVars

read(r) == job[r].doc

------------------------------------------------------------------------------
\* The writes that several handlers share.

\* A user has one row, whatever the agency.
InsertCrew(r, u, row, to) ==
    /\ IF u \in DOMAIN crew THEN UNCHANGED crew /\ Passes(r, "failed")
       ELSE crew' = Put(crew, u, row) /\ Passes(r, to)
    /\ UNCHANGED <<agencies, joins, bids, hostOf>>

\* save() of a row's role; the row may be gone.
SaveRole(r, u, row, role, to) ==
    /\ IF row.role = role THEN UNCHANGED crew /\ Passes(r, to)
       ELSE IF u \in DOMAIN crew /\ crew[u].id = row.id
       THEN crew' = [crew EXCEPT ![u].role = role] /\ Passes(r, to)
       ELSE UNCHANGED crew /\ Passes(r, "failed")
    /\ UNCHANGED <<agencies, joins, bids, hostOf>>

\* $inc of hostCount; a departure does not count below zero.
CountHosts(r, a, delta, to) ==
    /\ agencies' = [agencies EXCEPT ![a].hosts =
                       IF delta < 0 /\ @ = 0 THEN @ ELSE @ + delta]
    /\ Passes(r, to) /\ UNCHANGED <<crew, joins, bids, hostOf>>

\* ensureHostForAgency.
BecomesHost(r, u, a, to) ==
    /\ hostOf' = Put(hostOf, u, a)
    /\ Passes(r, to) /\ UNCHANGED <<agencies, crew, joins, bids>>

\* The unique index on the codes.
CodeTaken(c) == \E a \in DOMAIN agencies : agencies[a].code = c

MutantCreateAgency(r, n, code, bid, to) ==
    /\ agencies' = Put(agencies, r, Agency(n, code, bid)) /\ Passes(r, to)
    /\ UNCHANGED <<crew, joins, bids, hostOf>>

CreateAgency(r, n, code, bid, to) ==
    /\ IF CodeTaken(code) THEN UNCHANGED agencies /\ Passes(r, "failed")
       ELSE agencies' = Put(agencies, r, Agency(n, code, bid)) /\ Passes(r, to)
    /\ UNCHANGED <<crew, joins, bids, hostOf>>

------------------------------------------------------------------------------
\* requestJoin and cancelMyRequest.

PendingRow(rows, u) == {i \in DOMAIN rows : rows[i].user = u /\ rows[i].status = "pending"}

RequestJoin(r) ==
    Calls(r, "requestJoin") /\ Checks(r, agencies[agencyOf(r)].status = "active", "joinMember")

JoinMember(r) ==
    pc[r] = "joinMember" /\ Checks(r, call(r).user \notin DOMAIN crew, "joinPending")

JoinPending(r) ==
    pc[r] = "joinPending" /\ Checks(r, PendingRow(joins, call(r).user) = {}, "joinCreate")

\* The index forbids a second pending request to the same agency only.
JoinCreate(r) ==
    LET u == call(r).user
        a == agencyOf(r)
    IN  /\ pc[r] = "joinCreate"
        /\ IF \E i \in PendingRow(joins, u) : joins[i].agency = a
           THEN UNCHANGED joins /\ Passes(r, "failed")
           ELSE /\ joins' = Put(joins, r, [agency |-> a, user |-> u, status |-> "pending"])
                /\ Passes(r, "done")
        /\ UNCHANGED <<agencies, crew, bids, hostOf>>

\* Reads the request that the call is about, and goes on when it is pending.
FindsPending(r, rows, to) ==
    LET i == call(r).request IN
    ReadsRow(r, i \in DOMAIN rows /\ rows[i].status = "pending", rows[i], to)

SaveJoin(r, status) ==
    /\ joins' = [joins EXCEPT ![call(r).request].status = status]
    /\ Passes(r, "done") /\ UNCHANGED <<agencies, crew, bids, hostOf>>

CancelJoin(r) == Begins(r, "cancelJoin") /\ FindsPending(r, joins, "cancelJoinSave")
CancelJoinSave(r) == pc[r] = "cancelJoinSave" /\ SaveJoin(r, "cancelled")

------------------------------------------------------------------------------
\* decideRequest, and the panel's approveJoinRequest and rejectJoinRequest.

Decide(r) == Calls(r, "decideJoin") /\ Checks(r, CanModerate(r), "decideFind")

\* The request is one to the agency that the call names.
DecideFind(r) ==
    LET i == call(r).request IN
    /\ pc[r] = "decideFind"
    /\ ReadsRow(r, i \in DOMAIN joins /\ joins[i].agency = agencyOf(r) /\ joins[i].status = "pending",
                joins[i], IF call(r).approve THEN "decideMember" ELSE "decideSave")

DecideMember(r) ==
    pc[r] = "decideMember" /\ Checks(r, read(r).user \notin DOMAIN crew, "decideInsert")

DecideInsert(r) ==
    /\ pc[r] = "decideInsert"
    /\ InsertCrew(r, read(r).user, CrewRow(r, read(r).agency, "member"), "decideCount")

DecideCount(r) == pc[r] = "decideCount" /\ CountHosts(r, read(r).agency, 1, "decideHost")

DecideHost(r) ==
    pc[r] = "decideHost" /\ BecomesHost(r, read(r).user, read(r).agency, "decideSave")

DecideSave(r) ==
    pc[r] = "decideSave" /\ SaveJoin(r, IF call(r).approve THEN "approved" ELSE "rejected")

------------------------------------------------------------------------------
\* leaveAgency, kickMember, and the panel's removeMember.

LeaveAgency(r) ==
    LET u == call(r).user IN
    /\ Begins(r, "leaveAgency")
    /\ ReadsRow(r, u \in DOMAIN crew /\ crew[u].role # "owner", crew[u], "crewDelete")

KickCrew(r) ==
    Calls(r, "kickCrew") /\ Checks(r, CanModerate(r) /\ call(r).user # call(r).by, "kickCrewFind")

KickCrewFind(r) ==
    LET u == call(r).user IN
    /\ pc[r] = "kickCrewFind"
    /\ ReadsRow(r, RoleIn(agencyOf(r), u) \in {"admin", "member"}, crew[u], "kickCrewRole")

\* The actor's role is read again.
KickCrewRole(r) ==
    /\ pc[r] = "kickCrewRole"
    /\ Checks(r, ~(RoleIn(agencyOf(r), call(r).by) = "admin" /\ read(r).role = "admin"),
              "crewDelete")

RemoveMember(r) ==
    LET u == call(r).user IN
    /\ Calls(r, "removeMember")
    /\ ReadsRow(r, RoleIn(agencyOf(r), u) # "none", crew[u],
             IF crew[u].role = "owner" THEN "removeOwner" ELSE "crewDelete")

RemoveOwner(r) ==
    /\ pc[r] = "removeOwner"
    /\ Checks(r, \E u \in DOMAIN crew \ {call(r).user} : RoleIn(agencyOf(r), u) = "owner",
              "crewDelete")

CrewDelete(r) ==
    LET u == call(r).user IN
    /\ pc[r] = "crewDelete"
    /\ crew' = IF u \in DOMAIN crew /\ crew[u].id = read(r).id
               THEN Restrict(crew, DOMAIN crew \ {u}) ELSE crew
    /\ Passes(r, "crewCountDown") /\ UNCHANGED <<agencies, joins, bids, hostOf>>

CrewCountDown(r) == pc[r] = "crewCountDown" /\ CountHosts(r, read(r).agency, -1, "done")

------------------------------------------------------------------------------
\* setMemberRole, the transfers of ownership, the panel's addMember.

SetRole(r) == Calls(r, "crewRole") /\ Checks(r, CanGovern(r), "crewRoleFind")

SetRoleFind(r) ==
    LET u == call(r).user IN
    /\ pc[r] = "crewRoleFind"
    /\ ReadsRow(r, RoleIn(agencyOf(r), u) \in {"admin", "member"}, crew[u], "crewRoleSave")

SetRoleSave(r) ==
    pc[r] = "crewRoleSave" /\ SaveRole(r, call(r).user, read(r), call(r).role, "done")

Handover(r) == Calls(r, "handover") /\ Checks(r, CanGovern(r), "handoverFind")

HandoverFind(r) ==
    LET u == call(r).user IN
    /\ pc[r] = "handoverFind"
    /\ ReadsRow(r, RoleIn(agencyOf(r), u) # "none", crew[u],
             IF crew[u].role = "owner" THEN "done" ELSE "handoverOwner")

\* findOne: any of the owners.
HandoverOwner(r) ==
    LET owners == {u \in DOMAIN crew : RoleIn(agencyOf(r), u) = "owner"} IN
    /\ pc[r] = "handoverOwner"
    /\ IF owners = {} THEN Passes(r, "handoverIn")
       ELSE \E u \in owners : /\ Learns(r, [owner |-> u, ownerRow |-> crew[u]])
                              /\ Goes(r, "handoverOut") /\ UNCHANGED ledger
    /\ UNCHANGED agencyVars

HandoverOut(r) ==
    /\ pc[r] = "handoverOut"
    /\ SaveRole(r, job[r].owner, job[r].ownerRow, call(r).demoteTo, "handoverIn")

HandoverIn(r) == pc[r] = "handoverIn" /\ SaveRole(r, call(r).user, read(r), "owner", "done")

AddMember(r) ==
    LET u == call(r).user
        ok == u \in DOMAIN crew => crew[u].agency = agencyOf(r)
    IN  /\ Calls(r, "addMember")
        /\ ReadsRow(r, ok, u \in DOMAIN crew,
                 IF call(r).role = "owner" THEN "addDemote" ELSE "addUpsert")

AddDemote(r) ==
    /\ pc[r] = "addDemote"
    /\ crew' = [u \in DOMAIN crew |->
                   IF u # call(r).user /\ RoleIn(agencyOf(r), u) = "owner"
                   THEN [crew[u] EXCEPT !.role = "admin"] ELSE crew[u]]
    /\ Passes(r, "addUpsert") /\ UNCHANGED <<agencies, joins, bids, hostOf>>

MutantAddUpsert(r) ==
    LET u == call(r).user
        row == CrewRow(r, agencyOf(r), call(r).role)
    IN  /\ pc[r] = "addUpsert"
        /\ IF RoleIn(agencyOf(r), u) = "none"
           THEN InsertCrew(r, u, row, "addCount")
           ELSE /\ crew' = [crew EXCEPT ![u].role = call(r).role]
                /\ Passes(r, "addCount") /\ UNCHANGED <<agencies, joins, bids, hostOf>>

\* Whether it is an insert was decided by the first read.
AddUpsert(r) ==
    LET u == call(r).user
        next == IF read(r) THEN "addHost" ELSE "addCount"
    IN  /\ pc[r] = "addUpsert"
        /\ IF RoleIn(agencyOf(r), u) = "none"
           THEN InsertCrew(r, u, CrewRow(r, agencyOf(r), call(r).role), next)
           ELSE /\ crew' = [crew EXCEPT ![u].role = call(r).role]
                /\ Passes(r, next) /\ UNCHANGED <<agencies, joins, bids, hostOf>>

AddCount(r) == pc[r] = "addCount" /\ CountHosts(r, agencyOf(r), 1, "addHost")
AddHost(r) == pc[r] = "addHost" /\ BecomesHost(r, call(r).user, agencyOf(r), "done")

------------------------------------------------------------------------------
\* submitCreateRequest, cancelMyCreateRequest, and the review of the requests.

Submit(r) == Begins(r, "submitBid") /\ Checks(r, call(r).user \notin DOMAIN crew, "bidCode")

\* The first number after the name that no agency has yet.  The code asks for one after
\* another; that this is one step does not matter, since the insert asks again.
BidCode(r) ==
    LET n == Min({k \in 1 .. Cardinality(DOMAIN agencies) + 1 : ~CodeTaken(<<call(r).name, k>>)})
    IN  pc[r] = "bidCode" /\ ReadsRow(r, TRUE, <<call(r).name, n>>, "bidCreate")

BidCreate(r) ==
    LET u == call(r).user IN
    /\ pc[r] = "bidCreate"
    /\ IF PendingRow(bids, u) # {} THEN UNCHANGED bids /\ Passes(r, "failed")
       ELSE /\ bids' = Put(bids, r, [user |-> u, code |-> read(r), status |-> "pending"])
            /\ Passes(r, "done")
    /\ UNCHANGED <<agencies, crew, joins, hostOf>>

SaveBid(r, status) ==
    /\ bids' = [bids EXCEPT ![call(r).request].status = status]
    /\ Passes(r, "done") /\ UNCHANGED <<agencies, crew, joins, hostOf>>

CancelBid(r) == Begins(r, "cancelBid") /\ FindsPending(r, bids, "cancelBidSave")
CancelBidSave(r) == pc[r] = "cancelBidSave" /\ SaveBid(r, "cancelled")

Review(r) ==
    /\ Begins(r, "reviewBid")
    /\ FindsPending(r, bids, IF call(r).approve THEN "reviewMember" ELSE "reviewSave")

ReviewMember(r) ==
    pc[r] = "reviewMember" /\ Checks(r, read(r).user \notin DOMAIN crew, "reviewCode")

ReviewCode(r) == pc[r] = "reviewCode" /\ Checks(r, ~CodeTaken(read(r).code), "reviewAgency")

ReviewAgency(r) ==
    pc[r] = "reviewAgency" /\ CreateAgency(r, 1, read(r).code, call(r).request, "reviewOwner")

ReviewOwner(r) ==
    pc[r] = "reviewOwner" /\ InsertCrew(r, read(r).user, CrewRow(r, r, "owner"), "reviewHost")

ReviewHost(r) == pc[r] = "reviewHost" /\ BecomesHost(r, read(r).user, r, "reviewSave")

ReviewSave(r) ==
    pc[r] = "reviewSave" /\ SaveBid(r, IF call(r).approve THEN "approved" ELSE "rejected")

------------------------------------------------------------------------------
\* createFromApp by a user with `agency.create`, and manageCreate or the panel's create.

FoundAgency(r) ==
    Begins(r, "foundAgency") /\ Checks(r, call(r).user \notin DOMAIN crew, "agencyCode")

OpenAgency(r) == Begins(r, "openAgency") /\ Checks(r, ~CodeTaken(<<call(r).name, 1>>), "agencyOpen")
AgencyCode(r) == pc[r] = "agencyCode" /\ Checks(r, ~CodeTaken(<<call(r).name, 1>>), "agencyInsert")

AgencyInsert(r) ==
    \/ pc[r] = "agencyInsert" /\ CreateAgency(r, 1, <<call(r).name, 1>>, NoBid, "agencyOwner")
    \/ pc[r] = "agencyOpen" /\ CreateAgency(r, 0, <<call(r).name, 1>>, NoBid, "done")

AgencyOwner(r) ==
    pc[r] = "agencyOwner" /\ InsertCrew(r, call(r).user, CrewRow(r, r, "owner"), "agencyHost")

AgencyHost(r) == pc[r] = "agencyHost" /\ BecomesHost(r, call(r).user, r, "done")

------------------------------------------------------------------------------
\* manageSetStatus and updateStatus; the panel's hosts.

AgencyStatus(r) ==
    Calls(r, "agencyStatus") /\ Checks(r, call(r).by \in Managers, "agencyStatusSave")

AgencyStatusSave(r) ==
    /\ pc[r] = "agencyStatusSave"
    /\ agencies' = [agencies EXCEPT ![agencyOf(r)].status = call(r).status]
    /\ Passes(r, "done") /\ UNCHANGED <<crew, joins, bids, hostOf>>

\* The profile names an agency: the one before, for assignHost.
AssignHost(r) ==
    LET u == call(r).user IN
    /\ Calls(r, "assignHost")
    /\ ReadsRow(r, u \in DOMAIN hostOf, [agency |-> hostOf[u]],
             IF hostOf[u] = agencyOf(r) THEN "done" ELSE "assignSave")

AssignSave(r) ==
    pc[r] = "assignSave" /\ BecomesHost(r, call(r).user, agencyOf(r),
        IF read(r).agency = NoAgency THEN "assignUp" ELSE "assignDown")

\* Neither decrement of the panel stops at zero.
UncountHost(r, a, to) ==
    /\ agencies' = [agencies EXCEPT ![a].hosts = @ - 1]
    /\ Passes(r, to) /\ UNCHANGED <<crew, joins, bids, hostOf>>

AssignDown(r) == pc[r] = "assignDown" /\ UncountHost(r, read(r).agency, "assignUp")
AssignUp(r) == pc[r] = "assignUp" /\ CountHosts(r, agencyOf(r), 1, "done")

UnassignHost(r) ==
    LET u == call(r).user IN
    /\ Calls(r, "unassignHost")
    /\ Checks(r, u \in DOMAIN hostOf /\ hostOf[u] = agencyOf(r), "unassignSave")

UnassignSave(r) ==
    pc[r] = "unassignSave" /\ BecomesHost(r, call(r).user, NoAgency, "unassignDown")

UnassignDown(r) == pc[r] = "unassignDown" /\ UncountHost(r, agencyOf(r), "done")

AgenciesStep(r) ==
    \/ RequestJoin(r) \/ JoinMember(r) \/ JoinPending(r) \/ JoinCreate(r)
    \/ CancelJoin(r) \/ CancelJoinSave(r)
    \/ Decide(r) \/ DecideFind(r) \/ DecideMember(r) \/ DecideInsert(r) \/ DecideCount(r)
    \/ DecideHost(r) \/ DecideSave(r)
    \/ LeaveAgency(r) \/ KickCrew(r) \/ KickCrewFind(r) \/ KickCrewRole(r)
    \/ RemoveMember(r) \/ RemoveOwner(r) \/ CrewDelete(r) \/ CrewCountDown(r)
    \/ SetRole(r) \/ SetRoleFind(r) \/ SetRoleSave(r)
    \/ Handover(r) \/ HandoverFind(r) \/ HandoverOwner(r) \/ HandoverOut(r) \/ HandoverIn(r)
    \/ AddMember(r) \/ AddDemote(r) \/ AddUpsert(r) \/ AddCount(r) \/ AddHost(r)
    \/ Submit(r) \/ BidCode(r) \/ BidCreate(r) \/ CancelBid(r) \/ CancelBidSave(r)
    \/ Review(r) \/ ReviewMember(r) \/ ReviewCode(r) \/ ReviewAgency(r) \/ ReviewOwner(r)
    \/ ReviewHost(r) \/ ReviewSave(r)
    \/ FoundAgency(r) \/ OpenAgency(r) \/ AgencyCode(r) \/ AgencyInsert(r) \/ AgencyOwner(r)
    \/ AgencyHost(r) \/ AgencyStatus(r) \/ AgencyStatusSave(r)
    \/ AssignHost(r) \/ AssignSave(r) \/ AssignDown(r) \/ AssignUp(r)
    \/ UnassignHost(r) \/ UnassignSave(r) \/ UnassignDown(r)

------------------------------------------------------------------------------
\* The properties.

crewOf(a) == {u \in DOMAIN crew : crew[u].agency = a}

HostsAssigned == \E r \in Requests : call(r).op \in {"assignHost", "unassignHost"}

\* The services, as long as calls wait for each other and none crashes or fails half way:
\* whatever joins, departures, promotions, transfers and reviews came before, by the app or
\* by the panel, an agency has at most one owner ("Owners are unique per agency"), hostCount
\* counts its members while the panel assigns no hosts by hand, every member is a host of
\* his agency, and a user waits for one agency at most.
RostersHold ==
    load.patient /\ (\A r \in Requests : pc[r] \in {"idle", "done", "failed"}) =>
        /\ \A a \in DOMAIN agencies :
              /\ Cardinality({u \in crewOf(a) : crew[u].role = "owner"}) <= 1
              /\ ~HostsAssigned => /\ agencies[a].hosts = Cardinality(crewOf(a))
                                   /\ \A u \in crewOf(a) : u \in DOMAIN hostOf /\ hostOf[u] = a
        /\ \A u \in {joins[i].user : i \in DOMAIN joins} : Cardinality(PendingRow(joins, u)) <= 1

\* approveCreateRequest and manageApproveCreateRequest: whoever else reviews or cancels it
\* at the same time, and whatever crashes, a request founds at most one agency, and one
\* that says it was approved has founded it.
FoundedOnce ==
    \A b \in DOMAIN bids :
        LET founded == {a \in DOMAIN agencies : agencies[a].bid = b} IN
        /\ Cardinality(founded) <= 1
        /\ bids[b].status = "approved" => founded # {}

\* Both services of the agencies: their rosters, and how agencies come to be.
AgenciesHold == RostersHold /\ FoundedOnce
==============================================================================
