--------------------------------- MODULE Rooms ---------------------------------
(***************************************************************************)
(* Live rooms (modules/rooms/rooms.service.ts): their status, presence     *)
(* rows, viewer counter, seats, admins and blocked users, and the sweeper  *)
(* that closes the rooms whose host has gone.  A request is one call of    *)
(* the service; its actions are its database round trips, so two requests  *)
(* interleave between them.  Nothing runs in a transaction: an update of   *)
(* one document, or of the documents one filter selects, is atomic.        *)
(*                                                                         *)
(* A call that is refused before its first write changes nothing and is    *)
(* left out.  So are what no guard here reads: passwords, themes, mic and  *)
(* chat policies, mutes and cameras, and the events sent to clients.       *)
(* The definitions named Mutant... are faults to check the properties with *)
(* and are no part of the specification.                                   *)
(***************************************************************************)
EXTENDS Integers, FiniteSets, FiniteSetsExt

CONSTANTS
    Rooms,              \* room documents, each of one owner and one kind
    Users,              \* the people
    ownerId,            \* [Rooms -> Users]
    kind,               \* [Rooms -> {"audio", "video"}]
    audioHostEndsLive,  \* the admin's flag: audio rooms close with their host
    MicCounts,          \* the numbers of guest seats a room may have
    Inside,             \* [Rooms -> SUBSET Users]: who is inside at the start
    Workloads,          \* bounds: the calls a behaviour may make, how many of
                        \* them, and how often the server restarts in it
    NoUser              \* the user id of an empty seat

MaxSeat == Max(MicCounts)
SeatIndex == 0 .. MaxSeat
Status == {"none", "active", "closed", "removed"}
Op == {"open", "enter", "leave", "take", "stand", "lock", "unlock", "kick",
       "promote", "demote", "block", "unblock", "resize", "remove", "restore"}

\* `by` asks; `target` is the member concerned; `n` a seat or a mic count.
Call == [op : Op, room : Rooms, by : Users, target : Users, n : Nat]

ASSUME RoomsAssumption ==
    /\ ownerId \in [Rooms -> Users] /\ kind \in [Rooms -> {"audio", "video"}]
    /\ audioHostEndsLive \in BOOLEAN /\ NoUser \notin Users /\ Rooms # {}
ASSUME InsideAssumption ==
    /\ Inside \in [Rooms -> SUBSET Users]
    /\ \A r, t \in Rooms : r # t => Inside[r] \cap Inside[t] = {}
    /\ \A r \in Rooms : IsFiniteSet(Inside[r])
ASSUME WorkloadsAssumption ==
    /\ Workloads \subseteq [calls : SUBSET Call, requests : Nat, crashes : Nat]
    /\ Workloads # {} /\ IsFiniteSet(Workloads)
ASSUME MicAssumption ==
    MicCounts # {} /\ MicCounts \subseteq Nat \ {0} /\ IsFiniteSet(MicCounts)

VARIABLES
    status,         \* [Rooms -> Status]: "none" until the room is created
    viewerCount,    \* [Rooms -> Nat]: the counter the home page lists rooms by
    micCount,       \* [Rooms -> Nat]
    adminUserIds,   \* [Rooms -> SUBSET Users]
    blockedUserIds, \* [Rooms -> SUBSET Users]
    version,        \* [Rooms -> Nat]: mongoose's __v, which array writes bump
    members,        \* [Rooms -> SUBSET Users]: the presence rows
    hostSeen,       \* [Rooms -> BOOLEAN]: the host's row is within the grace
    seats,          \* [Rooms -> functions from some of SeatIndex to Seat]
    pc,             \* [Process -> where it is]
    call,           \* [Requests -> what is asked]
    job,            \* [Process -> what it has read]
    alive,          \* the users whose app is running
    stopped,        \* requests a crash ended half-way
    crashes,        \* number of restarts
    load,           \* the workload of this behaviour
    recounted       \* history: the rooms whose counter a block, a closing or a
                    \* removal has reset

roomVars == <<status, micCount, adminUserIds, blockedUserIds, version>>
presenceVars == <<viewerCount, members, hostSeen, recounted>>
procVars == <<pc, call, job>>
envVars == <<alive, stopped, crashes, load>>
vars == <<roomVars, presenceVars, seats, procVars, envVars>>

Requests == 1 .. Max({w.requests : w \in Workloads})
Sweeper == 0
Process == Requests \cup {Sweeper}

Seat == [userId : Users \cup {NoUser}, locked : BOOLEAN]
EmptySeat == [userId |-> NoUser, locked |-> FALSE]
NoCall == [op |-> "none"]

\* `in`: the room being left, closed or swept; `rooms`: those still to visit;
\* `status`, `version`, `users`, `high`, `top`: as read; `todo`: parallel writes.
Job == [in : Rooms, rooms : SUBSET Rooms, status : Status, version : Nat,
        users : SUBSET Users, high : Nat, top : Nat, todo : SUBSET {"members", "seats", "count"}]
Fresh(r) == [in |-> r, rooms |-> {}, status |-> "none", version |-> 0,
             users |-> {}, high |-> 0, top |-> 0, todo |-> {}]
Idle == Fresh(CHOOSE r \in Rooms : TRUE)

------------------------------------------------------------------------------
\* Requests.

At(p, l) == pc[p] = l /\ p \notin stopped

\* Requests start in order; a closed app sends none.  The operator of the admin
\* panel is none of Users.
Turn(q) == q <= load.requests /\ pc[q] = "idle" /\ \A p \in Requests : p < q => pc[p] # "idle"
Asks(c, op) == c.op = op /\ (op \in {"remove", "restore"} \/ c.by \in alive)

Start(q, c, l, j) ==
    /\ call' = [call EXCEPT ![q] = c]
    /\ pc' = [pc EXCEPT ![q] = l]
    /\ job' = [job EXCEPT ![q] = j]
    /\ UNCHANGED envVars

Go(p, l) == pc' = [pc EXCEPT ![p] = l] /\ UNCHANGED <<call, job, envVars>>

Keep(p, l, j) ==
    /\ pc' = [pc EXCEPT ![p] = l]
    /\ job' = [job EXCEPT ![p] = j]
    /\ UNCHANGED <<call, envVars>>

End(q) ==
    /\ pc' = [pc EXCEPT ![q] = "done"]
    /\ job' = [job EXCEPT ![q] = Idle]
    /\ call' = [call EXCEPT ![q] = NoCall]
    /\ UNCHANGED envVars

isOwner(c) == c.by = ownerId[c.room]
isPrivileged(c) == isOwner(c) \/ c.by \in adminUserIds[c.room]
exists(r) == status[r] \notin {"none", "removed"}      \* getOrThrow

------------------------------------------------------------------------------
\* Seats of a room.

heldBy(s, u) == {i \in DOMAIN s : s[i].userId = u}
occupied(s) == {i \in DOMAIN s : s[i].userId # NoUser}
vacate(s, I) == [i \in DOMAIN s |-> IF i \in I THEN [s[i] EXCEPT !.userId = NoUser] ELSE s[i]]
without(s, I) == [i \in DOMAIN s \ I |-> s[i]]
withEmpty(s, I) == [i \in DOMAIN s \cup I |-> IF i \in DOMAIN s THEN s[i] ELSE EmptySeat]

\* An ordered insertMany stops at the first index that the unique index refuses.
insertMany(s, I) ==
    withEmpty(s, {i \in I : \A k \in I : k <= i => k \notin DOMAIN s})

SetSeats(r, s) == seats' = [seats EXCEPT ![r] = s]

------------------------------------------------------------------------------
\* createOrGetOwn.

OpenRead(q, c) ==
    /\ Asks(c, "open") /\ isOwner(c) /\ c.n \in MicCounts
    /\ \/ status[c.room] = "none" /\ Start(q, c, "openCreate", Fresh(c.room))
       \/ status[c.room] = "closed" /\ Start(q, c, "openSave", Fresh(c.room))
    /\ UNCHANGED <<roomVars, presenceVars, seats>>

\* The index on owner and kind lets one of two concurrent creations through.
OpenCreate(q) ==
    LET r == call[q].room IN
    /\ At(q, "openCreate")
    /\ \/ /\ status[r] = "none"
          /\ status' = [status EXCEPT ![r] = "active"]
          /\ micCount' = [micCount EXCEPT ![r] = call[q].n]
          /\ Go(q, "openSeats")
       \/ status[r] # "none" /\ End(q) /\ UNCHANGED <<status, micCount>>
    /\ UNCHANGED <<adminUserIds, blockedUserIds, version, presenceVars, seats>>

OpenSeats(q) ==
    LET r == call[q].room IN
    /\ At(q, "openSeats")
    /\ SetSeats(r, insertMany(seats[r], 0 .. call[q].n))
    /\ End(q)
    /\ UNCHANGED <<roomVars, presenceVars>>

\* A closed room reopens; a video room takes the layout just picked.
OpenSave(q) ==
    LET r == call[q].room IN
    /\ At(q, "openSave")
    /\ status' = [status EXCEPT ![r] = "active"]
    /\ \/ kind[r] = "audio" /\ End(q) /\ UNCHANGED micCount
       \/ /\ kind[r] = "video"
          /\ micCount' = [micCount EXCEPT ![r] = call[q].n]
          /\ Go(q, "reseedClear")
    /\ UNCHANGED <<adminUserIds, blockedUserIds, version, presenceVars, seats>>

ReseedClear(q) ==
    LET r == call[q].room IN
    /\ At(q, "reseedClear")
    /\ SetSeats(r, [i \in DOMAIN seats[r] |-> IF i <= call[q].n THEN EmptySeat ELSE seats[r][i]])
    /\ Go(q, "reseedDrop")
    /\ UNCHANGED <<roomVars, presenceVars>>

ReseedDrop(q) ==
    LET r == call[q].room IN
    /\ At(q, "reseedDrop")
    /\ SetSeats(r, without(seats[r], {i \in SeatIndex : i > call[q].n}))
    /\ Go(q, "reseedFill")
    /\ UNCHANGED <<roomVars, presenceVars>>

\* Finds the missing seats and inserts them, here in one step.
ReseedFill(q) ==
    LET r == call[q].room IN
    /\ At(q, "reseedFill")
    /\ SetSeats(r, withEmpty(seats[r], 0 .. call[q].n))
    /\ End(q)
    /\ UNCHANGED <<roomVars, presenceVars>>

------------------------------------------------------------------------------
\* enter.

\* The owner's entry reopens a closed room.
EnterRead(q, c) ==
    /\ Asks(c, "enter")
    /\ \/ status[c.room] = "closed" /\ isOwner(c) /\ Start(q, c, "enterOpen", Fresh(c.room))
       \/ /\ status[c.room] = "active" /\ c.by \notin blockedUserIds[c.room]
          /\ Start(q, c, "enterPrior", Fresh(c.room))
    /\ UNCHANGED <<roomVars, presenceVars, seats>>

EnterOpen(q) ==
    /\ At(q, "enterOpen")
    /\ status' = [status EXCEPT ![call[q].room] = "active"]
    /\ Go(q, "enterPrior")
    /\ UNCHANGED <<micCount, adminUserIds, blockedUserIds, version, presenceVars, seats>>

\* The rooms the user is still a member of are left first, one by one.
EnterPrior(q) ==
    /\ At(q, "enterPrior")
    /\ Keep(q, "enterLeave", [job[q] EXCEPT
          !.rooms = {r \in Rooms \ {call[q].room} : call[q].by \in members[r]}])
    /\ UNCHANGED <<roomVars, presenceVars, seats>>

\* leave(prior): a removed room throws, and the error is swallowed.
EnterLeave(q) ==
    /\ At(q, "enterLeave")
    /\ \/ job[q].rooms = {} /\ Keep(q, "enterFind", Fresh(call[q].room))
       \/ \E r \in job[q].rooms :
             LET j == [job[q] EXCEPT !.rooms = @ \ {r}] IN
             IF exists(r)
             THEN Keep(q, "leaveDelete", [j EXCEPT !.in = r, !.status = status[r]])
             ELSE Keep(q, "enterLeave", j)
    /\ UNCHANGED <<roomVars, presenceVars, seats>>

EnterFind(q) ==
    /\ At(q, "enterFind")
    /\ Go(q, IF call[q].by \in members[call[q].room] THEN "enterTouch" ELSE "enterCreate")
    /\ UNCHANGED <<roomVars, presenceVars, seats>>

\* A row deleted in between makes the save fail.
EnterTouch(q) ==
    LET r == call[q].room IN
    /\ At(q, "enterTouch")
    /\ hostSeen' = [hostSeen EXCEPT ![r] = @ \/ (isOwner(call[q]) /\ ownerId[r] \in members[r])]
    /\ End(q)
    /\ UNCHANGED <<roomVars, viewerCount, members, recounted, seats>>

\* A row created in between makes the insert fail.
EnterCreate(q) ==
    LET r == call[q].room IN
    /\ At(q, "enterCreate")
    /\ \/ /\ call[q].by \notin members[r]
          /\ members' = [members EXCEPT ![r] = @ \cup {call[q].by}]
          /\ hostSeen' = [hostSeen EXCEPT ![r] = @ \/ isOwner(call[q])]
          /\ Go(q, "enterCount")
       \/ call[q].by \in members[r] /\ End(q) /\ UNCHANGED <<members, hostSeen>>
    /\ UNCHANGED <<roomVars, viewerCount, recounted, seats>>

EnterCount(q) ==
    /\ At(q, "enterCount")
    /\ viewerCount' = [viewerCount EXCEPT ![call[q].room] = @ + 1]
    /\ End(q)
    /\ UNCHANGED <<roomVars, members, hostSeen, recounted, seats>>

------------------------------------------------------------------------------
\* leave, and closeRoomOnHostLeave.

LeaveRead(q, c) ==
    /\ Asks(c, "leave") /\ exists(c.room)
    /\ Start(q, c, "leaveDelete", [Fresh(c.room) EXCEPT !.status = status[c.room]])
    /\ UNCHANGED <<roomVars, presenceVars, seats>>

\* The number of deleted rows is not looked at.
MutantLeaveDelete(q) ==
    LET r == job[q].in  u == call[q].by IN
    /\ At(q, "leaveDelete")
    /\ members' = [members EXCEPT ![r] = @ \ {u}]
    /\ hostSeen' = [hostSeen EXCEPT ![r] = @ /\ u # ownerId[r]]
    /\ Go(q, "leaveCount")
    /\ UNCHANGED <<roomVars, viewerCount, recounted, seats>>

LeaveDelete(q) ==
    LET r == job[q].in  u == call[q].by IN
    /\ At(q, "leaveDelete")
    /\ members' = [members EXCEPT ![r] = @ \ {u}]
    /\ hostSeen' = [hostSeen EXCEPT ![r] = @ /\ u # ownerId[r]]
    /\ Go(q, IF u \in members[r] THEN "leaveCount" ELSE "leaveSeats")
    /\ UNCHANGED <<roomVars, viewerCount, recounted, seats>>

LeaveCount(q) ==
    LET r == job[q].in IN
    /\ At(q, "leaveCount")
    /\ viewerCount' = [viewerCount EXCEPT ![r] = IF @ > 0 THEN @ - 1 ELSE @]
    /\ Go(q, "leaveSeats")
    /\ UNCHANGED <<roomVars, members, hostSeen, recounted, seats>>

endsWithHost(r) == kind[r] = "video" \/ audioHostEndsLive

\* The sweep goes on to the next room, or waits for the next tick.
Visit(rs) == Keep(Sweeper, IF rs = {} THEN "idle" ELSE "sweep", [Idle EXCEPT !.rooms = rs])

\* What follows the leave of a room, or the closing of one.
Left(p) ==
    IF p = Sweeper THEN Visit(job[p].rooms)
    ELSE IF call[p].op = "enter" THEN Go(p, "enterLeave")
    ELSE End(p)

LeaveSeats(q) ==
    LET r == job[q].in  u == call[q].by IN
    /\ At(q, "leaveSeats")
    /\ SetSeats(r, vacate(seats[r], heldBy(seats[r], u)))
    /\ IF u = ownerId[r] /\ job[q].status = "active" /\ endsWithHost(r)
       THEN Go(q, "close") ELSE Left(q)
    /\ UNCHANGED <<roomVars, presenceVars>>

Close(p) ==
    LET r == job[p].in IN
    /\ At(p, "close")
    /\ status' = [status EXCEPT ![r] = "closed"]
    /\ viewerCount' = [viewerCount EXCEPT ![r] = 0]
    /\ recounted' = [recounted EXCEPT ![r] = TRUE]
    /\ Go(p, "closeMembers")
    /\ UNCHANGED <<micCount, adminUserIds, blockedUserIds, version, members, hostSeen, seats>>

CloseMembers(p) ==
    LET r == job[p].in IN
    /\ At(p, "closeMembers")
    /\ members' = [members EXCEPT ![r] = {}]
    /\ hostSeen' = [hostSeen EXCEPT ![r] = FALSE]
    /\ Go(p, "closeSeats")
    /\ UNCHANGED <<roomVars, viewerCount, recounted, seats>>

CloseSeats(p) ==
    LET r == job[p].in IN
    /\ At(p, "closeSeats")
    /\ SetSeats(r, vacate(seats[r], DOMAIN seats[r]))
    /\ Left(p)
    /\ UNCHANGED <<roomVars, presenceVars>>

------------------------------------------------------------------------------
\* sweepStaleHostRooms, every thirty seconds.

SweepStart ==
    LET live == {r \in Rooms : status[r] = "active" /\ endsWithHost(r)} IN
    /\ At(Sweeper, "idle") /\ live # {}
    /\ Visit(live)
    /\ UNCHANGED <<roomVars, presenceVars, seats>>

\* A host without a presence row is not stale.
MutantSweepRoom ==
    /\ At(Sweeper, "sweep")
    /\ \E r \in job[Sweeper].rooms :
          IF ownerId[r] \notin members[r] \/ hostSeen[r]
          THEN Visit(job[Sweeper].rooms \ {r})
          ELSE Keep(Sweeper, "close", [job[Sweeper] EXCEPT !.in = r, !.rooms = @ \ {r}])
    /\ UNCHANGED <<roomVars, presenceVars, seats>>

\* A room is closed when its host has no presence row, or a stale one.
SweepRoom ==
    /\ At(Sweeper, "sweep")
    /\ \E r \in job[Sweeper].rooms :
          IF ownerId[r] \in members[r] /\ hostSeen[r]
          THEN Visit(job[Sweeper].rooms \ {r})
          ELSE Keep(Sweeper, "close", [job[Sweeper] EXCEPT !.in = r, !.rooms = @ \ {r}])
    /\ UNCHANGED <<roomVars, presenceVars, seats>>

\* heartbeat: only the host's lastSeenAt is ever compared with the grace.
Heartbeat(r) ==
    /\ ownerId[r] \in alive /\ ownerId[r] \in members[r] /\ ~hostSeen[r]
    /\ hostSeen' = [hostSeen EXCEPT ![r] = TRUE]
    /\ UNCHANGED <<roomVars, viewerCount, members, recounted, seats, procVars, envVars>>

\* HOST_HEARTBEAT_GRACE_MS pass without one.
Lapse(r) ==
    /\ hostSeen[r]
    /\ hostSeen' = [hostSeen EXCEPT ![r] = FALSE]
    /\ UNCHANGED <<roomVars, viewerCount, members, recounted, seats, procVars, envVars>>

\* A host's app that is closed or loses the network for good, without a leave.
\* Anybody else who does so is a user that asks for nothing any more.
Vanish(r) ==
    /\ endsWithHost(r) /\ ownerId[r] \in alive
    /\ alive' = alive \ {ownerId[r]}
    /\ UNCHANGED <<roomVars, presenceVars, seats, procVars, stopped, crashes, load>>

------------------------------------------------------------------------------
\* takeSeat, leaveSeat, setSeatLocked, kickFromSeat.

\* Neither the room's status nor a presence row is asked for.
TakeRead(q, c) ==
    /\ Asks(c, "take") /\ exists(c.room)
    /\ c.by \notin blockedUserIds[c.room]
    /\ c.n = 0 => isOwner(c)
    /\ Start(q, c, "takeClaim", Fresh(c.room))
    /\ UNCHANGED <<roomVars, presenceVars, seats>>

\* The filter does not ask for an empty seat.
MutantTakeClaim(q) ==
    LET r == call[q].room  i == call[q].n IN
    /\ At(q, "takeClaim")
    /\ IF i \in DOMAIN seats[r] /\ ~seats[r][i].locked
       THEN /\ seats' = [seats EXCEPT ![r][i].userId = call[q].by]
            /\ Go(q, "takeVacate")
       ELSE End(q) /\ UNCHANGED seats
    /\ UNCHANGED <<roomVars, presenceVars>>

\* The atomic claim: the filter asks for an empty, unlocked seat.
TakeClaim(q) ==
    LET r == call[q].room  i == call[q].n IN
    /\ At(q, "takeClaim")
    /\ IF i \in DOMAIN seats[r] /\ seats[r][i] = EmptySeat
       THEN /\ seats' = [seats EXCEPT ![r][i].userId = call[q].by]
            /\ Go(q, "takeVacate")
       ELSE End(q) /\ UNCHANGED seats
    /\ UNCHANGED <<roomVars, presenceVars>>

\* Only the seats above the new one are looked through.
MutantTakeVacate(q) ==
    LET r == call[q].room IN
    /\ At(q, "takeVacate")
    /\ SetSeats(r, vacate(seats[r], heldBy(seats[r], call[q].by) \ 0 .. call[q].n))
    /\ End(q)
    /\ UNCHANGED <<roomVars, presenceVars>>

\* The user's other seats are found and freed.
TakeVacate(q) ==
    LET r == call[q].room IN
    /\ At(q, "takeVacate")
    /\ SetSeats(r, vacate(seats[r], heldBy(seats[r], call[q].by) \ {call[q].n}))
    /\ End(q)
    /\ UNCHANGED <<roomVars, presenceVars>>

\* One guarded update, after a read that only refuses an unknown room.
LeaveSeat(q, c) ==
    /\ Asks(c, "stand") /\ exists(c.room)
    /\ c.n \in heldBy(seats[c.room], c.by)
    /\ SetSeats(c.room, vacate(seats[c.room], {c.n}))
    /\ Start(q, NoCall, "done", Idle)
    /\ UNCHANGED <<roomVars, presenceVars>>

ModerateRead(q, c) ==
    /\ \/ Asks(c, "lock") \/ Asks(c, "unlock") \/ Asks(c, "kick")
    /\ exists(c.room) /\ isPrivileged(c) /\ c.n # 0
    /\ Start(q, c, c.op, Fresh(c.room))
    /\ UNCHANGED <<roomVars, presenceVars, seats>>

SetSeatLocked(q) ==
    LET r == call[q].room  i == call[q].n IN
    /\ At(q, "lock") \/ At(q, "unlock")
    /\ seats' = IF i \in DOMAIN seats[r]
                THEN [seats EXCEPT ![r][i].locked = (call[q].op = "lock")]
                ELSE seats
    /\ End(q)
    /\ UNCHANGED <<roomVars, presenceVars>>

KickFromSeat(q) ==
    LET r == call[q].room IN
    /\ At(q, "kick")
    /\ SetSeats(r, vacate(seats[r], {call[q].n} \cap DOMAIN seats[r]))
    /\ End(q)
    /\ UNCHANGED <<roomVars, presenceVars>>

------------------------------------------------------------------------------
\* promoteAdmin, demoteAdmin, block, unblock.  mongoose saves a push as $push,
\* and bumps the version; it saves a replaced array as $set of the whole array,
\* if no other array write has bumped the version since the read.

PromoteRead(q, c) ==
    /\ Asks(c, "promote") /\ exists(c.room) /\ isOwner(c) /\ c.target # c.by
    /\ c.target \notin adminUserIds[c.room]
    /\ Start(q, c, "promote", Fresh(c.room))
    /\ UNCHANGED <<roomVars, presenceVars, seats>>

PromoteAdmin(q) ==
    LET r == call[q].room IN
    /\ At(q, "promote")
    /\ adminUserIds' = [adminUserIds EXCEPT ![r] = @ \cup {call[q].target}]
    /\ version' = [version EXCEPT ![r] = @ + 1]
    /\ End(q)
    /\ UNCHANGED <<status, micCount, blockedUserIds, presenceVars, seats>>

ListRead(q, c, op, list) ==
    /\ Asks(c, op) /\ exists(c.room) /\ isOwner(c)
    /\ c.target \in list[c.room]
    /\ Start(q, c, op, [Fresh(c.room) EXCEPT
          !.users = list[c.room] \ {c.target}, !.version = version[c.room]])
    /\ UNCHANGED <<roomVars, presenceVars, seats>>

DemoteRead(q, c) == ListRead(q, c, "demote", adminUserIds)
UnblockRead(q, c) == ListRead(q, c, "unblock", blockedUserIds)

\* The array save without its version check.
MutantSaveList(q, list) ==
    LET r == call[q].room IN
    /\ list' = [list EXCEPT ![r] = job[q].users]
    /\ version' = [version EXCEPT ![r] = @ + 1]
    /\ End(q)

saveList(q, list) ==
    LET r == call[q].room IN
    /\ IF version[r] = job[q].version
       THEN /\ list' = [list EXCEPT ![r] = job[q].users]
            /\ version' = [version EXCEPT ![r] = @ + 1]
       ELSE UNCHANGED <<list, version>>
    /\ End(q)

DemoteAdmin(q) ==
    /\ At(q, "demote") /\ saveList(q, adminUserIds)
    /\ UNCHANGED <<status, micCount, blockedUserIds, presenceVars, seats>>

Unblock(q) ==
    /\ At(q, "unblock") /\ saveList(q, blockedUserIds)
    /\ UNCHANGED <<status, micCount, adminUserIds, presenceVars, seats>>

BlockRead(q, c) ==
    /\ Asks(c, "block") /\ exists(c.room) /\ isPrivileged(c)
    /\ c.target # ownerId[c.room]
    /\ Start(q, c, "block", [Fresh(c.room) EXCEPT !.users = {c.target} \ blockedUserIds[c.room]])
    /\ UNCHANGED <<roomVars, presenceVars, seats>>

\* A target read as blocked already is not pushed again; kickHistory is pushed to
\* in any case, so that the version always moves.
BlockSave(q) ==
    LET r == call[q].room IN
    /\ At(q, "block")
    /\ blockedUserIds' = [blockedUserIds EXCEPT ![r] = @ \cup job[q].users]
    /\ version' = [version EXCEPT ![r] = @ + 1]
    /\ Keep(q, "drop", [job[q] EXCEPT !.todo = {"members", "seats", "count"}])
    /\ UNCHANGED <<status, micCount, adminUserIds, presenceVars, seats>>

------------------------------------------------------------------------------
\* adminRemove and adminRestore, by the operator of the admin panel.

RemoveRead(q, c) ==
    /\ Asks(c, "remove") /\ status[c.room] # "none"
    /\ Start(q, c, "remove", [Fresh(c.room) EXCEPT !.status = status[c.room]])
    /\ UNCHANGED <<roomVars, presenceVars, seats>>

\* A status that was read as removed already is not written again.
RemoveSave(q) ==
    LET r == call[q].room IN
    /\ At(q, "remove")
    /\ status' = [status EXCEPT ![r] = IF job[q].status = "removed" THEN @ ELSE "removed"]
    /\ Keep(q, "drop", [job[q] EXCEPT !.todo = {"members", "seats", "count"}])
    /\ UNCHANGED <<micCount, adminUserIds, blockedUserIds, version, presenceVars, seats>>

RestoreRead(q, c) ==
    /\ Asks(c, "restore") /\ status[c.room] \in {"closed", "removed"}
    /\ Start(q, c, "restore", Fresh(c.room))
    /\ UNCHANGED <<roomVars, presenceVars, seats>>

RestoreSave(q) ==
    /\ At(q, "restore")
    /\ status' = [status EXCEPT ![call[q].room] = "active"]
    /\ End(q)
    /\ UNCHANGED <<micCount, adminUserIds, blockedUserIds, version, presenceVars, seats>>

\* The three writes of a Promise.all, in any order: what a block drops of its
\* target, a removal drops of everybody.
DropMembers(q) ==
    LET r == call[q].room
        gone == IF call[q].op = "block" THEN {call[q].target} ELSE Users IN
    /\ members' = [members EXCEPT ![r] = @ \ gone]
    /\ hostSeen' = [hostSeen EXCEPT ![r] = @ /\ ownerId[r] \notin gone]
    /\ UNCHANGED <<viewerCount, recounted, seats>>

DropSeats(q) ==
    LET r == call[q].room IN
    /\ SetSeats(r, vacate(seats[r], IF call[q].op = "block"
                                    THEN heldBy(seats[r], call[q].target)
                                    ELSE DOMAIN seats[r]))
    /\ UNCHANGED presenceVars

\* A block takes one from the counter whether its target was inside or not.
DropCount(q) ==
    LET r == call[q].room IN
    /\ viewerCount' = [viewerCount EXCEPT ![r] =
          IF call[q].op = "block" /\ @ > 0 THEN @ - 1 ELSE 0]
    /\ recounted' = [recounted EXCEPT ![r] = TRUE]
    /\ UNCHANGED <<members, hostSeen, seats>>

Drop(q) ==
    /\ At(q, "drop")
    /\ \E w \in job[q].todo :
          /\ \/ w = "members" /\ DropMembers(q)
             \/ w = "seats" /\ DropSeats(q)
             \/ w = "count" /\ DropCount(q)
          /\ IF job[q].todo = {w} THEN End(q)
             ELSE Keep(q, "drop", [job[q] EXCEPT !.todo = @ \ {w}])
    /\ UNCHANGED roomVars

------------------------------------------------------------------------------
\* updateSettings with a micCount, and resizeSeats.

ResizeRead(q, c) ==
    /\ Asks(c, "resize") /\ exists(c.room) /\ isOwner(c)
    /\ c.n \in MicCounts /\ c.n # micCount[c.room]
    /\ Start(q, c, "resizeFind", Fresh(c.room))
    /\ UNCHANGED <<roomVars, presenceVars, seats>>

ResizeFind(q) ==
    LET s == seats[call[q].room] IN
    /\ At(q, "resizeFind")
    /\ Keep(q, "resizeWrite", [job[q] EXCEPT
          !.high = Max(occupied(s) \cup {0}), !.top = Max(DOMAIN s \cup {0})])
    /\ UNCHANGED <<roomVars, presenceVars, seats>>

safeCount(q) == Max({call[q].n, job[q].high})

\* The empty seats are not asked to be empty when they are deleted.
MutantResizeWrite(q) ==
    LET r == call[q].room
        new == job[q].top + 1 .. safeCount(q)
        above == {i \in DOMAIN seats[r] : i > safeCount(q)} IN
    /\ At(q, "resizeWrite")
    /\ IF safeCount(q) > job[q].top
       THEN /\ SetSeats(r, insertMany(seats[r], new))
            /\ IF new \cap DOMAIN seats[r] = {} THEN Go(q, "resizeSave") ELSE End(q)
       ELSE /\ SetSeats(r, IF safeCount(q) < job[q].top
                           THEN without(seats[r], above)
                           ELSE seats[r])
            /\ Go(q, "resizeSave")
    /\ UNCHANGED <<roomVars, presenceVars>>

\* Appends seats, or deletes those that are empty when the deletion runs; an
\* insert that hits an index of another request makes the update fail.
ResizeWrite(q) ==
    LET r == call[q].room
        new == job[q].top + 1 .. safeCount(q)
        above == {i \in DOMAIN seats[r] : i > safeCount(q)} IN
    /\ At(q, "resizeWrite")
    /\ IF safeCount(q) > job[q].top
       THEN /\ SetSeats(r, insertMany(seats[r], new))
            /\ IF new \cap DOMAIN seats[r] = {} THEN Go(q, "resizeSave") ELSE End(q)
       ELSE /\ SetSeats(r, IF safeCount(q) < job[q].top
                           THEN without(seats[r], above \ occupied(seats[r]))
                           ELSE seats[r])
            /\ Go(q, "resizeSave")
    /\ UNCHANGED <<roomVars, presenceVars>>

ResizeSave(q) ==
    /\ At(q, "resizeSave")
    /\ micCount' = [micCount EXCEPT ![call[q].room] = call[q].n]
    /\ End(q)
    /\ UNCHANGED <<status, adminUserIds, blockedUserIds, version, presenceVars, seats>>

------------------------------------------------------------------------------
\* A restart of the server ends every request where it is, and the sweep.
Crash ==
    /\ crashes < load.crashes
    /\ crashes' = crashes + 1
    /\ stopped' = {q \in Requests : pc[q] \notin {"idle", "done"}}
    /\ pc' = [pc EXCEPT ![Sweeper] = "idle"]
    /\ job' = [job EXCEPT ![Sweeper] = Idle]
    /\ UNCHANGED <<roomVars, presenceVars, seats, call, alive, load>>

Read(q, c) ==
    \/ OpenRead(q, c) \/ EnterRead(q, c) \/ LeaveRead(q, c) \/ TakeRead(q, c)
    \/ LeaveSeat(q, c) \/ ModerateRead(q, c) \/ PromoteRead(q, c)
    \/ DemoteRead(q, c) \/ UnblockRead(q, c) \/ BlockRead(q, c)
    \/ RemoveRead(q, c) \/ RestoreRead(q, c) \/ ResizeRead(q, c)

Step(q) ==
    \/ OpenCreate(q) \/ OpenSeats(q) \/ OpenSave(q)
    \/ ReseedClear(q) \/ ReseedDrop(q) \/ ReseedFill(q)
    \/ EnterOpen(q) \/ EnterPrior(q) \/ EnterLeave(q) \/ EnterFind(q)
    \/ EnterTouch(q) \/ EnterCreate(q) \/ EnterCount(q)
    \/ LeaveDelete(q) \/ LeaveCount(q) \/ LeaveSeats(q)
    \/ Close(q) \/ CloseMembers(q) \/ CloseSeats(q)
    \/ TakeClaim(q) \/ TakeVacate(q) \/ SetSeatLocked(q) \/ KickFromSeat(q)
    \/ PromoteAdmin(q) \/ DemoteAdmin(q) \/ BlockSave(q) \/ Unblock(q)
    \/ RemoveSave(q) \/ RestoreSave(q) \/ Drop(q)
    \/ ResizeFind(q) \/ ResizeWrite(q) \/ ResizeSave(q)

Sweep ==
    \/ SweepStart \/ SweepRoom
    \/ Close(Sweeper) \/ CloseMembers(Sweeper) \/ CloseSeats(Sweeper)

Next ==
    \/ \E q \in Requests : Step(q) \/ (Turn(q) /\ \E c \in load.calls : Read(q, c))
    \/ Sweep
    \/ \E r \in Rooms : Heartbeat(r) \/ Lapse(r) \/ Vanish(r)
    \/ Crash

\* Rooms that were created and entered, and rooms that were not created yet.
Init ==
    LET open(r) == Inside[r] # {} IN
    /\ status = [r \in Rooms |-> IF open(r) THEN "active" ELSE "none"]
    /\ viewerCount = [r \in Rooms |-> Cardinality(Inside[r])]
    /\ micCount = [r \in Rooms |-> IF open(r) THEN MaxSeat ELSE 0]
    /\ adminUserIds = [r \in Rooms |-> {}]
    /\ blockedUserIds = [r \in Rooms |-> {}]
    /\ version = [r \in Rooms |-> 0]
    /\ members = Inside
    /\ hostSeen = [r \in Rooms |-> ownerId[r] \in Inside[r]]
    /\ recounted = [r \in Rooms |-> FALSE]
    /\ seats = [r \in Rooms |-> IF open(r) THEN [i \in SeatIndex |-> EmptySeat] ELSE <<>>]
    /\ pc = [p \in Process |-> "idle"]
    /\ call = [q \in Requests |-> NoCall]
    /\ job = [p \in Process |-> Idle]
    /\ alive = Users /\ stopped = {} /\ crashes = 0 /\ load \in Workloads

Spec == Init /\ [][Next]_vars

\* The cron fires every thirty seconds, and time passes for a host that sends
\* nothing.  Nobody has to call, and no handler of a call has to go on.
FairSpec ==
    /\ Spec
    /\ WF_vars(Sweep)
    /\ WF_vars(\E r \in Rooms : ownerId[r] \notin alive /\ Lapse(r))

------------------------------------------------------------------------------
\* The properties.

Location == {"idle", "done", "openCreate", "openSeats", "openSave", "reseedClear",
    "reseedDrop", "reseedFill", "enterOpen", "enterPrior", "enterLeave", "enterFind",
    "enterTouch", "enterCreate", "enterCount", "leaveDelete", "leaveCount", "leaveSeats",
    "close", "closeMembers", "closeSeats", "sweep", "takeClaim", "takeVacate", "lock",
    "unlock", "kick", "promote", "demote", "block", "unblock", "remove", "restore",
    "drop", "resizeFind", "resizeWrite", "resizeSave"}

TypeOK ==
    /\ status \in [Rooms -> Status]
    /\ viewerCount \in [Rooms -> Nat] /\ micCount \in [Rooms -> MicCounts \cup {0}]
    /\ adminUserIds \in [Rooms -> SUBSET Users]
    /\ blockedUserIds \in [Rooms -> SUBSET Users]
    /\ version \in [Rooms -> Nat]
    /\ members \in [Rooms -> SUBSET Users]
    /\ hostSeen \in [Rooms -> BOOLEAN] /\ recounted \in [Rooms -> BOOLEAN]
    /\ \A r \in Rooms : /\ DOMAIN seats[r] \subseteq SeatIndex
                        /\ \A i \in DOMAIN seats[r] : seats[r][i] \in Seat
    /\ pc \in [Process -> Location]
    /\ \A q \in Requests : call[q] \in load.calls \cup {NoCall}
    /\ job \in [Process -> Job]
    /\ alive \subseteq Users /\ stopped \subseteq Requests /\ crashes \in 0 .. load.crashes

\* takeSeat's atomic claim and every other write together: a seat never goes
\* straight from one user to another, whoever takes, kicks, blocks or resizes.
NoSeatIsStolen ==
    \A r \in Rooms : \A i \in occupied(seats[r]) \cap DOMAIN seats'[r] :
        seats'[r][i].userId \in {seats[r][i].userId, NoUser}

\* However a user's own taps race, once none of the user's takes is between its
\* claim and its clean-up (or crashed there) the user has one seat of a room.
OneSeatEach ==
    \A r \in Rooms : \A u \in Users :
        \/ Cardinality(heldBy(seats[r], u)) <= 1
        \/ \E q \in Requests : /\ pc[q] = "takeVacate"
                               /\ call[q].room = r /\ call[q].by = u

counting(r) == {q \in Requests : pc[q] = "enterCount" /\ call[q].room = r}
leaving(r) == {q \in Requests : pc[q] = "leaveCount" /\ job[q].in = r}

\* Until a block, a closing or a removal resets the counter it never misses
\* anyone: enters and leaves that race may leave it too high, never too low, so
\* that the home page lists every room somebody is in.
NobodyUncounted ==
    /\ TypeOK
    /\ \A r \in Rooms : recounted[r] \/
          viewerCount[r] + Cardinality(counting(r))
              >= Cardinality(members[r]) + Cardinality(leaving(r))

\* resizeSeats never destroys an occupied seat, also not one taken since it read
\* the seats; only the new layout of a reopened video room does.
OccupiedSeatsSurvive ==
    \A r \in Rooms :
        \/ occupied(seats[r]) \subseteq DOMAIN seats'[r]
        \/ \E q \in Requests : pc[q] = "reseedDrop" /\ call[q].room = r

\* An occupied seat changes hands only by becoming free.
SeatsKeepTheirUsers == [][NoSeatIsStolen /\ OccupiedSeatsSurvive]_vars

by(q, op, r) == pc[q] # pc'[q] /\ call[q].op = op /\ call[q].room = r

\* Two array saves that race lose nothing: nobody stops being an admin or being
\* blocked but by a demotion or an unblocking of that very user.
ListsLoseOnlyTheTarget ==
    [][\A r \in Rooms :
          /\ \A u \in adminUserIds[r] \ adminUserIds'[r] :
                \E q \in Requests : by(q, "demote", r) /\ call[q].target = u
          /\ \A u \in blockedUserIds[r] \ blockedUserIds'[r] :
                \E q \in Requests : by(q, "unblock", r) /\ call[q].target = u]_vars

\* The sweeper's purpose: nobody stays in the frozen room of a host who is gone,
\* crashes of the server included.
AbandonedRoomsClose ==
    \A r \in Rooms :
        (ownerId[r] \notin alive /\ status[r] = "active" /\ endsWithHost(r))
            ~> status[r] # "active"
==============================================================================
