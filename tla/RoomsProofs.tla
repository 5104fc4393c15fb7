------------------------------ MODULE RoomsProofs ------------------------------
(***************************************************************************)
(* Theorems about the seats, the lists and the viewer counter of Rooms,    *)
(* for every set of rooms, users and workloads, however many requests,     *)
(* restarts and sweeps there are.                                          *)
(***************************************************************************)
EXTENDS Rooms, SumProofs, TLAPS

\* What a seat's document looks like, whoever sits there.
IsSeat(s) == s = [userId |-> s.userId, locked |-> s.locked]
AllSeats(s) == \A i \in DOMAIN s : IsSeat(s[i])

SeatInv ==
    /\ seats = [r \in Rooms |-> seats[r]]
    /\ \A r \in Rooms : AllSeats(seats[r])

\* From s to t nobody on a seat is replaced by somebody else, or loses the seat itself.
Holds(s, t) ==
    \A i \in DOMAIN s :
        s[i].userId # NoUser /\ i \in DOMAIN t => t[i].userId \in {s[i].userId, NoUser}
Covers(s, t) == \A i \in DOMAIN s : s[i].userId # NoUser => i \in DOMAIN t

\* A step that is good for the seats of one room; the reseeding may drop some.
GoodFor(r, s, t) ==
    /\ AllSeats(t) /\ Holds(s, t)
    /\ \/ Covers(s, t)
       \/ \E q \in Requests : pc[q] = "reseedDrop" /\ call[q].room = r

GoodStep ==
    \/ seats' = seats
    \/ \E r, t : /\ seats' = [seats EXCEPT ![r] = t]
                 /\ AllSeats(seats[r]) => GoodFor(r, seats[r], t)

------------------------------------------------------------------------------
\* What the helpers on seats do.

LEMMA VacateIsGood ==
    ASSUME NEW r, NEW s, NEW I, AllSeats(s)
    PROVE  GoodFor(r, s, vacate(s, I))
    <1> DEFINE t == vacate(s, I)
    <1>1. DOMAIN t = DOMAIN s
        BY DEF vacate
    <1>2. ASSUME NEW i \in DOMAIN s
          PROVE  /\ t[i] = [userId |-> t[i].userId, locked |-> t[i].locked]
                 /\ t[i].userId \in {s[i].userId, NoUser}
        <2>1. s[i] = [userId |-> s[i].userId, locked |-> s[i].locked]
            BY DEF AllSeats, IsSeat
        <2>2. CASE i \in I
            <3>1. t[i] = [s[i] EXCEPT !.userId = NoUser]
                BY <2>2 DEF vacate
            <3>2. t[i] = [userId |-> NoUser, locked |-> s[i].locked]
                BY <2>1, <3>1
            <3> QED  BY <3>2
        <2>3. CASE i \notin I
            BY <2>1, <2>3 DEF vacate
        <2> QED  BY <2>2, <2>3
    <1> HIDE DEF t
    <1>3. GoodFor(r, s, t)
        BY <1>1, <1>2 DEF GoodFor, AllSeats, IsSeat, Holds, Covers
    <1> QED  BY <1>3 DEF t

LEMMA EmptyIsSeat == IsSeat(EmptySeat) /\ EmptySeat.userId = NoUser
    BY DEF IsSeat, EmptySeat

LEMMA FillIsGood ==
    ASSUME NEW r, NEW s, NEW I, AllSeats(s)
    PROVE  GoodFor(r, s, withEmpty(s, I)) /\ GoodFor(r, s, insertMany(s, I))
    <1>1. ASSUME NEW J  PROVE GoodFor(r, s, withEmpty(s, J))
        BY EmptyIsSeat DEF withEmpty, GoodFor, AllSeats, Holds, Covers
    <1> QED  BY <1>1 DEF insertMany

\* A seat that was free is taken, or a seat is locked or unlocked.
LEMMA OneSeatIsGood ==
    ASSUME NEW r, NEW s, AllSeats(s), NEW i \in DOMAIN s, NEW new, IsSeat(new),
           s[i].userId = NoUser \/ new.userId = s[i].userId
    PROVE  GoodFor(r, s, [s EXCEPT ![i] = new])
    BY DEF GoodFor, AllSeats, Holds, Covers

------------------------------------------------------------------------------
\* Every action is good for the seats.

LEMMA ReadsAreGood ==
    ASSUME NEW q \in Requests, NEW c, Read(q, c)
    PROVE  GoodStep
    <1>1. CASE LeaveSeat(q, c)
        BY <1>1, VacateIsGood DEF LeaveSeat, SetSeats, GoodStep
    <1>2. CASE ~LeaveSeat(q, c)
        <2>1. \/ OpenRead(q, c) \/ EnterRead(q, c) \/ LeaveRead(q, c) \/ TakeRead(q, c)
              \/ ModerateRead(q, c) \/ PromoteRead(q, c) \/ DemoteRead(q, c)
              \/ UnblockRead(q, c) \/ BlockRead(q, c) \/ RemoveRead(q, c)
              \/ RestoreRead(q, c) \/ ResizeRead(q, c)
            BY <1>2 DEF Read
        <2>2. seats' = seats
            BY <2>1 DEF OpenRead, EnterRead, LeaveRead, TakeRead, ModerateRead, PromoteRead,
                        DemoteRead, UnblockRead, ListRead, BlockRead, RemoveRead, RestoreRead,
                        ResizeRead
        <2> QED  BY <2>2 DEF GoodStep
    <1> QED  BY <1>1, <1>2

\* createOrGetOwn.
LEMMA OpeningIsGood ==
    ASSUME NEW q \in Requests, OpenSeats(q) \/ ReseedClear(q) \/ ReseedDrop(q) \/ ReseedFill(q)
    PROVE  GoodStep
    <1> DEFINE r == call[q].room
               s == seats[r]
    <1>1. CASE OpenSeats(q) \/ ReseedFill(q)
        BY <1>1, FillIsGood DEF OpenSeats, ReseedFill, SetSeats, GoodStep
    <1>2. CASE ReseedClear(q)
        <2> DEFINE t == [i \in DOMAIN s |-> IF i <= call[q].n THEN EmptySeat ELSE s[i]]
        <2>1. seats' = [seats EXCEPT ![r] = t]
            BY <1>2 DEF ReseedClear, SetSeats
        <2>2. AllSeats(s) => GoodFor(r, s, t)
            BY EmptyIsSeat DEF GoodFor, AllSeats, Holds, Covers
        <2> QED  BY <2>1, <2>2 DEF GoodStep
    <1>3. CASE ReseedDrop(q)
        <2> DEFINE t == without(s, {i \in SeatIndex : i > call[q].n})
        <2>1. seats' = [seats EXCEPT ![r] = t] /\ pc[q] = "reseedDrop"
            BY <1>3 DEF ReseedDrop, SetSeats, At
        <2>2. AllSeats(s) => GoodFor(r, s, t)
            BY <2>1 DEF GoodFor, AllSeats, Holds, without
        <2> HIDE DEF t
        <2> QED  BY <2>1, <2>2 DEF GoodStep
    <1> QED  BY <1>1, <1>2, <1>3

\* The claim finds the seat free.
LEMMA TakingIsGood ==
    ASSUME NEW q \in Requests, TakeClaim(q)
    PROVE  GoodStep
    <1> DEFINE r == call[q].room
               i == call[q].n
               s == seats[r]
               new == [userId |-> call[q].by, locked |-> s[i].locked]
    <1>1. CASE seats' = seats
        BY <1>1 DEF GoodStep
    <1>2. CASE i \in DOMAIN s /\ s[i] = EmptySeat
        <2>1. seats' = [seats EXCEPT ![r] = [s EXCEPT ![i] = [s[i] EXCEPT !.userId = call[q].by]]]
            BY <1>2 DEF TakeClaim
        <2>2. [s[i] EXCEPT !.userId = call[q].by] = new
            <3>1. s[i] = [userId |-> s[i].userId, locked |-> s[i].locked]
                BY <1>2, EmptyIsSeat DEF IsSeat
            <3> HIDE DEF r, i, s
            <3> QED  BY <3>1
        <2>3. IsSeat(new) /\ s[i].userId = NoUser
            BY <1>2, EmptyIsSeat DEF IsSeat
        <2> HIDE DEF new, r, i, s
        <2>4. AllSeats(s) => GoodFor(r, s, [s EXCEPT ![i] = new])
            BY <1>2, <2>3, OneSeatIsGood
        <2> QED  BY <2>1, <2>2, <2>4 DEF GoodStep, s
    <1> QED  BY <1>1, <1>2 DEF TakeClaim

LEMMA LockingIsGood ==
    ASSUME NEW q \in Requests, SetSeatLocked(q)
    PROVE  GoodStep
    <1> DEFINE r == call[q].room
               i == call[q].n
               s == seats[r]
               shut == (call[q].op = "lock")
               new == [userId |-> s[i].userId, locked |-> shut]
    <1>1. CASE seats' = seats
        BY <1>1 DEF GoodStep
    <1>2. CASE i \in DOMAIN s
        <2>1. seats' = [seats EXCEPT ![r] = [s EXCEPT ![i] = [s[i] EXCEPT !.locked = shut]]]
            BY <1>2 DEF SetSeatLocked
        <2>2. AllSeats(s) => [s[i] EXCEPT !.locked = shut] = new
            <3> SUFFICES ASSUME AllSeats(s)  PROVE [s[i] EXCEPT !.locked = shut] = new
                OBVIOUS
            <3>1. s[i] = [userId |-> s[i].userId, locked |-> s[i].locked]
                BY <1>2 DEF AllSeats, IsSeat
            <3> HIDE DEF s, i, r, shut
            <3> QED  BY <3>1
        <2>3. IsSeat(new) /\ new.userId = s[i].userId
            BY DEF IsSeat
        <2> HIDE DEF new, r, i, s, shut
        <2>4. AllSeats(s) => GoodFor(r, s, [s EXCEPT ![i] = new])
            BY <1>2, <2>3, OneSeatIsGood
        <2>5. AllSeats(s) => GoodFor(r, s, [s EXCEPT ![i] = [s[i] EXCEPT !.locked = shut]])
            BY <2>2, <2>4
        <2> QED  BY <2>1, <2>5 DEF GoodStep, s
    <1> QED  BY <1>1, <1>2 DEF SetSeatLocked

\* The updates that only free seats: leaving, closing, kicking, blocking, removing.
LEMMA VacatingIsGood ==
    ASSUME NEW p, LeaveSeats(p) \/ CloseSeats(p) \/ TakeVacate(p) \/ KickFromSeat(p) \/ Drop(p)
    PROVE  GoodStep
    <1>1. ASSUME NEW r, NEW I, seats' = [seats EXCEPT ![r] = vacate(seats[r], I)]
          PROVE  GoodStep
        BY <1>1, VacateIsGood DEF GoodStep
    <1>2. CASE LeaveSeats(p) \/ CloseSeats(p)
        BY <1>1, <1>2 DEF LeaveSeats, CloseSeats, SetSeats
    <1>3. CASE TakeVacate(p) \/ KickFromSeat(p)
        BY <1>1, <1>3 DEF TakeVacate, KickFromSeat, SetSeats
    <1>4. CASE Drop(p)
        <2>1. CASE seats' = seats
            BY <2>1 DEF GoodStep
        <2>2. CASE DropSeats(p)
            BY <1>1, <2>2 DEF DropSeats, SetSeats
        <2> QED  BY <1>4, <2>1, <2>2 DEF Drop, DropMembers, DropCount
    <1> QED  BY <1>2, <1>3, <1>4

\* The deletion looks again at what is empty.
LEMMA ResizingIsGood ==
    ASSUME NEW q \in Requests, ResizeWrite(q)
    PROVE  GoodStep
    <1> DEFINE r == call[q].room
               s == seats[r]
               above == {i \in DOMAIN s : i > safeCount(q)}
               t == without(s, above \ occupied(s))
    <1>1. CASE seats' = [seats EXCEPT ![r] = s]
        BY <1>1 DEF GoodStep, GoodFor, Holds, Covers
    <1>2. ASSUME NEW I, seats' = [seats EXCEPT ![r] = insertMany(s, I)]
          PROVE  GoodStep
        BY <1>2, FillIsGood DEF GoodStep
    <1>3. CASE seats' = [seats EXCEPT ![r] = t]
        <2>1. AllSeats(s) => GoodFor(r, s, t)
            BY DEF GoodFor, AllSeats, Holds, Covers, without, occupied
        <2> HIDE DEF t
        <2> QED  BY <1>3, <2>1 DEF GoodStep
    <1> QED  BY <1>1, <1>2, <1>3 DEF ResizeWrite, SetSeats

LEMMA NextIsGood == [Next]_vars => GoodStep
    <1> SUFFICES ASSUME [Next]_vars  PROVE GoodStep
        OBVIOUS
    <1>1. ASSUME seats' = seats  PROVE GoodStep
        BY <1>1 DEF GoodStep
    <1>2. ASSUME NEW q \in Requests, NEW c, Read(q, c)  PROVE GoodStep
        BY <1>2, ReadsAreGood
    <1>3. ASSUME NEW q \in Requests,
                 \/ OpenCreate(q) \/ OpenSave(q)
                 \/ EnterOpen(q) \/ EnterPrior(q) \/ EnterLeave(q) \/ EnterFind(q)
                 \/ EnterTouch(q) \/ EnterCreate(q) \/ EnterCount(q)
                 \/ LeaveDelete(q) \/ LeaveCount(q) \/ Close(q) \/ CloseMembers(q)
          PROVE  seats' = seats
        BY <1>3 DEF OpenCreate, OpenSave, EnterOpen, EnterPrior, EnterLeave, EnterFind,
                    EnterTouch, EnterCreate, EnterCount, LeaveDelete, LeaveCount, Close,
                    CloseMembers
    <1>4. ASSUME NEW q \in Requests,
                 \/ PromoteAdmin(q) \/ DemoteAdmin(q) \/ BlockSave(q) \/ Unblock(q)
                 \/ RemoveSave(q) \/ RestoreSave(q) \/ ResizeFind(q) \/ ResizeSave(q)
          PROVE  seats' = seats
        BY <1>4 DEF PromoteAdmin, DemoteAdmin, BlockSave, Unblock, RemoveSave, RestoreSave,
                    ResizeFind, ResizeSave
    <1>5. ASSUME NEW q \in Requests, Step(q)  PROVE GoodStep
        BY <1>1, <1>3, <1>4, <1>5, OpeningIsGood, TakingIsGood, LockingIsGood, VacatingIsGood,
           ResizingIsGood DEF Step
    <1>6. CASE Sweep
        BY <1>1, <1>6, VacatingIsGood DEF Sweep, SweepStart, SweepRoom, Close, CloseMembers
    <1>7. CASE (\E r \in Rooms : Heartbeat(r) \/ Lapse(r) \/ Vanish(r)) \/ Crash
        BY <1>1, <1>7 DEF Heartbeat, Lapse, Vanish, Crash
    <1>8. CASE UNCHANGED vars
        BY <1>1, <1>8 DEF vars
    <1> QED  BY <1>2, <1>5, <1>6, <1>7, <1>8 DEF Next

\* What a good step leaves of one room.
LEMMA GoodRoom ==
    ASSUME SeatInv, GoodStep, NEW r \in Rooms
    PROVE  GoodFor(r, seats[r], seats'[r])
    <1>1. AllSeats(seats[r])
        BY DEF SeatInv
    <1>2. CASE seats'[r] = seats[r]
        BY <1>1, <1>2 DEF GoodFor, Holds, Covers
    <1>3. CASE seats'[r] # seats[r]
        <2>1. PICK x, t : /\ seats' = [seats EXCEPT ![x] = t]
                          /\ AllSeats(seats[x]) => GoodFor(x, seats[x], t)
            BY <1>3 DEF GoodStep
        <2>2. x = r /\ seats'[r] = t
            BY <1>3, <2>1 DEF SeatInv
        <2> QED  BY <1>1, <2>1, <2>2
    <1> QED  BY <1>2, <1>3

LEMMA NextSeats == SeatInv /\ [Next]_vars => SeatInv'
    <1> SUFFICES ASSUME SeatInv, [Next]_vars  PROVE SeatInv'
        OBVIOUS
    <1>1. GoodStep
        BY NextIsGood
    <1>2. \A r \in Rooms : AllSeats(seats'[r])
        BY <1>1, GoodRoom DEF GoodFor
    <1>3. seats' = [r \in Rooms |-> seats'[r]]
        <2>1. CASE seats' = seats
            BY <2>1 DEF SeatInv
        <2>2. ASSUME NEW x, NEW t, seats' = [seats EXCEPT ![x] = t]
              PROVE  seats' = [r \in Rooms |-> seats'[r]]
            BY <2>2 DEF SeatInv
        <2> QED  BY <1>1, <2>1, <2>2 DEF GoodStep
    <1> QED  BY <1>2, <1>3 DEF SeatInv

LEMMA InitSeats == Init => SeatInv
    <1> SUFFICES ASSUME Init  PROVE SeatInv
        OBVIOUS
    <1>1. seats = [r \in Rooms |-> IF Inside[r] # {} THEN [i \in SeatIndex |-> EmptySeat]
                                   ELSE <<>>]
        BY DEF Init
    <1>2. DOMAIN <<>> = {}
        OBVIOUS
    <1> QED  BY <1>1, <1>2, EmptyIsSeat DEF SeatInv, AllSeats

\* However takes, kicks, blocks, resizings, closings, sweeps and restarts interleave, nobody
\* who sits is replaced by another, and but for the new layout of a reopened video room no
\* occupied seat disappears.
THEOREM SeatsAreKept == Spec => SeatsKeepTheirUsers
    <1>1. SeatInv /\ [Next]_vars => [NoSeatIsStolen /\ OccupiedSeatsSurvive]_vars
        <2> SUFFICES ASSUME SeatInv, [Next]_vars  PROVE NoSeatIsStolen /\ OccupiedSeatsSurvive
            OBVIOUS
        <2>1. \A r \in Rooms : GoodFor(r, seats[r], seats'[r])
            BY NextIsGood, GoodRoom
        <2>2. NoSeatIsStolen
            BY <2>1 DEF NoSeatIsStolen, GoodFor, Holds, occupied
        <2>3. OccupiedSeatsSurvive
            BY <2>1 DEF OccupiedSeatsSurvive, GoodFor, Covers, occupied
        <2> QED  BY <2>2, <2>3
    <1> QED  BY <1>1, InitSeats, NextSeats, PTL DEF Spec, SeatsKeepTheirUsers

------------------------------------------------------------------------------
\* The lists of admins and of blocked users.

\* q has read the list it is about to replace: either the room's version has moved since,
\* or nothing but the target is missing from what q will write.
HasRead(q, op, list) ==
    LET r == call[q].room IN
    pc[q] = op =>
        /\ call[q].op = op
        /\ r \in Rooms =>
              /\ job[q].version \in Nat /\ job[q].version <= version[r]
              /\ job[q].version = version[r] => list[r] \ {call[q].target} \subseteq job[q].users

Tables ==
    /\ DOMAIN pc = Process /\ DOMAIN call = Requests /\ DOMAIN job = Process
    /\ DOMAIN adminUserIds = Rooms /\ DOMAIN blockedUserIds = Rooms
    /\ version \in [Rooms -> Nat]

ListInv ==
    /\ Tables
    /\ \A q \in Requests : HasRead(q, "demote", adminUserIds) /\ HasRead(q, "unblock", blockedUserIds)

\* Process p goes to a place where it does not hold a list.
Moves(p) ==
    /\ DOMAIN pc' = DOMAIN pc /\ DOMAIN call' = DOMAIN call /\ DOMAIN job' = DOMAIN job
    /\ \A x \in DOMAIN pc : x # p => pc'[x] = pc[x]
    /\ \A x \in DOMAIN call : x # p => call'[x] = call[x]
    /\ \A x \in DOMAIN job : x # p => job'[x] = job[x]
    /\ p \in DOMAIN pc => pc'[p] \notin {"demote", "unblock"}

\* The lists of room r are as they were, or its version has moved.
Tracked(r) ==
    \/ version'[r] > version[r]
    \/ /\ version'[r] = version[r]
       /\ adminUserIds'[r] = adminUserIds[r] /\ blockedUserIds'[r] = blockedUserIds[r]

lists == <<adminUserIds, blockedUserIds, version>>

LEMMA RequestsAreProcesses == Requests \subseteq Process /\ Sweeper \notin Requests
    BY DEF Process, Requests, Sweeper

LEMMA ListsKeep ==
    ASSUME ListInv, Tables', \A r \in Rooms : Tracked(r),
           \A q \in Requests : pc'[q] \in {"demote", "unblock"} =>
               pc'[q] = pc[q] /\ call'[q] = call[q] /\ job'[q] = job[q]
    PROVE  ListInv'
    <1>1. ASSUME NEW q \in Requests, pc'[q] = "demote"
          PROVE  HasRead(q, "demote", adminUserIds)'
        <2>1. /\ pc[q] = "demote" /\ call'[q] = call[q] /\ job'[q] = job[q]
              /\ HasRead(q, "demote", adminUserIds)
            BY <1>1 DEF ListInv
        <2> QED  BY <2>1 DEF HasRead, Tracked, ListInv, Tables
    <1>2. ASSUME NEW q \in Requests, pc'[q] = "unblock"
          PROVE  HasRead(q, "unblock", blockedUserIds)'
        <2>1. /\ pc[q] = "unblock" /\ call'[q] = call[q] /\ job'[q] = job[q]
              /\ HasRead(q, "unblock", blockedUserIds)
            BY <1>2 DEF ListInv
        <2> QED  BY <2>1 DEF HasRead, Tracked, ListInv, Tables
    <1>3. \A q \in Requests : HasRead(q, "demote", adminUserIds)'
                                /\ HasRead(q, "unblock", blockedUserIds)'
        BY <1>1, <1>2 DEF HasRead
    <1> QED  BY <1>3 DEF ListInv

\* A process that moves without touching the lists.
LEMMA MovesKeepLists ==
    ASSUME ListInv, NEW p \in Process, Moves(p), UNCHANGED lists
    PROVE  ListInv'
    <1>1. Tables' /\ \A r \in Rooms : Tracked(r)
        BY DEF Moves, ListInv, Tables, Tracked, lists
    <1>2. \A q \in Requests : pc'[q] \in {"demote", "unblock"} =>
             pc'[q] = pc[q] /\ call'[q] = call[q] /\ job'[q] = job[q]
        BY RequestsAreProcesses DEF Moves, ListInv, Tables
    <1> QED  BY <1>1, <1>2, ListsKeep

\* demoteAdmin and unblock read the list and the version together.
LEMMA ListReadKeeps ==
    ASSUME ListInv, NEW q \in Requests, NEW c, DemoteRead(q, c) \/ UnblockRead(q, c)
    PROVE  ListInv'
    <1>1. PICK op \in {"demote", "unblock"} :
             ListRead(q, c, op, IF op = "demote" THEN adminUserIds ELSE blockedUserIds)
        BY DEF DemoteRead, UnblockRead
    <1> DEFINE list == IF op = "demote" THEN adminUserIds ELSE blockedUserIds
               j == [Fresh(c.room) EXCEPT !.users = list[c.room] \ {c.target},
                                          !.version = version[c.room]]
    <1>2. /\ call' = [call EXCEPT ![q] = c] /\ pc' = [pc EXCEPT ![q] = op]
          /\ job' = [job EXCEPT ![q] = j] /\ UNCHANGED lists /\ c.op = op
        BY <1>1 DEF ListRead, Start, Asks, roomVars, lists
    <1>3. j.users = list[c.room] \ {c.target} /\ j.version = version[c.room]
        BY DEF Fresh
    <1> HIDE DEF j
    <1>4. Tables'
        BY <1>2 DEF ListInv, Tables, lists
    <1>5. /\ call'[q] = c /\ pc'[q] = op /\ job'[q] = j
          /\ \A p \in Requests \ {q} : call'[p] = call[p] /\ pc'[p] = pc[p] /\ job'[p] = job[p]
        BY <1>2, RequestsAreProcesses DEF ListInv, Tables
    <1>6. HasRead(q, "demote", adminUserIds)' /\ HasRead(q, "unblock", blockedUserIds)'
        BY <1>2, <1>3, <1>5 DEF HasRead, ListInv, Tables, lists
    <1>7. \A p \in Requests \ {q} :
             HasRead(p, "demote", adminUserIds)' /\ HasRead(p, "unblock", blockedUserIds)'
        BY <1>2, <1>5 DEF HasRead, ListInv, lists
    <1> QED  BY <1>4, <1>6, <1>7 DEF ListInv

LEMMA OtherReadsMove ==
    ASSUME NEW q \in Requests, NEW c, Read(q, c), ~DemoteRead(q, c), ~UnblockRead(q, c)
    PROVE  Moves(q) /\ UNCHANGED lists
    <1>1. ASSUME NEW d, NEW l, NEW j, l \notin {"demote", "unblock"}, Start(q, d, l, j)
          PROVE  Moves(q)
        BY <1>1 DEF Start, Moves
    <1> USE DEF roomVars, lists
    <1>2. CASE OpenRead(q, c) \/ EnterRead(q, c)
        BY <1>1, <1>2 DEF OpenRead, EnterRead
    <1>3. CASE TakeRead(q, c) \/ LeaveSeat(q, c) \/ PromoteRead(q, c)
        BY <1>3 DEF TakeRead, LeaveSeat, PromoteRead, Start, Moves
    <1>4. CASE LeaveRead(q, c) \/ BlockRead(q, c)
        BY <1>4 DEF LeaveRead, BlockRead, Start, Moves
    <1>5. CASE ModerateRead(q, c)
        BY <1>1, <1>5 DEF ModerateRead, Asks
    <1>6. CASE RemoveRead(q, c) \/ RestoreRead(q, c) \/ ResizeRead(q, c)
        BY <1>6 DEF RemoveRead, RestoreRead, ResizeRead, Start, Moves
    <1> QED  BY <1>2, <1>3, <1>4, <1>5, <1>6 DEF Read

\* What leaves the lists alone: rooms, presence, seats, sweeps.
LEMMA LeftMoves == ASSUME NEW p, Left(p) PROVE Moves(p)
    BY DEF Left, Visit, Go, Keep, End, Moves

LEMMA OthersMove ==
    ASSUME NEW p,
           \/ OpenCreate(p) \/ OpenSeats(p) \/ OpenSave(p)
           \/ ReseedClear(p) \/ ReseedDrop(p) \/ ReseedFill(p)
           \/ EnterOpen(p) \/ EnterPrior(p) \/ EnterLeave(p) \/ EnterFind(p)
           \/ EnterTouch(p) \/ EnterCreate(p) \/ EnterCount(p)
           \/ LeaveDelete(p) \/ LeaveCount(p) \/ LeaveSeats(p)
           \/ Close(p) \/ CloseMembers(p) \/ CloseSeats(p)
           \/ TakeClaim(p) \/ TakeVacate(p) \/ SetSeatLocked(p) \/ KickFromSeat(p)
           \/ RemoveSave(p) \/ RestoreSave(p) \/ Drop(p)
           \/ ResizeFind(p) \/ ResizeWrite(p) \/ ResizeSave(p)
    PROVE  Moves(p) /\ UNCHANGED lists
    <1>1. ASSUME NEW l, l \notin {"demote", "unblock"}, Go(p, l)  PROVE Moves(p)
        BY <1>1 DEF Go, Moves
    <1>2. ASSUME NEW l, NEW j, l \notin {"demote", "unblock"}, Keep(p, l, j)  PROVE Moves(p)
        BY <1>2 DEF Keep, Moves
    <1>3. ASSUME End(p)  PROVE Moves(p)
        BY <1>3 DEF End, Moves
    <1> USE DEF roomVars, lists
    <1>4. CASE OpenCreate(p) \/ OpenSeats(p) \/ OpenSave(p)
        BY <1>1, <1>3, <1>4 DEF OpenCreate, OpenSeats, OpenSave
    <1>5. CASE ReseedClear(p) \/ ReseedDrop(p) \/ ReseedFill(p)
        BY <1>1, <1>3, <1>5 DEF ReseedClear, ReseedDrop, ReseedFill
    <1>6. CASE EnterOpen(p) \/ EnterPrior(p) \/ EnterLeave(p) \/ EnterFind(p)
        <2>1. CASE EnterOpen(p) \/ EnterFind(p)
            BY <1>1, <2>1 DEF EnterOpen, EnterFind
        <2>2. CASE EnterPrior(p)
            BY <1>2, <2>2 DEF EnterPrior
        <2>3. CASE EnterLeave(p)
            BY <2>3 DEF EnterLeave, Keep, Moves
        <2> QED  BY <1>6, <2>1, <2>2, <2>3
    <1>7. CASE EnterTouch(p) \/ EnterCreate(p) \/ EnterCount(p)
        BY <1>1, <1>3, <1>7 DEF EnterTouch, EnterCreate, EnterCount
    <1>8. CASE LeaveDelete(p) \/ LeaveCount(p) \/ LeaveSeats(p)
        BY <1>1, <1>8, LeftMoves DEF LeaveDelete, LeaveCount, LeaveSeats
    <1>9. CASE Close(p) \/ CloseMembers(p) \/ CloseSeats(p)
        BY <1>1, <1>9, LeftMoves DEF Close, CloseMembers, CloseSeats
    <1>10. CASE TakeClaim(p) \/ TakeVacate(p) \/ SetSeatLocked(p) \/ KickFromSeat(p)
        BY <1>1, <1>3, <1>10 DEF TakeClaim, TakeVacate, SetSeatLocked, KickFromSeat
    <1>11. CASE RemoveSave(p) \/ RestoreSave(p)
        BY <1>2, <1>3, <1>11 DEF RemoveSave, RestoreSave
    <1>12. CASE Drop(p)
        BY <1>2, <1>3, <1>12 DEF Drop
    <1>13. CASE ResizeFind(p) \/ ResizeWrite(p) \/ ResizeSave(p)
        BY <1>1, <1>2, <1>3, <1>13 DEF ResizeFind, ResizeWrite, ResizeSave
    <1> QED  BY <1>4, <1>5, <1>6, <1>7, <1>8, <1>9, <1>10, <1>11, <1>12, <1>13

\* A list only grows, and the version moves.
LEMMA PushKeeps ==
    ASSUME ListInv, NEW q \in Requests, PromoteAdmin(q) \/ BlockSave(q)
    PROVE  /\ ListInv'
           /\ \A r \in Rooms : /\ adminUserIds[r] \subseteq adminUserIds'[r]
                               /\ blockedUserIds[r] \subseteq blockedUserIds'[r]
    <1> USE DEF ListInv, Tables
    <1>1. /\ version' = [version EXCEPT ![call[q].room] = version[call[q].room] + 1]
          /\ \/ /\ adminUserIds' = [adminUserIds EXCEPT ![call[q].room] =
                                        adminUserIds[call[q].room] \cup {call[q].target}]
                /\ blockedUserIds' = blockedUserIds
             \/ /\ blockedUserIds' = [blockedUserIds EXCEPT ![call[q].room] =
                                        blockedUserIds[call[q].room] \cup job[q].users]
                /\ adminUserIds' = adminUserIds
        BY DEF PromoteAdmin, BlockSave
    <1>2. Moves(q)
        BY DEF PromoteAdmin, BlockSave, End, Keep, Moves
    <1>3. Tables'
        <2>1. version' \in [Rooms -> Nat]
            <3>1. version' = [version EXCEPT ![call[q].room] = version[call[q].room] + 1]
                BY <1>1
            <3>2. CASE call[q].room \in Rooms
                BY <3>1, <3>2
            <3>3. CASE call[q].room \notin Rooms
                BY <3>1, <3>3
            <3> QED  BY <3>2, <3>3
        <2>2. DOMAIN adminUserIds' = Rooms /\ DOMAIN blockedUserIds' = Rooms
            BY <1>1
        <2>3. DOMAIN pc' = Process /\ DOMAIN call' = Requests /\ DOMAIN job' = Process
            BY <1>2 DEF Moves
        <2> QED  BY <2>1, <2>2, <2>3
    <1>4. \A r \in Rooms : Tracked(r)
        BY <1>1 DEF Tracked
    <1>5. \A p \in Requests : pc'[p] \in {"demote", "unblock"} =>
             pc'[p] = pc[p] /\ call'[p] = call[p] /\ job'[p] = job[p]
        BY <1>2, RequestsAreProcesses DEF Moves
    <1>6. \A r \in Rooms : /\ adminUserIds[r] \subseteq adminUserIds'[r]
                           /\ blockedUserIds[r] \subseteq blockedUserIds'[r]
        BY <1>1
    <1>7. ListInv'
        BY <1>3, <1>4, <1>5, ListsKeep
    <1> QED  BY <1>6, <1>7

\* The save of a replaced array: it loses the target, or is refused.
LEMMA SaveKeeps ==
    ASSUME ListInv, NEW q \in Requests, DemoteAdmin(q) \/ Unblock(q)
    PROVE  /\ ListInv'
           /\ \A r \in Rooms :
                 /\ \A u \in adminUserIds[r] \ adminUserIds'[r] :
                       by(q, "demote", r) /\ call[q].target = u
                 /\ \A u \in blockedUserIds[r] \ blockedUserIds'[r] :
                       by(q, "unblock", r) /\ call[q].target = u
    <1> DEFINE x == call[q].room
    <1>1. /\ \/ UNCHANGED lists
             \/ /\ version[x] = job[q].version
                /\ version' = [version EXCEPT ![x] = version[x] + 1]
                /\ \/ /\ adminUserIds' = [adminUserIds EXCEPT ![x] = job[q].users]
                      /\ blockedUserIds' = blockedUserIds /\ pc[q] = "demote"
                   \/ /\ blockedUserIds' = [blockedUserIds EXCEPT ![x] = job[q].users]
                      /\ adminUserIds' = adminUserIds /\ pc[q] = "unblock"
          /\ pc' = [pc EXCEPT ![q] = "done"]
        BY DEF DemoteAdmin, Unblock, saveList, lists, End, At
    <1>2. Moves(q)
        BY DEF DemoteAdmin, Unblock, saveList, End, Moves
    <1>3. Tables'
        BY <1>1, <1>2 DEF Moves, ListInv, Tables, lists
    <1>4. \A r \in Rooms : Tracked(r)
        BY <1>1 DEF Tracked, ListInv, Tables, lists
    <1>5. \A p \in Requests : pc'[p] \in {"demote", "unblock"} =>
             pc'[p] = pc[p] /\ call'[p] = call[p] /\ job'[p] = job[p]
        BY <1>2, RequestsAreProcesses DEF Moves, ListInv, Tables
    <1>6. ListInv'
        BY <1>3, <1>4, <1>5, ListsKeep
    <1>7. pc'[q] = "done"
        BY <1>1, RequestsAreProcesses DEF ListInv, Tables
    <1>8. ASSUME NEW r \in Rooms, NEW u \in adminUserIds[r] \ adminUserIds'[r]
          PROVE  by(q, "demote", r) /\ call[q].target = u
        <2>1. /\ x = r /\ pc[q] = "demote" /\ version[r] = job[q].version
              /\ adminUserIds'[r] = job[q].users
            BY <1>1, <1>8 DEF ListInv, Tables, lists
        <2>2. call[q].op = "demote" /\ adminUserIds[r] \ {call[q].target} \subseteq job[q].users
            BY <2>1 DEF ListInv, HasRead
        <2> QED  BY <1>7, <1>8, <2>1, <2>2 DEF by
    <1>9. ASSUME NEW r \in Rooms, NEW u \in blockedUserIds[r] \ blockedUserIds'[r]
          PROVE  by(q, "unblock", r) /\ call[q].target = u
        <2>1. /\ x = r /\ pc[q] = "unblock" /\ version[r] = job[q].version
              /\ blockedUserIds'[r] = job[q].users
            BY <1>1, <1>9 DEF ListInv, Tables, lists
        <2>2. call[q].op = "unblock" /\ blockedUserIds[r] \ {call[q].target} \subseteq job[q].users
            BY <2>1 DEF ListInv, HasRead
        <2> QED  BY <1>7, <1>9, <2>1, <2>2 DEF by
    <1> QED  BY <1>6, <1>8, <1>9

\* What is neither a read nor a save of a list.
LEMMA RestMoves ==
    ASSUME Sweep \/ (\E r \in Rooms : Heartbeat(r) \/ Lapse(r) \/ Vanish(r)) \/ Crash
           \/ UNCHANGED vars
    PROVE  UNCHANGED lists /\ (Moves(Sweeper) \/ UNCHANGED procVars)
    <1> USE DEF roomVars, lists
    <1>1. CASE SweepStart \/ SweepRoom
        BY <1>1 DEF SweepStart, SweepRoom, Visit, Keep, Moves
    <1>2. CASE Close(Sweeper) \/ CloseMembers(Sweeper) \/ CloseSeats(Sweeper)
        BY <1>2, OthersMove
    <1>3. CASE \E r \in Rooms : Heartbeat(r) \/ Lapse(r) \/ Vanish(r)
        BY <1>3 DEF Heartbeat, Lapse, Vanish
    <1>4. CASE Crash
        BY <1>4 DEF Crash, Moves
    <1>5. CASE UNCHANGED vars
        BY <1>5 DEF vars
    <1> QED  BY <1>1, <1>2, <1>3, <1>4, <1>5 DEF Sweep

\* Every step of the room service, as far as the lists see it.
LEMMA ListStep ==
    ASSUME ListInv, [Next]_vars
    PROVE  \/ UNCHANGED lists /\ ListInv'
           \/ \E q \in Requests : PromoteAdmin(q) \/ BlockSave(q) \/ DemoteAdmin(q) \/ Unblock(q)
    <1>1. ASSUME NEW q \in Requests, NEW c, Read(q, c)
          PROVE  UNCHANGED lists /\ ListInv'
        <2>1. CASE DemoteRead(q, c) \/ UnblockRead(q, c)
            BY <2>1, ListReadKeeps DEF DemoteRead, UnblockRead, ListRead, roomVars, lists
        <2>2. CASE ~DemoteRead(q, c) /\ ~UnblockRead(q, c)
            BY <1>1, <2>2, OtherReadsMove, MovesKeepLists, RequestsAreProcesses
        <2> QED  BY <2>1, <2>2
    <1>2. ASSUME NEW q \in Requests, Step(q),
                 ~(PromoteAdmin(q) \/ BlockSave(q) \/ DemoteAdmin(q) \/ Unblock(q))
          PROVE  UNCHANGED lists /\ ListInv'
        BY <1>2, OthersMove, MovesKeepLists, RequestsAreProcesses DEF Step
    <1>3. ASSUME Sweep \/ (\E r \in Rooms : Heartbeat(r) \/ Lapse(r) \/ Vanish(r)) \/ Crash
                 \/ UNCHANGED vars
          PROVE  UNCHANGED lists /\ ListInv'
        <2>1. Sweeper \in Process
            BY DEF Process
        <2>2. UNCHANGED lists /\ (Moves(Sweeper) \/ UNCHANGED procVars)
            BY <1>3, RestMoves
        <2>3. CASE UNCHANGED procVars
            BY <2>2, <2>3 DEF procVars, lists, ListInv, Tables, HasRead
        <2> QED  BY <2>1, <2>2, <2>3, MovesKeepLists
    <1> QED  BY <1>1, <1>2, <1>3 DEF Next

\* However promotions, demotions, blocks and unblocks of a room overlap, each save loses
\* its own target at most, and none undoes another.
THEOREM ListsAreKept == Spec => ListsLoseOnlyTheTarget
    <1> DEFINE OnlyTheTarget ==
            \A r \in Rooms :
                /\ \A u \in adminUserIds[r] \ adminUserIds'[r] :
                      \E q \in Requests : by(q, "demote", r) /\ call[q].target = u
                /\ \A u \in blockedUserIds[r] \ blockedUserIds'[r] :
                      \E q \in Requests : by(q, "unblock", r) /\ call[q].target = u
    <1>1. Init => ListInv
        <2> SUFFICES ASSUME Init  PROVE ListInv
            OBVIOUS
        <2>1. Tables
            BY DEF Init, Tables
        <2>2. \A q \in Requests : pc[q] = "idle"
            BY RequestsAreProcesses DEF Init
        <2> QED  BY <2>1, <2>2 DEF ListInv, HasRead
    <1>2. ListInv /\ [Next]_vars => ListInv'
        BY ListStep, PushKeeps, SaveKeeps
    <1>3. ListInv /\ [Next]_vars => [OnlyTheTarget]_vars
        <2> SUFFICES ASSUME ListInv, [Next]_vars  PROVE OnlyTheTarget
            OBVIOUS
        <2>1. CASE UNCHANGED lists
            BY <2>1 DEF lists
        <2>2. ASSUME NEW q \in Requests, PromoteAdmin(q) \/ BlockSave(q)
              PROVE  OnlyTheTarget
            BY <2>2, PushKeeps
        <2>3. ASSUME NEW q \in Requests, DemoteAdmin(q) \/ Unblock(q)
              PROVE  OnlyTheTarget
            BY <2>3, SaveKeeps
        <2> QED  BY <2>1, <2>2, <2>3, ListStep
    <1> QED  BY <1>1, <1>2, <1>3, PTL DEF Spec, ListsLoseOnlyTheTarget

------------------------------------------------------------------------------
\* A user has one seat of a room.  Above, seats are not taken from those who sit; here,
\* nobody comes to sit but by a take which has still to free the taker's other seats.

\* From s to t nobody new sits.
Frees(s, t) ==
    \A i \in DOMAIN t : t[i].userId # NoUser => i \in DOMAIN s /\ t[i].userId = s[i].userId

FreeingStep ==
    \/ seats' = seats
    \/ \E r, t : /\ seats' = [seats EXCEPT ![r] = t]
                 /\ AllSeats(seats[r]) => Frees(seats[r], t)

\* q is a take of u's that has its seat and has not freed the others.
Pending(q, r, u) == pc[q] = "takeVacate" /\ call[q].room = r /\ call[q].by = u

AtMostOne(S) == \A i, j \in S : i = j

OneEach ==
    \A r \in Rooms : \A u \in Users :
        AtMostOne(heldBy(seats[r], u)) \/ \E q \in Requests : Pending(q, r, u)

OneInv ==
    /\ SeatInv /\ OneEach
    /\ DOMAIN pc = Process /\ DOMAIN call = Requests

\* Process p moves, and nobody else.
Shifts(p) ==
    /\ DOMAIN pc' = DOMAIN pc /\ DOMAIN call' = DOMAIN call
    /\ \A x \in DOMAIN pc : x # p => pc'[x] = pc[x]
    /\ \A x \in DOMAIN call : x # p => call'[x] = call[x]

\* Nobody stops being a taker.
TakersStay ==
    \A q \in Requests : pc[q] = "takeVacate" => pc'[q] = "takeVacate" /\ call'[q] = call[q]

------------------------------------------------------------------------------
\* The actions but for the two of a take.

LEMMA VacateFrees ==
    ASSUME NEW s, NEW I, AllSeats(s)
    PROVE  Frees(s, vacate(s, I))
    <1> DEFINE t == vacate(s, I)
    <1>1. DOMAIN t = DOMAIN s
        BY DEF vacate
    <1>2. ASSUME NEW i \in DOMAIN s
          PROVE  t[i].userId # NoUser => t[i].userId = s[i].userId
        <2>1. CASE i \in I
            <3>1. s[i] = [userId |-> s[i].userId, locked |-> s[i].locked]
                BY DEF AllSeats, IsSeat
            <3>2. t[i] = [s[i] EXCEPT !.userId = NoUser]
                BY <2>1 DEF vacate
            <3>3. t[i].userId = NoUser
                BY <3>1, <3>2
            <3> QED  BY <3>3
        <2>2. CASE i \notin I
            BY <2>2 DEF vacate
        <2> QED  BY <2>1, <2>2
    <1> HIDE DEF t
    <1>3. Frees(s, t)
        BY <1>1, <1>2 DEF Frees
    <1> QED  BY <1>3 DEF t

LEMMA FillFrees ==
    ASSUME NEW s, NEW I
    PROVE  Frees(s, withEmpty(s, I)) /\ Frees(s, insertMany(s, I))
    <1>1. ASSUME NEW J  PROVE Frees(s, withEmpty(s, J))
        BY EmptyIsSeat DEF withEmpty, Frees
    <1> QED  BY <1>1 DEF insertMany

LEMMA ReadsFree ==
    ASSUME NEW q \in Requests, NEW c, Read(q, c)
    PROVE  FreeingStep /\ Shifts(q)
    <1>1. FreeingStep
        <2>1. CASE LeaveSeat(q, c)
            BY <2>1, VacateFrees DEF LeaveSeat, SetSeats, FreeingStep
        <2>2. CASE ~LeaveSeat(q, c)
            BY <2>2 DEF Read, OpenRead, EnterRead, LeaveRead, TakeRead, ModerateRead, PromoteRead,
                        DemoteRead, UnblockRead, ListRead, BlockRead, RemoveRead, RestoreRead,
                        ResizeRead, FreeingStep
        <2> QED  BY <2>1, <2>2
    <1>2. Shifts(q)
        <2>1. ASSUME NEW d, NEW l, NEW j, Start(q, d, l, j)  PROVE Shifts(q)
            BY <2>1 DEF Start, Shifts
        <2>2. CASE OpenRead(q, c) \/ EnterRead(q, c) \/ TakeRead(q, c) \/ LeaveSeat(q, c)
            BY <2>1, <2>2 DEF OpenRead, EnterRead, TakeRead, LeaveSeat
        <2>3. CASE LeaveRead(q, c) \/ ModerateRead(q, c) \/ PromoteRead(q, c) \/ BlockRead(q, c)
            BY <2>1, <2>3 DEF LeaveRead, ModerateRead, PromoteRead, BlockRead
        <2>4. CASE DemoteRead(q, c) \/ UnblockRead(q, c)
            BY <2>1, <2>4 DEF DemoteRead, UnblockRead, ListRead
        <2>5. CASE RemoveRead(q, c) \/ RestoreRead(q, c) \/ ResizeRead(q, c)
            BY <2>1, <2>5 DEF RemoveRead, RestoreRead, ResizeRead
        <2> QED  BY <2>2, <2>3, <2>4, <2>5 DEF Read
    <1> QED  BY <1>1, <1>2

LEMMA OpeningFrees ==
    ASSUME NEW q \in Requests, OpenSeats(q) \/ ReseedClear(q) \/ ReseedDrop(q) \/ ReseedFill(q)
    PROVE  FreeingStep
    <1> DEFINE r == call[q].room
               s == seats[r]
    <1>1. CASE OpenSeats(q) \/ ReseedFill(q)
        BY <1>1, FillFrees DEF OpenSeats, ReseedFill, SetSeats, FreeingStep
    <1>2. CASE ReseedClear(q)
        <2> DEFINE t == [i \in DOMAIN s |-> IF i <= call[q].n THEN EmptySeat ELSE s[i]]
        <2>1. seats' = [seats EXCEPT ![r] = t]
            BY <1>2 DEF ReseedClear, SetSeats
        <2>2. Frees(s, t)
            BY EmptyIsSeat DEF Frees
        <2> QED  BY <2>1, <2>2 DEF FreeingStep
    <1>3. CASE ReseedDrop(q)
        <2> DEFINE t == without(s, {i \in SeatIndex : i > call[q].n})
        <2>1. seats' = [seats EXCEPT ![r] = t]
            BY <1>3 DEF ReseedDrop, SetSeats
        <2>2. Frees(s, t)
            BY DEF Frees, without
        <2> HIDE DEF t
        <2> QED  BY <2>1, <2>2 DEF FreeingStep
    <1> QED  BY <1>1, <1>2, <1>3

LEMMA LockingFrees ==
    ASSUME NEW q \in Requests, SetSeatLocked(q)
    PROVE  FreeingStep
    <1> DEFINE r == call[q].room
               i == call[q].n
               s == seats[r]
               shut == (call[q].op = "lock")
               new == [s[i] EXCEPT !.locked = shut]
    <1>1. CASE seats' = seats
        BY <1>1 DEF FreeingStep
    <1>2. CASE i \in DOMAIN s
        <2>1. seats' = [seats EXCEPT ![r] = [s EXCEPT ![i] = new]]
            BY <1>2 DEF SetSeatLocked
        <2>2. AllSeats(s) => new.userId = s[i].userId
            <3> SUFFICES ASSUME AllSeats(s)  PROVE [s[i] EXCEPT !.locked = shut].userId = s[i].userId
                OBVIOUS
            <3>1. s[i] = [userId |-> s[i].userId, locked |-> s[i].locked]
                BY <1>2 DEF AllSeats, IsSeat
            <3> HIDE DEF s, i, r, shut
            <3> QED  BY <3>1
        <2> HIDE DEF new, r, i, s
        <2>3. AllSeats(s) => Frees(s, [s EXCEPT ![i] = new])
            BY <1>2, <2>2 DEF Frees
        <2> QED  BY <2>1, <2>3 DEF FreeingStep, s
    <1> QED  BY <1>1, <1>2 DEF SetSeatLocked

LEMMA VacatingFrees ==
    ASSUME NEW p, LeaveSeats(p) \/ CloseSeats(p) \/ TakeVacate(p) \/ KickFromSeat(p) \/ Drop(p)
    PROVE  FreeingStep
    <1>1. ASSUME NEW r, NEW I, seats' = [seats EXCEPT ![r] = vacate(seats[r], I)]
          PROVE  FreeingStep
        BY <1>1, VacateFrees DEF FreeingStep
    <1>2. CASE LeaveSeats(p) \/ CloseSeats(p)
        BY <1>1, <1>2 DEF LeaveSeats, CloseSeats, SetSeats
    <1>3. CASE TakeVacate(p) \/ KickFromSeat(p)
        BY <1>1, <1>3 DEF TakeVacate, KickFromSeat, SetSeats
    <1>4. CASE Drop(p)
        <2>1. CASE seats' = seats
            BY <2>1 DEF FreeingStep
        <2>2. CASE DropSeats(p)
            BY <1>1, <2>2 DEF DropSeats, SetSeats
        <2> QED  BY <1>4, <2>1, <2>2 DEF Drop, DropMembers, DropCount
    <1> QED  BY <1>2, <1>3, <1>4

LEMMA ResizingFrees ==
    ASSUME NEW q \in Requests, ResizeWrite(q)
    PROVE  FreeingStep
    <1> DEFINE r == call[q].room
               s == seats[r]
               above == {i \in DOMAIN s : i > safeCount(q)}
               t == without(s, above \ occupied(s))
    <1>1. CASE seats' = [seats EXCEPT ![r] = s]
        BY <1>1 DEF FreeingStep, Frees
    <1>2. ASSUME NEW I, seats' = [seats EXCEPT ![r] = insertMany(s, I)]
          PROVE  FreeingStep
        BY <1>2, FillFrees DEF FreeingStep
    <1>3. CASE seats' = [seats EXCEPT ![r] = t]
        <2>1. Frees(s, t)
            BY DEF Frees, without
        <2> HIDE DEF t
        <2> QED  BY <1>3, <2>1 DEF FreeingStep
    <1> QED  BY <1>1, <1>2, <1>3 DEF ResizeWrite, SetSeats

------------------------------------------------------------------------------
\* Who is moving is not a taker, but in TakeVacate.

LEMMA StepFrees ==
    ASSUME NEW q \in Requests, Step(q), ~TakeClaim(q)
    PROVE  FreeingStep
    <1>1. CASE seats' = seats
        BY <1>1 DEF FreeingStep
    <1>2. ASSUME \/ OpenCreate(q) \/ OpenSave(q)
                 \/ EnterOpen(q) \/ EnterPrior(q) \/ EnterLeave(q) \/ EnterFind(q)
                 \/ EnterTouch(q) \/ EnterCreate(q) \/ EnterCount(q)
                 \/ LeaveDelete(q) \/ LeaveCount(q) \/ Close(q) \/ CloseMembers(q)
          PROVE  seats' = seats
        BY <1>2 DEF OpenCreate, OpenSave, EnterOpen, EnterPrior, EnterLeave, EnterFind,
                    EnterTouch, EnterCreate, EnterCount, LeaveDelete, LeaveCount, Close,
                    CloseMembers
    <1>3. ASSUME \/ PromoteAdmin(q) \/ DemoteAdmin(q) \/ BlockSave(q) \/ Unblock(q)
                 \/ RemoveSave(q) \/ RestoreSave(q) \/ ResizeFind(q) \/ ResizeSave(q)
          PROVE  seats' = seats
        BY <1>3 DEF PromoteAdmin, DemoteAdmin, BlockSave, Unblock, RemoveSave, RestoreSave,
                    ResizeFind, ResizeSave
    <1> QED  BY <1>1, <1>2, <1>3, OpeningFrees, LockingFrees, VacatingFrees, ResizingFrees DEF Step

LEMMA StepShifts ==
    ASSUME NEW q \in Requests, Step(q)
    PROVE  Shifts(q)
    <1>1. ASSUME Moves(q)  PROVE Shifts(q)
        BY <1>1 DEF Moves, Shifts
    <1>2. CASE PromoteAdmin(q) \/ BlockSave(q)
        BY <1>2 DEF PromoteAdmin, BlockSave, End, Keep, Shifts
    <1>3. CASE DemoteAdmin(q) \/ Unblock(q)
        BY <1>3 DEF DemoteAdmin, Unblock, saveList, End, Shifts
    <1> QED  BY <1>1, <1>2, <1>3, OthersMove DEF Step

LEMMA StepFromElsewhere ==
    ASSUME NEW q \in Requests, Step(q), ~TakeVacate(q)
    PROVE  pc[q] # "takeVacate"
    <1>1. ASSUME \/ OpenCreate(q) \/ OpenSeats(q) \/ OpenSave(q)
                 \/ ReseedClear(q) \/ ReseedDrop(q) \/ ReseedFill(q)
                 \/ EnterOpen(q) \/ EnterPrior(q) \/ EnterLeave(q) \/ EnterFind(q)
                 \/ EnterTouch(q) \/ EnterCreate(q) \/ EnterCount(q)
          PROVE  pc[q] # "takeVacate"
        BY <1>1 DEF OpenCreate, OpenSeats, OpenSave, ReseedClear, ReseedDrop, ReseedFill, EnterOpen,
                    EnterPrior, EnterLeave, EnterFind, EnterTouch, EnterCreate, EnterCount, At
    <1>2. ASSUME \/ LeaveDelete(q) \/ LeaveCount(q) \/ LeaveSeats(q)
                 \/ Close(q) \/ CloseMembers(q) \/ CloseSeats(q)
                 \/ TakeClaim(q) \/ SetSeatLocked(q) \/ KickFromSeat(q)
          PROVE  pc[q] # "takeVacate"
        BY <1>2 DEF LeaveDelete, LeaveCount, LeaveSeats, Close, CloseMembers, CloseSeats, TakeClaim,
                    SetSeatLocked, KickFromSeat, At
    <1>3. ASSUME \/ PromoteAdmin(q) \/ DemoteAdmin(q) \/ BlockSave(q) \/ Unblock(q)
                 \/ RemoveSave(q) \/ RestoreSave(q) \/ Drop(q)
                 \/ ResizeFind(q) \/ ResizeWrite(q) \/ ResizeSave(q)
          PROVE  pc[q] # "takeVacate"
        BY <1>3 DEF PromoteAdmin, DemoteAdmin, BlockSave, Unblock, RemoveSave, RestoreSave, Drop,
                    ResizeFind, ResizeWrite, ResizeSave, At
    <1> QED  BY <1>1, <1>2, <1>3 DEF Step

\* A step that seats nobody and moves no taker.
LEMMA FreeingKeeps ==
    ASSUME OneInv, FreeingStep, TakersStay
    PROVE  OneEach'
    <1>1. ASSUME NEW r \in Rooms  PROVE Frees(seats[r], seats'[r])
        <2>1. CASE seats'[r] = seats[r]
            BY <2>1 DEF Frees
        <2>2. CASE seats'[r] # seats[r]
            <3>1. PICK x, t : /\ seats' = [seats EXCEPT ![x] = t]
                              /\ AllSeats(seats[x]) => Frees(seats[x], t)
                BY <2>2 DEF FreeingStep
            <3>2. x = r /\ seats'[r] = t
                BY <2>2, <3>1 DEF OneInv, SeatInv
            <3> QED  BY <3>1, <3>2 DEF OneInv, SeatInv
        <2> QED  BY <2>1, <2>2
    <1>2. ASSUME NEW r \in Rooms, NEW u \in Users
          PROVE  heldBy(seats'[r], u) \subseteq heldBy(seats[r], u)
        BY <1>1, RoomsAssumption DEF Frees, heldBy
    <1>3. ASSUME NEW r \in Rooms, NEW u \in Users
          PROVE  AtMostOne(heldBy(seats'[r], u)) \/ \E q \in Requests : Pending(q, r, u)'
        <2>1. CASE AtMostOne(heldBy(seats[r], u))
            BY <1>2, <2>1 DEF AtMostOne
        <2>2. ASSUME NEW q \in Requests, Pending(q, r, u)  PROVE Pending(q, r, u)'
            BY <2>2 DEF Pending, TakersStay
        <2> QED  BY <2>1, <2>2 DEF OneInv, OneEach
    <1> QED  BY <1>3 DEF OneEach

\* A take gets its seat: it is a taker now, and nobody else gets one.
LEMMA ClaimKeeps ==
    ASSUME OneInv, NEW q \in Requests, TakeClaim(q)
    PROVE  OneEach'
    <1> DEFINE x == call[q].room
               n == call[q].n
    <1>1. TakersStay
        <2>1. Shifts(q)
            BY StepShifts DEF Step
        <2>2. pc[q] # "takeVacate"
            BY DEF TakeClaim, At
        <2> QED  BY <2>1, <2>2, RequestsAreProcesses DEF TakersStay, Shifts, OneInv
    <1>2. CASE seats' = seats
        BY <1>1, <1>2, FreeingKeeps DEF FreeingStep
    <1>3. CASE n \in DOMAIN seats[x] /\ seats[x][n] = EmptySeat
        <2>1. /\ seats' = [seats EXCEPT ![x] = [seats[x] EXCEPT ![n] =
                                 [seats[x][n] EXCEPT !.userId = call[q].by]]]
              /\ pc' = [pc EXCEPT ![q] = "takeVacate"] /\ call' = call
            BY <1>3 DEF TakeClaim, Go
        <2>2. [seats[x][n] EXCEPT !.userId = call[q].by] = [userId |-> call[q].by, locked |-> EmptySeat.locked]
            <3>1. EmptySeat = [userId |-> EmptySeat.userId, locked |-> EmptySeat.locked]
                BY EmptyIsSeat DEF IsSeat
            <3> QED  BY <1>3, <3>1
        <2>3. pc'[q] = "takeVacate"
            BY <2>1, RequestsAreProcesses DEF OneInv
        <2>4. ASSUME NEW r \in Rooms, NEW u \in Users
              PROVE  AtMostOne(heldBy(seats'[r], u)) \/ \E p \in Requests : Pending(p, r, u)'
            <3>1. CASE r = x /\ u = call[q].by
                BY <2>1, <2>3, <3>1 DEF Pending
            <3>2. CASE r # x \/ u # call[q].by
                <4>1. heldBy(seats'[r], u) \subseteq heldBy(seats[r], u)
                    <5>1. CASE r # x
                        BY <2>1, <5>1 DEF OneInv, SeatInv
                    <5>2. CASE r = x /\ u # call[q].by
                        <6>1. seats'[r] = [seats[r] EXCEPT ![n] =
                                              [userId |-> call[q].by, locked |-> EmptySeat.locked]]
                            BY <2>1, <2>2, <5>2 DEF OneInv, SeatInv
                        <6> QED  BY <5>2, <6>1 DEF heldBy
                    <5> QED  BY <3>2, <5>1, <5>2
                <4>2. CASE AtMostOne(heldBy(seats[r], u))
                    BY <4>1, <4>2 DEF AtMostOne
                <4>3. ASSUME NEW p \in Requests, Pending(p, r, u)  PROVE Pending(p, r, u)'
                    BY <1>1, <4>3 DEF Pending, TakersStay
                <4> QED  BY <4>2, <4>3 DEF OneInv, OneEach
            <3> QED  BY <3>1, <3>2
        <2> QED  BY <2>4 DEF OneEach
    <1> QED  BY <1>2, <1>3 DEF TakeClaim

\* A take frees the taker's other seats, those included that he got meanwhile.
LEMMA VacateKeeps ==
    ASSUME OneInv, NEW q \in Requests, TakeVacate(q)
    PROVE  OneEach'
    <1> DEFINE x == call[q].room
               n == call[q].n
               I == heldBy(seats[x], call[q].by) \ {n}
    <1>1. seats' = [seats EXCEPT ![x] = vacate(seats[x], I)]
        BY DEF TakeVacate, SetSeats
    <1>2. ASSUME NEW r \in Rooms  PROVE Frees(seats[r], seats'[r])
        <2>1. CASE r # x
            BY <1>1, <2>1 DEF OneInv, SeatInv, Frees
        <2>2. CASE r = x
            <3>1. seats'[r] = vacate(seats[r], I)
                BY <1>1, <2>2 DEF OneInv, SeatInv
            <3>2. AllSeats(seats[r])
                BY DEF OneInv, SeatInv
            <3> HIDE DEF I
            <3> QED  BY <3>1, <3>2, VacateFrees
        <2> QED  BY <2>1, <2>2
    <1>3. ASSUME NEW r \in Rooms, NEW u \in Users
          PROVE  heldBy(seats'[r], u) \subseteq heldBy(seats[r], u)
        BY <1>2, RoomsAssumption DEF Frees, heldBy
    <1>4. Shifts(q)
        BY StepShifts DEF Step
    <1>5. ASSUME NEW r \in Rooms, NEW u \in Users
          PROVE  AtMostOne(heldBy(seats'[r], u)) \/ \E p \in Requests : Pending(p, r, u)'
        <2>1. CASE r = x /\ u = call[q].by
            <3>1. ASSUME NEW i \in heldBy(seats'[r], u)  PROVE i = n
                <4>1. i \in heldBy(seats[r], u)
                    BY <1>3, <3>1
                <4>2. SUFFICES ASSUME i # n  PROVE FALSE
                    OBVIOUS
                <4>3. i \in I
                    BY <2>1, <4>1, <4>2
                <4>4. i \in DOMAIN seats[r] /\ seats'[r] = vacate(seats[r], I)
                    BY <1>1, <2>1, <4>1 DEF OneInv, SeatInv, heldBy
                <4>5. seats'[r][i] = [seats[r][i] EXCEPT !.userId = NoUser]
                    BY <4>3, <4>4 DEF vacate
                <4>6. seats[r][i] = [userId |-> seats[r][i].userId, locked |-> seats[r][i].locked]
                    BY <4>4 DEF OneInv, SeatInv, AllSeats, IsSeat
                <4>7. seats'[r][i].userId = NoUser
                    BY <4>5, <4>6
                <4> QED  BY <3>1, <4>7, RoomsAssumption DEF heldBy
            <3> QED  BY <3>1 DEF AtMostOne
        <2>2. CASE AtMostOne(heldBy(seats[r], u))
            BY <1>3, <2>2 DEF AtMostOne
        <2>3. ASSUME NEW p \in Requests, Pending(p, r, u), ~(r = x /\ u = call[q].by)
              PROVE  Pending(p, r, u)'
            BY <1>4, <2>3, RequestsAreProcesses DEF Pending, Shifts, OneInv
        <2> QED  BY <2>1, <2>2, <2>3 DEF OneInv, OneEach
    <1> QED  BY <1>5 DEF OneEach

LEMMA RestFrees ==
    ASSUME OneInv, Sweep \/ (\E r \in Rooms : Heartbeat(r) \/ Lapse(r) \/ Vanish(r)) \/ Crash
                   \/ UNCHANGED vars
    PROVE  FreeingStep /\ (Shifts(Sweeper) \/ UNCHANGED procVars)
    <1>1. Shifts(Sweeper) \/ UNCHANGED procVars
        BY RestMoves DEF Moves, Shifts
    <1>2. CASE CloseSeats(Sweeper)
        BY <1>1, <1>2, VacatingFrees
    <1>3. CASE ~CloseSeats(Sweeper)
        <2>1. seats' = seats
            BY <1>3 DEF Sweep, SweepStart, SweepRoom, Close, CloseMembers, Heartbeat, Lapse, Vanish,
                        Crash, vars
        <2> QED  BY <1>1, <2>1 DEF FreeingStep
    <1> QED  BY <1>2, <1>3

LEMMA NextOne == OneInv /\ [Next]_vars => OneInv'
    <1> SUFFICES ASSUME OneInv, [Next]_vars  PROVE OneInv'
        OBVIOUS
    <1>1. SeatInv'
        BY NextSeats DEF OneInv
    <1>2. ASSUME NEW q \in Requests, NEW c, pc[q] = "idle", Read(q, c)
          PROVE  OneEach' /\ Shifts(q)
        <2>1. FreeingStep /\ Shifts(q)
            BY <1>2, ReadsFree
        <2>2. TakersStay
            BY <1>2, <2>1, RequestsAreProcesses DEF TakersStay, Shifts, OneInv
        <2> QED  BY <2>1, <2>2, FreeingKeeps
    <1>3. ASSUME NEW q \in Requests, Step(q)
          PROVE  OneEach' /\ Shifts(q)
        <2>1. Shifts(q)
            BY <1>3, StepShifts
        <2>2. CASE TakeClaim(q)
            BY <2>1, <2>2, ClaimKeeps
        <2>3. CASE TakeVacate(q)
            BY <2>1, <2>3, VacateKeeps
        <2>4. CASE ~TakeClaim(q) /\ ~TakeVacate(q)
            <3>1. FreeingStep /\ pc[q] # "takeVacate"
                BY <1>3, <2>4, StepFrees, StepFromElsewhere
            <3>2. TakersStay
                BY <2>1, <3>1, RequestsAreProcesses DEF TakersStay, Shifts, OneInv
            <3> QED  BY <2>1, <3>1, <3>2, FreeingKeeps
        <2> QED  BY <2>2, <2>3, <2>4
    <1>4. ASSUME Sweep \/ (\E r \in Rooms : Heartbeat(r) \/ Lapse(r) \/ Vanish(r)) \/ Crash
                 \/ UNCHANGED vars
          PROVE  OneEach' /\ (Shifts(Sweeper) \/ UNCHANGED procVars)
        <2>1. FreeingStep /\ (Shifts(Sweeper) \/ UNCHANGED procVars)
            BY <1>4, RestFrees
        <2>2. TakersStay
            BY <2>1, RequestsAreProcesses DEF TakersStay, Shifts, OneInv, procVars
        <2> QED  BY <2>1, <2>2, FreeingKeeps
    <1>5. OneEach' /\ ((\E p : Shifts(p)) \/ UNCHANGED procVars)
        BY <1>2, <1>3, <1>4 DEF Next, Turn
    <1>6. DOMAIN pc' = Process /\ DOMAIN call' = Requests
        BY <1>5 DEF Shifts, procVars, OneInv
    <1> QED  BY <1>1, <1>5, <1>6 DEF OneInv

LEMMA InitOne == Init => OneInv
    <1> SUFFICES ASSUME Init  PROVE OneInv
        OBVIOUS
    <1>1. SeatInv /\ DOMAIN pc = Process /\ DOMAIN call = Requests
        BY InitSeats DEF Init
    <1>2. ASSUME NEW r \in Rooms, NEW u \in Users  PROVE heldBy(seats[r], u) = {}
        <2>1. seats[r] = IF Inside[r] # {} THEN [i \in SeatIndex |-> EmptySeat] ELSE <<>>
            BY DEF Init
        <2>2. DOMAIN <<>> = {}
            OBVIOUS
        <2> QED  BY <2>1, <2>2, EmptyIsSeat, RoomsAssumption DEF heldBy
    <1>3. OneEach
        BY <1>2 DEF OneEach, AtMostOne
    <1> QED  BY <1>1, <1>3 DEF OneInv

\* takeSeat, beside every other write to the seats: a user whose takes have all come to
\* their end has one seat of a room at most, however his taps raced and whatever crashed.
THEOREM OneSeatOnly == Spec => []OneSeatEach
    <1>1. OneInv => OneSeatEach
        <2> SUFFICES ASSUME OneInv, NEW r \in Rooms, NEW u \in Users,
                            AtMostOne(heldBy(seats[r], u))
                     PROVE  Cardinality(heldBy(seats[r], u)) <= 1
            BY DEF OneInv, OneEach, OneSeatEach, Pending
        <2> DEFINE S == heldBy(seats[r], u)
        <2>1. CASE S = {}
            BY <2>1, FS_EmptySet
        <2>2. ASSUME NEW i \in S  PROVE Cardinality(S) <= 1
            <3>1. S = {i}
                BY <2>2 DEF AtMostOne
            <3> HIDE DEF S
            <3> QED  BY <3>1, FS_Singleton
        <2> QED  BY <2>1, <2>2
    <1> QED  BY <1>1, InitOne, NextOne, PTL DEF Spec

------------------------------------------------------------------------------
\* The viewer counter.  It counts those who are inside, but for the enters and leaves that
\* are between their row and their count; so what follows is first about the types of all
\* that a step writes, then about the sets counted.

LayoutPlaces == {"openCreate", "openSeats", "openSave", "reseedClear", "reseedDrop",
                 "reseedFill", "resizeFind", "resizeWrite", "resizeSave"}

\* A request at place l fits what it asks and what it has read.
Fits(l, c, j) ==
    /\ l \in Location /\ j \in Job
    /\ l \notin {"idle", "done"} => c \in Call
    /\ l \in LayoutPlaces => c.n \in MicCounts
    /\ l = "resizeWrite" => j.high \in SeatIndex

RoomTypes ==
    /\ status \in [Rooms -> Status] /\ micCount \in [Rooms -> MicCounts \cup {0}]
    /\ adminUserIds \in [Rooms -> SUBSET Users] /\ blockedUserIds \in [Rooms -> SUBSET Users]
    /\ version \in [Rooms -> Nat]

PresenceTypes ==
    /\ viewerCount \in [Rooms -> Nat] /\ members \in [Rooms -> SUBSET Users]
    /\ hostSeen \in [Rooms -> BOOLEAN] /\ recounted \in [Rooms -> BOOLEAN]
    /\ \A r \in Rooms : IsFiniteSet(members[r])

Typed(s) == DOMAIN s \subseteq SeatIndex /\ \A i \in DOMAIN s : s[i] \in Seat
SeatTypes == DOMAIN seats = Rooms /\ \A r \in Rooms : Typed(seats[r])

ProcTypes ==
    /\ pc \in [Process -> Location] /\ job \in [Process -> Job]
    /\ call \in [Requests -> Call \cup {NoCall}]
    /\ \A q \in Requests : call[q] \in load.calls \cup {NoCall} /\ Fits(pc[q], call[q], job[q])

EnvTypes ==
    /\ alive \subseteq Users /\ stopped \subseteq Requests
    /\ load \in Workloads /\ crashes \in 0 .. load.crashes

TypeInv == RoomTypes /\ PresenceTypes /\ SeatTypes /\ ProcTypes /\ EnvTypes

------------------------------------------------------------------------------
\* The greatest number of a finite set, and what is bounded by it.

LEMMA MaxIs ==
    ASSUME NEW S, IsFiniteSet(S), S # {}, S \subseteq Int
    PROVE  Max(S) \in S /\ \A y \in S : y <= Max(S)
    <1> DEFINE G == {T \in SUBSET S : T = {} \/ \E m \in T : \A y \in T : m >= y}
    <1>1. {} \in G
        OBVIOUS
    <1>2. ASSUME NEW T \in SUBSET S, NEW x \in S, T \in G, x \notin T
          PROVE  T \cup {x} \in G
        <2>1. CASE T = {}
            BY <2>1
        <2>2. CASE T # {}
            <3>1. PICK m \in T : \A y \in T : m >= y
                BY <1>2, <2>2
            <3>2. CASE m >= x
                BY <3>1, <3>2
            <3>3. CASE x >= m
                <4>1. \A y \in T \cup {x} : x >= y
                    BY <3>1, <3>3
                <4> QED  BY <4>1
            <3> QED  BY <3>2, <3>3
        <2> QED  BY <2>1, <2>2
    <1>3. S \in G
        <2> HIDE DEF G
        <2> QED  BY <1>1, <1>2, SetInduction
    <1> QED  BY <1>3 DEF Max

LEMMA Seating == MaxSeat \in Nat /\ \A n \in MicCounts : n \in Nat /\ n <= MaxSeat /\ n > 0
    <1>0. MicCounts \subseteq Int /\ MicCounts # {} /\ IsFiniteSet(MicCounts)
        BY MicAssumption
    <1>1. MaxSeat \in MicCounts /\ \A n \in MicCounts : n <= MaxSeat
        BY <1>0, MaxIs DEF MaxSeat
    <1> QED  BY <1>1, MicAssumption

LEMMA Bounded ==
    /\ IsFiniteSet(Requests) /\ Requests \subseteq Nat
    /\ \A w \in Workloads : /\ w.calls \subseteq Call /\ w.crashes \in Nat
    <1> DEFINE N == {w.requests : w \in Workloads}
               f == [w \in Workloads |-> w.requests]
    <1>0. f \in Surjection(Workloads, N)
        BY DEF Surjection
    <1>1. IsFiniteSet(N) /\ N # {} /\ N \subseteq Int
        <2>1. IsFiniteSet(N)
            <3> HIDE DEF f, N
            <3> QED  BY <1>0, WorkloadsAssumption, FS_Surjection
        <2>2. N # {} /\ N \subseteq Int
            BY WorkloadsAssumption
        <2> QED  BY <2>1, <2>2
    <1>2. Max(N) \in N
        <2> HIDE DEF N
        <2> QED  BY <1>1, MaxIs
    <1>3. Max(N) \in Nat
        BY <1>2, WorkloadsAssumption
    <1>4. IsFiniteSet(1 .. Max(N)) /\ 1 .. Max(N) \subseteq Nat
        BY <1>3, FS_Interval
    <1> QED  BY <1>4, WorkloadsAssumption DEF Requests

LEMMA IdleTyped == Idle \in Job /\ \A r \in Rooms : Fresh(r) \in Job
    <1>1. (CHOOSE r \in Rooms : TRUE) \in Rooms
        BY RoomsAssumption
    <1>2. \A r \in Rooms : Fresh(r) \in Job
        BY DEF Fresh, Job, Status
    <1> QED  BY <1>1, <1>2 DEF Idle

LEMMA HighestSeat ==
    ASSUME NEW I \in SUBSET SeatIndex
    PROVE  Max(I \cup {0}) \in SeatIndex
    <1>1. 0 \in SeatIndex /\ SeatIndex \subseteq Int /\ IsFiniteSet(SeatIndex)
        BY Seating, FS_Interval DEF SeatIndex
    <1>2. IsFiniteSet(I \cup {0}) /\ I \cup {0} \subseteq SeatIndex
        BY <1>1, FS_Subset
    <1> QED  BY <1>1, <1>2, MaxIs

LEMMA SafeCount ==
    ASSUME NEW q, call[q].n \in MicCounts, job[q].high \in SeatIndex
    PROVE  safeCount(q) \in SeatIndex
    <1>1. call[q].n \in SeatIndex
        BY Seating DEF SeatIndex
    <1>2. {call[q].n, job[q].high} \subseteq SeatIndex /\ {call[q].n, job[q].high} \subseteq Int
        BY <1>1, Seating DEF SeatIndex
    <1>3. IsFiniteSet({call[q].n, job[q].high})
        <2>1. IsFiniteSet({call[q].n} \cup {job[q].high})
            BY FS_Singleton, FS_AddElement
        <2> QED  BY <2>1
    <1> QED  BY <1>2, <1>3, MaxIs DEF safeCount

------------------------------------------------------------------------------
\* Where the requests are, and the sweeper.

Counters == {"enterCount", "leaveCount"}
Todo == {"members", "seats", "count"}

\* q goes to l, with a call and with what it has read that fit.
GoesTo(q, l) ==
    /\ \E c, j : /\ call' = [call EXCEPT ![q] = c] /\ job' = [job EXCEPT ![q] = j]
                 /\ c \in load.calls \cup {NoCall} /\ Fits(l, c, j)
    /\ pc' = [pc EXCEPT ![q] = l] /\ UNCHANGED envVars

\* q is not about to count, before and after.
Quiet(q) == pc[q] \notin Counters /\ \E l : l \notin Counters /\ GoesTo(q, l)

LEMMA GoesKeeps ==
    ASSUME ProcTypes, EnvTypes, NEW q \in Requests, NEW l, GoesTo(q, l)
    PROVE  ProcTypes' /\ EnvTypes'
    <1>1. PICK c, j : /\ call' = [call EXCEPT ![q] = c] /\ job' = [job EXCEPT ![q] = j]
                      /\ c \in load.calls \cup {NoCall} /\ Fits(l, c, j)
        BY DEF GoesTo
    <1>2. pc' = [pc EXCEPT ![q] = l] /\ load' = load /\ q \in Process /\ q # Sweeper
        BY RequestsAreProcesses DEF GoesTo, envVars
    <1>3. /\ pc' \in [Process -> Location] /\ job' \in [Process -> Job]
          /\ call' \in [Requests -> Call \cup {NoCall}]
        BY <1>1, <1>2, Bounded DEF ProcTypes, Fits, EnvTypes
    <1>4. ASSUME NEW p \in Requests
          PROVE  call'[p] \in load'.calls \cup {NoCall} /\ Fits(pc'[p], call'[p], job'[p])
        <2>1. CASE p = q
            BY <1>1, <1>2, <2>1 DEF ProcTypes
        <2>2. CASE p # q
            <3>1. call'[p] = call[p] /\ pc'[p] = pc[p] /\ job'[p] = job[p]
                BY <1>1, <1>2, <2>2, RequestsAreProcesses DEF ProcTypes
            <3> QED  BY <1>2, <3>1 DEF ProcTypes
        <2> QED  BY <2>1, <2>2
    <1>6. ProcTypes'
        BY <1>3, <1>4 DEF ProcTypes
    <1> QED  BY <1>6 DEF GoesTo, envVars, EnvTypes

LEMMA StartGoes ==
    ASSUME NEW q, NEW c, NEW l, NEW j, Start(q, c, l, j), c \in load.calls \cup {NoCall},
           Fits(l, c, j)
    PROVE  GoesTo(q, l)
    BY DEF Start, GoesTo

LEMMA KeepGoes ==
    ASSUME ProcTypes, NEW q \in Requests, NEW l, NEW j, Keep(q, l, j), Fits(l, call[q], j)
    PROVE  GoesTo(q, l)
    <1>1. call' = [call EXCEPT ![q] = call[q]] /\ call[q] \in load.calls \cup {NoCall}
        BY DEF Keep, ProcTypes
    <1> QED  BY <1>1 DEF Keep, GoesTo

LEMMA GoGoes ==
    ASSUME ProcTypes, NEW q \in Requests, NEW l, Go(q, l), Fits(l, call[q], job[q])
    PROVE  GoesTo(q, l)
    <1>1. /\ call' = [call EXCEPT ![q] = call[q]] /\ call[q] \in load.calls \cup {NoCall}
          /\ job' = [job EXCEPT ![q] = job[q]]
        BY RequestsAreProcesses DEF Go, ProcTypes
    <1> QED  BY <1>1 DEF Go, GoesTo

LEMMA EndGoes ==
    ASSUME NEW q, End(q)
    PROVE  GoesTo(q, "done")
    <1>1. Fits("done", NoCall, Idle)
        BY IdleTyped DEF Fits, Location, LayoutPlaces
    <1> QED  BY <1>1 DEF End, GoesTo

\* What the calls keep of what they read.
LEMMA JobEdits ==
    ASSUME NEW j \in Job
    PROVE  /\ \A s \in Status : [j EXCEPT !.status = s] \in Job
           /\ \A U \in SUBSET Users : [j EXCEPT !.users = U] \in Job
           /\ \A U \in SUBSET Users, v \in Nat : [j EXCEPT !.users = U, !.version = v] \in Job
           /\ \A R \in SUBSET Rooms : [j EXCEPT !.rooms = R] \in Job
           /\ \A T \in SUBSET Todo : [j EXCEPT !.todo = T] \in Job
           /\ \A r \in Rooms, R \in SUBSET Rooms : [j EXCEPT !.in = r, !.rooms = R] \in Job
           /\ \A r \in Rooms, s \in Status : [j EXCEPT !.in = r, !.status = s] \in Job
    BY DEF Job, Todo

LEMMA JobSeats ==
    ASSUME NEW j \in Job, NEW h \in SeatIndex, NEW t \in SeatIndex
    PROVE  [j EXCEPT !.high = h, !.top = t] \in Job /\ [j EXCEPT !.high = h, !.top = t].high = h
    <1>1. h \in Nat /\ t \in Nat
        BY Seating DEF SeatIndex
    <1> QED  BY <1>1 DEF Job

LEMMA ReadsGo ==
    ASSUME TypeInv, NEW q \in Requests, NEW c \in load.calls, pc[q] = "idle", Read(q, c)
    PROVE  Quiet(q)
    <1>0. c \in Call /\ c.room \in Rooms /\ c.by \in Users /\ c.target \in Users
        BY Bounded DEF TypeInv, EnvTypes, Call
    <1>1. Fresh(c.room) \in Job /\ Idle \in Job
        BY <1>0, IdleTyped
    <1>2. ASSUME NEW l, NEW j, Start(q, c, l, j), l \in Location \ Counters, j \in Job,
                 l \in LayoutPlaces => c.n \in MicCounts, l # "resizeWrite"
          PROVE  Quiet(q)
        <2>1. Fits(l, c, j)
            BY <1>0, <1>2 DEF Fits
        <2> QED  BY <1>2, <2>1, StartGoes DEF Quiet, Counters
    <1> USE DEF Location, Counters, LayoutPlaces
    <1>3. CASE OpenRead(q, c)
        BY <1>1, <1>2, <1>3 DEF OpenRead
    <1>4. CASE EnterRead(q, c)
        BY <1>1, <1>2, <1>4 DEF EnterRead
    <1>5. CASE TakeRead(q, c)
        BY <1>1, <1>2, <1>5 DEF TakeRead
    <1>6. CASE PromoteRead(q, c)
        BY <1>1, <1>2, <1>6 DEF PromoteRead
    <1>7. CASE RestoreRead(q, c)
        BY <1>1, <1>2, <1>7 DEF RestoreRead
    <1>8. CASE ResizeRead(q, c)
        BY <1>1, <1>2, <1>8 DEF ResizeRead
    <1>9. CASE ModerateRead(q, c)
        BY <1>1, <1>2, <1>9 DEF ModerateRead, Asks
    <1>10. CASE LeaveSeat(q, c)
        <2>1. Start(q, NoCall, "done", Idle)
            BY <1>10 DEF LeaveSeat
        <2>2. Fits("done", NoCall, Idle)
            BY <1>1 DEF Fits
        <2> QED  BY <2>1, <2>2, StartGoes DEF Quiet
    <1>11. CASE LeaveRead(q, c) \/ RemoveRead(q, c)
        <2>1. status[c.room] \in Status
            BY <1>0 DEF TypeInv, RoomTypes
        <2>2. [Fresh(c.room) EXCEPT !.status = status[c.room]] \in Job
            BY <1>1, <2>1, JobEdits, <1>0
        <2> QED  BY <1>2, <1>11, <2>2 DEF LeaveRead, RemoveRead
    <1>12. CASE BlockRead(q, c)
        <2>0. {c.target} \ blockedUserIds[c.room] \in SUBSET Users
            BY <1>0
        <2>1. [Fresh(c.room) EXCEPT !.users = {c.target} \ blockedUserIds[c.room]] \in Job
            BY <2>0, <1>1, JobEdits
        <2> QED  BY <1>2, <1>12, <2>1 DEF BlockRead
    <1>13. CASE DemoteRead(q, c) \/ UnblockRead(q, c)
        <2>1. PICK op \in {"demote", "unblock"} :
                 ListRead(q, c, op, IF op = "demote" THEN adminUserIds ELSE blockedUserIds)
            BY <1>13 DEF DemoteRead, UnblockRead
        <2> DEFINE U == (IF op = "demote" THEN adminUserIds ELSE blockedUserIds)[c.room]
                           \ {c.target}
        <2>2. U \in SUBSET Users /\ version[c.room] \in Nat
            BY <1>0 DEF TypeInv, RoomTypes
        <2>3. [Fresh(c.room) EXCEPT !.users = U, !.version = version[c.room]] \in Job
            <3> HIDE DEF U
            <3> QED  BY <1>0, <1>1, <2>2, JobEdits
        <2>4. Start(q, c, op, [Fresh(c.room) EXCEPT !.users = U, !.version = version[c.room]])
            BY <2>1 DEF ListRead
        <2> HIDE DEF U
        <2> QED  BY <1>2, <2>3, <2>4
    <1> QED  BY <1>3, <1>4, <1>5, <1>6, <1>7, <1>8, <1>9, <1>10, <1>11, <1>12, <1>13 DEF Read

\* What is known of a request that is under way.
LEMMA Standing ==
    ASSUME TypeInv, NEW q \in Requests
    PROVE  /\ Fits(pc[q], call[q], job[q]) /\ job[q] \in Job /\ q # Sweeper
           /\ job[q].in \in Rooms /\ job[q].rooms \in SUBSET Rooms /\ job[q].todo \in SUBSET Todo
           /\ job[q].users \in SUBSET Users /\ job[q].status \in Status
           /\ pc[q] \notin {"idle", "done"} =>
                 /\ call[q] \in Call /\ call[q].room \in Rooms
                 /\ call[q].by \in Users /\ call[q].target \in Users
           /\ pc[q] \in LayoutPlaces => call[q].n \in MicCounts /\ 0 .. call[q].n \subseteq SeatIndex
    <1>1. Fits(pc[q], call[q], job[q])
        BY DEF TypeInv, ProcTypes
    <1>2. pc[q] \in LayoutPlaces => 0 .. call[q].n \subseteq SeatIndex
        BY <1>1, Seating DEF Fits, SeatIndex
    <1> QED  BY <1>1, <1>2, RequestsAreProcesses DEF Fits, Call, Job, Todo

LEMMA StepsGo ==
    ASSUME TypeInv, NEW q \in Requests, Step(q), ~EnterCreate(q), ~EnterCount(q),
           ~LeaveDelete(q), ~LeaveCount(q)
    PROVE  Quiet(q)
    <1>0. ProcTypes
        BY DEF TypeInv
    <1>1. ASSUME End(q), pc[q] \notin Counters  PROVE Quiet(q)
        BY <1>1, EndGoes DEF Quiet, Counters
    <1>2. ASSUME NEW l, NEW j, Keep(q, l, j), pc[q] \notin Counters,
                 l \in Location \ Counters, j \in Job,
                 l \in LayoutPlaces => call[q].n \in MicCounts,
                 l = "resizeWrite" => j.high \in SeatIndex, call[q] \in Call
          PROVE  Quiet(q)
        <2>1. Fits(l, call[q], j)
            BY <1>2 DEF Fits
        <2> QED  BY <1>0, <1>2, <2>1, KeepGoes DEF Quiet
    <1>3. ASSUME NEW l, Go(q, l), pc[q] \notin Counters, l \in Location \ Counters,
                 l \in LayoutPlaces => call[q].n \in MicCounts,
                 l # "resizeWrite", call[q] \in Call
          PROVE  Quiet(q)
        <2>1. Fits(l, call[q], job[q])
            BY <1>3, Standing DEF Fits
        <2> QED  BY <1>0, <1>3, <2>1, GoGoes DEF Quiet
    <1>4. ASSUME Left(q), pc[q] \notin Counters, call[q] \in Call  PROVE Quiet(q)
        BY <1>1, <1>3, <1>4, Standing DEF Left, Location, Counters, LayoutPlaces
    <1> USE DEF Location, Counters, LayoutPlaces, At
    <1>5. CASE OpenCreate(q) \/ OpenSeats(q) \/ OpenSave(q)
        BY <1>1, <1>3, <1>5, Standing DEF OpenCreate, OpenSeats, OpenSave
    <1>6. CASE ReseedClear(q) \/ ReseedDrop(q) \/ ReseedFill(q)
        BY <1>1, <1>3, <1>6, Standing DEF ReseedClear, ReseedDrop, ReseedFill
    <1>7. CASE EnterOpen(q) \/ EnterFind(q) \/ EnterTouch(q)
        BY <1>1, <1>3, <1>7, Standing DEF EnterOpen, EnterFind, EnterTouch
    <1>8. CASE EnterPrior(q)
        <2> DEFINE R == {r \in Rooms \ {call[q].room} : call[q].by \in members[r]}
        <2>1. R \in SUBSET Rooms
            OBVIOUS
        <2>2. Keep(q, "enterLeave", [job[q] EXCEPT !.rooms = R]) /\ pc[q] = "enterPrior"
            BY <1>8 DEF EnterPrior
        <2> HIDE DEF R
        <2>3. [job[q] EXCEPT !.rooms = R] \in Job
            BY <2>1, Standing, JobEdits
        <2> QED  BY <1>2, <2>2, <2>3, Standing
    <1>9. CASE EnterLeave(q)
        <2>0. pc[q] = "enterLeave" /\ call[q] \in Call /\ call[q].room \in Rooms
            BY <1>9, Standing DEF EnterLeave
        <2>1. CASE Keep(q, "enterFind", Fresh(call[q].room))
            <3>1. Fresh(call[q].room) \in Job
                BY <2>0, IdleTyped
            <3> QED  BY <1>2, <2>0, <2>1, <3>1
        <2>2. ASSUME NEW r \in job[q].rooms, NEW j, j = [job[q] EXCEPT !.rooms = @ \ {r}],
                     \/ Keep(q, "leaveDelete", [j EXCEPT !.in = r, !.status = status[r]])
                     \/ Keep(q, "enterLeave", j)
              PROVE  Quiet(q)
            <3>1. r \in Rooms /\ status[r] \in Status
                BY Standing DEF TypeInv, RoomTypes
            <3>2. j \in Job
                <4>1. job[q].rooms \ {r} \in SUBSET Rooms
                    BY Standing
                <4>2. [job[q] EXCEPT !.rooms = job[q].rooms \ {r}] \in Job
                    BY <4>1, Standing, JobEdits
                <4> QED  BY <2>2, <4>2
            <3>3. [j EXCEPT !.in = r, !.status = status[r]] \in Job
                BY <3>1, <3>2, JobEdits
            <3> QED  BY <1>2, <2>0, <2>2, <3>2, <3>3
        <2> QED  BY <1>9, <2>1, <2>2 DEF EnterLeave
    <1>10. CASE LeaveSeats(q)
        BY <1>3, <1>4, <1>10, Standing DEF LeaveSeats
    <1>11. CASE Close(q) \/ CloseMembers(q) \/ CloseSeats(q)
        BY <1>3, <1>4, <1>11, Standing DEF Close, CloseMembers, CloseSeats
    <1>12. CASE TakeClaim(q) \/ TakeVacate(q)
        BY <1>1, <1>3, <1>12, Standing DEF TakeClaim, TakeVacate
    <1>13. CASE SetSeatLocked(q) \/ KickFromSeat(q)
        BY <1>1, <1>13 DEF SetSeatLocked, KickFromSeat
    <1>14. CASE PromoteAdmin(q) \/ DemoteAdmin(q) \/ Unblock(q) \/ RestoreSave(q)
        BY <1>1, <1>14 DEF PromoteAdmin, DemoteAdmin, Unblock, saveList, RestoreSave
    <1>15. CASE BlockSave(q) \/ RemoveSave(q)
        <2>1. pc[q] \in {"block", "remove"} /\ call[q] \in Call
            BY <1>15, Standing DEF BlockSave, RemoveSave
        <2>2. Keep(q, "drop", [job[q] EXCEPT !.todo = Todo])
            BY <1>15 DEF BlockSave, RemoveSave, Todo
        <2>3. [job[q] EXCEPT !.todo = Todo] \in Job
            BY Standing, JobEdits
        <2> QED  BY <1>2, <2>1, <2>2, <2>3
    <1>16. CASE Drop(q)
        <2>1. pc[q] = "drop" /\ call[q] \in Call
            BY <1>16, Standing DEF Drop
        <2>2. CASE End(q)
            BY <1>1, <2>1, <2>2
        <2>3. ASSUME NEW w, Keep(q, "drop", [job[q] EXCEPT !.todo = @ \ {w}])  PROVE Quiet(q)
            <3>1. job[q].todo \ {w} \in SUBSET Todo
                BY Standing
            <3>2. [job[q] EXCEPT !.todo = job[q].todo \ {w}] \in Job
                BY <3>1, Standing, JobEdits
            <3> QED  BY <1>2, <2>1, <2>3, <3>2
        <2> QED  BY <1>16, <2>2, <2>3 DEF Drop
    <1>17. CASE ResizeFind(q)
        <2> DEFINE s == seats[call[q].room]
                   h == Max(occupied(s) \cup {0})
                   t == Max(DOMAIN s \cup {0})
        <2>1. pc[q] = "resizeFind" /\ call[q] \in Call /\ call[q].n \in MicCounts
            BY <1>17, Standing DEF ResizeFind
        <2>2. occupied(s) \in SUBSET SeatIndex /\ DOMAIN s \in SUBSET SeatIndex
            BY <2>1, Standing DEF TypeInv, SeatTypes, Typed, occupied
        <2>3. h \in SeatIndex /\ t \in SeatIndex
            <3> HIDE DEF s
            <3> QED  BY <2>2, HighestSeat
        <2>4. Keep(q, "resizeWrite", [job[q] EXCEPT !.high = h, !.top = t])
            BY <1>17 DEF ResizeFind
        <2> HIDE DEF h, t
        <2>5. [job[q] EXCEPT !.high = h, !.top = t] \in Job
                /\ [job[q] EXCEPT !.high = h, !.top = t].high \in SeatIndex
            BY <2>3, Standing, JobSeats
        <2> QED  BY <1>2, <2>1, <2>4, <2>5
    <1>18. CASE ResizeWrite(q) \/ ResizeSave(q)
        BY <1>1, <1>3, <1>18, Standing DEF ResizeWrite, ResizeSave
    <1> QED  BY <1>5, <1>6, <1>7, <1>8, <1>9, <1>10, <1>11, <1>12, <1>13, <1>14, <1>15, <1>16,
                <1>17, <1>18 DEF Step

\* The four that count: enter and leave between their row and their counter.
LEMMA CountersGo ==
    ASSUME TypeInv, NEW q \in Requests,
           EnterCreate(q) \/ EnterCount(q) \/ LeaveDelete(q) \/ LeaveCount(q)
    PROVE  \E l : GoesTo(q, l)
    <1>0. ProcTypes
        BY DEF TypeInv
    <1>1. CASE End(q)
        BY <1>1, EndGoes
    <1>2. ASSUME NEW l \in {"enterCount", "leaveCount", "leaveSeats"}, Go(q, l),
                 pc[q] \notin {"idle", "done"}
          PROVE  \E m : GoesTo(q, m)
        <2>1. Fits(l, call[q], job[q])
            BY <1>2, Standing DEF Fits, Location, LayoutPlaces
        <2> QED  BY <1>0, <1>2, <2>1, GoGoes
    <1> QED  BY <1>1, <1>2 DEF EnterCreate, EnterCount, LeaveDelete, LeaveCount, At

LEMMA SweepGoes ==
    ASSUME TypeInv, Sweep
    PROVE  /\ ProcTypes' /\ EnvTypes'
           /\ \A q \in Requests : call'[q] = call[q] /\ pc'[q] = pc[q] /\ job'[q] = job[q]
    <1>1. ASSUME NEW l \in Location, NEW j \in Job,
                 pc' = [pc EXCEPT ![Sweeper] = l], job' = [job EXCEPT ![Sweeper] = j],
                 call' = call, load' = load
          PROVE  /\ ProcTypes'
                 /\ \A q \in Requests : call'[q] = call[q] /\ pc'[q] = pc[q] /\ job'[q] = job[q]
        <2>1. \A q \in Requests : call'[q] = call[q] /\ pc'[q] = pc[q] /\ job'[q] = job[q]
            BY <1>1, RequestsAreProcesses DEF TypeInv, ProcTypes
        <2>2. /\ pc' \in [Process -> Location] /\ job' \in [Process -> Job]
              /\ call' \in [Requests -> Call \cup {NoCall}]
            BY <1>1 DEF TypeInv, ProcTypes
        <2>3. \A q \in Requests :
                 call'[q] \in load'.calls \cup {NoCall} /\ Fits(pc'[q], call'[q], job'[q])
            BY <1>1, <2>1 DEF TypeInv, ProcTypes
        <2> QED  BY <2>1, <2>2, <2>3 DEF ProcTypes
    <1>2. UNCHANGED envVars /\ call' = call
        BY DEF Sweep, SweepStart, SweepRoom, Close, CloseMembers, CloseSeats, Left, Visit,
               Keep, Go
    <1>3. EnvTypes'
        BY <1>2 DEF envVars, EnvTypes, TypeInv
    <1>4. Sweeper \in Process /\ job[Sweeper] \in Job /\ job[Sweeper].rooms \in SUBSET Rooms
        BY DEF TypeInv, ProcTypes, Process, Job
    <1>5. ASSUME NEW rs \in SUBSET Rooms, Visit(rs)
          PROVE  \E l \in Location, j \in Job :
                    pc' = [pc EXCEPT ![Sweeper] = l] /\ job' = [job EXCEPT ![Sweeper] = j]
        <2>1. [Idle EXCEPT !.rooms = rs] \in Job
            BY IdleTyped, JobEdits
        <2> QED  BY <1>5, <2>1 DEF Visit, Keep, Location
    <1>6. \E l \in Location, j \in Job :
             pc' = [pc EXCEPT ![Sweeper] = l] /\ job' = [job EXCEPT ![Sweeper] = j]
        <2>1. CASE SweepStart
            BY <1>5, <2>1 DEF SweepStart
        <2>2. CASE SweepRoom
            <3>1. PICK r \in job[Sweeper].rooms :
                     \/ Visit(job[Sweeper].rooms \ {r})
                     \/ Keep(Sweeper, "close", [job[Sweeper] EXCEPT !.in = r, !.rooms = @ \ {r}])
                BY <2>2 DEF SweepRoom
            <3>2. r \in Rooms /\ job[Sweeper].rooms \ {r} \in SUBSET Rooms
                BY <1>4
            <3>3. [job[Sweeper] EXCEPT !.in = r, !.rooms = job[Sweeper].rooms \ {r}] \in Job
                BY <1>4, <3>2, JobEdits
            <3> QED  BY <1>5, <3>1, <3>2, <3>3 DEF Keep, Location
        <2>3. CASE Close(Sweeper) \/ CloseMembers(Sweeper)
            <3>1. job' = [job EXCEPT ![Sweeper] = job[Sweeper]]
                BY <2>3 DEF Close, CloseMembers, Go, TypeInv, ProcTypes
            <3> QED  BY <1>4, <2>3, <3>1 DEF Close, CloseMembers, Go, Location
        <2>4. CASE CloseSeats(Sweeper)
            BY <1>4, <1>5, <2>4 DEF CloseSeats, Left
        <2> QED  BY <2>1, <2>2, <2>3, <2>4 DEF Sweep
    <1> QED  BY <1>1, <1>2, <1>3, <1>6 DEF envVars

------------------------------------------------------------------------------
\* The room documents.

LEMMA RoomTypesStep ==
    ASSUME TypeInv, [Next]_vars
    PROVE  RoomTypes'
    <1>1. ASSUME UNCHANGED roomVars  PROVE RoomTypes'
        BY <1>1 DEF roomVars, RoomTypes, TypeInv
    <1>2. ASSUME NEW q \in Requests, NEW c, Read(q, c)  PROVE RoomTypes'
        BY <1>1, <1>2 DEF Read, OpenRead, EnterRead, LeaveRead, TakeRead, LeaveSeat,
           ModerateRead, PromoteRead, DemoteRead, UnblockRead, ListRead, BlockRead, RemoveRead,
           RestoreRead, ResizeRead
    <1>3. ASSUME NEW q \in Requests, OpenCreate(q) \/ OpenSave(q) \/ EnterOpen(q)  PROVE RoomTypes'
        <2>1. pc[q] \in LayoutPlaces => call[q].n \in MicCounts
            BY Standing
        <2> QED  BY <1>3, <2>1 DEF OpenCreate, OpenSave, EnterOpen, At, LayoutPlaces, RoomTypes,
                                   TypeInv, Status, presenceVars
    <1>4. ASSUME NEW q \in Requests, RemoveSave(q) \/ RestoreSave(q) \/ ResizeSave(q)
          PROVE  RoomTypes'
        <2>1. pc[q] \in LayoutPlaces => call[q].n \in MicCounts
            BY Standing
        <2> QED  BY <1>4, <2>1 DEF RemoveSave, RestoreSave, ResizeSave, At, LayoutPlaces,
                                   RoomTypes, TypeInv, Status
    <1>5. ASSUME NEW q, Close(q)  PROVE RoomTypes'
        BY <1>5 DEF Close, RoomTypes, TypeInv, Status
    <1>6. ASSUME NEW q \in Requests, PromoteAdmin(q) \/ BlockSave(q)  PROVE RoomTypes'
        <2>1. call[q].target \in Users /\ job[q].users \in SUBSET Users
            BY <1>6, Standing DEF PromoteAdmin, BlockSave, At
        <2> QED  BY <1>6, <2>1 DEF PromoteAdmin, BlockSave, RoomTypes, TypeInv
    <1>7. ASSUME NEW q \in Requests, DemoteAdmin(q) \/ Unblock(q)  PROVE RoomTypes'
        <2>1. job[q].users \in SUBSET Users
            BY Standing
        <2> QED  BY <1>7, <2>1 DEF DemoteAdmin, Unblock, saveList, RoomTypes, TypeInv
    <1>8. ASSUME NEW p,
                 \/ OpenSeats(p) \/ ReseedClear(p) \/ ReseedDrop(p) \/ ReseedFill(p)
                 \/ EnterPrior(p) \/ EnterLeave(p) \/ EnterFind(p)
                 \/ EnterTouch(p) \/ EnterCreate(p) \/ EnterCount(p)
                 \/ LeaveDelete(p) \/ LeaveCount(p) \/ LeaveSeats(p)
                 \/ CloseMembers(p) \/ CloseSeats(p)
                 \/ TakeClaim(p) \/ TakeVacate(p) \/ SetSeatLocked(p) \/ KickFromSeat(p)
                 \/ Drop(p) \/ ResizeFind(p) \/ ResizeWrite(p)
          PROVE  RoomTypes'
        BY <1>1, <1>8 DEF OpenSeats, ReseedClear, ReseedDrop, ReseedFill, EnterPrior, EnterLeave,
           EnterFind, EnterTouch, EnterCreate, EnterCount, LeaveDelete, LeaveCount, LeaveSeats,
           CloseMembers, CloseSeats, TakeClaim, TakeVacate, SetSeatLocked, KickFromSeat, Drop,
           ResizeFind, ResizeWrite
    <1>9. ASSUME NEW q \in Requests, Step(q)  PROVE RoomTypes'
        BY <1>3, <1>4, <1>5, <1>6, <1>7, <1>8, <1>9 DEF Step
    <1>10. CASE Sweep
        BY <1>1, <1>5, <1>8, <1>10 DEF Sweep, SweepStart, SweepRoom
    <1>11. CASE (\E r \in Rooms : Heartbeat(r) \/ Lapse(r) \/ Vanish(r)) \/ Crash \/ UNCHANGED vars
        BY <1>1, <1>11 DEF Heartbeat, Lapse, Vanish, Crash, vars
    <1> QED  BY <1>2, <1>9, <1>10, <1>11 DEF Next

------------------------------------------------------------------------------
\* The seats.

SeatStep ==
    \/ seats' = seats
    \/ \E r, t : seats' = [seats EXCEPT ![r] = t] /\ (r \in Rooms => Typed(t))

LEMMA TypedHelpers ==
    ASSUME NEW s, Typed(s)
    PROVE  /\ \A I : Typed(vacate(s, I)) /\ Typed(without(s, I))
           /\ \A I \in SUBSET SeatIndex : Typed(withEmpty(s, I)) /\ Typed(insertMany(s, I))
    <1>1. EmptySeat \in Seat
        BY DEF EmptySeat, Seat
    <1>2. \A I : Typed(vacate(s, I)) /\ Typed(without(s, I))
        BY DEF Typed, vacate, without, Seat
    <1>3. \A I \in SUBSET SeatIndex : Typed(withEmpty(s, I))
        BY <1>1 DEF Typed, withEmpty
    <1>4. \A I \in SUBSET SeatIndex : Typed(insertMany(s, I))
        BY <1>3 DEF insertMany
    <1> QED  BY <1>2, <1>3, <1>4

LEMMA SeatTypesStep ==
    ASSUME TypeInv, [Next]_vars
    PROVE  SeatTypes'
    <1>1. ASSUME seats' = seats  PROVE SeatStep
        BY <1>1 DEF SeatStep
    <1>2. \A r \in Rooms : Typed(seats[r])
        BY DEF TypeInv, SeatTypes
    <1>3. ASSUME NEW r, NEW I, SetSeats(r, vacate(seats[r], I)) \/ SetSeats(r, without(seats[r], I))
          PROVE  SeatStep
        BY <1>2, <1>3, TypedHelpers DEF SetSeats, SeatStep
    <1>4. ASSUME NEW r, NEW I \in SUBSET SeatIndex,
                 SetSeats(r, withEmpty(seats[r], I)) \/ SetSeats(r, insertMany(seats[r], I))
          PROVE  SeatStep
        BY <1>2, <1>4, TypedHelpers DEF SetSeats, SeatStep
    <1>5. ASSUME NEW q \in Requests, NEW c, Read(q, c)  PROVE SeatStep
        <2>1. CASE LeaveSeat(q, c)
            BY <1>3, <2>1 DEF LeaveSeat
        <2>2. CASE ~LeaveSeat(q, c)
            BY <1>1, <1>5, <2>2 DEF Read, OpenRead, EnterRead, LeaveRead, TakeRead, ModerateRead,
               PromoteRead, DemoteRead, UnblockRead, ListRead, BlockRead, RemoveRead,
               RestoreRead, ResizeRead
        <2> QED  BY <2>1, <2>2
    <1>6. ASSUME NEW q \in Requests, OpenSeats(q) \/ ReseedFill(q) \/ ReseedDrop(q)  PROVE SeatStep
        <2>1. pc[q] \in LayoutPlaces
            BY <1>6 DEF OpenSeats, ReseedFill, ReseedDrop, At, LayoutPlaces
        <2>2. 0 .. call[q].n \in SUBSET SeatIndex
            BY <2>1, Standing
        <2> QED  BY <1>3, <1>4, <1>6, <2>2 DEF OpenSeats, ReseedFill, ReseedDrop
    <1>7. ASSUME NEW q \in Requests, ReseedClear(q)  PROVE SeatStep
        <2> DEFINE r == call[q].room
                   t == [i \in DOMAIN seats[r] |-> IF i <= call[q].n THEN EmptySeat ELSE seats[r][i]]
        <2>1. Typed(seats[r]) => Typed(t)
            BY DEF Typed, EmptySeat, Seat
        <2>2. seats' = [seats EXCEPT ![r] = t]
            BY <1>7 DEF ReseedClear, SetSeats
        <2> HIDE DEF t
        <2> QED  BY <1>2, <2>1, <2>2 DEF SeatStep
    <1>8. ASSUME NEW p, LeaveSeats(p) \/ CloseSeats(p) \/ TakeVacate(p) \/ KickFromSeat(p) \/ Drop(p)
          PROVE  SeatStep
        <2>1. CASE LeaveSeats(p) \/ CloseSeats(p) \/ TakeVacate(p) \/ KickFromSeat(p)
            BY <1>3, <2>1 DEF LeaveSeats, CloseSeats, TakeVacate, KickFromSeat
        <2>2. CASE Drop(p)
            BY <1>1, <1>3, <2>2 DEF Drop, DropMembers, DropSeats, DropCount
        <2> QED  BY <1>8, <2>1, <2>2
    <1>9. ASSUME NEW q \in Requests, TakeClaim(q) \/ SetSeatLocked(q)  PROVE SeatStep
        <2> DEFINE r == call[q].room
                   i == call[q].n
                   s == seats[r]
        <2>1. call[q].room \in Rooms /\ call[q].by \in Users
            BY <1>9, Standing DEF TakeClaim, SetSeatLocked, At
        <2>2. CASE seats' = seats
            BY <1>1, <2>2
        <2>3. ASSUME NEW x \in Seat, i \in DOMAIN s, seats' = [seats EXCEPT ![r] = [s EXCEPT ![i] = x]]
              PROVE  SeatStep
            <3>1. Typed([s EXCEPT ![i] = x])
                BY <1>2, <2>1, <2>3 DEF Typed
            <3> QED  BY <2>3, <3>1 DEF SeatStep
        <2>4. CASE i \in DOMAIN s /\ seats' = [seats EXCEPT ![r][i].userId = call[q].by]
            <3>1. s[i] \in Seat
                BY <1>2, <2>1, <2>4 DEF Typed
            <3>2. [s[i] EXCEPT !.userId = call[q].by] \in Seat
                BY <2>1, <3>1 DEF Seat
            <3> QED  BY <2>3, <2>4, <3>2
        <2>5. CASE i \in DOMAIN s /\ seats' = [seats EXCEPT ![r][i].locked = (call[q].op = "lock")]
            <3>1. s[i] \in Seat
                BY <1>2, <2>1, <2>5 DEF Typed
            <3>2. [s[i] EXCEPT !.locked = (call[q].op = "lock")] \in Seat
                BY <3>1 DEF Seat
            <3> QED  BY <2>3, <2>5, <3>2
        <2> QED  BY <1>9, <2>2, <2>4, <2>5 DEF TakeClaim, SetSeatLocked
    <1>10. ASSUME NEW q \in Requests, ResizeWrite(q)  PROVE SeatStep
        <2> DEFINE r == call[q].room
                   s == seats[r]
                   new == job[q].top + 1 .. safeCount(q)
                   above == {i \in DOMAIN s : i > safeCount(q)}
        <2>1. pc[q] = "resizeWrite"
            BY <1>10 DEF ResizeWrite, At
        <2>2. safeCount(q) \in SeatIndex /\ job[q].top \in Nat
            BY <2>1, Standing, SafeCount DEF Fits, LayoutPlaces, Job
        <2>3. new \in SUBSET SeatIndex
            BY <2>2, Seating DEF SeatIndex
        <2>4. \/ SetSeats(r, insertMany(s, new))
              \/ SetSeats(r, without(s, above \ occupied(s)))
              \/ SetSeats(r, s)
            BY <1>10 DEF ResizeWrite
        <2>5. CASE SetSeats(r, s)
            BY <1>2, <2>5 DEF SetSeats, SeatStep
        <2> HIDE DEF new, above
        <2> QED  BY <1>3, <1>4, <2>3, <2>4, <2>5
    <1>11. ASSUME NEW p,
                 \/ OpenCreate(p) \/ OpenSave(p) \/ EnterOpen(p) \/ EnterPrior(p)
                 \/ EnterLeave(p) \/ EnterFind(p) \/ EnterTouch(p) \/ EnterCreate(p)
                 \/ EnterCount(p) \/ LeaveDelete(p) \/ LeaveCount(p) \/ Close(p) \/ CloseMembers(p)
                 \/ PromoteAdmin(p) \/ DemoteAdmin(p) \/ BlockSave(p) \/ Unblock(p)
                 \/ RemoveSave(p) \/ RestoreSave(p) \/ ResizeFind(p) \/ ResizeSave(p)
          PROVE  SeatStep
        BY <1>1, <1>11 DEF OpenCreate, OpenSave, EnterOpen, EnterPrior, EnterLeave, EnterFind,
           EnterTouch, EnterCreate, EnterCount, LeaveDelete, LeaveCount, Close, CloseMembers,
           PromoteAdmin, DemoteAdmin, BlockSave, Unblock, RemoveSave, RestoreSave, ResizeFind,
           ResizeSave
    <1>12. ASSUME NEW q \in Requests, Step(q)  PROVE SeatStep
        BY <1>6, <1>7, <1>8, <1>9, <1>10, <1>11, <1>12 DEF Step
    <1>13. SeatStep
        <2>1. CASE Sweep
            BY <1>1, <1>8, <1>11, <2>1 DEF Sweep, SweepStart, SweepRoom
        <2>2. CASE (\E r \in Rooms : Heartbeat(r) \/ Lapse(r) \/ Vanish(r)) \/ Crash \/ UNCHANGED vars
            BY <1>1, <2>2 DEF Heartbeat, Lapse, Vanish, Crash, vars
        <2> QED  BY <1>5, <1>12, <2>1, <2>2 DEF Next
    <1>14. CASE seats' = seats
        BY <1>14 DEF TypeInv, SeatTypes
    <1>15. ASSUME NEW r, NEW t, seats' = [seats EXCEPT ![r] = t], r \in Rooms => Typed(t)
           PROVE  SeatTypes'
        <2>1. DOMAIN seats' = Rooms
            BY <1>15 DEF TypeInv, SeatTypes
        <2>2. \A x \in Rooms : seats'[x] = IF x = r THEN t ELSE seats[x]
            BY <1>15 DEF TypeInv, SeatTypes
        <2> QED  BY <1>2, <1>15, <2>1, <2>2 DEF SeatTypes
    <1> QED  BY <1>13, <1>14, <1>15 DEF SeatStep

------------------------------------------------------------------------------
\* The presence rows and the counter.

Balance(r) ==
    recounted[r] \/ viewerCount[r] + Cardinality(counting(r))
                        >= Cardinality(members[r]) + Cardinality(leaving(r))

CountInv == TypeInv /\ \A r \in Rooms : Balance(r)

\* A step resets the counter of r, or leaves it and lets nobody in.
Mild(r) ==
    \/ recounted'[r]
    \/ /\ viewerCount'[r] = viewerCount[r] /\ recounted'[r] = recounted[r]
       /\ members'[r] \subseteq members[r]

MildStep == PresenceTypes' /\ \A r \in Rooms : Mild(r)

LEMMA PresenceStep ==
    ASSUME TypeInv, [Next]_vars, \A q \in Requests : ~EnterCreate(q) /\ ~EnterCount(q) /\ ~LeaveCount(q)
    PROVE  MildStep
    <1>1. ASSUME UNCHANGED presenceVars  PROVE MildStep
        BY <1>1 DEF presenceVars, PresenceTypes, TypeInv, Mild, MildStep
    <1>2. ASSUME NEW q \in Requests, NEW c, Read(q, c)  PROVE MildStep
        BY <1>1, <1>2 DEF Read, OpenRead, EnterRead, LeaveRead, TakeRead, LeaveSeat,
           ModerateRead, PromoteRead, DemoteRead, UnblockRead, ListRead, BlockRead, RemoveRead,
           RestoreRead, ResizeRead
    <1>3. ASSUME NEW r, NEW gone, NEW h, members' = [members EXCEPT ![r] = @ \ gone],
                 hostSeen' = [hostSeen EXCEPT ![r] = h], h \in BOOLEAN,
                 UNCHANGED <<viewerCount, recounted>>
          PROVE  MildStep
        <2>1. \A x \in Rooms : members'[x] \subseteq members[x]
            BY <1>3 DEF TypeInv, PresenceTypes
        <2>2. \A x \in Rooms : IsFiniteSet(members'[x])
            BY <2>1, FS_Subset DEF TypeInv, PresenceTypes
        <2> QED  BY <1>3, <2>1, <2>2 DEF TypeInv, PresenceTypes, Mild, MildStep
    <1>4. ASSUME NEW r, NEW v \in Nat, viewerCount' = [viewerCount EXCEPT ![r] = v],
                 recounted' = [recounted EXCEPT ![r] = TRUE], UNCHANGED <<members, hostSeen>>
          PROVE  MildStep
        BY <1>4 DEF TypeInv, PresenceTypes, Mild, MildStep
    <1>5. ASSUME NEW h \in BOOLEAN, NEW r, hostSeen' = [hostSeen EXCEPT ![r] = h],
                 UNCHANGED <<members, viewerCount, recounted>>
          PROVE  MildStep
        BY <1>5 DEF TypeInv, PresenceTypes, Mild, MildStep
    <1>6. ASSUME NEW p \in Process, Close(p)  PROVE MildStep
        BY <1>4, <1>6 DEF Close
    <1>7. ASSUME NEW p \in Process, CloseMembers(p)  PROVE MildStep
        <2> DEFINE r == job[p].in
        <2>1. members' = [members EXCEPT ![r] = @ \ members[r]]
            BY <1>7 DEF CloseMembers
        <2>2. hostSeen' = [hostSeen EXCEPT ![r] = FALSE] /\ UNCHANGED <<viewerCount, recounted>>
            BY <1>7 DEF CloseMembers
        <2> QED  BY <1>3, <2>1, <2>2
    <1>8. ASSUME NEW q \in Requests, LeaveDelete(q)  PROVE MildStep
        <2>1. job[q].in \in Rooms
            BY Standing
        <2> DEFINE r == job[q].in
                   h == hostSeen[r] /\ call[q].by # ownerId[r]
        <2>2. /\ members' = [members EXCEPT ![r] = @ \ {call[q].by}]
              /\ hostSeen' = [hostSeen EXCEPT ![r] = h] /\ UNCHANGED <<viewerCount, recounted>>
            BY <1>8 DEF LeaveDelete
        <2>3. h \in BOOLEAN
            OBVIOUS
        <2> HIDE DEF h
        <2> QED  BY <1>3, <2>2, <2>3
    <1>9. ASSUME NEW q \in Requests, EnterTouch(q)  PROVE MildStep
        <2> DEFINE r == call[q].room
                   h == hostSeen[r] \/ (isOwner(call[q]) /\ ownerId[r] \in members[r])
        <2>1. hostSeen' = [hostSeen EXCEPT ![r] = h] /\ UNCHANGED <<members, viewerCount, recounted>>
            BY <1>9 DEF EnterTouch
        <2>2. h \in BOOLEAN
            OBVIOUS
        <2> HIDE DEF h
        <2> QED  BY <1>5, <2>1, <2>2
    <1>10. ASSUME NEW q \in Requests, Drop(q)  PROVE MildStep
        <2>1. call[q].room \in Rooms
            BY <1>10, Standing DEF Drop, At
        <2> DEFINE r == call[q].room
        <2>2. CASE DropMembers(q)
            <3> DEFINE gone == IF call[q].op = "block" THEN {call[q].target} ELSE Users
                       h == hostSeen[r] /\ ownerId[r] \notin gone
            <3>1. /\ members' = [members EXCEPT ![r] = @ \ gone]
                  /\ hostSeen' = [hostSeen EXCEPT ![r] = h] /\ UNCHANGED <<viewerCount, recounted>>
                BY <2>2 DEF DropMembers
            <3>2. h \in BOOLEAN
                OBVIOUS
            <3> HIDE DEF gone, h
            <3> QED  BY <1>3, <3>1, <3>2
        <2>3. CASE DropSeats(q)
            BY <1>1, <2>3 DEF DropSeats
        <2>4. CASE DropCount(q)
            <3> DEFINE v == IF call[q].op = "block" /\ viewerCount[r] > 0 THEN viewerCount[r] - 1 ELSE 0
            <3>1. /\ viewerCount' = [viewerCount EXCEPT ![r] = v]
                  /\ recounted' = [recounted EXCEPT ![r] = TRUE] /\ UNCHANGED <<members, hostSeen>>
                BY <2>4 DEF DropCount
            <3>2. v \in Nat
                BY <2>1 DEF TypeInv, PresenceTypes
            <3> HIDE DEF v
            <3> QED  BY <1>4, <3>1, <3>2
        <2> QED  BY <1>10, <2>2, <2>3, <2>4 DEF Drop
    <1>11. ASSUME NEW p,
                 \/ OpenCreate(p) \/ OpenSeats(p) \/ OpenSave(p)
                 \/ ReseedClear(p) \/ ReseedDrop(p) \/ ReseedFill(p)
                 \/ EnterOpen(p) \/ EnterPrior(p) \/ EnterLeave(p) \/ EnterFind(p)
                 \/ LeaveSeats(p) \/ CloseSeats(p)
                 \/ TakeClaim(p) \/ TakeVacate(p) \/ SetSeatLocked(p) \/ KickFromSeat(p)
                 \/ PromoteAdmin(p) \/ DemoteAdmin(p) \/ BlockSave(p) \/ Unblock(p)
                 \/ RemoveSave(p) \/ RestoreSave(p)
                 \/ ResizeFind(p) \/ ResizeWrite(p) \/ ResizeSave(p)
          PROVE  MildStep
        <2>1. UNCHANGED presenceVars
            BY <1>11 DEF OpenCreate, OpenSeats, OpenSave, ReseedClear, ReseedDrop, ReseedFill,
               EnterOpen, EnterPrior, EnterLeave, EnterFind, LeaveSeats, CloseSeats, TakeClaim,
               TakeVacate, SetSeatLocked, KickFromSeat, PromoteAdmin, DemoteAdmin, BlockSave,
               Unblock, RemoveSave, RestoreSave, ResizeFind, ResizeWrite, ResizeSave
        <2> QED  BY <1>1, <2>1
    <1>12. Requests \subseteq Process /\ Sweeper \in Process
        BY DEF Process
    <1>13. ASSUME NEW q \in Requests, Step(q)  PROVE MildStep
        BY <1>6, <1>7, <1>8, <1>9, <1>10, <1>11, <1>12, <1>13 DEF Step
    <1>14. CASE Sweep
        BY <1>1, <1>6, <1>7, <1>11, <1>12, <1>14 DEF Sweep, SweepStart, SweepRoom
    <1>15. CASE \E r \in Rooms : Heartbeat(r) \/ Lapse(r) \/ Vanish(r)
        BY <1>1, <1>5, <1>15 DEF Heartbeat, Lapse, Vanish
    <1>16. CASE Crash \/ UNCHANGED vars
        BY <1>1, <1>16 DEF Crash, vars
    <1> QED  BY <1>2, <1>13, <1>14, <1>15, <1>16 DEF Next

\* Who is in a place, when one request moves.
LEMMA OneMoves ==
    ASSUME ProcTypes, NEW q \in Requests, NEW l, GoesTo(q, l)
    PROVE  /\ pc'[q] = l
           /\ \A p \in Requests : p # q => pc'[p] = pc[p] /\ call'[p] = call[p] /\ job'[p] = job[p]
    BY RequestsAreProcesses DEF ProcTypes, GoesTo

LEMMA CountersFinite ==
    ASSUME NEW r
    PROVE  /\ IsFiniteSet(counting(r)) /\ Cardinality(counting(r)) \in Nat
           /\ IsFiniteSet(leaving(r)) /\ Cardinality(leaving(r)) \in Nat
           /\ IsFiniteSet(counting(r)') /\ Cardinality(counting(r)') \in Nat
           /\ IsFiniteSet(leaving(r)') /\ Cardinality(leaving(r)') \in Nat
    <1>1. /\ counting(r) \in SUBSET Requests /\ leaving(r) \in SUBSET Requests
          /\ counting(r)' \in SUBSET Requests /\ leaving(r)' \in SUBSET Requests
        BY DEF counting, leaving
    <1> QED  BY <1>1, Bounded, FS_Subset, FS_CardinalityType

\* Nobody comes to a counter, or leaves one.
LEMMA MildKeeps ==
    ASSUME CountInv, PresenceTypes', NEW r \in Rooms, Mild(r),
           counting(r)' = counting(r), leaving(r)' = leaving(r)
    PROVE  Balance(r)'
    <1>1. CASE recounted'[r]
        BY <1>1 DEF Balance
    <1>2. CASE ~recounted'[r]
        <2>1. /\ viewerCount'[r] = viewerCount[r] /\ ~recounted[r]
              /\ members'[r] \in SUBSET members[r] /\ IsFiniteSet(members[r])
            BY <1>2 DEF Mild, CountInv, TypeInv, PresenceTypes
        <2>2. /\ Cardinality(members'[r]) <= Cardinality(members[r])
              /\ Cardinality(members[r]) \in Nat /\ Cardinality(members'[r]) \in Nat
            BY <2>1, FS_Subset, FS_CardinalityType
        <2>3. viewerCount[r] \in Nat
            BY DEF CountInv, TypeInv, PresenceTypes
        <2>4. viewerCount[r] + Cardinality(counting(r)) >= Cardinality(members[r]) + Cardinality(leaving(r))
            BY <2>1 DEF CountInv, Balance
        <2>5. viewerCount'[r] + Cardinality(counting(r)') >= Cardinality(members'[r]) + Cardinality(leaving(r)')
            BY <2>1, <2>2, <2>3, <2>4, CountersFinite
        <2> QED  BY <2>5 DEF Balance
    <1> QED  BY <1>1, <1>2

LEMMA QuietCounters ==
    ASSUME ProcTypes, NEW q \in Requests, Quiet(q), NEW r
    PROVE  counting(r)' = counting(r) /\ leaving(r)' = leaving(r)
    <1>1. PICK l : l \notin Counters /\ GoesTo(q, l)
        BY DEF Quiet
    <1>2. pc'[q] \notin Counters /\ pc[q] \notin Counters
        BY <1>1, OneMoves DEF Quiet
    <1>3. \A p \in Requests : p # q => pc'[p] = pc[p] /\ call'[p] = call[p] /\ job'[p] = job[p]
        BY <1>1, OneMoves
    <1> QED  BY <1>2, <1>3 DEF counting, leaving, Counters

\* What a step is that lets nobody in and counts nobody.
LEMMA RestSteps ==
    ASSUME TypeInv, [Next]_vars,
           \A q \in Requests : ~EnterCreate(q) /\ ~EnterCount(q) /\ ~LeaveCount(q) /\ ~LeaveDelete(q)
    PROVE  /\ ProcTypes' /\ EnvTypes'
           /\ \A r \in Rooms : counting(r)' = counting(r) /\ leaving(r)' = leaving(r)
    <1>0. ProcTypes /\ EnvTypes
        BY DEF TypeInv
    <1>1. ASSUME NEW q \in Requests, Quiet(q)
          PROVE  /\ ProcTypes' /\ EnvTypes'
                 /\ \A r \in Rooms : counting(r)' = counting(r) /\ leaving(r)' = leaving(r)
        BY <1>0, <1>1, GoesKeeps, QuietCounters DEF Quiet
    <1>2. ASSUME \A q \in Requests : call'[q] = call[q] /\ pc'[q] = pc[q] /\ job'[q] = job[q]
          PROVE  \A r \in Rooms : counting(r)' = counting(r) /\ leaving(r)' = leaving(r)
        BY <1>2 DEF counting, leaving
    <1>3. ASSUME NEW q \in Requests, NEW c \in load.calls, Turn(q), Read(q, c)
          PROVE  Quiet(q)
        BY <1>3, ReadsGo DEF Turn
    <1>4. ASSUME NEW q \in Requests, Step(q)  PROVE Quiet(q)
        BY <1>4, StepsGo
    <1>5. ASSUME UNCHANGED procVars, UNCHANGED <<load, crashes, stopped>>, alive' \subseteq alive
          PROVE  /\ ProcTypes' /\ EnvTypes'
                 /\ \A r \in Rooms : counting(r)' = counting(r) /\ leaving(r)' = leaving(r)
        <2>1. ProcTypes' /\ EnvTypes'
            BY <1>0, <1>5 DEF procVars, ProcTypes, EnvTypes
        <2> QED  BY <1>2, <1>5, <2>1 DEF procVars
    <1>6. CASE Crash
        <2>1. \A q \in Requests : call'[q] = call[q] /\ pc'[q] = pc[q] /\ job'[q] = job[q]
            BY <1>0, <1>6, RequestsAreProcesses DEF Crash, ProcTypes
        <2>2. ProcTypes'
            <3>1. /\ pc' \in [Process -> Location] /\ job' \in [Process -> Job]
                  /\ call' \in [Requests -> Call \cup {NoCall}] /\ load' = load
                BY <1>0, <1>6, IdleTyped DEF Crash, ProcTypes, Location
            <3> QED  BY <1>0, <2>1, <3>1 DEF ProcTypes
        <2>3. EnvTypes'
            <3>1. load.crashes \in Nat
                BY <1>0, Bounded DEF EnvTypes
            <3> QED  BY <1>0, <1>6, <3>1 DEF Crash, EnvTypes
        <2> QED  BY <1>2, <2>1, <2>2, <2>3
    <1>7. CASE \E r \in Rooms : Heartbeat(r) \/ Lapse(r) \/ Vanish(r)
        BY <1>5, <1>7 DEF Heartbeat, Lapse, Vanish, envVars
    <1>8. CASE UNCHANGED vars
        BY <1>5, <1>8 DEF vars, envVars
    <1>9. CASE Sweep
        BY <1>2, <1>9, SweepGoes
    <1> QED  BY <1>1, <1>3, <1>4, <1>6, <1>7, <1>8, <1>9 DEF Next

------------------------------------------------------------------------------
\* The four that count.

\* The row is written before the counter is moved, so that q is one of those who count.
LEMMA EnterCreateKeeps ==
    ASSUME CountInv, NEW q \in Requests, EnterCreate(q)
    PROVE  PresenceTypes' /\ \A r \in Rooms : Balance(r)'
    <1>0. TypeInv /\ ProcTypes /\ PresenceTypes
        BY DEF CountInv, TypeInv
    <1>r. PICK r, u : r = call[q].room /\ u = call[q].by
        OBVIOUS
    <1>1. /\ pc[q] = "enterCreate" /\ r \in Rooms /\ u \in Users
          /\ call[q].room = r /\ call[q].by = u
        BY <1>0, <1>r, Standing DEF EnterCreate, At
    <1>2. CASE u \in members[r]
        <2>1. UNCHANGED presenceVars /\ End(q)
            BY <1>1, <1>2 DEF EnterCreate, presenceVars
        <2>2. PresenceTypes' /\ \A x \in Rooms : Mild(x)
            BY <1>0, <2>1 DEF presenceVars, PresenceTypes, Mild
        <2>3. Quiet(q)
            BY <1>1, <2>1, EndGoes DEF Quiet, Counters
        <2> QED  BY <1>0, <2>2, <2>3, QuietCounters, MildKeeps
    <1>3. CASE u \notin members[r]
        <2>1. /\ members' = [members EXCEPT ![r] = @ \cup {u}]
              /\ hostSeen' = [hostSeen EXCEPT ![r] = @ \/ isOwner(call[q])]
              /\ Go(q, "enterCount") /\ UNCHANGED <<viewerCount, recounted>>
            BY <1>1, <1>3 DEF EnterCreate
        <2>2. /\ pc'[q] = "enterCount" /\ call' = call /\ job' = job
              /\ \A p \in Requests : p # q => pc'[p] = pc[p]
            BY <1>0, <2>1, RequestsAreProcesses DEF Go, ProcTypes
        <2>3. \A x \in Rooms : members'[x] = IF x = r THEN members[r] \cup {u} ELSE members[x]
            BY <1>0, <2>1 DEF PresenceTypes
        <2>4. /\ IsFiniteSet(members[r]) /\ IsFiniteSet(members[r] \cup {u})
              /\ Cardinality(members[r] \cup {u}) = Cardinality(members[r]) + 1
              /\ Cardinality(members[r]) \in Nat
            BY <1>0, <1>1, <1>3, FS_AddElement, FS_CardinalityType DEF PresenceTypes
        <2>5. PresenceTypes'
            <3>1. members' \in [Rooms -> SUBSET Users] /\ hostSeen' \in [Rooms -> BOOLEAN]
                BY <1>0, <1>1, <2>1 DEF PresenceTypes
            <3> QED  BY <1>0, <2>1, <2>3, <2>4, <3>1 DEF PresenceTypes
        <2>6. \A x \in Rooms : leaving(x)' = leaving(x)
            BY <1>1, <2>2 DEF leaving
        <2>7. Balance(r)'
            <3>1. counting(r)' = counting(r) \cup {q} /\ q \notin counting(r)
                BY <1>1, <2>2 DEF counting
            <3>2. Cardinality(counting(r)') = Cardinality(counting(r)) + 1
                BY <3>1, CountersFinite, FS_AddElement
            <3>3. viewerCount[r] \in Nat /\ Balance(r)
                BY <1>0, <1>1 DEF PresenceTypes, CountInv
            <3>4. members'[r] = members[r] \cup {u} /\ leaving(r)' = leaving(r)
                BY <1>1, <2>3, <2>6
            <3>5. viewerCount' = viewerCount /\ recounted' = recounted
                BY <2>1
            <3>6. Cardinality(counting(r)) \in Nat /\ Cardinality(leaving(r)) \in Nat
                BY CountersFinite
            <3>7. Cardinality(members'[r]) = Cardinality(members[r]) + 1
                BY <2>4, <3>4
            <3> QED  BY <2>4, <3>2, <3>3, <3>4, <3>5, <3>6, <3>7 DEF Balance
        <2>8. ASSUME NEW x \in Rooms, x # r  PROVE Balance(x)'
            <3>1. counting(x)' = counting(x)
                BY <1>1, <2>2, <2>8 DEF counting
            <3>2. Mild(x)
                BY <2>1, <2>3, <2>8 DEF Mild
            <3> QED  BY <2>5, <2>6, <3>1, <3>2, MildKeeps
        <2> QED  BY <2>5, <2>7, <2>8
    <1> QED  BY <1>2, <1>3

LEMMA EnterCountKeeps ==
    ASSUME CountInv, NEW q \in Requests, EnterCount(q)
    PROVE  PresenceTypes' /\ \A r \in Rooms : Balance(r)'
    <1>0. TypeInv /\ ProcTypes /\ PresenceTypes
        BY DEF CountInv, TypeInv
    <1>r. PICK r : r = call[q].room
        OBVIOUS
    <1>1. pc[q] = "enterCount" /\ r \in Rooms /\ call[q].room = r
        BY <1>0, <1>r, Standing DEF EnterCount, At
    <1>2. /\ viewerCount' = [viewerCount EXCEPT ![r] = @ + 1] /\ End(q)
          /\ UNCHANGED <<members, hostSeen, recounted>>
        BY <1>1 DEF EnterCount
    <1>3. /\ pc'[q] = "done"
          /\ \A p \in Requests : p # q => pc'[p] = pc[p] /\ call'[p] = call[p] /\ job'[p] = job[p]
        BY <1>0, <1>2, EndGoes, OneMoves
    <1>4. \A x \in Rooms : viewerCount'[x] = IF x = r THEN viewerCount[r] + 1 ELSE viewerCount[x]
        BY <1>0, <1>2 DEF PresenceTypes
    <1>5. PresenceTypes'
        BY <1>0, <1>1, <1>2 DEF PresenceTypes
    <1>6. \A x \in Rooms : leaving(x)' = leaving(x)
        BY <1>1, <1>3 DEF leaving
    <1>7. Balance(r)'
        <2>1. counting(r)' = counting(r) \ {q} /\ q \in counting(r)
            BY <1>1, <1>3 DEF counting
        <2>2. Cardinality(counting(r)') = Cardinality(counting(r)) - 1
            BY <2>1, CountersFinite, FS_RemoveElement
        <2>3. viewerCount[r] \in Nat /\ Balance(r) /\ viewerCount'[r] = viewerCount[r] + 1
            BY <1>0, <1>1, <1>4 DEF PresenceTypes, CountInv
        <2>4. Cardinality(members[r]) \in Nat
            BY <1>0, <1>1, FS_CardinalityType DEF PresenceTypes
        <2>5. leaving(r)' = leaving(r)
            BY <1>1, <1>6
        <2> QED  BY <1>2, <2>2, <2>3, <2>4, <2>5, CountersFinite DEF Balance
    <1>8. ASSUME NEW x \in Rooms, x # r  PROVE Balance(x)'
        <2>1. counting(x)' = counting(x)
            BY <1>1, <1>3, <1>8 DEF counting
        <2>2. Mild(x)
            BY <1>2, <1>4, <1>8 DEF Mild
        <2> QED  BY <1>5, <1>6, <2>1, <2>2, MildKeeps
    <1> QED  BY <1>5, <1>7, <1>8

\* The counter is lowered only for a row that this very leave has deleted.
LEMMA LeaveDeleteKeeps ==
    ASSUME CountInv, NEW q \in Requests, LeaveDelete(q)
    PROVE  PresenceTypes' /\ \A r \in Rooms : Balance(r)'
    <1>0. TypeInv /\ ProcTypes /\ PresenceTypes
        BY DEF CountInv, TypeInv
    <1>r. PICK r, u : r = job[q].in /\ u = call[q].by
        OBVIOUS
    <1>1. /\ pc[q] = "leaveDelete" /\ r \in Rooms /\ u \in Users
          /\ job[q].in = r /\ call[q].by = u
        BY <1>0, <1>r, Standing DEF LeaveDelete, At
    <1>2. /\ members' = [members EXCEPT ![r] = @ \ {u}]
          /\ hostSeen' = [hostSeen EXCEPT ![r] = @ /\ u # ownerId[r]]
          /\ Go(q, IF u \in members[r] THEN "leaveCount" ELSE "leaveSeats")
          /\ UNCHANGED <<viewerCount, recounted>>
        BY <1>1 DEF LeaveDelete
    <1>3. /\ pc'[q] = (IF u \in members[r] THEN "leaveCount" ELSE "leaveSeats")
          /\ call' = call /\ job' = job /\ \A p \in Requests : p # q => pc'[p] = pc[p]
        BY <1>0, <1>2, RequestsAreProcesses DEF Go, ProcTypes
    <1>4. \A x \in Rooms : members'[x] = IF x = r THEN members[r] \ {u} ELSE members[x]
        BY <1>0, <1>2 DEF PresenceTypes
    <1>5. /\ IsFiniteSet(members[r]) /\ IsFiniteSet(members[r] \ {u})
          /\ Cardinality(members[r] \ {u}) =
                IF u \in members[r] THEN Cardinality(members[r]) - 1 ELSE Cardinality(members[r])
          /\ Cardinality(members[r]) \in Nat
        BY <1>0, <1>1, FS_RemoveElement, FS_CardinalityType DEF PresenceTypes
    <1>6. PresenceTypes'
        <2>1. members' \in [Rooms -> SUBSET Users] /\ hostSeen' \in [Rooms -> BOOLEAN]
            BY <1>0, <1>1, <1>2 DEF PresenceTypes
        <2> QED  BY <1>0, <1>2, <1>4, <1>5, <2>1 DEF PresenceTypes
    <1>7. \A x \in Rooms : counting(x)' = counting(x)
        BY <1>1, <1>3 DEF counting
    <1>8. Balance(r)'
        <2>1. q \notin leaving(r)
              /\ leaving(r)' = IF u \in members[r] THEN leaving(r) \cup {q} ELSE leaving(r)
            BY <1>1, <1>3 DEF leaving
        <2>2. Cardinality(leaving(r)') =
                 IF u \in members[r] THEN Cardinality(leaving(r)) + 1 ELSE Cardinality(leaving(r))
            BY <2>1, CountersFinite, FS_AddElement
        <2>3. viewerCount[r] \in Nat /\ Balance(r)
            BY <1>0, <1>1 DEF PresenceTypes, CountInv
        <2>4. members'[r] = members[r] \ {u} /\ counting(r)' = counting(r)
            BY <1>1, <1>4, <1>7
        <2> QED  BY <1>2, <1>5, <2>2, <2>3, <2>4, CountersFinite DEF Balance
    <1>9. ASSUME NEW x \in Rooms, x # r  PROVE Balance(x)'
        <2>1. leaving(x)' = leaving(x)
            BY <1>1, <1>3, <1>9 DEF leaving
        <2>2. Mild(x)
            BY <1>2, <1>4, <1>9 DEF Mild
        <2> QED  BY <1>6, <1>7, <2>1, <2>2, MildKeeps
    <1> QED  BY <1>6, <1>8, <1>9

LEMMA LeaveCountKeeps ==
    ASSUME CountInv, NEW q \in Requests, LeaveCount(q)
    PROVE  PresenceTypes' /\ \A r \in Rooms : Balance(r)'
    <1>0. TypeInv /\ ProcTypes /\ PresenceTypes
        BY DEF CountInv, TypeInv
    <1>r. PICK r : r = job[q].in
        OBVIOUS
    <1>1. pc[q] = "leaveCount" /\ r \in Rooms /\ job[q].in = r
        BY <1>0, <1>r, Standing DEF LeaveCount, At
    <1>2. /\ viewerCount' = [viewerCount EXCEPT ![r] = IF @ > 0 THEN @ - 1 ELSE @]
          /\ Go(q, "leaveSeats") /\ UNCHANGED <<members, hostSeen, recounted>>
        BY <1>1 DEF LeaveCount
    <1>3. /\ pc'[q] = "leaveSeats" /\ call' = call /\ job' = job
          /\ \A p \in Requests : p # q => pc'[p] = pc[p]
        BY <1>0, <1>2, RequestsAreProcesses DEF Go, ProcTypes
    <1>4. \A x \in Rooms : viewerCount'[x] =
             IF x = r /\ viewerCount[x] > 0 THEN viewerCount[x] - 1 ELSE viewerCount[x]
        BY <1>0, <1>2 DEF PresenceTypes
    <1>5. PresenceTypes'
        <2>1. viewerCount' \in [Rooms -> Nat]
            BY <1>0, <1>1, <1>2 DEF PresenceTypes
        <2> QED  BY <1>0, <1>2, <2>1 DEF PresenceTypes
    <1>6. \A x \in Rooms : counting(x)' = counting(x)
        BY <1>1, <1>3 DEF counting
    <1>7. Balance(r)'
        <2>1. leaving(r)' = leaving(r) \ {q} /\ q \in leaving(r)
            BY <1>1, <1>3 DEF leaving
        <2>2. Cardinality(leaving(r)') = Cardinality(leaving(r)) - 1
            BY <2>1, CountersFinite, FS_RemoveElement
        <2>3. viewerCount[r] \in Nat /\ Balance(r) /\ viewerCount'[r] >= viewerCount[r] - 1
              /\ viewerCount'[r] \in Nat
            BY <1>0, <1>1, <1>4 DEF PresenceTypes, CountInv
        <2>4. Cardinality(members[r]) \in Nat
            BY <1>0, <1>1, FS_CardinalityType DEF PresenceTypes
        <2>5. counting(r)' = counting(r)
            BY <1>1, <1>6
        <2> QED  BY <1>2, <2>2, <2>3, <2>4, <2>5, CountersFinite DEF Balance
    <1>8. ASSUME NEW x \in Rooms, x # r  PROVE Balance(x)'
        <2>1. leaving(x)' = leaving(x)
            BY <1>1, <1>3, <1>8 DEF leaving
        <2>2. Mild(x)
            BY <1>2, <1>4, <1>8 DEF Mild
        <2> QED  BY <1>5, <1>6, <2>1, <2>2, MildKeeps
    <1> QED  BY <1>5, <1>7, <1>8

LEMMA NextCounts == CountInv /\ [Next]_vars => CountInv'
    <1> SUFFICES ASSUME CountInv, [Next]_vars  PROVE CountInv'
        OBVIOUS
    <1>1. TypeInv
        BY DEF CountInv
    <1>2. RoomTypes' /\ SeatTypes'
        BY <1>1, RoomTypesStep, SeatTypesStep
    <1>3. ASSUME NEW q \in Requests,
                 EnterCreate(q) \/ EnterCount(q) \/ LeaveDelete(q) \/ LeaveCount(q)
          PROVE  /\ ProcTypes' /\ EnvTypes' /\ PresenceTypes'
                 /\ \A r \in Rooms : Balance(r)'
        <2>1. ProcTypes' /\ EnvTypes'
            BY <1>1, <1>3, CountersGo, GoesKeeps DEF TypeInv
        <2>2. PresenceTypes' /\ \A r \in Rooms : Balance(r)'
            BY <1>3, EnterCreateKeeps, EnterCountKeeps, LeaveDeleteKeeps, LeaveCountKeeps
        <2> QED  BY <2>1, <2>2
    <1>4. CASE \A q \in Requests :
                  ~EnterCreate(q) /\ ~EnterCount(q) /\ ~LeaveCount(q) /\ ~LeaveDelete(q)
        <2>1. /\ ProcTypes' /\ EnvTypes'
              /\ \A r \in Rooms : counting(r)' = counting(r) /\ leaving(r)' = leaving(r)
            BY <1>1, <1>4, RestSteps
        <2>2. PresenceTypes' /\ \A r \in Rooms : Mild(r)
            BY <1>1, <1>4, PresenceStep DEF MildStep
        <2>3. \A r \in Rooms : Balance(r)'
            BY <2>1, <2>2, MildKeeps
        <2> QED  BY <1>2, <2>1, <2>2, <2>3 DEF CountInv, TypeInv
    <1>5. CASE \E q \in Requests :
                  EnterCreate(q) \/ EnterCount(q) \/ LeaveDelete(q) \/ LeaveCount(q)
        BY <1>2, <1>3, <1>5 DEF CountInv, TypeInv
    <1> QED  BY <1>4, <1>5

LEMMA InitCounts == Init => CountInv
    <1> SUFFICES ASSUME Init  PROVE CountInv
        OBVIOUS
    <1>1. RoomTypes
        <2>1. MaxSeat \in MicCounts
            <3>1. MicCounts \subseteq Int /\ MicCounts # {} /\ IsFiniteSet(MicCounts)
                BY MicAssumption
            <3> QED  BY <3>1, MaxIs DEF MaxSeat
        <2> QED  BY <2>1 DEF Init, RoomTypes, Status
    <1>2. \A r \in Rooms : IsFiniteSet(Inside[r]) /\ Cardinality(Inside[r]) \in Nat
        BY InsideAssumption, FS_CardinalityType
    <1>3. PresenceTypes
        BY <1>2, InsideAssumption DEF Init, PresenceTypes
    <1>4. SeatTypes
        <2>1. seats = [r \in Rooms |-> IF Inside[r] # {} THEN [i \in SeatIndex |-> EmptySeat]
                                       ELSE <<>>]
            BY DEF Init
        <2>2. DOMAIN <<>> = {} /\ EmptySeat \in Seat
            BY DEF EmptySeat, Seat
        <2>3. Typed([i \in SeatIndex |-> EmptySeat]) /\ Typed(<<>>)
            BY <2>2 DEF Typed
        <2> QED  BY <2>1, <2>3 DEF SeatTypes
    <1>5. /\ pc = [p \in Process |-> "idle"] /\ call = [q \in Requests |-> NoCall]
          /\ job = [p \in Process |-> Idle] /\ load \in Workloads
        BY DEF Init
    <1>6. ProcTypes
        BY <1>5, IdleTyped, RequestsAreProcesses DEF ProcTypes, Fits, Location, LayoutPlaces
    <1>7. EnvTypes
        BY Bounded DEF Init, EnvTypes
    <1>8. ASSUME NEW r \in Rooms  PROVE Balance(r)
        <2>1. counting(r) = {} /\ leaving(r) = {}
            BY <1>5, RequestsAreProcesses DEF counting, leaving
        <2>2. viewerCount[r] = Cardinality(members[r]) /\ Cardinality(members[r]) \in Nat
            BY <1>2 DEF Init
        <2>3. Cardinality(counting(r)) = 0 /\ Cardinality(leaving(r)) = 0
            BY <2>1, FS_EmptySet
        <2> QED  BY <2>2, <2>3 DEF Balance
    <1> QED  BY <1>1, <1>3, <1>4, <1>6, <1>7, <1>8 DEF CountInv, TypeInv

\* Rooms' state is well typed, and until a block, a closing or a removal has reset it the
\* viewer counter of a room, with the enters that have still to count, is no less than the
\* rows of the room and the leaves that have still to count: however many enter and leave at
\* the same time, whatever is moderated, swept or cut off by a restart meanwhile.
THEOREM EverybodyCounted == Spec => []NobodyUncounted
    <1>1. CountInv => NobodyUncounted
        <2> SUFFICES ASSUME CountInv  PROVE NobodyUncounted
            OBVIOUS
        <2>1. TypeInv
            BY DEF CountInv
        <2>2. TypeOK
            <3>1. \A r \in Rooms : /\ DOMAIN seats[r] \subseteq SeatIndex
                                   /\ \A i \in DOMAIN seats[r] : seats[r][i] \in Seat
                BY <2>1 DEF TypeInv, SeatTypes, Typed
            <3>2. /\ pc \in [Process -> Location] /\ job \in [Process -> Job]
                  /\ \A q \in Requests : call[q] \in load.calls \cup {NoCall}
                BY <2>1 DEF TypeInv, ProcTypes
            <3>3. alive \subseteq Users /\ stopped \subseteq Requests /\ crashes \in 0 .. load.crashes
                BY <2>1 DEF TypeInv, EnvTypes
            <3> QED  BY <2>1, <3>1, <3>2, <3>3 DEF TypeInv, RoomTypes, PresenceTypes, TypeOK
        <2>3. \A r \in Rooms : Balance(r)
            BY DEF CountInv
        <2> QED  BY <2>2, <2>3 DEF NobodyUncounted, Balance
    <1> QED  BY <1>1, InitCounts, NextCounts, PTL DEF Spec

=============================================================================
