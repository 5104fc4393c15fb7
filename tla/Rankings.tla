-------------------------------- MODULE Rankings --------------------------------
(***************************************************************************)
(* What is computed from the gifts: the platform's rankings                *)
(* (modules/rankings), the weekly support of a room (modules/room-support), *)
(* the contributions of a room and the gift wall of a user                 *)
(* (modules/gifts).  Each answer takes several queries, between which      *)
(* gifts, lastSeen and memberships change; each looks at one window of time, *)
(* cut in UTC or, with an offset, in local time.                           *)
(*                                                                         *)
(* A moment is a number of half hours since a Monday, 00:00 UTC: the days  *)
(* of a behaviour are looked at, one after another, at the moments that    *)
(* its workload names.                                                     *)
(***************************************************************************)
EXTENDS Families

CONSTANTS
    RoomOwner,      \* room -> the user who owns it
    MonthStarts,    \* the days on which a month begins
    BoardSize           \* how many rows a board shows: 100, 50, 20

ASSUME BoardAssumption == BoardSize \in Nat \ {0}

VARIABLES
    giftLog,    \* request -> the gift event it wrote
    lastSeen,     \* <<room, user>> -> when he was last seen there
    ladder      \* the room support levels, best first

boardVars == <<giftLog, lastSeen, ladder>>

BoardsInit == giftLog = <<>> /\ lastSeen = <<>> /\ ladder = <<>>

now == load.instants[day]

TzOffset == 11

------------------------------------------------------------------------------
\* Windows.

DayOf(t) == t \div 48

\* getUTCDay: Sunday is 0.
dayOfWeek(d) == (d + 1) % 7

MutantFirstDay(period, d) ==
    CASE period = "daily" -> d
      [] period = "weekly" -> d - dayOfWeek(d) + 1
      [] OTHER -> Max({m \in MonthStarts : m <= d})

FirstDay(period, d) ==
    CASE period = "daily" -> d
      [] period = "weekly" -> d - ((dayOfWeek(d) + 6) % 7)
      [] OTHER -> Max({m \in MonthStarts : m <= d})

NextDay(period, d) ==
    CASE period = "daily" -> d + 1
      [] period = "weekly" -> FirstDay(period, d) + 7
      [] OTHER -> Min({m \in MonthStarts : m > d})

\* The first and the last moment of t's period.
windowFor(period, t) ==
    [start |-> 48 * FirstDay(period, DayOf(t)), end |-> 48 * NextDay(period, DayOf(t)) - 1]

localWindow(period, t) ==
    LET w == windowFor(period, t + TzOffset)
    IN  [start |-> w.start - TzOffset, end |-> w.end - TzOffset]

weekBounds(t) ==
    LET this == localWindow("weekly", t)
        wednesday == this.start + 2 * 48
    IN  [this |-> this,
         last |-> [start |-> this.start - 7 * 48, end |-> this.start - 1],
         nextRewardAt |-> IF wednesday > t THEN wednesday ELSE wednesday + 7 * 48]

During(t, w) == w.start <= t /\ t <= w.end

\* The events that happened in the window.
Given(w) == {i \in DOMAIN giftLog : During(giftLog[i].at, w)}

------------------------------------------------------------------------------
\* Queries.

\* $group: the sum of val(i) over the i in E with each key.
Grouped(E, key(_), val(_)) ==
    [s \in {key(i) : i \in E} |->
        MapThenSumSet(LAMBDA i : IF key(i) = s THEN val(i) ELSE 0, E)]

Positive(f) == Restrict(f, {s \in DOMAIN f : f[s] > 0})

\* $sort and $limit: those that no other beats; the order of equals is the database's.
Tops(f) ==
    {T \in SUBSET DOMAIN f :
        /\ Cardinality(T) = Min({BoardSize, Cardinality(DOMAIN f)})
        /\ \A s \in T, t \in DOMAIN f \ T : f[s] >= f[t]}

\* One of the queries that r has in flight answers; after the last r goes on.
Collects(r, q, fields, to) ==
    LET left == job[r].left \ {q} IN
    /\ q \in job[r].left
    /\ Learns(r, Override([left |-> left], fields))
    /\ Goes(r, IF left = {} THEN to ELSE pc[r])
    /\ UNCHANGED <<ledger, boardVars>>

------------------------------------------------------------------------------
\* What happens: gifts, lastSeen and departures, an admin's edit of the levels.

GiftEvent(r) ==
    LET c == call(r) IN
    /\ Begins(r, "giftEvent")
    /\ giftLog' = Put(giftLog, r, [from |-> c.from, to |-> c.to, room |-> c.room, gift |-> c.gift,
                                 count |-> c.count, coins |-> c.coins, diamonds |-> c.diamonds,
                                 at |-> now])
    /\ Passes(r, "done") /\ UNCHANGED <<lastSeen, ladder>>

\* enter and heartbeat, and leave, as far as the row of the visitor is concerned.
VisitRoom(r) ==
    LET row == <<call(r).room, call(r).user>> IN
    /\ \/ Begins(r, "enterRoom") /\ lastSeen' = Put(lastSeen, row, now)
       \/ Begins(r, "walkOut") /\ lastSeen' = Restrict(lastSeen, DOMAIN lastSeen \ {row})
    /\ Passes(r, "done") /\ UNCHANGED <<giftLog, ladder>>

\* updateConfig sorts the levels and computes their totals.
SupportConfig(r) ==
    /\ Begins(r, "supportConfig")
    /\ ladder' = SetToSortSeq({[l EXCEPT !.total = l.owner + l.partner * l.slots] :
                                  l \in call(r).levels},
                              LAMBDA a, b : a.level > b.level)
    /\ Passes(r, "done") /\ UNCHANGED <<giftLog, lastSeen>>

------------------------------------------------------------------------------
\* rankings.list: the board, then the caller's own row.

category(r) == call(r).category

\* Room rankings leave out what was given elsewhere.
Counted(r) ==
    {i \in Given(windowFor(call(r).period, job[r].asked)) :
        category(r) = "room" => giftLog[i].room # "none"}

Key(r, i) ==
    CASE category(r) = "honor" -> giftLog[i].from
      [] category(r) = "room" -> giftLog[i].room
      [] OTHER -> giftLog[i].to

Worth(r, i) == IF category(r) = "honor" THEN giftLog[i].coins ELSE giftLog[i].diamonds

FamilyOf(u) ==
    {f \in DOMAIN families : HasRow(u, f, "active")}

\* The value of every subject; families collect what their active members received.
Scores(r) ==
    LET each == Positive(Grouped(Counted(r), LAMBDA i : Key(r, i), LAMBDA i : Worth(r, i)))
        inFamily == {u \in DOMAIN each : FamilyOf(u) # {}}
    IN  IF category(r) # "family" THEN each
        ELSE Grouped(inFamily, LAMBDA u : roster[u].family, LAMBDA u : each[u])

Ranking(r) ==
    /\ Begins(r, "ranking")
    /\ Learns(r, [asked |-> now])
    /\ Goes(r, "rankItems") /\ UNCHANGED <<ledger, boardVars>>

RankItems(r) ==
    /\ pc[r] = "rankItems"
    /\ \E T \in Tops(Scores(r)) :
          Learns(r, [items |-> Restrict(Scores(r), T), entry |-> {}])
    /\ Goes(r, "rankCaller") /\ UNCHANGED <<ledger, boardVars>>

\* The caller himself, the room he owns, the family he is an active member of.
SubjectOf(r) ==
    LET u == call(r).user IN
    CASE category(r) = "room" -> {x \in DOMAIN RoomOwner : RoomOwner[x] = u}
      [] category(r) = "family" -> FamilyOf(u)
      [] OTHER -> {u}

RankCaller(r) ==
    LET mine == SubjectOf(r) \ DOMAIN job[r].items IN
    /\ pc[r] = "rankCaller"
    /\ IF mine = {} THEN Passes(r, "done")
       ELSE /\ \E s \in mine : Learns(r, [mine |-> s])
            /\ Goes(r, "rankSum") /\ UNCHANGED ledger
    /\ UNCHANGED boardVars

Entry(s, value, rank) == {[subject |-> s, value |-> value, rank |-> rank]}

RankSum(r) ==
    LET scores == Scores(r)
        s == job[r].mine
        value == IF s \in DOMAIN scores THEN scores[s] ELSE 0
    IN  /\ pc[r] = "rankSum"
        /\ Learns(r, [entry |-> Entry(s, value, 0)])
        /\ Goes(r, IF value <= 0 THEN "done" ELSE "rankBeaters")
        /\ UNCHANGED <<ledger, boardVars>>

MutantRankBeaters(r) ==
    LET scores == Scores(r) IN
    /\ pc[r] = "rankBeaters"
    /\ \E e \in job[r].entry :
          Learns(r, [entry |-> Entry(e.subject, e.value,
                         Cardinality({s \in DOMAIN scores : scores[s] >= e.value}) + 1)])
    /\ Goes(r, "done") /\ UNCHANGED <<ledger, boardVars>>

RankBeaters(r) ==
    LET scores == Scores(r) IN
    /\ pc[r] = "rankBeaters"
    /\ \E e \in job[r].entry :
          Learns(r, [entry |-> Entry(e.subject, e.value,
                         Cardinality({s \in DOMAIN scores : scores[s] > e.value}) + 1)])
    /\ Goes(r, "done") /\ UNCHANGED <<ledger, boardVars>>

------------------------------------------------------------------------------
\* Room support.

InRoom(room, w) == {i \in Given(w) : giftLog[i].room = room}

Coins(E) == MapThenSumSet(LAMBDA i : giftLog[i].coins, E)

Visitors(room, w) ==
    Cardinality({v \in DOMAIN lastSeen : v[1] = room /\ During(lastSeen[v], w)})

MutantResolveLevel(coins, visitors, levels) ==
    LET met == SelectSeq(levels, LAMBDA l : visitors >= l.visitors \/ coins >= l.coins)
    IN  IF met = <<>> THEN [level |-> 0, owner |-> 0]
        ELSE [level |-> met[1].level, owner |-> met[1].owner]

\* The best level of which both thresholds are met.
resolveLevel(coins, visitors, levels) ==
    LET met == SelectSeq(levels, LAMBDA l : visitors >= l.visitors /\ coins >= l.coins)
    IN  IF met = <<>> THEN [level |-> 0, owner |-> 0]
        ELSE [level |-> met[1].level, owner |-> met[1].owner]

\* getMySummary: four queries in flight, the visitors and the coins of two weeks.
Summary(r) ==
    LET rooms == {x \in DOMAIN RoomOwner : RoomOwner[x] = call(r).user} IN
    /\ Begins(r, "supportMe")
    /\ \E known \in {[asked |-> now, levels |-> ladder, metrics |-> <<>>,
                      left |-> {"visitors", "coins"} \X {"this", "last"}]} :
          IF rooms = {} THEN Learns(r, known) /\ Goes(r, "done")
          ELSE \E x \in rooms : Learns(r, Override(known, [room |-> x])) /\ Goes(r, "supportMetrics")
    /\ UNCHANGED <<ledger, boardVars>>

SupportMetrics(r) ==
    /\ pc[r] = "supportMetrics"
    /\ \E q \in job[r].left :
          LET w == weekBounds(job[r].asked)[q[2]]
              found == IF q[1] = "visitors" THEN Visitors(job[r].room, w)
                       ELSE Coins(InRoom(job[r].room, w))
          IN  Collects(r, q, [metrics |-> Put(job[r].metrics, q, found)], "done")

\* A row of the answer a.
metricRow(a, week) ==
    resolveLevel(a.metrics[<<"coins", week>>], a.metrics[<<"visitors", week>>], a.levels)

\* getRanking: the rooms of the week, then the visitors of each.
SupportRanking(r) ==
    LET w == weekBounds(now).this
        coins == Grouped({i \in Given(w) : giftLog[i].room # "none"},
                         LAMBDA i : giftLog[i].room, LAMBDA i : giftLog[i].coins)
    IN  /\ Begins(r, "supportRanking")
        /\ \E T \in Tops(coins) :
              /\ Learns(r, [asked |-> now, levels |-> ladder, left |-> T,
                            items |-> Restrict(coins, T), visitors |-> <<>>])
              /\ Goes(r, IF T = {} THEN "done" ELSE "supportVisitors")
        /\ UNCHANGED <<ledger, boardVars>>

SupportVisitors(r) ==
    /\ pc[r] = "supportVisitors"
    /\ \E x \in job[r].left :
          LET seen == Visitors(x, weekBounds(job[r].asked).this)
          IN  Collects(r, x, [visitors |-> Put(job[r].visitors, x, seen)], "done")

------------------------------------------------------------------------------
\* getRoomContributions: the senders of a room, then the total of the period.

Contributions(r) ==
    /\ Begins(r, "contributions")
    /\ Learns(r, [asked |-> now])
    /\ Goes(r, "contributionsRanked") /\ UNCHANGED <<ledger, boardVars>>

\* The gifts of the room in the period; "alltime" asks for no window.
RoomGifts(r) ==
    LET p == call(r).period IN
    IF p = "alltime" THEN {i \in DOMAIN giftLog : giftLog[i].room = call(r).room}
    ELSE InRoom(call(r).room, localWindow(p, job[r].asked))

ContributionsRanked(r) ==
    /\ pc[r] = "contributionsRanked"
    /\ LET coins == Grouped(RoomGifts(r), LAMBDA i : giftLog[i].from, LAMBDA i : giftLog[i].coins)
       IN  \E T \in Tops(coins) : Learns(r, [items |-> Restrict(coins, T)])
    /\ Goes(r, "contributionsTotal") /\ UNCHANGED <<ledger, boardVars>>

ContributionsTotal(r) ==
    /\ pc[r] = "contributionsTotal"
    /\ Learns(r, [total |-> Coins(RoomGifts(r))])
    /\ Goes(r, "done") /\ UNCHANGED <<ledger, boardVars>>

\* giftWall: what a user received and what he sent, gift by gift, merged.
GiftWall(r) ==
    /\ Begins(r, "giftWall")
    /\ Learns(r, [left |-> {"to", "from"}, sides |-> <<>>])
    /\ Goes(r, "wallSides") /\ UNCHANGED <<ledger, boardVars>>

WallSides(r) ==
    /\ pc[r] = "wallSides"
    /\ \E side \in job[r].left :
          LET E == {i \in DOMAIN giftLog : giftLog[i][side] = call(r).user}
              counts == Grouped(E, LAMBDA i : giftLog[i].gift, LAMBDA i : giftLog[i].count)
          IN  Collects(r, side, [sides |-> Put(job[r].sides, side, counts)], "wallMerge")

At(f, x) == IF x \in DOMAIN f THEN f[x] ELSE 0

WallMerge(r) ==
    LET received == job[r].sides["to"]
        sent == job[r].sides["from"]
        both == [g \in DOMAIN received \cup DOMAIN sent |-> At(received, g) + At(sent, g)]
    IN  /\ pc[r] = "wallMerge"
        /\ \E T \in Tops(both) : Learns(r, [items |-> Restrict(both, T)])
        /\ Goes(r, "done") /\ UNCHANGED <<ledger, boardVars>>

RankingsStep(r) ==
    \/ GiftEvent(r) \/ VisitRoom(r) \/ SupportConfig(r)
    \/ Ranking(r) \/ RankItems(r) \/ RankCaller(r) \/ RankSum(r) \/ RankBeaters(r)
    \/ Summary(r) \/ SupportMetrics(r) \/ SupportRanking(r) \/ SupportVisitors(r)
    \/ Contributions(r) \/ ContributionsRanked(r) \/ ContributionsTotal(r)
    \/ GiftWall(r) \/ WallSides(r) \/ WallMerge(r)

------------------------------------------------------------------------------
\* The properties speak of the calendar, not of the windows.  The calendar of a room is the
\* one that the comments put at UTC+05:30; live-record.service.ts has Dhaka at UTC+6.
StatedOffset == 11

SameDay(t, u) == t \div 48 = u \div 48
SameWeek(t, u) == t \div (7 * 48) = u \div (7 * 48)
SameMonth(t, u) == ~\E m \in MonthStarts : (t < 48 * m) # (u < 48 * m)

SamePeriod(period, t, u) ==
    CASE period = "daily" -> SameDay(t, u)
      [] period = "weekly" -> SameWeek(t, u)
      [] period = "monthly" -> SameMonth(t, u)
      [] OTHER -> TRUE

\* What the gifts of t's period have brought the subject s.
Credit(cat, period, t, s) ==
    MapThenSumSet(
        LAMBDA i :
            LET g == giftLog[i] IN
            CASE ~SamePeriod(period, g.at, t) -> 0
              [] cat = "honor" -> IF g.from = s THEN g.coins ELSE 0
              [] cat = "charm" -> IF g.to = s THEN g.diamonds ELSE 0
              [] cat = "room" -> IF g.room = s THEN g.diamonds ELSE 0
              [] OTHER -> IF HasRow(g.to, s, "active") THEN g.diamonds ELSE 0,
        DOMAIN giftLog)

Subjects(cat) ==
    CASE cat = "room" -> DOMAIN RoomOwner
      [] cat = "family" -> DOMAIN families
      [] OTHER -> UNION {{giftLog[i].from, giftLog[i].to} : i \in DOMAIN giftLog}

\* The board shows its subjects with their credit, and nobody better is left out.
Agrees(items, subjects, credit(_)) ==
    /\ Cardinality(DOMAIN items) <= BoardSize
    /\ \A s \in DOMAIN items : items[s] = credit(s) /\ items[s] > 0
    /\ \A s \in subjects \ DOMAIN items :
          /\ \A t \in DOMAIN items : credit(s) <= items[t]
          /\ credit(s) > 0 => Cardinality(DOMAIN items) = BoardSize

\* r is given its answer.
Settles(r, op) == pc[r] # "done" /\ pc'[r] = "done" /\ call(r).op = op

\* The answer a that r is given.
RankingAnswer(r, a) ==
    LET credit(s) == Credit(category(r), call(r).period, a.asked, s)
        all == Subjects(category(r))
    IN  /\ \A e \in a.entry :
              /\ e.subject \notin DOMAIN a.items
              /\ e.rank > 0 /\ category(r) # "family" =>
                    e.rank > Cardinality({s \in DOMAIN a.items : a.items[s] > e.value})
        /\ load.patient =>
              /\ Agrees(a.items, all, credit)
              /\ {s \in SubjectOf(r) : credit(s) > 0} \ DOMAIN a.items
                    \subseteq {e.subject : e \in a.entry}
              /\ \A e \in a.entry :
                    /\ e.subject \in SubjectOf(r)
                    /\ e.value = credit(e.subject)
                    /\ e.value > 0 =>
                          e.rank = 1 + Cardinality({s \in all : credit(s) > e.value})

\* rankings.service.ts: a board and the footer of the caller never show him twice, and a
\* gift that arrives in the middle never ranks him above somebody the board shows with
\* more; and when nothing changes in the middle, the board has everybody's credit of the
\* calendar day, week or month, leaves nobody better out, and a caller with some credit
\* whom it does not show has a row of his own, the number of those who beat him plus one.
RankingsAgree ==
    \A r \in Requests : Settles(r, "ranking") => RankingAnswer(r, job'[r])

\* The best rung that the coins and the visitors reach.
Rung(levels, coins, visitors) ==
    Max({0} \cup {l.level : l \in {x \in ToSet(levels) :
                                     x.coins <= coins /\ x.visitors <= visitors}})

\* The coins that the room was given in t's period of that calendar.
LocalCoins(period, room, t) ==
    MapThenSumSet(LAMBDA i : IF giftLog[i].room = room
                                /\ SamePeriod(period, giftLog[i].at + StatedOffset, t + StatedOffset)
                             THEN giftLog[i].coins ELSE 0,
                  DOMAIN giftLog)

ContributionsAnswer(r, a) ==
    LET listed == MapThenSumSet(LAMBDA s : a.items[s], DOMAIN a.items) IN
    /\ a.total >= listed
    /\ load.patient =>
          /\ a.total = LocalCoins(call(r).period, call(r).room, a.asked)
          /\ Cardinality(DOMAIN a.items) < BoardSize => a.total = listed

SupportAnswer(r, a) ==
    LET reward == weekBounds(a.asked).nextRewardAt
        about(week) == a.asked - (IF week = "this" THEN 0 ELSE 7 * 48)
    IN  /\ (reward + StatedOffset) % (7 * 48) = 2 * 48
        /\ a.asked < reward /\ reward <= a.asked + 7 * 48
        /\ a.left = {} => \A week \in {"this", "last"} :
              LET coins == a.metrics[<<"coins", week>>] IN
              /\ metricRow(a, week).level = Rung(a.levels, coins, a.metrics[<<"visitors", week>>])
              /\ load.patient => coins = LocalCoins("weekly", a.room, about(week))

SupportRankingAnswer(r, a) ==
    load.patient => Agrees(a.items, DOMAIN RoomOwner, LAMBDA x : LocalCoins("weekly", x, a.asked))

WallAnswer(r, a) ==
    LET gone(side, g, i) == giftLog[i].gift = g /\ giftLog[i][side] = call(r).user
        count(side, g) == MapThenSumSet(LAMBDA i : IF gone(side, g, i) THEN giftLog[i].count ELSE 0,
                                        DOMAIN giftLog)
    IN  load.patient =>
            Agrees(a.items, {giftLog[i].gift : i \in DOMAIN giftLog},
                   LAMBDA g : count("to", g) + count("from", g))

\* room-support.service.ts and gifts.service.ts: whatever arrives in the middle, the total
\* of a room is no less than what its board adds up to, a room's level is the best that
\* its shown numbers reach, and the next reward is on a Wednesday, at most a
\* week away; and when nothing changes in the middle, the coins of both weeks, the board and
\* the wall are those of the calendar at UTC+05:30, with nothing counted twice or left out.
RoomBoardsAgree ==
    \A r \in Requests :
        /\ Settles(r, "contributions") => ContributionsAnswer(r, job'[r])
        /\ Settles(r, "supportMe") => SupportAnswer(r, job'[r])
        /\ Settles(r, "supportRanking") => SupportRankingAnswer(r, job'[r])
        /\ Settles(r, "giftWall") => WallAnswer(r, job'[r])

\* Every board that is computed from the gifts.
BoardsAgree == [][RankingsAgree /\ RoomBoardsAgree]_<<pc, job>>
==============================================================================
