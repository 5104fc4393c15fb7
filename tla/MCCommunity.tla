------------------------------ MODULE MCCommunity ------------------------------
(***************************************************************************)
(* Small instances of the social side: three people a, b and c who follow, *)
(* block and write to each other, a moment of a's, the accounts of a few   *)
(* persons, with two numbers sold ahead of the counter; three rooms of a   *)
(* host h with an admin m and guests a, b and x, who is blocked; a family  *)
(* of a leader l, a co-leader c and a member m, two agencies owned by o    *)
(* and p, and the boards of the gifts that l, m, c and n give.  The        *)
(* workload of a behaviour decides which of them is called.                *)
(***************************************************************************)
EXTENDS Community, TLC

Load(calls, n) == [calls |-> calls, stops |-> n, days |-> 1, patient |-> FALSE]
Patient(calls) == [calls |-> calls, stops |-> 0, days |-> 1, patient |-> TRUE]
TwoDays(calls, n) == [calls |-> calls, stops |-> n, days |-> 2, patient |-> TRUE]
Days(calls) == [calls |-> calls, stops |-> 0, days |-> 3, patient |-> TRUE]

Friendly == {"a", "b", "c"}
Sold == {1, 2}
Stale == {"old"}

Pair(op, u, v) == [op |-> op, user |-> u, to |-> v]

SocialLoads ==
    {Load(<<Pair("follow", "a", "b"), Pair("unfollow", "a", "b"), Pair("block", "b", "a"),
            Pair("follow", "b", "a")>>, 0),
     Load(<<Pair("follow", "a", "b"), Pair("follow", "a", "b"), Pair("block", "b", "a")>>, 1),
     Load(<<Pair("follow", "a", "b"), Pair("follow", "b", "a"), Pair("friends", "c", "a"),
            Pair("block", "b", "c")>>, 0),
     Load(<<Pair("follow", "b", "a"), Pair("visit", "b", "a"), Pair("followers", "a", "a"),
            Pair("visitors", "a", "a"), Pair("block", "b", "a")>>, 0),
     Patient(<<Pair("follow", "a", "c"), Pair("block", "b", "c"), Pair("following", "b", "a"),
               Pair("blocked", "b", "b")>>),
     Load(<<Pair("block", "a", "b"), Pair("block", "b", "a"), Pair("follow", "a", "b"),
            Pair("unblock", "a", "b")>>, 0),
     Patient(<<Pair("visit", "a", "b"), Pair("visit", "a", "b"), Pair("follow", "c", "c")>>)}

Sends(u, v) == Pair("send", u, v)
Reads(u, v) == Pair("readThread", u, v)
Device(op, u, t) == [op |-> op, user |-> u, token |-> t]
Marks(u, i) == [op |-> "markNotice", user |-> u, notice |-> i]
Tells(us) == [op |-> "broadcast", users |-> us]

MessageLoads ==
    {Load(<<Sends("a", "b"), Sends("b", "a"), Sends("a", "c")>>, 1),
     Load(<<Sends("a", "b"), Sends("b", "a"), Reads("a", "b")>>, 0),
     Patient(<<Sends("a", "b"), Sends("b", "a"), Sends("a", "b"), Reads("b", "a"), Sends("a", "b")>>),
     Patient(<<Device("register", "a", "new"), Device("register", "a", "old"), Sends("b", "a"),
               Device("unregister", "a", "new"), Marks("a", 3)>>),
     Load(<<Device("register", "a", "old"), Tells({"a", "b"}),
            [op |-> "markAll", user |-> "a"]>>, 1)}

Posts1 == [op |-> "moment", user |-> "a"]
Likes1(u, k) == [op |-> "react", user |-> u, moment |-> 1, kind |-> k]
Unlikes(u) == [op |-> "unlike", user |-> u, moment |-> 1]
Status1(op, u) == [op |-> op, user |-> u, moment |-> 1]
Writes(u, p) == [op |-> "comment", user |-> u, moment |-> 1, parent |-> p]
OnComment(op, u, c) == [op |-> op, user |-> u, comment |-> c]
FeedOf(u, x) == [op |-> "feed", user |-> u, author |-> x]

MomentLoads ==
    {Load(<<Posts1, Likes1("b", "like"), Likes1("b", "love"), Unlikes("b")>>, 0),
     Load(<<Posts1, Likes1("b", "like"), Likes1("c", "like"), Unlikes("b")>>, 0),
     Patient(<<Posts1, Likes1("b", "like"), Likes1("b", "love"), Unlikes("b"), Unlikes("b")>>),
     Patient(<<Posts1, Writes("b", 0), Writes("a", 2), OnComment("removeComment", "panel", 2),
               OnComment("removeComment", "panel", 2)>>),
     Patient(<<Posts1, Writes("b", 0), OnComment("deleteComment", "b", 2),
               OnComment("removeComment", "panel", 2), Writes("b", 2)>>),
     Patient(<<Posts1, Status1("deleteMoment", "a"), Status1("removeMoment", "panel"),
               Status1("restoreMoment", "panel"), Likes1("b", "like")>>),
     Patient(<<Posts1, Pair("block", "b", "a"), FeedOf("b", "all"), FeedOf("b", "a")>>)}

Joins(e, n) == [op |-> "registerEmail", email |-> e, name |-> n]
ByGoogle(g, e) == [op |-> "loginGoogle", google |-> g, email |-> e]
ByEmail(e) == [op |-> "loginEmail", email |-> e]
Codes(p) == [op |-> "sendCode", phone |-> p]
ByPhone(p, c, n) == [op |-> "loginPhone", phone |-> p, code |-> c, name |-> n]
Session(op, t) == [op |-> op, token |-> t]
On(op, u) == [op |-> op, account |-> u]
Renames(u, n) == [op |-> "updateProfile", account |-> u, name |-> n]
Installs(u, t) == [op |-> "register", user |-> u, token |-> t]

AccountLoads ==
    {Load(<<ByGoogle("g", "e"), ByGoogle("g", "e"), Joins("e", "n")>>, 1),
     Load(<<Joins("e", "n"), Joins("f", "n"), ByGoogle("g", "f")>>, 0),
     Days(<<Codes("p"), Codes("p"), ByPhone("p", 0, ""), ByPhone("p", 0, ""), ByPhone("p", 1, "")>>),
     Load(<<Codes("p"), ByPhone("p", 1, "n"), ByPhone("p", 1, "n")>>, 0),
     Load(<<Codes("p"), ByPhone("p", 1, "n"), Joins("e", "n")>>, 0),
     Patient(<<ByGoogle("g", "e"), On("setPassword", 1), ByEmail("e"), Session("refresh", 1),
               Session("logout", 4)>>),
     Patient(<<Joins("e", "n"), On("ban", 1), ByEmail("e"), On("unban", 1), ByGoogle("g", "e")>>),
     Patient(<<ByGoogle("g", "e"), Installs(1, "new"), On("deleteAccount", 1),
               ByGoogle("g", "e"), Renames(4, "n")>>),
     Load(<<ByGoogle("g", "e"), ByGoogle("g", "f")>>, 0),
     Load(<<Joins("e", "n"), Joins("f", "n"), Renames(1, "m")>>, 0)}

Rooms3 == [v |-> "hostBroadcast", w |-> "multiSeat", z |-> "audio"]
Moderators == {"m"}
Blocked1 == {"x"}
Two == 0 .. 2

Seat(op, x, u, i) == [op |-> op, room |-> x, user |-> u, seat |-> i]
Aisle(op, x, u) == [op |-> op, room |-> x, user |-> u]
Mutes(x, i, u, on, soft) ==
    [op |-> "mute", room |-> x, seat |-> i, by |-> u, on |-> on, soft |-> soft]
By(op, x, i, u, on) == [op |-> op, room |-> x, seat |-> i, by |-> u, on |-> on]
KicksMic(x, i, u) == [op |-> "kickMic", room |-> x, seat |-> i, by |-> u]
Invites(x, i, u, v) == [op |-> "invite", room |-> x, seat |-> i, by |-> u, to |-> v]
Answers(op, x, u, i, n) == [op |-> op, room |-> x, by |-> u, id |-> i, seat |-> n]
Policy(x, f) == [op |-> "policies", room |-> x, by |-> "h", fields |-> f]
Cleans(x, u) == [op |-> "cleanChat", room |-> x, by |-> u]

MicLoads ==
    {Patient(<<Seat("takeMic", "w", "a", 1), Mutes("w", 1, "a", TRUE, FALSE),
               Mutes("w", 1, "h", TRUE, FALSE), Mutes("w", 1, "a", FALSE, FALSE),
               By("video", "w", 1, "a", FALSE)>>),
     Patient(<<Seat("takeMic", "w", "a", 1), Mutes("w", 1, "h", TRUE, FALSE),
               Mutes("w", 1, "a", FALSE, FALSE), Aisle("enterStage", "w", "a"),
               Invites("w", 2, "m", "a")>>),
     Patient(<<Seat("takeMic", "z", "a", 1), Mutes("z", 1, "m", TRUE, TRUE),
               Mutes("z", 1, "a", FALSE, FALSE), KicksMic("z", 1, "m"), By("video", "z", 1, "a", TRUE)>>),
     Patient(<<Seat("takeMic", "w", "a", 1), Seat("takeMic", "w", "a", 2), By("lockMic", "w", 1, "m", TRUE),
               Seat("takeMic", "w", "b", 1), Aisle("leaveStage", "w", "a")>>),
     Patient(<<Policy("v", [mic |-> "admins"]), Seat("takeMic", "v", "a", 1), Seat("takeMic", "v", "m", 0),
               Seat("takeMic", "v", "h", 0), Seat("standUp", "v", "h", 0)>>),
     Load(<<Seat("takeMic", "w", "a", 1), KicksMic("w", 1, "m"), Seat("takeMic", "w", "b", 1),
            Mutes("w", 1, "h", TRUE, FALSE)>>, 0)}

CallLoads ==
    {Load(<<Aisle("enterStage", "v", "a"), Aisle("askCall", "v", "a"), Aisle("askCall", "v", "a"),
            Answers("approveCall", "v", "h", 2, 1), Answers("denyCall", "v", "m", 2, 0)>>, 0),
     Load(<<Aisle("askCall", "v", "a"), Answers("denyCall", "v", "m", 1, 0),
            Answers("denyCall", "v", "h", 1, 0), Aisle("cancelCall", "v", "a")>>, 1),
     Days(<<Aisle("enterStage", "v", "a"), Aisle("askCall", "v", "a"), Invites("v", 1, "m", "a"),
            Answers("approveCall", "v", "h", 2, 1)>>)}

ChatLoads ==
    {Load(<<Aisle("chat", "v", "a"), Policy("v", [chat |-> "admins"]), Aisle("chat", "v", "b"),
            Cleans("v", "m")>>, 0),
     Load(<<Aisle("chat", "v", "x"), Aisle("enterStage", "v", "x"), Cleans("v", "a"),
            Invites("v", 1, "h", "x")>>, 0)}

MuteLoads ==
    {Patient(<<Seat("takeMic", "w", "a", 1), Mutes("w", 1, "h", TRUE, FALSE),
               Mutes("w", 1, "a", TRUE, FALSE), Mutes("w", 1, "a", FALSE, FALSE)>>)}

OneFamily == [leader |-> "l", co |-> {"c"}, members |-> {"m"}, mode |-> "open"]
TwoAgencies == (0 :> "o") @@ (10 :> "p")
Staff == {"panel"}

Found(u, free) == [op |-> "found", user |-> u, free |-> free, mode |-> "open"]
JoinOf(u, f) == [op |-> "joinFamily", user |-> u, family |-> f]
LeaveOf(u) == [op |-> "leaveFamily", user |-> u, family |-> 0]
ByLeader(op, u) == [op |-> op, user |-> u, by |-> "l", family |-> 0]
ByCo(op, u) == [op |-> op, user |-> u, by |-> "c", family |-> 0]
Mode(x) == [op |-> "familyMode", by |-> "l", mode |-> x, family |-> 0]
Status(x) == [op |-> "familyStatus", status |-> x, family |-> 0]
SweepOf(f) == [op |-> "sweepFamilies", family |-> f]

FamilyLoads ==
    {TwoDays(<<JoinOf("n", 0), ByLeader("promote", "m"), ByLeader("transferFamily", "c"),
               ByCo("kickMember", "m"), LeaveOf("c")>>, 0),
     TwoDays(<<Mode("approval"), JoinOf("n", 0), ByCo("approve", "n"), ByLeader("reject", "n"),
               ByLeader("kickMember", "n")>>, 0),
     TwoDays(<<ByLeader("transferFamily", "m"), ByLeader("demote", "c"), LeaveOf("l"),
               [ByLeader("transferFamily", "l") EXCEPT !.by = "m"]>>, 0),
     TwoDays(<<Found("n", FALSE), LeaveOf("m"), JoinOf("m", 1), LeaveOf("c"), SweepOf(0)>>, 0),
     TwoDays(<<Status("disbanded"), Found("m", TRUE), JoinOf("n", 2), SweepOf(2)>>, 0),
     TwoDays(<<Status("frozen"), Status("disbanded"), Status("active"), Found("l", TRUE),
               LeaveOf("m")>>, 0),
     TwoDays(<<ByLeader("demote", "l"), ByLeader("promote", "l"), Found("n", TRUE), JoinOf("n", 0),
               LeaveOf("c")>>, 0),
     Load(<<Found("n", FALSE), Found("n", FALSE), JoinOf("n", 0)>>, 1),
     Load(<<ByLeader("promote", "m"), ByLeader("demote", "c"), Mode("invite"), LeaveOf("c")>>, 0)}

SweepLoads ==
    {[Load(<<LeaveOf("m"), JoinOf("n", 0), LeaveOf("c"), SweepOf(0)>>, 0) EXCEPT !.days = 2]}

Ask(u, a) == [op |-> "requestJoin", user |-> u, agency |-> a]
Decides(by, a, i, yes) == [op |-> "decideJoin", by |-> by, agency |-> a, request |-> i, approve |-> yes]
Cancels(i) == [op |-> "cancelJoin", request |-> i]
Quits(u) == [op |-> "leaveAgency", user |-> u]
Kicks(by, u) == [op |-> "kickCrew", by |-> by, user |-> u, agency |-> 0]
Removes(u) == [op |-> "removeMember", user |-> u, agency |-> 0]
Ranks(by, u, role) == [op |-> "crewRole", by |-> by, user |-> u, role |-> role, agency |-> 0]
Hands(by, u, old) == [op |-> "handover", by |-> by, user |-> u, demoteTo |-> old, agency |-> 0]
Adds(u, a, role) == [op |-> "addMember", user |-> u, agency |-> a, role |-> role]
Bids(u, n) == [op |-> "submitBid", user |-> u, name |-> n]
Reviews(i, yes) == [op |-> "reviewBid", request |-> i, approve |-> yes]
Withdraws(i) == [op |-> "cancelBid", request |-> i]
Founds(u, n) == [op |-> "foundAgency", user |-> u, name |-> n]
OpensAgency(n) == [op |-> "openAgency", name |-> n]
StatusOf(a, x) == [op |-> "agencyStatus", by |-> "panel", agency |-> a, status |-> x]
HostOf(op, u, a) == [op |-> op, user |-> u, agency |-> a]

AgencyLoads ==
    {TwoDays(<<Ask("u", 0), Decides("o", 0, 1, TRUE), Ranks("o", "u", "admin"),
               Hands("o", "u", "member"), Quits("o")>>, 0),
     TwoDays(<<Ask("u", 0), Ask("u", 10), Cancels(1), Decides("p", 10, 2, TRUE),
               Decides("panel", 0, 1, TRUE)>>, 1),
     Load(<<Ask("u", 0), Decides("p", 10, 1, TRUE), Decides("o", 0, 1, FALSE)>>, 0),
     TwoDays(<<Adds("u", 0, "owner"), Adds("u", 0, "member"), Removes("u"), Removes("o"),
               Hands("panel", "o", "admin")>>, 0),
     TwoDays(<<Adds("u", 0, "admin"), Adds("v", 0, "admin"), Kicks("u", "v"), Kicks("o", "u"),
               Quits("v")>>, 0),
     TwoDays(<<Bids("u", 5), Reviews(1, TRUE), Adds("v", 2, "member"), Bids("v", 5),
               StatusOf(0, "suspended"), Ask("v", 0)>>, 0),
     TwoDays(<<Founds("u", 5), OpensAgency(5), Adds("v", 2, "owner"), Adds("u", 2, "member")>>, 0),
     TwoDays(<<Adds("u", 0, "member"), HostOf("assignHost", "u", 10), HostOf("unassignHost", "u", 10)>>, 0),
     Load(<<Bids("u", 5), Reviews(1, TRUE), Reviews(1, TRUE), Withdraws(1)>>, 1),
     Load(<<Bids("u", 5), Bids("v", 5), Reviews(1, TRUE), Reviews(2, TRUE)>>, 0),
     Load(<<Bids("u", 5), Founds("u", 5), Reviews(1, TRUE), Reviews(1, FALSE)>>, 1)}

\* Moments: Sunday 23:30 and Monday 00:00 in local time (36 and 37 half hours into the
\* Sunday), Monday 00:00 in UTC, the Wednesday after.
SundayLate == 6 * 48 + 36
Weekend == <<SundayLate, SundayLate + 1, 7 * 48>>
NextWeek == <<7 * 48, 9 * 48 + 36, 9 * 48 + 37>>

Instants(times, calls) ==
    [calls |-> calls, stops |-> 0, days |-> Len(times), patient |-> TRUE, instants |-> times]
Rush(times, calls) == [Instants(times, calls) EXCEPT !.patient = FALSE]

GivesMany(u, v, x, n, k) ==
    [op |-> "giftEvent", from |-> u, to |-> v, room |-> x, gift |-> n, count |-> k,
     coins |-> n * k, diamonds |-> n * k]
Gives(u, v, x, n) == GivesMany(u, v, x, n, 1)
Standing(u, cat, p) == [op |-> "ranking", user |-> u, category |-> cat, period |-> p]
Board(x, p) == [op |-> "contributions", room |-> x, period |-> p]
Enters(u, x) == [op |-> "enterRoom", user |-> u, room |-> x]
WalksOut(u, x) == [op |-> "walkOut", user |-> u, room |-> x]
Support(u) == [op |-> "supportMe", user |-> u]
Level(n, v, c) ==
    [level |-> n, visitors |-> v, coins |-> c, owner |-> n, partner |-> 1, slots |-> n, total |-> 0]
Levels == [op |-> "supportConfig", levels |-> {Level(1, 1, 1), Level(2, 1, 3), Level(3, 2, 2)}]
Months == {0, 7, 37}
OwnersOf == ("R" :> "l") @@ ("S" :> "m")

RankLoads ==
    {Instants(Weekend, <<Gives("l", "m", "R", 2), Gives("m", "c", "R", 1), Gives("c", "n", "none", 1),
                    Standing("n", cat, p)>>) :
        cat \in {"honor", "charm"}, p \in {"daily", "monthly"}}
    \cup
    {Instants(Weekend, <<Gives("l", "m", "R", 1), Gives("m", "n", "S", 2), Gives("m", "n", "none", 1),
                    Standing(u, cat, "weekly")>>) :
        u \in {"l", "n"}, cat \in {"room", "family"}}
    \cup
    {Instants(Weekend, <<Gives("l", "m", "R", 1), Gives("m", "c", "R", 2), Board("R", p),
                    Standing("c", "honor", "weekly")>>) :
        p \in {"daily", "weekly", "monthly", "alltime"}}
    \cup
    {Instants(NextWeek, <<Gives("l", "m", "R", 3), Enters("m", "R"), Levels, Support("l")>>),
     Instants(Weekend, <<Gives("l", "m", "R", 2), Gives("m", "l", "S", 1), Enters("c", "S"),
                    [op |-> "supportRanking"]>>),
     Instants(Weekend, <<Gives("l", "m", "R", 1), GivesMany("m", "l", "S", 2, 3),
                    Gives("l", "c", "R", 3), [op |-> "giftWall", user |-> "l"]>>),
     Rush(<<SundayLate>>, <<Levels, Gives("l", "m", "R", 2), Support("l"), Board("R", "daily")>>),
     Rush(<<SundayLate>>, <<Enters("m", "R"), WalksOut("m", "R"), [op |-> "supportRanking"],
                            Gives("l", "m", "R", 2)>>),
     Rush(<<SundayLate>>, <<Gives("l", "m", "R", 1), Gives("m", "n", "R", 2), Standing("n", "honor", "daily"),
                            Standing("m", "room", "daily")>>),
     Rush(<<SundayLate>>, <<Gives("l", "n", "R", 1), JoinOf("n", 0), Standing("n", "family", "daily")>>)}

AllLoads ==
    SocialLoads \cup MessageLoads \cup MomentLoads \cup AccountLoads
        \cup MicLoads \cup CallLoads \cup ChatLoads
        \cup FamilyLoads \cup AgencyLoads \cup RankLoads
==============================================================================
