------------------------------- MODULE MCEconomy -------------------------------
(***************************************************************************)
(* Small instances of Economy: the workloads of each service, for users u  *)
(* and v, with a catalog of a few items, tiers, listings and medals.       *)
(***************************************************************************)
EXTENDS Economy, TLC

Load(calls, n, d) == [calls |-> calls, stops |-> n, days |-> d, patient |-> FALSE]
Patient(calls, n) == [calls |-> calls, stops |-> n, days |-> 2, patient |-> TRUE]

Topup(k, n) == [op |-> "topup", key |-> k, amount |-> n]
Assign(k, n) == [op |-> "assign", key |-> k, amount |-> n]
Suspend == [op |-> "resellerStatus", active |-> FALSE]
Limit(n) == [op |-> "resellerLimit", limit |-> n]
ResellerLoads ==
    {Load(<<Topup(1, 2), Topup(1, 2), Assign(2, 2), Assign(2, 2)>>, 1, 1),
     Load(<<Topup(1, 2), Topup(1, 2), Suspend, Assign(2, 1)>>, 1, 1),
     Load(<<Topup(1, 2), Topup(2, 2), Assign(1, 1), Limit(3)>>, 0, 1)}

Webhook(e) == [op |-> "webhook", event |-> e]
Package(a, b) == [op |-> "package", active |-> a, bonus |-> b]
WebhookLoads ==
    {Load(<<Webhook(1), Webhook(1), Webhook(2)>>, 2, 1),
     Load(<<Webhook(1), Package(FALSE, TRUE), Package(TRUE, TRUE)>>, 1, 1),
     Load(<<Webhook(1), Webhook(1), Package(TRUE, FALSE)>>, 1, 1)}

Daily == [op |-> "daily"]
DailyConfig(s, on) == [op |-> "dailyConfig", days |-> s, active |-> on]
DailyLoads ==
    {Load(<<Daily, Daily, Daily>>, 0, 3),
     Load(<<Daily, Daily>>, 1, 3),
     Load(<<Daily, Daily, DailyConfig(<<1, 2>>, TRUE)>>, 1, 2),
     Load(<<Daily, Daily, DailyConfig(<<1>>, TRUE), DailyConfig(<<1, 1>>, FALSE)>>, 0, 2)}

Progress(n) == [op |-> "progress", amount |-> n]
Ball == [op |-> "ball"]
BallTask(f) == [op |-> "ballTask", fields |-> f]
BallLoads ==
    {Load(<<Progress(2), Ball, Ball, BallTask([rewardCoins |-> 7])>>, 1, 2),
     Load(<<Progress(1), Progress(1), Ball, BallTask([goal |-> 1])>>, 0, 1),
     Load(<<Progress(2), Ball, BallTask([active |-> FALSE]), [op |-> "ballDelete"]>>, 0, 1)}

Session(k, n) == [op |-> "session", kind |-> k, time |-> n]
Cron == [op |-> "cron"]
Month(m) == [op |-> "month", month |-> m]
RecordLoads ==
    {Load(<<Session("audio", 2), Session("video", 1), Cron, Cron>>, 1, 2),
     Load(<<Session("audio", 2), Cron, Month(1), Month(1)>>, 1, 3),
     Load(<<Session("audio", 1), Session("video", 1), Cron>>, 0, 2),
     Load(<<Session("audio", 1), Session("audio", 1), Cron, Cron, Month(1)>>, 0, 3)}

TwoDays == <<2, 1>>
OneTask == [goal |-> 2, rewardCoins |-> 5]

Items == [f |-> "frame", g |-> "frame", b |-> "bubble"]
OneListing == [l |-> [item |-> "f", days |-> 1, giftable |-> TRUE, from |-> 1, until |-> 3]]
SomeTiers == <<[price |-> 1, days |-> 1, items |-> <<"f", "b">>],
              [price |-> 1, days |-> 0, items |-> <<"g">>],
              [price |-> 1, days |-> 2, items |-> <<>>]>>
TwoHonors == [fan |-> <<1, 3>>, star |-> <<2>>]

Purchase(k) == [op |-> "purchase", user |-> "u", listing |-> "l", key |-> k]
Gift(k, to) == [op |-> "gift", user |-> "v", to |-> to, listing |-> "l", key |-> k]
Listing(f) == [op |-> "listing", listing |-> "l", fields |-> f]
Item(i) == [op |-> "item", item |-> i, fields |-> [active |-> FALSE]]
StoreLoads ==
    {Load(<<Purchase(1), Purchase(1), Gift(2, "u"), Listing([active |-> FALSE])>>, 1, 1),
     Load(<<Purchase(1), Purchase(1), Gift(2, "u"), Gift(3, "v")>>, 1, 1),
     Load(<<Purchase(1), Purchase(1), Listing([giftable |-> FALSE]), Gift(2, "u"), Item("f")>>, 0, 1),
     Load(<<Purchase(1), Purchase(1)>>, 1, 3)}

SvipBuy(n) == [op |-> "svipBuy", user |-> "u", level |-> n]
Activate(n) == [op |-> "activate", user |-> "u", level |-> n]
Deactivate == [op |-> "deactivate", user |-> "u"]
Tier(n, f) == [op |-> "tier", level |-> n, fields |-> f]
SvipLoads ==
    {Load(<<SvipBuy(1), SvipBuy(1), Deactivate>>, 1, 1),
     Load(<<SvipBuy(1), SvipBuy(2)>>, 2, 2),
     Load(<<SvipBuy(1), SvipBuy(3)>>, 1, 3),
     Load(<<SvipBuy(1), SvipBuy(1), SvipBuy(3)>>, 0, 2),
     Load(<<SvipBuy(2), SvipBuy(3)>>, 0, 1),
     Load(<<SvipBuy(2), Activate(2), Deactivate>>, 1, 1),
     Load(<<SvipBuy(1), Tier(1, [active |-> FALSE]), Activate(1)>>, 1, 2)}

Key(i, src, ref) == [user |-> "u", item |-> i, source |-> src, ref |-> ref]
Equip(k) == [op |-> "equip", row |-> k]
Unequip(k) == [op |-> "unequip", row |-> k]
WearLoads ==
    {Patient(<<SvipBuy(1), SvipBuy(2), Equip(Key("f", "svip", 1)), Purchase(1),
               Equip(Key("f", "store", 1))>>, 2),
     Patient(<<Purchase(1), Gift(2, "u"), Equip(Key("f", "store", 1)), Equip(Key("f", "gift", 2)),
               Unequip(Key("f", "store", 1))>>, 2),
     Patient(<<Purchase(1), Equip(Key("f", "store", 1)), SvipBuy(2), Activate(2), Deactivate>>, 1),
     Load(<<SvipBuy(1), Equip(Key("f", "svip", 1)), Unequip(Key("f", "svip", 1))>>, 1, 2)}

Metric(n) == [op |-> "metric", value |-> n]
Evaluate == [op |-> "evaluate"]
Medal(h, n) == [op |-> "honorGrant", honor |-> h, tier |-> n]
RevokeOf(h) == [op |-> "honorRevoke", honor |-> h]
Wears(h, n) == [op |-> "wear", honor |-> h, slot |-> n]
Unwears(h) == [op |-> "unwear", honor |-> h]
HonorLoads ==
    {Load(<<Metric(2), Metric(3), Evaluate, Evaluate>>, 0, 1),
     Load(<<Metric(2), Metric(0), Evaluate, Medal("fan", 2)>>, 1, 1),
     Load(<<Metric(3), Evaluate, RevokeOf("fan"), Wears("fan", 0)>>, 1, 1),
     Load(<<Metric(1), Evaluate, Medal("star", 1),
            [op |-> "honorUpdate", honor |-> "star", fields |-> [active |-> FALSE]]>>, 0, 1),
     Patient(<<Medal("fan", 1), Medal("star", 0), Wears("fan", 0), Wears("star", 0),
               Unwears("star"), Wears("star", 1)>>, 2)}

AllLoads ==
    ResellerLoads \cup WebhookLoads \cup DailyLoads \cup BallLoads \cup RecordLoads
        \cup StoreLoads \cup SvipLoads \cup WearLoads \cup HonorLoads

\* What theorems about Economy ask of the workloads.
ASSUME WorkloadsAreUsual == EveryDayGrants /\ TargetsStay /\ TypesStay /\ KeysAreOwn
==============================================================================
