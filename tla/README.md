# Formal model of the ZimoLive backend

TLA+ modules, TLC runs and TLAPS proofs about the parts of this backend where
coins, slots, seats, rounds, memberships and counters are decided: what its
request handlers, timers, crons and callbacks may do to MongoDB documents when
they interleave, retry and crash.  Paths below are relative to
`src/src/modules/`; a number in parentheses is a line of the service that the
sentence is about.

Contents: [the system](#the-system), [modules](#modules-and-code),
[runs](#runs), [fairness](#fairness), [proofs](#proofs),
[differences between code and documentation](#differences-between-code-and-documentation),
[what is not modelled](#what-is-not-modelled), [plan](#plan).

## The system

One NestJS process (several are possible) serves the mobile app and the admin
panel over HTTP and a Socket.IO gateway, keeps its state in MongoDB and Redis,
and runs crons and in-process timers.  Every handler is a chain of awaited
database round trips.  One update of one document is atomic; transactions are
used by `wallet.transferGift` and `resellers.assignToUser` only.  So two
requests, a cron and a timer interleave at every `await`, and a restart ends all
of them where they are, leaving what they wrote.

Three idioms carry the correctness of most services, and most properties here
are about what they guarantee and what they do not:

* an *idempotency key* with a unique index, checked before and enforced by the
  insert after the balance has been moved (wallet, gifts, claims, payouts);
* a *guarded update* (`findOneAndUpdate` whose filter repeats the condition, or
  a status flip that only one caller can win);
* a document that is *read, decided upon and saved later*, where a stale copy
  may overwrite somebody else's change.  Mongoose writes the fields that differ
  from what was read, and refuses a save that replaces an array whose version
  has moved.

### Components

| Component | State | Operations | Calls | Hard behaviour | Must hold |
|---|---|---|---|---|---|
| Wallet | wallets, transactions | credit, debit, transferGift, convert, freeze | – | retries, crash between balance and entry | ledger and balances agree, one effect per key |
| Lucky bag | bags with slots and claims | create, claim, cancel | Wallet, Rooms | claims race each other and a cancel | a slot goes once, paid as claimed |
| Games | configs, rounds, bets, timers | loop, bet, heal, pause, resume, reset | Wallet | restart at any phase, polls that heal, late bets | one loop, one winner, paid once |
| Rooms | rooms, presence, seats, sessions | open, enter, leave, seats, moderation, sweeps | Realtime, Agora, Live record | stale reads over many requests, vanished hosts | one seat per user, nobody uncounted |
| Stage (of a room) | microphones, cameras, call requests, chat | mute, invite, ask, approve, deny, chat | Notifications | the cause of a mute, racing answers, a TTL | one answer per request, host mutes stay |
| Gifts | catalogue, gift events | send, delete, purge, boards, wall | Wallet, Rocket | retries, fire-and-forget counters | an event stands for coins that moved |
| Rocket | config, room-day documents | fuel, phases, launch, sweep | Wallet, Realtime | several drivers with own copies | fuel spent once, snapshot paid once |
| Resellers | pools, ledger | top-up, assign, suspend, limit | Wallet | limit checked on a stale pool | pool and ledger agree |
| RevenueCat | packages | webhook | Wallet | redelivery, half-done pairs | a purchase is credited in full, once |
| Daily reward, Magic ball | streaks, task counters | claim, progress | Wallet, Cosmetics | half-done grants, midnight | one grant per day and task |
| Live record | sessions, day and month rows | aggregate, claim | Wallet, Rooms | overlapping crons, late sessions | paid only what was earned |
| Store, SVIP, Cosmetics | listings, tiers, owned and worn items | buy, gift, activate, equip | Wallet | debit without grant, stale status | paid means owned, one item per slot |
| Honors | medals, metrics | evaluate, grant, revoke, wear | – | decisions on stale metrics | a medal was reached |
| Families | family, member rows, requests | found, join, approve, rank, transfer, sweep | Wallet | role in four places, lost counters | one leader, roles agree |
| Agencies | agencies, members, hosts, requests | join, decide, rank, transfer, found | Users | two reviews of one request | one owner, founded once |
| Auth, Users, Numeric ids | users, codes, tokens, counter | sign in, refresh, ban, delete | Redis | sign-ins at once, retries of a number | one person, one account |
| Social | edges, counters, visits | follow, block, visit, lists | – | edges and counters apart | counter is the rows, lists hide the blocked |
| Messages, Notifications, FCM | threads, inbox, device tokens | send, read, push, broadcast | Realtime | first messages at once | one thread per pair, nothing lost |
| Moments | posts, reactions, comments, counters | post, react, comment, moderate, feed | Social | row and counter apart | counter never below the rows |
| Rankings, Room support | – (computed) | boards, levels, weeks | Gifts, Rooms, Families | several queries, calendars | board agrees with the calendar |
| Realtime, Media, Agora | sockets, tokens | broadcast, sign | – | reconnects | – |
| Admin, Reports, Banners, Search, options, configuration | rows | CRUD and reads | – | – | – |

Interaction: Gifts, Lucky bag, Games, Rocket and the reward and shop services
call the Wallet with keys they build themselves, so their own retries and
crashes decide whether a key is ever used; Gifts calls Rocket without waiting
for it; Rooms provides the presence rows from which Rocket takes its winners and
Lucky bag its members, and the sessions that Live record adds up; Store and SVIP
grant Cosmetics; Agencies write the host profile on the user; Rankings and Room
support read gift events, family rows and presence; Messages and the Stage write
notices, which FCM pushes; everything calls Realtime, which changes no stored
state.

## Modules and code

Every module follows the same conventions.  A *request* (or task, or process)
has a program counter `pc` and a record `job` of what it has read; an action is
one database round trip together with the code up to the next one, and is named
after the function it belongs to (`ClaimGrab` and `ClaimCredit` are `claim`).  A
request that is refused before its first write changes nothing; such a request
is left out unless a property is about the answer.  A key is unique by its
index, and an update under a filter is one atomic step.  What a crash leaves
behind is what was written before it.  Definitions named `Mutant...` are
plausible faults of the code; each property is broken by one of them.

### Wallet: `Ledger`, `Wallet`, `MCWallet`, `SumProofs`, `WalletGamesProofs`

`wallet/wallet.service.ts`.  A request is one call of `credit`, `debit`,
`transferGift` or `convertDiamondsToCoins`: `Begin` (validation), `Check` (the
idempotency lookup), `Apply` (the guarded `findOneAndUpdate`), `Insert` and
`InsertCoin` (the entries), `DuplicateKey`, `Reverse`, `Reread` (error 11000).
`transferGift` is a MongoDB transaction and is the single action `Transfer`.
`Stop` ends a request between two round trips: a crash, or an error of the
database.  A retry is another request with the same key.

`Ledger` is what the wallet promises: a key is posted at most once, and posting
it moves the balances by one call's amounts.  `ImplementsLedger` states that
`Wallet` implements it when what requests in flight hold is taken out of the
balances.  All other modules use the wallet in this abstract form.

### Lucky bag: `LuckyBag`, `LuckyBagSplit`, `MCLuckyBag`, `BagProofs`

`lucky-bag/lucky-bag.service.ts`.  `LuckyBag` has create (cap, debit, insert),
claim (the atomic grab of the next slot, then the credit) and cancel (read,
flip, refund), the clock as a window (countdown, open, over), and crashes.
`LuckyBagSplit` is `distributeRandom`, one action per draw, the shuffle, and
`distributeFixedTier`.  `LuckyBag` takes what a bag is cut into from the constant
`Cuts` and supposes nothing about its sum: the code does not keep it to the pool.
What the two ways of cutting do to a pool, also to one with fewer coins than
slots, is `PoolHandedOut` of `LuckyBagSplit`.  `MCLuckyBag` checks the two side by
side: a behaviour is one of either (variable `part`).

### Games: `Games`, `MCGames`, `WalletGamesProofs`

`games/games.service.ts`.  Timers are a set of armed callbacks with the handle
the service remembers, so a timer armed without clearing the other one really
forks the loop; tasks run the transitions `OpenRead`, `OpenWrite`,
`ScheduleRead`, `Spin...`, `Result...`, `Pay...`; `Poll...` and `Heal...` are
`getCurrentRound` with its heals; admins pause, resume, reset and delete; `Boot`
is `onModuleInit` with its resume of an interrupted round.  A bet is `PlaceBet`,
`BetDebit`, `BetInsert`, `BetCount`.  The clock is abstract: betting may close
at any time after the round opened, a timer fires at any time after the moment
it waits for, and that of a round found CLOSED waits for nothing (987–995).

### Rooms: `Rooms`, `MCRooms`, `RoomsProofs`

`rooms/rooms.service.ts`, `rooms.cron.ts`.  Opening (create, reopen, reseeding
the seats of a video room), entering (which leaves a room entered before),
leaving (which closes a hosted room), seats (take, leave, lock, kick), resizing
the layout, admins and blocked users, an admin's removal and restoration, the
sweeper of rooms whose host's heartbeat is old, vanishing hosts, and restarts.
The seats as an arena of microphones are in `Stage`, below.

### Gifts and rocket: `Rocket`, `Gifts`, `MCGifts`, `GiftsProofs`

`gifts/gifts.service.ts`, `rocket/rocket.service.ts`, `rocket/rocket.cron.ts`.
`Rocket` is a module of steps on the document of one room and day: the three
writes of `addEnergy`, then `advanceRoom` on the caller's own copy
(`StartCycle`, `StartCountdown`, `Fire`, `Pay`, `Launch`, `DropHead`), driven by
gift requests and by `sweepDueLaunches` and `dailyReset`, with the passage of a
phase (`Ripen`), midnight (`NextDay`), edits of the levels (`UpdateConfig`) and
restarts.  The wallet may refuse a credit of a launch (`refused`): the error is
caught and logged, the next winner follows, and the launch is recorded all the
same.  `Gifts` extends it with `sendGift` up to the call of `addEnergy` that
it does not wait for, and with the deletions of a gift.  The winners are computed
from the contributions and from any set of present users, since the heartbeats
are outside.

### What the other services share: `Service`

A behaviour has one workload: some calls, each served by a request of its own,
begun at any time (`patient`: each call waits for the answers before it).
`Goes` moves a request, `Learns` keeps what it read, `Saves` is Mongoose's
`save()` of a stale document, `Posts` is the wallet by its key, `Stop` a crash or
an error, `Midnight` the calendar.  A module adds its variables, one action per
round trip, and a step `...Step(r)` of a request; `Economy` and `Community`
compose them, each leaving the variables of the others alone.

### Economy: nine modules, composed in `Economy`; `MCEconomy`, `EconomyProofs`

| Module | Code | Steps |
|---|---|---|
| `Resellers` | `resellers/resellers.service.ts` | top-up: key, pool, increment, row, and the reversal after a duplicate row; assignment as the transaction it is; status and limit |
| `RevenueCat` | `revenuecat/revenuecat.service.ts`, the packages of `wallet-options.service.ts` | the lookup of user and package, base, bonus; redelivery until answered; edits of the package |
| `DailyReward` | `daily-reward/daily-reward.service.ts` | the window of a claim, each grant under its key, the saved streak; a replaced configuration |
| `MagicBall` | `magic-ball/magic-ball.service.ts` | progress, the conditional push, the credit; edits and deletion of the task |
| `LiveRecord` | `live-record/*.ts`, the session row of `rooms.service.ts` | sessions of two kinds, the nightly sums, the daily reward, the monthly page and claim |
| `Store` | `store/store.service.ts` | purchase and gift: listing, item, debit, grant |
| `Svip` | `svip/svip.service.ts` | purchase, activation and deactivation on the saved status, grants item by item |
| `Cosmetics` | `cosmetics/cosmetics.service.ts` | `grantToUser`, equip, unequip, `equipSvipTier`, `unequipBySource` |
| `Honors` | `honors/honors.service.ts`, `metrics.service.ts` | evaluation from stale reads, grants, revocation, edits, wearing |

`Economy` is the composition for any set of workloads, which is what the theorems
are about; `MCEconomy` adds the workloads of the run.

### Community: nine modules, composed in `Community`; `MCCommunity`, `CommunityProofs`, `MemberProofs`

| Module | Code | Steps |
|---|---|---|
| `Social` | `social/social.service.ts` | edge, then each counter; block and unblock; visits; the lists query by query |
| `Messages` | `messages/messages.service.ts` | the thread made by the first message, the saved counters, reading |
| `Notices` | `notifications/*.ts`, `fcm/fcm.service.ts` | the inbox, reading, broadcast, pushes under way and the tokens Firebase rejects |
| `Moments` | `moments/moments.service.ts` | posts, reactions, comments with row and counter apart, moderation, the feed |
| `Accounts` | `auth/*.ts`, `users/users.service.ts`, `common/numeric-id.service.ts` | sign-in by mail, Google and phone, codes, refresh rotation, ban, deletion, numbers with retries |
| `Stage` | `rooms/rooms.service.ts` | microphones, cameras, invitations, call requests with their TTL, policies, chat |
| `Families` | `families/*.ts` | founding, joining, ranks, transfer, disbanding, the nightly sweep |
| `Agencies` | `agencies/*.ts`, the host profile of `users.service.ts` | rosters, both kinds of requests, transfers, founding, hosts |
| `Rankings` | `rankings/*.ts`, `room-support/*.ts`, boards and wall of `gifts.service.ts` | each query of an answer, with the windows in UTC or local time |

As before, `Community` is the composition for any set of workloads and `MCCommunity`
adds those of the runs.

In `Rankings` a moment is a number of half hours since a Monday 00:00 UTC, so
that an offset of +05:30 is an integer, and a workload names the moments its
days are looked at.  The answers are compared with a calendar of their own, which
counts days, weeks and months from the moment and knows no window: the boards with
UTC, the local ones with the +05:30 that the comments of the code state
(`StatedOffset`), though Dhaka is half an hour further.
The wall counts the pieces of a gift (`$count`), not its events.

## Runs

| Run | Instance | What it asks |
|---|---|---|
| `wallet` | 2 users, 3 requests, 8 calls, each may be a retry of another; stops, freezes | `BooksBalance`, `DebtBoundedByReversals`, `BookedOnce`, `FrozenMovesOnlyBack`, `ImplementsLedger` |
| `lucky_bag` | 3 users, 5 requests, a bag of 4 coins in 2 slots, cut as 1 and 0 or as 3 and 2; beside it pools of 0–9 coins over 1–4 slots, one of 2000 in two, and ten tiers | `SlotsTakenOnce`, `PaidAsClaimed`, `RemainingCoversSlots`, `PoolHandedOut`, `CancelsOnce` |
| `lucky_bag_refund` | 2 users, 3 requests, one slot | `NeverPaysMoreThanTotal`, violated |
| `games` | 2 rounds, 2 items, a bet, a crash, nobody but the loop | `LoopIsOne`, `WindowIsKept`, `WinnersArePaid`, `RoundsGoForward`, `RoundsComplete` |
| `games_kicked` | 2 rounds, 1 item, a bet, polls and admins, no crash | `KickedRoundsHold` |
| `games_crash` | one round, 1 item, a bet, a crash | `CrashedAfterPayout`, violated |
| `rooms` | 2 rooms (video, audio), 3 users, seven workloads of 2 or 3 calls | `OneSeatEach`, `NobodyUncounted`, `SeatsKeepTheirUsers`, `ListsLoseOnlyTheTarget`, `AbandonedRoomsClose` |
| `gifts` | 2 users, 2 requests, 2 levels of 1 and 2 units, six workloads, four with a refused credit | `EventsArePaid`, `FuelLaunchesOnce`, `PaidAsLaunched`, `RocketsLand` |
| `economy` | 37 workloads of 2 to 5 calls over the nine modules | `PoolReconciled`, `EarnedIsPaidOnce`, `BoughtIsKept`, `OneOfEachSlot`, `HonorsAreEarned`, `PurchasesComplete` |
| `community` | 79 workloads of 3 to 5 calls over the nine modules | `FollowsHold`, `ThreadsHold`, `MomentsCounted`, `AccountsHold`, `StageHolds`, `CallsAnsweredOnce`, `FamiliesHold`, `AgenciesHold`, `BoardsAgree` |
| `community_swept` | two departures, a join and the nightly sweep of a family | `SweptAreSolo`, violated |
| `community_muted` | a host's mute, the holder's own mute and unmute | `OnlyHostsLift`, violated |

A property is often a conjunction of named parts, each stated and commented in
its module: `BooksBalance` is types, balances and lifetime totals;
`LoopIsOne`, `PaidAsClaimed`, `NobodyUncounted`, `BooksBalance` and
`FuelLaunchesOnce` contain their module's `TypeOK`.

Deadlock is checked in `wallet`, whose wallets may always be frozen and thawed;
each other instance has a bounded number of calls, and a system nobody calls
stops: what must go on is stated as liveness.

Why the bounds are enough to meet the interesting cases.  The races are between
two actors on one document and sometimes a third that changes it in between, so
two or three requests on one row reach them.

* `wallet`: three requests are an original, its retry and a spender of the
  doubled coins; a conversion and a gift have both legs.
* `lucky_bag`: five requests are a create, two members, a double tap and a
  cancel, and two slots have a first and a last one, of different amounts, one cut
  with an empty slot and one over the total; in the split four slots have
  a first, middle and last draw, nine coins leave both forced and free draws, and
  2000 is the least for the tenth of a percent over to be two coins.
* `games`: two rounds are the least for a timer of one to meet the other, and two
  tasks for two transitions of one round.
* `rooms`: a workload is a family of calls that meet on the same rows; all pairs
  that share rows are in one, and the three-call families are those where a third
  caller makes the difference (two takes and a resize, three array saves, enters
  and leaves of one user).
* `gifts`: gifts of 2 and 1 units fill level 1 and 2 so that a cycle queues one or
  two levels and leaves fuel over; with two requests and the sweeper a phase has
  three drivers; the workloads add in turn a restart, an admin who deletes the
  gift, a retry, a sender with two gifts, and an edit of the levels.
* `economy` and `community`: each workload puts together the calls that share a
  row, with a double tap, an administrator's edit, one or two stops, or midnight
  where the code reads the clock.  The impatient ones are of the calls that may
  overlap; the patient ones are the long sequences (five calls) after which a role
  kept in four places, a cause of a mute or a worn item must still agree.  The
  moments of the boards are the last half hour of a local Sunday, local, Dhaka's and UTC
  Monday midnight, and the Wednesday on which support is paid.

`MaxRounds`, `MaxCrashes`, `MaxLoops` (Games), `Loads`/`Workloads` (calls,
requests, crashes or stops, edits, purges, refusals, days), `Totals`, `Slots` and `Tiers`
are the named bounds.  They restrict how often the environment acts and never
what the code does.  `Symmetry` is used only in runs without liveness.

Conditions of the properties, each because the code does not promise more:

* `NobodyUncounted` excludes a room after a block, a closing or a removal has set
  its counter, because a block decrements it for a target that was not inside
  (2348).
* `FuelLaunchesOnce` holds while the admin leaves the levels alone.  `Prompt` says
  that a round trip of a pass is shorter than a phase of the rocket (at least
  seconds); without it a driver that stalls for a whole cycle meets the same
  status again and its guards, which name no version, accept a write that is a
  launch old.
* `WinnersArePaid` asks for the timely bets of behaviours without a crash; the one
  with a crash is `games_crash`.
* `OneOfEachSlot`, and parts of `ThreadsHold`, `MomentsCounted`, `StageHolds`,
  `FamiliesHold`, `AgenciesHold` and `AccountsHold`, are asked of calls that wait
  for each other, since overlapping ones break them; the list below says how.
* `FamiliesHold` compares rows and document of the families that are `Spared`: no
  leader of theirs has promoted or demoted himself and no status has revived them
  after they were disbanded, two calls that the handlers let through
  (`families.service.ts` 441–520 never compare the target with the leader; 581–593
  set any status) and that take a role in one place and leave it in another.
* `AccountsHold` asks for one account of a Google id that always comes with one
  address: the index of the id is not unique (`user.schema.ts:110`), that of the
  address is (94), so two first sign-ins of one id that overlap and bring two
  addresses make two accounts. Where it says why a sign-up is refused, nobody renames
  himself, as the holder of a name may have given it up after the refusal, and fewer
  numbers are sold than are drawn for one account (`MAX_RETRY`), as a longer row of
  sold numbers uses up the draws.
* `StreakIsEarned` bounds the total of claims while the configuration stays, as a
  new one lets a day be claimed again.  `PurchasesComplete` excuses a package that
  an admin withdraws in the middle.

## Fairness

* Games: the event loop runs every task and every due timer, the process is
  started again after a crash, time passes, and a bet that was begun goes on.
  Users, clients that poll and admins need not do anything.
* Rooms: the cron fires every thirty seconds (`rooms.cron.ts`), and the
  heartbeat of a host who is gone grows old.  Nobody has to call and no handler
  has to go on, so the room of a vanished host is closed by the sweeper alone.
* Gifts and rocket: a pass in flight goes on while the server lives, the sweeper
  runs every five seconds (`rocket.cron.ts:26`), and phases end.  Nobody has to
  send anything.
* RevenueCat: an event that was reported is handled, and reported again after an
  error or a crash, which is what the store does until it is answered 200.  No
  other service of `economy` has to make a step.
* The other specifications state no fairness and have no liveness property.

## Proofs

`SumProofs` holds what the other modules need of sums: the sum of a function over
a finite set, by induction on the set, when an element is added, changed or left
out, and when one function is below another.

`WalletGamesProofs`, first of `Wallet`, for every set of users, requests and calls,
from the assumptions of `Wallet`: calls are well formed, the opening balances are
natural numbers, and calls of different operations never share a key (the callers draw
or prefix their keys).

* `WalletTyped`, `DebtBounded` (a wallet owes at most what was rolled back from
  it), `AckedIsBooked` and `KeysUnique`, together `BookedExactlyOnce`
  (`BookedOnce`), and `FrozenIsStill`.
* The invariant `IInv` is needed because they depend on each other: an
  acknowledged call finds its entries only since entries are never deleted and a
  request past `insert` has its own; a key has one entry per leg only since the
  insert is guarded by the index; the debt is bounded only since a request about
  to reverse a credit did apply one.  `IInv` adds to the properties what each
  place of a request knows about its key.  The proof that a step preserves it has
  one lemma per action.
* `BooksAlwaysBalance` (`BooksBalance`): a step changes the two sides by the
  amounts of one request.  A sum over the ledger's rows or over the requests
  changes by one term (`SumUpdate`), so one lemma per action is enough here, too.
  It needs that there are finitely many requests (`RequestsAssumption`).
* `WalletImplementsLedger` (`ImplementsLedger`): under the mapping that takes out
  of the balances what requests hold, the insert that completes a key is the one
  step that posts, and every other step is a stutter.  The balance of a user is
  then moved by exactly one call's amounts because `IInv` says which request holds
  what.

`BagProofs`, for every set of users, bags and requests and every pool, number of
slots and cap, from the assumptions of `LuckyBag` (no more slots than coins, and
cuts of any sum): `TakenOnce` (`SlotsTakenOnce`), `RefundedOnce` and
`StaysCancelled`, together `CancelledOnce` (`CancelsOnce`), and
`PaidWhatTheyClaimed`, the part `MembersArePaid` of `PaidAsClaimed`, and
`PaidFromTheSlots`, all of it.

* The invariant `BagInv` adds to the first two the types (`Typed`), that a bag is
  cut when it is created and untouched before (`Created`, without which a new bag
  could bring claims along), and that what a request learnt in its first step
  stays true (`Known`: a claimer is not the sender, since a sender never
  changes; without it the conditional update, which does not ask again, could
  give the sender a slot).  That at most one cancel refunds is inductive because a
  request that waits to refund keeps its bag expired, so no second flip succeeds.
* `PaidInv` adds for `PaidWhatTheyClaimed` that a claimer between the grab and
  the credit remembers the amount of a claim that the bag has; claims are only
  ever appended.
* `PaidFromTheSlots`: the claims are the first of the bag's slots, and all of them when
  it is depleted, so their sum is a part of what the slots hold
  (`ClaimsWithinSlots`); every posting to a member is of a claim of its own, so the
  postings sum to a part of the claims (`PaidWithinClaims`, by `SumRenamed`).
  `MoneyInv` adds the types of the money.
* One lemma per action; `BagsAlone` covers the steps that only move a request,
  `FitsAppend` says that a newcomer's claim of the next slot keeps the list
  free of repetitions.

`BagProofs` also has the two ways of cutting a pool, `LuckyBagSplit`:

* `PoolCoversSlots`: for every pool and number of slots the random cut never runs
  out of coins before it runs out of slots.  The lemma `LargestLeavesReserve`
  bounds the upper end of a draw; the invariant adds the range of the loop's
  counter.
* `CutIsExact` (`PoolHandedOut`): what was drawn and what remains is the pool, a pool
  with fewer coins than slots is drawn a coin at a time, and
  a swap of the shuffle keeps the sum (`FillInv`); of a tier, the rounded shares
  are at most the pool and a thousandth (`FlooredWithinPool`), the leftover completes
  it (`LeftoverCompletes`) and a coin for an empty slot comes out of the first one
  (`TopUpMovesCoins`).  It supposes tiers without a share below zero (`SharesNat`):
  `updateConfig` lets one pass, and such a tier may hand out any amount more.

`WalletGamesProofs`, then of `Games`, which has no name in common with `Wallet`, for
every set of tasks, bets and items, any odds, and any number of rounds and crashes.
Whoever interferes:

* `TypeCorrect`: the invariant `Typed` says also that the round a task or a bet
  remembers is there.  Rounds are never deleted by the code that is modelled.
* `KickedRoundsAreSafe` (`KickedRoundsHold`): `KickInv` adds that a round with a
  winner is spinning or later, and that a task which pays, pays a round with a
  winner.  Phases and winners go back nowhere (`RoundsMove`), so what a task saw
  stays so, however old it is.

With nobody but the loop, its boots and its crashes (`~Polls`, `~Admins`, the
setting of the run `games`):

* `LoopStaysOne` (`LoopIsOne`), `DrawnAfterClosing` (`WindowIsKept`) and
  `RoundsOnlyAdvance` (`RoundsGoForward`), by `LoopInv`: there is one task or one
  timer, the phase of the last round is the one that it waits for (`TaskFits`,
  `TimerFits`), and all earlier rounds are complete.  That the loop is one and
  that it fits its round depend on each other, as a boot finds out from the round
  what to start.
* `EveryWinnerPaid` (`WinnersArePaid`), by `PayInv`: unless there was a crash, the
  list that the payer has read holds every winning bet in time that has not had its
  turn.  A row inserted later is not in time, as the round is no longer betting.

`GiftsProofs`, for every set of requests, calls and levels, with whatever the
rocket, the clock, the admins and restarts do beside the sends:

* `EventsPaid` (`EventsArePaid`), by the invariant `PaidInv`: a send that has come
  to its event owns a transferred key, and transfers are never forgotten.  It
  needs no fact about the rocket but that its steps take a process to a place of
  the rocket (`RocketElsewhere`).
* `LaunchedIsPaid`, the first part of `PaidAsLaunched`, by the invariant `PayInv`:
  whoever pays a launch has paid, was refused, or still owes, each winner of the
  snapshot in its own copy.  So the fact depends neither on the timing nor on how stale the
  copy is: a driver that overtakes another pays the same keys again, harmlessly,
  before it may record the launch.
* `RocketIsSound` (the types of `FuelLaunchesOnce`, with its two equivalences), by
  `TypeInv`: a document and every copy of one is `Sound`, and `Fits` says what a
  process at a place has read.  That a cycle starts with a full level (`Full`) is
  why its queue is never empty.
* `PaidAsTheyLaunch` (`PaidAsLaunched`), by `PayInv` and `PhaseInv`.  `Copies` are
  the copies that may still write, `Agrees` what the document has become since
  such a copy was read: it is in another phase only if that phase is fresh; if it
  is in the copy's countdown it has the copy's snapshot, and if it has left it
  that snapshot is among the launches.  So a late driver pays for a launch that
  was or will be recorded.  No copy at a banner meets one at a countdown, and the
  daily reset, for which no phase is fresh, is `Alone`: its copy is the document.
* `FuelLaunchesInOrder` (`FuelLaunchesOnce`), by `FuelInv` beside these, as long as
  there was no edit (`Untouched`).  `Counted` adds to `Agrees` what a copy knows of
  the fuel, the queue and the number of launches: a cycle that finds the document
  idle spends a copy's fuel, which is at most the document's; no copy at a banner
  meets an idle one; nothing is dropped, as every level is configured.  The folds
  over levels and contributions are sums over indices (`CostIsSum`, `GivenIsSum`).
  That `covered` spends exactly what its levels take (`SpentOnLevels`) is an
  induction over the fuel, done here as the least member of a set of
  counterexamples, since the prover has no induction principle; for the same
  reason `affordable` is a recursive function of the fuel alone.

The last two suppose `Prompt`, like the run: nobody is in the middle of a pass when
a phase ends.  Beside it the proofs use `RocketAssumption` and `CallsAssumption`:
finitely many levels, level 1 among them, each taking some fuel.  `RocketIsSound`,
`EventsPaid` and `LaunchedIsPaid` hold without `Prompt`.

`RoomsProofs`, for every set of rooms, users and workloads:

* `SeatsAreKept` (`SeatsKeepTheirUsers`).  Every action is a `GoodStep`: it leaves
  the seats alone, or changes those of one room so that nobody is replaced and no
  occupied seat disappears but by the reseeding of a reopened video room.  What
  the handlers read earlier is irrelevant, because every write that fills or
  deletes a seat repeats its condition in the filter; the invariant `SeatInv`
  only says what a seat's document is.
* `ListsAreKept` (`ListsLoseOnlyTheTarget`).  Here the stale read matters.  The
  invariant `ListInv`: a request that holds a computed list either finds the
  version of the document moved, so that its save is refused, or its list lacks
  nobody of the present one but the target of its demotion or unblocking.
* `OneSeatOnly` (`OneSeatEach`).  Every action but the claim of a seat is a
  `FreeingStep`, after which nobody sits who did not sit there before; the claim
  makes its request a taker (`Pending`), which only the clean-up of that request
  ends, and then the user has the claimed seat or none.  So `OneEach` is inductive
  beside `SeatInv`, and a crash between the two leaves the taker pending for good,
  which is what the property excludes.
* `EverybodyCounted` (`NobodyUncounted`, `TypeOK` included).  `CountInv` is the types,
  with what a request has read (`Fits`), and `Balance`: counter and enters yet to count
  are no less than rows and leaves yet to count.  Four actions move a request into or out
  of those sets and change a row or the counter with it (`EnterCreateKeeps` to
  `LeaveCountKeeps`); every other action leaves the sets alone and is `Mild`: it resets
  the counter and says so, or leaves it and lets nobody in.  It needs the sets of requests
  finite, hence the assumptions that there is a room, that finitely many users are
  inside at first and that the workloads are finitely many.

`EconomyProofs`, for every set of workloads: any number of calls of any of the nine
services at once, of stops and of days, any catalogue, tiers, listings and medals.
All safety properties of the run `economy` are proved.

The services share the requests, the wallet's keys and the calendar, so the first
part of the module separates them.  `Routes` says that a request is at a place of the
service of its call; `Serves` what a step of one service may touch; `Quiet` that, to the
invariant of one service, a step of another leaves its requests, its keys and its
variables alone.  So each of the following invariants is proved against the actions of
its own service, a stop, midnight, and one lemma for all the rest.

* `PoolIsReconciled` (`PoolReconciled`), by `PoolInv`: a request past the increment and
  before its row is exactly one term of the sum `unbooked`, stopped or not, and whoever
  reverses its increment has met the row of another request with its key.
* `TaskIsPaidOnce` (`TaskPaidOnce`), by `BallInv`: who won the push is the only one who
  may, since the push is conditional on the counter of claims and the counter goes up
  with it; that the goal was reached stays true as progress only grows.
* `RewardsAlwaysEarned` (`RewardsAreEarned`), by `RecordInv`: sessions of a day that is
  over are only added, so a sum a cron read earlier is a lower bound of the present one,
  and a decision taken on it stays right.
* `EarnedPaidOnce` (`EarnedIsPaidOnce`) adds `StreakIsEarned`, by `DailyInv`: a state, read
  or stored, counts no more claims than there are dates with a grant up to its last
  date.  However stale the state is that a claim saves, its date is later than the one of
  that state and has a grant, so it adds a date to those counted.
* `HonorsAlwaysEarned` (`HonorsAreEarned`), by `HonorInv`: every value an evaluation
  carries was a value of the metric, and the peak is never lowered.
* `TiersAlwaysKept` (`TiersKept`) and `BoughtAlwaysKept` (`BoughtIsKept`), by `ShopInv`.
  A status read earlier is `Seen`: its owned tiers are a part of the present ones, and
  all of them if the version is the same, so a save replaces nothing it has not read.
  `OwnedOk`: a row of the inventory belongs to a paid key or an owned tier.  `BuyJob`,
  `TierJob` and `GrantJob` carry what was paid to the grant.  `Awaited`: a paid key
  without a row has a request that got to its grant.  `PaidOk` is about tiers that are
  paid: a debited purchase (`PurchaseOk`) was saved, and then its tier is owned, or got
  to its save, or was `Overtaken` there; and `TimeOk`: a save whose version is still that
  of the status adds its days to the expiry that it read, so the sum goes on.  Dates are
  numbers and `Never` is one, so the sum is claimed for dates before it.
* `MedalsStayApart` (`OneMedalPerSlot`) and `WornOneEach` (`OneOfEachSlot`), by
  `Patience`, `WallInv` and `WornInv`.  With a patient user one request at most is under
  way, so the place that was emptied by one update is still empty at the save
  (`WearReady`, `Swept`); of the winners of an SVIP activation no two share a type.

The assumptions on workloads say what validation and drawn keys give: amounts and
targets are natural numbers, a call has its fields (`AmountAssumption`,
`BallCallsAssumption`, `SessionAssumption`, `ListingAssumption`, `TierAssumption`,
`HonorsAssumption`, `MetricAssumption`, `WorkloadAssumption`).  Four further facts are
hypotheses of the theorems that need them, because an admin or a client of the real
system may break them: `EveryDayGrants` (a day of the calendar may be left empty),
`TargetsStay` (an edit may replace a medal's targets), `TypesStay` (an edit may change
an item's type, `cosmetics.service.ts:149`) and `KeysAreOwn` (the key of a purchase
comes from the client).  TLC evaluates the assumptions and, as `WorkloadsAreUsual`, the
hypotheses for the workloads of `MCEconomy`.

`CommunityProofs`, for every set of workloads of the nine services of `Community`: any
number of calls, stops and days. Its first part is that of `EconomyProofs` again, for
other services: `Routes`, `Serves`, `Quiet`; `Untouched` are the variables that nobody
but their service (and, for call requests, MongoDB's TTL monitor) changes. `Patience`
says that among patient users at most one request is under way.

* `FollowsAlwaysHold` (`FollowsHold`), by `FollowInv`: a counter and the edges differ by
  what requests between the edge and the counter owe, each of them once, as an edge is
  inserted or removed by one request only.  What a stopped request owes is never paid, and
  `StopsInv` counts those; `ListInv` says that whoever was hidden when a list was asked
  for stays hidden, as long as nobody unblocks, until the names are filled in.
* `MomentsAlwaysCounted` (`MomentsCounted`) by the same kind of debt, for the rows of
  reactions and of comments.  Overlapping withdrawals leave a counter too high, never too
  low; a moderator and an author may both count a comment out (`CountedOutTwice`).
* `ThreadsAlwaysHold` (`ThreadsHold`), by `MessageInv`: a message's thread is the one of
  its pair, because the thread of two people is made by the unique insert that the loser
  of a race reads again; the unread counter of a thread is the number of unread messages
  less those `Unwritten`, which among patient users is at most the one under way.
* `StageAlwaysHolds` (`StageHolds`), by `StageInv`: a save writes what the call decided on
  the seat it read (`StageJob`), which among patient users is still the seat (`FreshMic`).
  `SteadyInv` says why a forced mute lasts: whoever sits on the seat took it and takes no
  other (`MicTaken`), he is not `Moderates`, and his call is refused by the guard.
* `AnsweredOnce` (`CallsAnsweredOnce`).  The invariant adds `Asked`: an id that is known
  belongs to a request that has written its row, so no id is given again after its row was
  deleted, and an answer that was given is never pending again.

`MemberProofs` goes on with `Community`.

* `FamiliesAlwaysHold` (`FamiliesHold`), by `FamilyInv`.  `FeeInv`: who is past the debit of
  a foundation has paid.  `SoloInv`, for patient users: what a request knows of the document
  and of its target's row is still so (`Knows`); a family nobody is half way with `Matches`
  its rows; and for a request between the row and the document `Halfway` says, place by
  place, which role, member or clock the document still lacks.  `RosterOk` and `LeadOne` are
  the two unique indexes, one row per user and one family per leader.
* `AccountsAlwaysHold` (`AccountsHold`), by `AccountInv`.  `IdentityInv`: no two accounts
  have one address or one phone (`OneHolder`, the unique indexes), a Google id of an account
  was vouched for together with its address (`Vouched`), and the account that a sign-in has
  found or made is its caller's (`Owns`), up to the token it leaves.  So two first sign-ins
  that overlap meet at the index of the address, and the loser is refused rather than given
  an account of its own.  `NumberInv`: two requests never hold one number; the number a
  request holds is taken only if it was sold; and it has drawn at most one number more than
  were sold below its last (`SoldTo`), hence never `MAX_RETRY`.  `SessionInv`: among
  patient users of whom nobody dies, the live tokens of one sign-in are one, but for the
  moment between the new token of a rotation and the revocation of the old one.

Beside the assumptions on workloads they suppose three things.  `IdentityAssumption`: Google
and the SMS gateway vouch for something, the sold numbers are finitely many, and no request
bears the id of the account of one.  `NobodyAssumption`: no call to
take a seat is made by the value that stands for an empty seat.  `FamilyAssumption`: the
first family's leader is not on its list of co-leaders, its members are finitely many, and
no request bears the number of that family.

Three proof attempts showed that a property had been stated too broadly; each now says what
the code does, and the run has the workloads that tell the difference.

* `FamiliesHold`, of too many families: a leader who promotes himself leads by the document
  and co-leads by his row, and a family that is revived has a leader without a row.  Both
  are among the differences below, and `Spared` excludes them.
* `AccountsHold`, of a Google id that comes with two addresses in two first sign-ins, and of
  refusals whose cause is gone because the holder of the name has renamed himself.
* `StageHolds`, of a mute that ends: a forced mute does end when its holder changes seats or
  leaves, when somebody else takes the seat, and when a moderator lifts or softens it, all
  of which the code intends; `Forced` now says so (`Steady`).

Only model-checked: all liveness (`RoundsComplete`, `AbandonedRoomsClose`,
`RocketsLand`, `PurchasesComplete`), which is out of the prover's reach; and
`AgenciesHold` and `BoardsAgree` of `community`.

## Differences between code and documentation

Shown by a run (the counterexample is the run's):

* a claim beside a cancel: the bag pays more than its total (`lucky_bag_refund`);
* a crash between the flip to RESULT and the last payout: the restart pays
  nobody (`games_crash`);
* a lost update of the counter of members: the nightly sweep disbands a family
  that has several members (`community_swept`);
* a host's mute that its holder lifts, by muting himself on top of it first
  (`community_muted`).

Met while modelling; no run is spent on them:

* Wallet: a duplicate credit may be spent before it is taken back, so a balance
  falls below the `min: 0` of `wallet.schema.ts:23,27` (265; `DebtBoundedByReversals`
  says how far); a retry that overlaps its original may be refused for want of the
  coins that the original holds (207).
* Lucky bag: the slots are compared with the coins before the commission comes off
  (372), which may be all of them (157), so a pool may have fewer coins than slots; it
  hands out a coin a slot all the same, more than the pool, although 845 says that the
  total is always exact (`PoolHandedOut` says how much); cancelling an unclaimed bag also returns the commission (771); the
  cap on active bags is counted two round trips before the insert (389, 408); a
  crash between debit and insert loses the coins (481), and a refused credit
  loses the share (687); an expired bag is never refunded although the schema
  speaks of it (schema 11, 109); tiers that add up to 100.1 %, and tiers with a share
  below zero, pass the check and hand out more than the pool (182, 875, 895), without
  a commission more than the bag cost; a slot of no coins (a pool of none cut by a
  tier) is taken and its credit refused (wallet.service.ts:172).
* Games: the winner is drawn from the document at the close, and a bet counted
  later is paid too, so the payout may exceed the share (1117, against the comment
  at 1239); two transitions that interleave both draw, the second writes SPINNING
  over RESULT, and a bet on the first item may have been paid (1097, 1098);
  two rounds may get one number when two openings overlap (schema 47, service
  876) or leave an orphan (271); a heal makes a completed round spin again (1051)
  or overwrites its winner (1031, 1040); a forked timer draws in another round's
  window (schema 64); a bet may be charged or inserted after its round closed (726,
  787), and a crash between its debit and its row loses it; a payout that throws
  is skipped for good (1150).
* Rooms: a close on the host's leave writes CLOSED over REMOVED (284, 1289);
  taking a seat asks for no membership (`room-member.schema.ts:21`); an invitation
  cannot fill a locked seat (`room-seat.schema.ts:44`); `recordSeatLeave` is not
  called from every path that vacates a seat; concurrent takes of one user record
  a ghost twice (1471–1501); a closed room is reopened although its status says
  permanently; `micCount` takes the requested number although `resizeSeats` kept
  more (764); a block decrements the counter for a target who is outside (2348)
  and may miss one who is entering (2303); a crash in `createOrGetOwn` leaves a
  room without seats; the statistics of a day begin at UTC midnight although 1133
  says Dhaka's.
* Stage: overlapping mute and unmute leave a seat unmuted with a muter recorded
  (1666, 1717); a stale save of a mute or a camera reaches the next occupant, and
  so may the notice of a kick (1830, 1833); an approval deletes the request without
  looking whether it did, so two of them, or an approval and a denial, are both
  announced; asking again moves the expiry that the schema calls untouched.
* Gifts: overlapping retries count `totalSent` and fuel twice (281, 359, 386);
  `purge` reads a counter that sends increment without waiting and deletes later
  (209).
* Rocket: a winner whose credit is refused is never paid, though the launch is
  recorded with him (667–671, 686–690); a start of a cycle overwrites fuel that
  arrives in between (571, against 241–243), so fuel may be lost, and
  `FuelLaunchesOnce` asks only that none is spent twice; a launch that ends on a stale copy, or a crash, leaves an idle room
  full until the next gift, although 420–421 leave that to the loop; a user pushed
  twice into the contributions (306–325) may stand on two places and is paid for
  one, since the key has no rank (664); after an admin removed the level at the
  head of the queue, a driver with a stale copy drops the head of the next queue
  and may then start a cycle from fuel that was already spent (747–777, 547); the
  status guards name no version (486).
* Resellers: a crash between the increment and the row is not undone although the
  comment at 175 calls the pair atomic; two top-ups together pass a limit that
  either alone respects (206); a reversal after an assignment may leave the pool
  negative.
* RevenueCat: base and bonus are not "both or none" (119–122) when the package is
  withdrawn between them.
* Daily reward: midnight between the date and the save loses a day; after an edit
  of the calendar a day may be claimed again; the restart of a streak saves only the
  fields that differ from what was read (135–139), so one that races a claim may leave
  the other's date or day; a day without rewards counts for the streak.
* Magic ball: `cumulativeCoinsAllTime` adds up one day although its schema (55–59)
  and 160–167 say all of them; a crash after the push is never paid.
* Live record: a session that ends after its day was added up is lost, and a new
  threshold makes page and claim disagree; its days are cut at UTC+6, the time of Dhaka (31, 38),
  where gifts, rocket, magic ball and room support cut them at +05:30, so the first
  half hour of a day in Dhaka counts for the day before, although
  `gifts.service.ts:506` says Asia/Dhaka and that they line up.
* SVIP: two purchases of one tier that overlap are both debited, since the key ends in a
  random number (224), although 168 and 215 say that a double tap is charged once; a
  permanent tier gets an end when a higher, timed one is bought (239), although 230 says
  that no time is lost; a purchase that is cut off between its debit and its save, or whose save is
  refused because another one was saved since it read the status, is paid and its tier
  not owned, and nothing repairs it (221–255; `PaidTiersOwned` excepts these two
  cases); the refusal of an owned tier forbids the renewal of 172–174; `activateTier` makes timed items permanent (323), and a timed grant shortens
  permanent ones although 200 says the longer expiry stays.
* Store and cosmetics: a retry of a purchase that was granted lengthens the item
  (`cosmetics.service.ts:231`, `store.service.ts:159`); equipping what is on takes
  it off (391, against 361); two equips that overlap leave two items of a type on
  (360–362), and an update may change the type of an item that is worn.
* Honors: wearing a medal where it already is takes it off; two wears may share a
  slot (479); a grant may lower a tier (269), and so may overlapping evaluations.
* Families: a crash between the family and its leader's row leaves a family nobody
  leads, which holds the unique index of its founder; a founder who loses a race is
  charged; promoting or demoting the leader himself, and reactivating a disbanded
  family, break the roles.
* Agencies: an approval is not "all-or-nothing" (612) across a crash;
  `addMember` may leave an agency without its owner; `assignHost` and memberships
  share one counter, and a host profile outlives a departure; of a cancellation,
  an approval and a rejection at once the last write stays; two transfers leave
  two owners or none; two joins to different agencies are both pending.
* Auth and users: the Google id of an account is not unique, so that a first sign-in that
  overlaps another one of the same id with a new address makes a second account; two
  rotations of one refresh token at once both succeed; a wrong
  code may write an older count of attempts back; `refresh` does not ask whether
  the account is active; a ban followed by an unban, or racing a deletion, turns a
  deleted account active; a profile update and a Google sign-in racing a deletion
  write the name and the id back (`auth.service.ts:83`, `users.service.ts:562`);
  `numericIds.claim` is called nowhere.
* Social: `isMutuallyBlocked` is called nowhere although 542 says what it gates;
  `follow` does not ask for blocks, and a block deletes follows that the schema says
  come back; what a crash leaves in a counter is never rebuilt (143).
* Messages and moments: two sends at once lose an increment of the unread counter,
  and a read that saves zero may hide a newer message; an unlike before its like is
  counted leaves a count of one; a removed comment deleted by its author is counted
  out twice; a restore revives a deleted moment; the feed of one author is not
  filtered by blocks although `moments.service.ts:125` says so.
* Rankings and room support: a caller without activity in the period has a row of value
  and rank 0, as 541 explains, although the type of the answer (54–57) says null, and
  `BoardsAgree` asks for neither; the configured time zone is ignored, and the comment at
  `room-support.service.ts` 24 takes +05:30 for Dhaka's; presence rows
  disappear with the visitor, so last week's distinct visitors are not counted; the
  weekly ranking is UTC's week and the weekly support the local one.

## What is not modelled

Within the modelled components: the text, media and layout of every event sent
to clients; listings that only read one collection; passwords and the agency gate
of Rooms; the history retention, item edits and timing edits of Games, and the heals of
windows out of range (322–354, 961–972), which `clampTimings` excludes; edits of a
lucky-bag configuration in the middle of a bag; the caps of 25 transitions and 50
levels in one pass of the rocket; more than one room, day or gift at a time where
the documents do not share anything; creating catalogue rows (tiers, listings,
medals, tasks, packages); pictures and contacts of users, families and agencies.
The note of each component in `PROJECT.json` says what is left out of it.

The seats are in two modules: `Rooms` has who sits where under resizes, closings
and sweeps, `Stage` what is done on a seat of a room that stays open.  What both
together do to one seat, such as a mute saved while the layout shrinks, is not
composed.

The components without a module are in `PROJECT.json` with the reason: those that
only read (search, dashboard), only talk to a service outside (Agora, media), keep
sockets in memory (realtime), are pure functions (content filter), or change one
document by one update (banners, emojis, reports, settings) have no interleaving
to get wrong.

Some hazards of the list in `PROJECT.json` go beyond what a property claims; their
notes say what is not promised.

## Plan

Done: Ledger and Wallet; LuckyBag; Games; Rooms; Gifts with Rocket; the services
around the wallet (`Economy`); the social side, accounts, groups and boards
(`Community`); the proofs above.

Left, in order:

1. Theorems: `AgenciesHold`, for which `CommunityProofs` has the routing, and
   `BoardsAgree`.
2. Composition of `Stage` with the resizes and closings of `Rooms`.
3. Edits of configurations during a bag or a round, and the history retention of
   Games.
