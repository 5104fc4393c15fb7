------------------------------ MODULE CommunityProofs ------------------------------
(***************************************************************************)
(* Theorems about Community for every set of workloads: any number of      *)
(* calls of any of the services, in any order, any number of them stopped  *)
(* half way, any number of days.                                           *)
(*                                                                         *)
(* The services share the requests and the calendar.  The first part shows *)
(* which requests a service moves: to the invariant of one service the     *)
(* steps of the others are quiet.  Then each service has an invariant of   *)
(* its own; those of families and accounts are in MemberProofs.            *)
(***************************************************************************)
EXTENDS Community, SumProofs, TLAPS

------------------------------------------------------------------------------
\* Who serves which call.

Services == {"social", "moments", "messages", "notices", "accounts", "stage", "families",
             "agencies", "boards"}

\* The calls that each service serves.
Ops ==
    [social |-> {"follow", "unfollow", "block", "unblock", "visit", "following", "followers",
        "visitors", "blocked", "friends"},
     moments |-> {"moment", "deleteMoment", "removeMoment", "restoreMoment", "react", "unlike",
        "comment", "deleteComment", "removeComment", "feed"},
     messages |-> {"send", "readThread"},
     notices |-> {"broadcast", "markNotice", "markAll", "register", "unregister"},
     accounts |-> {"registerEmail", "loginEmail", "loginGoogle", "loginPhone", "sendCode", "refresh",
        "logout", "setPassword", "updateProfile", "ban", "unban", "deleteAccount"},
     stage |-> {"enterStage", "leaveStage", "takeMic", "standUp", "lockMic", "kickMic", "mute",
        "video", "invite", "askCall", "approveCall", "denyCall", "cancelCall", "policies",
        "chat", "cleanChat"},
     families |-> {"found", "joinFamily", "approve", "reject", "leaveFamily", "kickMember", "promote",
        "demote", "transferFamily", "familyMode", "familyStatus", "sweepFamilies"},
     agencies |-> {"requestJoin", "cancelJoin", "decideJoin", "leaveAgency", "kickCrew",
        "removeMember", "crewRole", "handover", "addMember", "submitBid", "cancelBid",
        "reviewBid", "foundAgency", "openAgency", "agencyStatus", "assignHost",
        "unassignHost"},
     boards |-> {"giftEvent", "enterRoom", "walkOut", "supportConfig", "ranking", "supportMe",
        "supportRanking", "contributions", "giftWall"}]

\* Where only its requests are.
Places ==
    [social |-> {"blockCount", "blockCut", "blockInsert", "count", "followInsert", "friends",
        "hydrate"},
     moments |-> {"commentCount", "commentCreate", "commentDelete", "commentDown", "commentParent",
        "commentRemove", "feedFind", "momentSave", "reactCount", "reactUpsert",
        "unlikeCount", "unlikeDelete"},
     messages |-> {"readSave", "sendCreate", "sendFind", "sendMessage", "sendNotice", "sendSave",
        "sendWinner"},
     notices |-> {"broadcast"},
     accounts |-> {"banSave", "codeDrop", "codeUse", "codeWrong", "createUser", "deleteDevices",
        "deleteWipe", "issue", "linkGoogle", "nextId", "passwordSave", "phoneFind",
        "phoneName", "profileName", "profileSave", "refreshIssue", "refreshSave", "registerName",
        "rereadUser", "sendCodeCool", "sendCodeSet"},
     stage |-> {"approveDelete", "approveExpired", "askSeated", "askUpsert", "chatCreate",
        "cleanChatSave", "denyDelete", "invitePresent", "inviteSeat", "kickMicSave",
        "leaveMics", "lockMicSave", "micSave", "policiesSave", "takeMicClaim",
        "takeMicClear", "takeMicVacate"},
     families |-> {"approveFind", "approveSave", "disbandRows", "familyCountDown", "familyCountUp",
        "familyDelete", "foundDebit", "foundInsert", "foundLeader", "joinInsert",
        "kickFind", "leaveFind", "rankDocument", "rankFind", "rankSave", "rejectDelete",
        "settingsSave", "statusSave", "sweepRows", "sweepSave", "transferDocument",
        "transferFind", "transferNew", "transferOld"},
     agencies |-> {"addCount", "addDemote", "addHost", "addUpsert", "agencyCode", "agencyHost",
        "agencyInsert", "agencyOpen", "agencyOwner", "agencyStatusSave", "assignDown",
        "assignSave", "assignUp", "bidCode", "bidCreate", "cancelBidSave", "cancelJoinSave",
        "crewCountDown", "crewDelete", "crewRoleFind", "crewRoleSave", "decideCount",
        "decideFind", "decideHost", "decideInsert", "decideMember", "decideSave",
        "handoverFind", "handoverIn", "handoverOut", "handoverOwner", "joinCreate",
        "joinMember", "joinPending", "kickCrewFind", "kickCrewRole", "removeOwner",
        "reviewAgency", "reviewCode", "reviewHost", "reviewMember", "reviewOwner",
        "reviewSave", "unassignDown", "unassignSave"},
     boards |-> {"contributionsRanked", "contributionsTotal", "rankBeaters", "rankCaller",
        "rankItems", "rankSum", "supportMetrics", "supportVisitors", "wallMerge",
        "wallSides"}]

\* What they read for later.
Fields ==
    [social |-> {"todo", "cut", "gone", "people", "sides", "before"},
     moments |-> {"doc", "hidden", "feed"},
     messages |-> {"thread", "doc", "seen"},
     notices |-> {"todo"},
     accounts |-> {"account", "doc", "ids", "password", "tries", "number", "sent"},
     stage |-> {"held", "doc", "new", "user"},
     families |-> {"doc", "row", "oldRow"},
     agencies |-> {"doc", "owner", "ownerRow"},
     boards |-> {"asked", "items", "entry", "mine", "left", "metrics", "levels", "room", "visitors",
        "total", "sides"}]

\* A request is where its call leads it.
Routed(r, p) == \A s \in Services : p \in Places[s] => call(r).op \in Ops[s]

\* What a request has read belongs to the service that serves it.
Read(r, x) == x = "at" \/ \E s \in Services : call(r).op \in Ops[s] /\ x \in Fields[s]

\* The invariant of the requests.
Routes ==
    /\ load \in Workloads /\ day \in 1 .. load.days
    /\ DOMAIN pc = Requests /\ DOMAIN job = Requests
    /\ \A r \in Requests :
          /\ Routed(r, pc[r])
          /\ \A x \in DOMAIN job[r] : Read(r, x)
          /\ pc[r] = "idle" => job[r] = <<>>
          /\ pc[r] = "stopped" => "at" \in DOMAIN job[r] /\ Routed(r, job[r].at)

UnderWay(r) == pc[r] \notin Over \cup {"idle"}

\* A service moves a request that is under way or begins.
Takes(r) == UnderWay(r) \/ \E op : Begins(r, op)

\* A step of service s, for r.
Serves(r, s) ==
    /\ call(r).op \in Ops[s] /\ Takes(r)
    /\ load' = load /\ stops' = stops /\ day' = day
    /\ DOMAIN pc' = Requests /\ DOMAIN job' = Requests
    /\ \A q \in Requests : q # r => pc'[q] = pc[q] /\ job'[q] = job[q]
    /\ pc'[r] \in Places[s] \cup {"done", "failed"}
    /\ \A x \in DOMAIN job'[r] : x \in DOMAIN job[r] \/ x \in Fields[s]
    /\ ledger \subseteq ledger'

\* A step to which the calls for s have no part.
Quiet(s) ==
    /\ load' = load /\ stops' = stops /\ day' \in {day, day + 1}
    /\ \A r \in Requests : call(r).op \in Ops[s] => pc'[r] = pc[r] /\ job'[r] = job[r]
    /\ ledger \subseteq ledger'

\* The calls and the places of two services are different.
LEMMA Apart ==
    \A s, t \in Services : s # t => Ops[s] \cap Ops[t] = {} /\ Places[s] \cap Places[t] = {}
    <1> SUFFICES ASSUME NEW s \in Services, NEW t \in Services, s # t
                 PROVE  Ops[s] \cap Ops[t] = {} /\ Places[s] \cap Places[t] = {}
        OBVIOUS
    <1> USE DEF Ops, Places, Services
    <1>1. CASE s = "social"
        BY <1>1
    <1>2. CASE s = "moments"
        BY <1>2
    <1>3. CASE s = "messages"
        BY <1>3
    <1>4. CASE s = "notices"
        BY <1>4
    <1>5. CASE s = "accounts"
        BY <1>5
    <1>6. CASE s = "stage"
        BY <1>6
    <1>7. CASE s = "families"
        BY <1>7
    <1>8. CASE s = "agencies"
        BY <1>8
    <1>9. CASE s = "boards"
        BY <1>9
    <1> QED  BY <1>1, <1>2, <1>3, <1>4, <1>5, <1>6, <1>7, <1>8, <1>9

\* Nobody is at an end for a service.
LEMMA EndsApart ==
    \A s \in Services : Places[s] \cap {"idle", "done", "failed", "stopped"} = {}
    BY DEF Services, Places

LEMMA RoutesInit == Init => Routes
    <1> SUFFICES ASSUME Init  PROVE Routes
        OBVIOUS
    <1>1. /\ load \in Workloads /\ day = 1 /\ DOMAIN pc = Requests /\ DOMAIN job = Requests
          /\ \A r \in Requests : pc[r] = "idle" /\ job[r] = <<>>
        BY DEF Init, ServiceInit, Requests
    <1>2. day \in 1 .. load.days
        BY <1>1, WorkloadAssumption
    <1>3. \A r \in Requests : Routed(r, pc[r]) /\ \A x \in DOMAIN job[r] : Read(r, x)
        BY <1>1, EndsApart DEF Routed
    <1> QED  BY <1>1, <1>2, <1>3 DEF Routes

\* Whatever a service does for r, all requests stay routed.
LEMMA ServedRoutes ==
    ASSUME Routes, NEW r \in Requests, NEW s \in Services, Serves(r, s)
    PROVE  Routes'
    <1>1. Requests' = Requests /\ \A q \in Requests : call(q)' = call(q)
        BY DEF Serves, Requests, call
    <1>2. \A q \in Requests : \A p : Routed(q, p)' <=> Routed(q, p)
        BY <1>1 DEF Routed
    <1>3. \A q \in Requests : \A x : Read(q, x)' <=> Read(q, x)
        BY <1>1 DEF Read
    <1>4. ASSUME NEW q \in Requests
          PROVE  /\ Routed(q, pc'[q])
                 /\ \A x \in DOMAIN job'[q] : Read(q, x)
                 /\ pc'[q] = "idle" => job'[q] = <<>>
                 /\ pc'[q] = "stopped" => "at" \in DOMAIN job'[q] /\ Routed(q, job'[q].at)
        <2>1. CASE q = r
            <3>1. Routed(q, pc'[q])
                BY <2>1, Apart, EndsApart DEF Serves, Routed
            <3>2. \A x \in DOMAIN job'[q] : Read(q, x)
                BY <2>1 DEF Serves, Read, Routes
            <3>3. pc'[q] \notin {"stopped", "idle"}
                BY <2>1, EndsApart DEF Serves
            <3> QED  BY <3>1, <3>2, <3>3
        <2>2. CASE q # r
            BY <2>2 DEF Serves, Routes
        <2> QED  BY <2>1, <2>2
    <1> QED  BY <1>1, <1>2, <1>3, <1>4 DEF Routes, Serves

\* What a request knows after it has learned something.
LEMMA LearnedOne ==
    ASSUME Routes, NEW r \in Requests, NEW f, Learns(r, f)
    PROVE  /\ DOMAIN job' = Requests /\ job'[r] = Override(job[r], f)
           /\ DOMAIN job'[r] = DOMAIN job[r] \cup DOMAIN f
           /\ \A x \in DOMAIN f : job'[r][x] = f[x]
           /\ \A x \in DOMAIN job[r] \ DOMAIN f : job'[r][x] = job[r][x]
           /\ \A q \in Requests : q # r => job'[q] = job[q]
    BY DEF Learns, Routes, Override

LEMMA BeginServes ==
    ASSUME Routes, NEW r \in Requests, NEW op, Begins(r, op)
    PROVE  call(r).op = op /\ Takes(r)
    BY DEF Begins, Takes

LEMMA AtServes ==
    ASSUME Routes, NEW r \in Requests, NEW s \in Services, pc[r] \in Places[s]
    PROVE  call(r).op \in Ops[s] /\ Takes(r)
    BY EndsApart DEF Routes, Routed, Takes, UnderWay, Over

\* A step that goes on having read nothing, or something.
LEMMA GoesServes ==
    ASSUME Routes, NEW r \in Requests, NEW s \in Services,
           call(r).op \in Ops[s], Takes(r), NEW to \in Places[s] \cup {"done", "failed"},
           Goes(r, to), job' = job, ledger \subseteq ledger'
    PROVE  Serves(r, s)
    BY DEF Serves, Goes, Routes

LEMMA LearnServes ==
    ASSUME Routes, NEW r \in Requests, NEW s \in Services,
           call(r).op \in Ops[s], Takes(r), NEW to \in Places[s] \cup {"done", "failed"},
           Goes(r, to), NEW f, Learns(r, f), DOMAIN f \subseteq Fields[s],
           ledger \subseteq ledger'
    PROVE  Serves(r, s)
    BY LearnedOne DEF Serves, Goes, Routes

LEMMA SocialServe ==
    ASSUME Routes, NEW r \in Requests, SocialStep(r)
    PROVE  Serves(r, "social")
    <1> USE DEF Services
    <1> USE BeginServes, AtServes, LearnedOne
        DEF Serves, Routes, Passes, Goes, Ops, Places, Fields
    <1>1. CASE Follow(r) \/ Block(r) \/ Unblock(r) \/ Visit(r)
        BY <1>1 DEF Follow, Block, Unblock, Visit, Meets
    <1>2. CASE FollowInsert(r)
        BY <1>2 DEF FollowInsert, Counts
    <1>3. CASE Unfollow(r)
        BY <1>3 DEF Unfollow, Counts
    <1>4. CASE Count(r)
        BY <1>4 DEF Count, Counts
    <1>5. CASE BlockInsert(r)
        BY <1>5 DEF BlockInsert
    <1>6. CASE BlockCut(r)
        BY <1>6 DEF BlockCut
    <1>7. CASE BlockCount(r)
        BY <1>7 DEF BlockCount, Counts
    <1>8. CASE Listing(r)
        BY <1>8 DEF Listing, Lists
    <1>9. CASE FriendsSide(r)
        BY <1>9 DEF FriendsSide
    <1>10. CASE Hydrate(r)
        BY <1>10 DEF Hydrate
    <1> HIDE DEF Serves, Routes, Passes, Goes, Ops, Places, Fields
    <1> QED  BY <1>1, <1>2, <1>3, <1>4, <1>5, <1>6, <1>7, <1>8, <1>9, <1>10 DEF SocialStep

LEMMA MomentsServe ==
    ASSUME Routes, NEW r \in Requests, MomentsStep(r)
    PROVE  Serves(r, "moments")
    <1> USE DEF Services
    <1> USE BeginServes, AtServes, LearnedOne
        DEF Serves, Routes, Passes, Goes, Ops, Places, Fields
    <1>1. CASE CreateMoment(r) \/ Moderate(r) \/ MomentSave(r) \/ React(r)
        BY <1>1 DEF CreateMoment, Moderate, MomentSave, React, Looks
    <1>2. CASE ReactUpsert(r) \/ ReactCount(r) \/ Unlike(r) \/ UnlikeDelete(r)
        BY <1>2 DEF ReactUpsert, ReactCount, Unlike, UnlikeDelete, Looks, Tally
    <1>3. CASE UnlikeCount(r) \/ CreateComment(r) \/ CommentParent(r) \/ CommentCreate(r)
        BY <1>3 DEF UnlikeCount, CreateComment, CommentParent, CommentCreate, Looks, Tally
    <1>4. CASE CommentCount(r) \/ CommentDelete(r) \/ CommentRemove(r) \/ CommentDown(r)
        BY <1>4 DEF CommentCount, CommentDelete, CommentRemove, CommentDown, Tally, SaveComment
    <1>5. CASE DeleteComment(r)
        BY <1>5 DEF DeleteComment, Looks, FindsComment
    <1>6. CASE RemoveComment(r)
        BY <1>6 DEF RemoveComment, Looks, FindsComment
    <1>7. CASE Feed(r)
        BY <1>7 DEF Feed
    <1>8. CASE FeedFind(r)
        BY <1>8 DEF FeedFind
    <1> HIDE DEF Serves, Routes, Passes, Goes, Ops, Places, Fields
    <1> QED  BY <1>1, <1>2, <1>3, <1>4, <1>5, <1>6, <1>7, <1>8 DEF MomentsStep

LEMMA MessagesServe ==
    ASSUME Routes, NEW r \in Requests, MessagesStep(r)
    PROVE  Serves(r, "messages")
    <1> USE DEF Services
    <1>1. CASE SendFind(r)
        <2>1. call(r).op \in Ops["messages"] /\ Takes(r)
            BY <1>1, AtServes DEF SendFind, Places
        <2>2. ASSUME NEW t, Opens(r, t, threads[t])
              PROVE  Serves(r, "messages")
            BY <1>1, <2>1, <2>2, LearnServes DEF SendFind, Opens, Places, Fields
        <2> QED  BY <1>1, <2>1, <2>2, GoesServes DEF SendFind, Places
    <1>2. CASE ReadThread(r)
        <2>1. call(r).op \in Ops["messages"] /\ Takes(r)
            BY <1>2, BeginServes DEF ReadThread, Ops
        <2>2. ASSUME NEW t, Learns(r, [thread |-> t, doc |-> threads[t]]), Goes(r, "readSave")
              PROVE  Serves(r, "messages")
            BY <1>2, <2>1, <2>2, LearnServes DEF ReadThread, Places, Fields, Passes
        <2> QED  BY <1>2, <2>1, <2>2, GoesServes DEF ReadThread, Passes
    <1> USE BeginServes, AtServes, LearnedOne
        DEF Serves, Routes, Passes, Goes, Ops, Places, Fields
    <1>3. CASE Send(r) \/ SendMessage(r) \/ SendSave(r) \/ SendNotice(r)
        BY <1>3 DEF Send, SendMessage, SendSave, SendNotice, SaveThread
    <1>4. CASE SendCreate(r)
        BY <1>4 DEF SendCreate, Opens
    <1>5. CASE ReadSave(r)
        BY <1>5 DEF ReadSave
    <1> HIDE DEF Serves, Routes, Passes, Goes, Ops, Places, Fields
    <1> QED  BY <1>1, <1>2, <1>3, <1>4, <1>5 DEF MessagesStep

LEMMA NoticesServe ==
    ASSUME Routes, NEW r \in Requests, NoticesStep(r)
    PROVE  Serves(r, "notices")
    <1> USE DEF Services
    <1> USE BeginServes, AtServes, LearnedOne
        DEF Serves, Routes, Passes, Goes, Ops, Places, Fields
    <1>1. CASE Broadcast(r)
        BY <1>1 DEF Broadcast
    <1>2. CASE BroadcastTo(r)
        BY <1>2 DEF BroadcastTo, Notify
    <1>3. CASE MarkNotice(r) \/ MarkAll(r) \/ RegisterDevice(r) \/ UnregisterDevice(r)
        BY <1>3 DEF MarkNotice, MarkAll, RegisterDevice, UnregisterDevice
    <1> HIDE DEF Serves, Routes, Passes, Goes, Ops, Places, Fields
    <1> QED  BY <1>1, <1>2, <1>3 DEF NoticesStep

LEMMA AccountsServe ==
    ASSUME Routes, NEW r \in Requests, AccountsStep(r)
    PROVE  Serves(r, "accounts")
    <1> USE DEF Services
    <1>1. CASE LoginEmail(r)
        <2>1. call(r).op \in Ops["accounts"] /\ Takes(r)
            BY <1>1, BeginServes DEF LoginEmail, Ops
        <2>2. ASSUME NEW u, Finds(r, u, "issue")  PROVE Serves(r, "accounts")
            BY <2>1, <2>2, LearnServes DEF Finds, Places, Fields
        <2>3. ASSUME Sees(r, FALSE, "failed")  PROVE Serves(r, "accounts")
            BY <2>1, <2>3, GoesServes DEF Sees, Passes
        <2> QED  BY <1>1, <2>2, <2>3 DEF LoginEmail
    <1>2. CASE LoginGoogle(r)
        <2>1. call(r).op \in Ops["accounts"] /\ Takes(r)
            BY <1>2, BeginServes DEF LoginGoogle, Ops
        <2>2. ASSUME NEW u, NEW to \in {"linkGoogle", "issue"}, Finds(r, u, to)
              PROVE  Serves(r, "accounts")
            BY <2>1, <2>2, LearnServes DEF Finds, Places, Fields
        <2>3. ASSUME NEW ids, NEW p, Enrols(r, ids, p)  PROVE Serves(r, "accounts")
            BY <2>1, <2>3, LearnServes DEF Enrols, Places, Fields
        <2> QED  BY <1>2, <2>2, <2>3 DEF LoginGoogle
    <1>3. CASE PhoneFind(r) \/ PhoneName(r)
        <2>1. call(r).op \in Ops["accounts"] /\ Takes(r)
            BY <1>3, AtServes DEF PhoneFind, PhoneName, Places
        <2>2. ASSUME NEW u, Finds(r, u, "issue")  PROVE Serves(r, "accounts")
            BY <2>1, <2>2, LearnServes DEF Finds, Places, Fields
        <2>3. ASSUME NEW ids, NEW p, Enrols(r, ids, p)  PROVE Serves(r, "accounts")
            BY <2>1, <2>3, LearnServes DEF Enrols, Places, Fields
        <2>4. ASSUME NEW ok, NEW to \in {"phoneName", "failed"}, Sees(r, ok, to)
              PROVE  Serves(r, "accounts")
            BY <2>1, <2>4, GoesServes DEF Sees, Passes, Places
        <2> QED  BY <1>3, <2>2, <2>3, <2>4 DEF PhoneFind, PhoneName, PhoneEnrols
    <1>4. CASE SetPassword(r)
        <2>1. call(r).op \in Ops["accounts"] /\ Takes(r)
            BY <1>4, BeginServes DEF SetPassword, Loads, Ops
        <2>2. ASSUME NEW u, Finds(r, u, "passwordSave")  PROVE Serves(r, "accounts")
            BY <2>1, <2>2, LearnServes DEF Finds, Places, Fields
        <2>3. ASSUME Sees(r, FALSE, "passwordSave")  PROVE Serves(r, "accounts")
            BY <2>1, <2>3, GoesServes DEF Sees, Passes
        <2> QED  BY <1>4, <2>2, <2>3 DEF SetPassword, Loads
    <1> USE BeginServes, AtServes, LearnedOne
        DEF Serves, Routes, Passes, Goes, Ops, Places, Fields
    <1>5. CASE DeleteDevices(r)
        BY <1>5 DEF DeleteDevices
    <1>6. CASE NextId(r)
        BY <1>6 DEF NextId
    <1>7. CASE CreateUser(r)
        BY <1>7 DEF CreateUser, Sees
    <1>8. CASE RegisterEmail(r) \/ SendCodeSet(r) \/ SendCodeCool(r) \/ CodeWrong(r)
        BY <1>8 DEF RegisterEmail, SendCodeSet, SendCodeCool, CodeWrong, Sees
    <1>9. CASE RegisterName(r)
        BY <1>9 DEF RegisterName, Sees, Enrols
    <1>10. CASE LinkGoogle(r)
        BY <1>10 DEF LinkGoogle
    <1>11. CASE RereadUser(r)
        BY <1>11 DEF RereadUser, Finds
    <1>12. CASE SendCode(r)
        BY <1>12 DEF SendCode, Sees
    <1>13. CASE LoginPhone(r)
        BY <1>13 DEF LoginPhone, Sees
    <1>14. CASE CodeDelete(r) \/ Issue(r) \/ Refresh(r) \/ RefreshIssue(r)
        BY <1>14 DEF CodeDelete, Issue, Refresh, RefreshIssue, Sees, Starts
    <1>15. CASE RefreshSave(r) \/ Logout(r) \/ PasswordSave(r) \/ ProfileName(r)
        BY <1>15 DEF RefreshSave, Logout, PasswordSave, ProfileName, Sees, Revokes
    <1>16. CASE UpdateProfile(r)
        BY <1>16 DEF UpdateProfile, Sees, Finds, Loads
    <1>17. CASE ProfileSave(r) \/ BanSave(r) \/ DeleteWipe(r)
        BY <1>17 DEF ProfileSave, BanSave, DeleteWipe, Sees
    <1>18. CASE Ban(r)
        BY <1>18 DEF Ban, Sees, Finds, Loads
    <1>19. CASE DeleteAccount(r)
        BY <1>19 DEF DeleteAccount, Sees, Finds, Loads
    <1> HIDE DEF Serves, Routes, Passes, Goes, Ops, Places, Fields
    <1> QED  BY <1>1, <1>2, <1>3, <1>4, <1>5, <1>6, <1>7, <1>8, <1>9, <1>10, <1>11, <1>12,
                <1>13, <1>14, <1>15, <1>16, <1>17, <1>18, <1>19 DEF AccountsStep

LEMMA StageServe ==
    ASSUME Routes, NEW r \in Requests, StageStep(r)
    PROVE  Serves(r, "stage")
    <1> USE DEF Services
    <1> USE BeginServes, AtServes, LearnedOne
        DEF Serves, Routes, Passes, Goes, Ops, Places, Fields
    <1>1. CASE EnterStage(r) \/ LeaveStage(r) \/ LeaveMics(r) \/ TakeMic(r)
        BY <1>1 DEF EnterStage, LeaveStage, LeaveMics, TakeMic, Seating, OnlyMics
    <1>2. CASE TakeMicClaim(r) \/ TakeMicVacate(r) \/ TakeMicClear(r) \/ StandUp(r) \/ LockMic(r)
        BY <1>2 DEF TakeMicClaim, TakeMicVacate, TakeMicClear, StandUp, LockMic, Seating, OnlyMics
    <1>3. CASE LockMicSave(r) \/ KickMicSave(r) \/ MicSave(r) \/ Invite(r)
        BY <1>3 DEF LockMicSave, KickMicSave, MicSave, Invite, Seating, OnlyMics, OnlyCalls, Quietly, Rings
    <1>4. CASE KickMic(r)
        BY <1>4 DEF KickMic, Seating, OnlyMics
    <1>5. CASE SetMuted(r)
        BY <1>5 DEF SetMuted, Seating, OnlyMics, Changes
    <1>6. CASE SetVideo(r)
        BY <1>6 DEF SetVideo, Seating, OnlyMics, Changes
    <1>7. CASE InviteSeat(r) \/ InvitePresent(r) \/ AskCall(r) \/ AskSeated(r)
        BY <1>7 DEF InviteSeat, InvitePresent, AskCall, AskSeated, OnlyCalls, Quietly, Rings
    <1>8. CASE AskUpsert(r) \/ ApproveExpired(r) \/ ApproveDelete(r) \/ DenyCall(r)
        BY <1>8 DEF AskUpsert, ApproveExpired, ApproveDelete, DenyCall, OnlyCalls, Quietly
    <1>9. CASE ApproveCall(r)
        BY <1>9 DEF ApproveCall, OnlyCalls, Quietly
    <1>10. CASE DenyDelete(r) \/ CancelCall(r) \/ PoliciesSave(r) \/ SendChat(r)
        BY <1>10 DEF DenyDelete, CancelCall, PoliciesSave, SendChat, OnlyLines, OnlyCalls, Quietly
    <1>11. CASE SetPolicies(r)
        BY <1>11 DEF SetPolicies, Seating, OnlyMics
    <1>12. CASE ChatCreate(r) \/ CleanChat(r) \/ CleanChatSave(r)
        BY <1>12 DEF ChatCreate, CleanChat, CleanChatSave, OnlyLines
    <1> HIDE DEF Serves, Routes, Passes, Goes, Ops, Places, Fields
    <1> QED  BY <1>1, <1>2, <1>3, <1>4, <1>5, <1>6, <1>7, <1>8, <1>9, <1>10, <1>11, <1>12 DEF StageStep

LEMMA FamiliesServe ==
    ASSUME Routes, NEW r \in Requests, FamiliesStep(r)
    PROVE  Serves(r, "families")
    <1> USE DEF Services
    <1>1. CASE FoundDebit(r)
        <2>1. call(r).op \in Ops["families"] /\ Takes(r)
            BY <1>1, AtServes DEF FoundDebit, Places
        <2>2. ASSUME Posts(familyKey(r)), Goes(r, "foundInsert"), job' = job
              PROVE  Serves(r, "families")
            BY <2>1, <2>2, GoesServes DEF Posts, Places
        <2>3. ASSUME Passes(r, "failed")  PROVE Serves(r, "families")
            BY <2>1, <2>3, GoesServes DEF Passes
        <2> QED  BY <1>1, <2>2, <2>3 DEF FoundDebit
    <1> USE BeginServes, AtServes, LearnedOne
        DEF Serves, Routes, Passes, Goes, Ops, Places, Fields
    <1>2. CASE FoundFind(r) \/ FoundInsert(r) \/ FoundLeader(r) \/ JoinInsert(r)
        BY <1>2 DEF FoundFind, FoundInsert, FoundLeader, JoinInsert, InsertRow
    <1>3. CASE JoinFamily(r)
        BY <1>3 DEF JoinFamily, ReadsFamily
    <1>4. CASE CountUp(r) \/ ApproveSave(r) \/ RejectDelete(r) \/ DeleteRow(r)
        BY <1>4 DEF CountUp, ApproveSave, RejectDelete, DeleteRow, SaveFamily, SavesRow
    <1>5. CASE Approve(r)
        BY <1>5 DEF Approve, ReadsFamily
    <1>6. CASE ApproveFind(r)
        BY <1>6 DEF ApproveFind, FindsRow
    <1>7. CASE Reject(r)
        BY <1>7 DEF Reject, ReadsFamily
    <1>8. CASE Leave(r)
        BY <1>8 DEF Leave, ReadsFamily
    <1>9. CASE LeaveFind(r)
        BY <1>9 DEF LeaveFind, FindsRow
    <1>10. CASE Kick(r)
        BY <1>10 DEF Kick, ReadsFamily
    <1>11. CASE KickFind(r)
        BY <1>11 DEF KickFind, FindsRow
    <1>12. CASE CountDown(r) \/ RankSave(r) \/ TransferNew(r) \/ TransferOld(r)
        BY <1>12 DEF CountDown, RankSave, TransferNew, TransferOld, SaveFamily, SavesRow
    <1>13. CASE Rank(r)
        BY <1>13 DEF Rank, ReadsFamily
    <1>14. CASE RankFind(r)
        BY <1>14 DEF RankFind, FindsRow
    <1>15. CASE RankDocument(r)
        BY <1>15 DEF RankDocument, SaveFamily
    <1>16. CASE Transfer(r)
        BY <1>16 DEF Transfer, ReadsFamily
    <1>17. CASE TransferFind(r)
        BY <1>17 DEF TransferFind
    <1>18. CASE TransferDocument(r)
        BY <1>18 DEF TransferDocument, SaveFamily
    <1>19. CASE Settings(r)
        BY <1>19 DEF Settings, ReadsFamily
    <1>20. CASE SettingsSave(r) \/ DisbandRows(r) \/ StatusSave(r) \/ SweepRows(r)
        BY <1>20 DEF SettingsSave, DisbandRows, StatusSave, SweepRows, SaveFamily
    <1>21. CASE SetStatus(r)
        BY <1>21 DEF SetStatus
    <1>22. CASE Sweep(r)
        BY <1>22 DEF Sweep, ReadsFamily
    <1>23. CASE SweepSave(r)
        BY <1>23 DEF SweepSave, SaveFamily
    <1> HIDE DEF Serves, Routes, Passes, Goes, Ops, Places, Fields
    <1> QED  BY <1>1, <1>2, <1>3, <1>4, <1>5, <1>6, <1>7, <1>8, <1>9, <1>10, <1>11, <1>12,
                <1>13, <1>14, <1>15, <1>16, <1>17, <1>18, <1>19, <1>20, <1>21, <1>22, <1>23 DEF FamiliesStep

LEMMA AgenciesServe ==
    ASSUME Routes, NEW r \in Requests, AgenciesStep(r)
    PROVE  Serves(r, "agencies")
    <1> USE DEF Services
    <1>1. CASE HandoverOwner(r)
        <2>1. call(r).op \in Ops["agencies"] /\ Takes(r)
            BY <1>1, AtServes DEF HandoverOwner, Places
        <2>2. ASSUME NEW u, Learns(r, [owner |-> u, ownerRow |-> crew[u]]), Goes(r, "handoverOut")
              PROVE  ledger' = ledger => Serves(r, "agencies")
            BY <2>1, <2>2, LearnServes DEF Places, Fields
        <2>3. ASSUME Passes(r, "handoverIn")  PROVE Serves(r, "agencies")
            BY <2>1, <2>3, GoesServes DEF Passes, Places
        <2> QED  BY <1>1, <2>2, <2>3 DEF HandoverOwner
    <1> USE BeginServes, AtServes, LearnedOne
        DEF Serves, Routes, Passes, Goes, Ops, Places, Fields
    <1>2. CASE RequestJoin(r) \/ JoinMember(r) \/ JoinPending(r) \/ JoinCreate(r)
        BY <1>2 DEF RequestJoin, JoinMember, JoinPending, JoinCreate, Calls, Checks
    <1>3. CASE CancelJoin(r)
        BY <1>3 DEF CancelJoin, ReadsRow, FindsPending
    <1>4. CASE CancelJoinSave(r) \/ Decide(r) \/ DecideMember(r) \/ DecideInsert(r)
        BY <1>4 DEF CancelJoinSave, Decide, DecideMember, DecideInsert, Calls, Checks, InsertCrew, SaveJoin
    <1>5. CASE DecideFind(r)
        BY <1>5 DEF DecideFind, ReadsRow
    <1>6. CASE DecideCount(r) \/ DecideHost(r) \/ DecideSave(r) \/ KickCrew(r)
        BY <1>6 DEF DecideCount, DecideHost, DecideSave, KickCrew, Calls, Checks, CountHosts, BecomesHost, SaveJoin
    <1>7. CASE LeaveAgency(r)
        BY <1>7 DEF LeaveAgency, ReadsRow
    <1>8. CASE KickCrewFind(r)
        BY <1>8 DEF KickCrewFind, ReadsRow
    <1>9. CASE KickCrewRole(r) \/ RemoveOwner(r) \/ CrewDelete(r) \/ CrewCountDown(r)
        BY <1>9 DEF KickCrewRole, RemoveOwner, CrewDelete, CrewCountDown, Checks, CountHosts
    <1>10. CASE RemoveMember(r)
        BY <1>10 DEF RemoveMember, Calls, ReadsRow
    <1>11. CASE SetRole(r) \/ SetRoleSave(r) \/ Handover(r) \/ HandoverOut(r)
        BY <1>11 DEF SetRole, SetRoleSave, Handover, HandoverOut, Calls, Checks, SaveRole
    <1>12. CASE SetRoleFind(r)
        BY <1>12 DEF SetRoleFind, ReadsRow
    <1>13. CASE HandoverFind(r)
        BY <1>13 DEF HandoverFind, ReadsRow
    <1>14. CASE HandoverIn(r) \/ AddDemote(r) \/ AddUpsert(r) \/ AddCount(r)
        BY <1>14 DEF HandoverIn, AddDemote, AddUpsert, AddCount, InsertCrew, SaveRole, CountHosts
    <1>15. CASE AddMember(r)
        BY <1>15 DEF AddMember, Calls, ReadsRow
    <1>16. CASE AddHost(r) \/ Submit(r) \/ BidCreate(r) \/ CancelBidSave(r)
        BY <1>16 DEF AddHost, Submit, BidCreate, CancelBidSave, Checks, BecomesHost, SaveBid
    <1>17. CASE BidCode(r)
        BY <1>17 DEF BidCode, ReadsRow
    <1>18. CASE CancelBid(r)
        BY <1>18 DEF CancelBid, ReadsRow, FindsPending
    <1>19. CASE Review(r)
        BY <1>19 DEF Review, ReadsRow, FindsPending
    <1>20. CASE ReviewMember(r) \/ ReviewCode(r) \/ ReviewAgency(r) \/ ReviewOwner(r)
        BY <1>20 DEF ReviewMember, ReviewCode, ReviewAgency, ReviewOwner, Checks, InsertCrew, CreateAgency
    <1>21. CASE ReviewHost(r) \/ ReviewSave(r) \/ FoundAgency(r) \/ OpenAgency(r)
        BY <1>21 DEF ReviewHost, ReviewSave, FoundAgency, OpenAgency, Checks, BecomesHost, SaveBid
    <1>22. CASE AgencyCode(r) \/ AgencyInsert(r) \/ AgencyOwner(r) \/ AgencyHost(r)
        BY <1>22 DEF AgencyCode, AgencyInsert, AgencyOwner, AgencyHost, Checks, InsertCrew, BecomesHost, CreateAgency
    <1>23. CASE AgencyStatus(r) \/ AgencyStatusSave(r) \/ AssignSave(r) \/ AssignDown(r)
        BY <1>23 DEF AgencyStatus, AgencyStatusSave, AssignSave, AssignDown, Calls, Checks, BecomesHost, UncountHost
    <1>24. CASE AssignHost(r)
        BY <1>24 DEF AssignHost, Calls, ReadsRow
    <1>25. CASE AssignUp(r) \/ UnassignHost(r) \/ UnassignSave(r) \/ UnassignDown(r)
        BY <1>25 DEF AssignUp, UnassignHost, UnassignSave, UnassignDown, Calls, Checks, CountHosts, BecomesHost, UncountHost
    <1> HIDE DEF Serves, Routes, Passes, Goes, Ops, Places, Fields
    <1> QED  BY <1>1, <1>2, <1>3, <1>4, <1>5, <1>6, <1>7, <1>8, <1>9, <1>10, <1>11, <1>12,
                <1>13, <1>14, <1>15, <1>16, <1>17, <1>18, <1>19, <1>20, <1>21, <1>22, <1>23,
                <1>24, <1>25 DEF AgenciesStep

LEMMA BoardsServe ==
    ASSUME Routes, NEW r \in Requests, RankingsStep(r)
    PROVE  Serves(r, "boards")
    <1> USE DEF Services
    <1>0. ASSUME NEW q, NEW g, DOMAIN g \subseteq Fields["boards"],
                 NEW to \in Places["boards"] \cup {"done"}, pc[r] \in Places["boards"],
                 Collects(r, q, g, to)
          PROVE  Serves(r, "boards")
        <2>1. call(r).op \in Ops["boards"] /\ Takes(r)
            BY <1>0, AtServes
        <2>2. PICK left : Learns(r, Override([left |-> left], g))
            BY <1>0 DEF Collects
        <2>3. DOMAIN Override([left |-> left], g) \subseteq Fields["boards"]
            BY <1>0 DEF Override, Fields
        <2>4. \E t \in Places["boards"] \cup {"done"} : Goes(r, t)
            BY <1>0 DEF Collects
        <2> QED  BY <1>0, <2>1, <2>2, <2>3, <2>4, LearnServes DEF Collects
    <1>1. CASE SupportConfig(r)
        <2>1. Begins(r, "supportConfig") /\ Passes(r, "done")
            BY <1>1 DEF SupportConfig
        <2> QED  BY <2>1, BeginServes, GoesServes DEF Passes, Ops
    <1>2. CASE RankCaller(r)
        <2>1. call(r).op \in Ops["boards"] /\ Takes(r)
            BY <1>2, AtServes DEF RankCaller, Places
        <2>2. ASSUME NEW x, Learns(r, [mine |-> x]), Goes(r, "rankSum")
              PROVE  ledger' = ledger => Serves(r, "boards")
            BY <2>1, <2>2, LearnServes DEF Places, Fields
        <2>3. ASSUME Passes(r, "done")  PROVE Serves(r, "boards")
            BY <2>1, <2>3, GoesServes DEF Passes
        <2> QED  BY <1>2, <2>2, <2>3 DEF RankCaller
    <1>3. CASE Summary(r)
        <2>1. call(r).op \in Ops["boards"] /\ Takes(r)
            BY <1>3, BeginServes DEF Summary, Ops
        <2>2. ASSUME NEW f, Learns(r, f), NEW to \in {"done", "supportMetrics"}, Goes(r, to),
                     DOMAIN f \subseteq Fields["boards"]
              PROVE  ledger' = ledger => Serves(r, "boards")
            BY <2>1, <2>2, LearnServes DEF Places
        <2>3. PICK known \in {[asked |-> now, levels |-> ladder, metrics |-> <<>>,
                               left |-> {"visitors", "coins"} \X {"this", "last"}]} :
                 \/ Learns(r, known) /\ Goes(r, "done")
                 \/ \E x : Learns(r, Override(known, [room |-> x])) /\ Goes(r, "supportMetrics")
            BY <1>3 DEF Summary
        <2>4. DOMAIN known \subseteq Fields["boards"]
            BY <2>3 DEF Fields
        <2>5. ASSUME NEW x  PROVE DOMAIN Override(known, [room |-> x]) \subseteq Fields["boards"]
            BY <2>4 DEF Override, Fields
        <2> QED  BY <1>3, <2>2, <2>3, <2>4, <2>5 DEF Summary
    <1>4. CASE SupportMetrics(r)
        <2>1. PICK q, found : Collects(r, q, [metrics |-> Put(job[r].metrics, q, found)], "done")
            BY <1>4 DEF SupportMetrics
        <2> QED  BY <1>4, <2>1, <1>0 DEF SupportMetrics, Places, Fields
    <1>5. CASE SupportVisitors(r)
        <2>1. PICK q, found : Collects(r, q, [visitors |-> Put(job[r].visitors, q, found)], "done")
            BY <1>5 DEF SupportVisitors
        <2> QED  BY <1>5, <2>1, <1>0 DEF SupportVisitors, Places, Fields
    <1>6. CASE WallSides(r)
        <2>1. PICK q, found : Collects(r, q, [sides |-> Put(job[r].sides, q, found)], "wallMerge")
            BY <1>6 DEF WallSides
        <2> QED  BY <1>6, <2>1, <1>0 DEF WallSides, Places, Fields
    <1> USE BeginServes, AtServes, LearnedOne
        DEF Serves, Routes, Passes, Goes, Ops, Places, Fields
    <1>7. CASE GiftEvent(r)
        BY <1>7 DEF GiftEvent
    <1>8. CASE VisitRoom(r)
        BY <1>8 DEF VisitRoom
    <1>9. CASE Ranking(r)
        BY <1>9 DEF Ranking
    <1>10. CASE RankItems(r)
        BY <1>10 DEF RankItems
    <1>11. CASE RankSum(r)
        BY <1>11 DEF RankSum
    <1>12. CASE RankBeaters(r)
        BY <1>12 DEF RankBeaters
    <1>13. CASE SupportRanking(r)
        BY <1>13 DEF SupportRanking
    <1>14. CASE Contributions(r)
        BY <1>14 DEF Contributions
    <1>15. CASE ContributionsRanked(r)
        BY <1>15 DEF ContributionsRanked
    <1>16. CASE ContributionsTotal(r)
        BY <1>16 DEF ContributionsTotal
    <1>17. CASE GiftWall(r)
        BY <1>17 DEF GiftWall
    <1>18. CASE WallMerge(r)
        BY <1>18 DEF WallMerge
    <1> HIDE DEF Serves, Routes, Passes, Goes, Ops, Places, Fields
    <1> QED  BY <1>1, <1>2, <1>3, <1>4, <1>5, <1>6, <1>7, <1>8, <1>9, <1>10, <1>11, <1>12,
                <1>13, <1>14, <1>15, <1>16, <1>17, <1>18 DEF RankingsStep

------------------------------------------------------------------------------
\* The steps of Community, to one service.

\* A stop leaves r where it got to, and everybody else alone.
Halts(r) ==
    /\ load' = load /\ day' = day /\ ledger' = ledger /\ stops' = stops + 1
    /\ UnderWay(r)
    /\ pc'[r] = "stopped" /\ "at" \in DOMAIN job'[r] /\ job'[r].at = pc[r]
    /\ DOMAIN job'[r] = DOMAIN job[r] \cup {"at"}
    /\ \A x \in DOMAIN job[r] \ {"at"} : job'[r][x] = job[r][x]
    /\ DOMAIN pc' = Requests /\ DOMAIN job' = Requests
    /\ \A s \in Requests : s # r => pc'[s] = pc[s] /\ job'[s] = job[s]

\* A step of nobody: the pushes, the TTL monitor, the calendar, or none.
Idles == UNCHANGED <<load, pc, job, ledger, stops>> /\ day' \in {day, day + 1}

\* The variables of a service, and whose step r takes.
Steps(s, r) ==
    CASE s = "social" -> SocialStep(r)
      [] s = "moments" -> MomentsStep(r)
      [] s = "messages" -> MessagesStep(r)
      [] s = "notices" -> NoticesStep(r)
      [] s = "accounts" -> AccountsStep(r)
      [] s = "stage" -> StageStep(r)
      [] s = "families" -> FamiliesStep(r)
      [] s = "agencies" -> AgenciesStep(r)
      [] OTHER -> RankingsStep(r)

\* The variables that only its own steps change, or MongoDB.
Untouched(s) ==
    CASE s = "social" -> UNCHANGED socialVars
      [] s = "moments" -> UNCHANGED momentVars
      [] s = "messages" -> UNCHANGED messageVars
      [] s = "accounts" -> UNCHANGED accountVars
      [] s = "families" -> UNCHANGED familyVars
      [] s = "agencies" -> UNCHANGED agencyVars
      [] s = "boards" -> UNCHANGED boardVars
      [] s = "stage" -> UNCHANGED stageVars \/ CallsExpire
      [] OTHER -> TRUE

\* A step of one service leaves the variables of the others.
Takers(r, s) == Steps(s, r) /\ \A t \in Services \ {s} : Untouched(t)

LEMMA StopHalts ==
    ASSUME Routes, NEW r \in Requests, Stop(r)
    PROVE  Halts(r)
    <1> DEFINE f == [at |-> pc[r]]
    <1>1. Learns(r, f) /\ DOMAIN f = {"at"} /\ f["at"] = pc[r]
        BY DEF Stop
    <1> HIDE DEF f
    <1>2. /\ DOMAIN job' = Requests
          /\ DOMAIN job'[r] = DOMAIN job[r] \cup {"at"}
          /\ job'[r].at = pc[r]
          /\ \A x \in DOMAIN job[r] \ {"at"} : job'[r][x] = job[r][x]
          /\ \A s \in Requests : s # r => job'[s] = job[s]
        BY <1>1, LearnedOne
    <1>3. /\ pc'[r] = "stopped" /\ DOMAIN pc' = Requests
          /\ \A s \in Requests : s # r => pc'[s] = pc[s]
          /\ load' = load /\ day' = day /\ ledger' = ledger /\ stops' = stops + 1
          /\ UnderWay(r)
        BY DEF Stop, UnderWay, Routes
    <1> QED  BY <1>2, <1>3 DEF Halts

LEMMA HaltRoutes ==
    ASSUME Routes, NEW r \in Requests, Halts(r)
    PROVE  Routes'
    <1>1. Requests' = Requests /\ \A q \in Requests : call(q)' = call(q)
        BY DEF Halts, Requests, call
    <1>2. \A q \in Requests : \A p : Routed(q, p)' <=> Routed(q, p)
        BY <1>1 DEF Routed
    <1>3. \A q \in Requests : \A x : Read(q, x)' <=> Read(q, x)
        BY <1>1 DEF Read
    <1>4. ASSUME NEW q \in Requests
          PROVE  /\ Routed(q, pc'[q])
                 /\ \A x \in DOMAIN job'[q] : Read(q, x)
                 /\ pc'[q] = "idle" => job'[q] = <<>>
                 /\ pc'[q] = "stopped" => "at" \in DOMAIN job'[q] /\ Routed(q, job'[q].at)
        <2>1. CASE q = r
            <3>1. Routed(q, pc'[q])
                BY <2>1, EndsApart DEF Halts, Routed
            <3> QED  BY <2>1, <3>1 DEF Halts, Read, Routes
        <2>2. CASE q # r
            BY <2>2 DEF Halts, Routes
        <2> QED  BY <2>1, <2>2
    <1> QED  BY <1>1, <1>2, <1>3, <1>4 DEF Routes, Halts

LEMMA ServesQuiet ==
    ASSUME NEW r, NEW s \in Services, Serves(r, s), NEW t \in Services, t # s
    PROVE  Quiet(t)
    BY Apart DEF Serves, Quiet

LEMMA IdleRoutes ==
    ASSUME Routes, Idles, day' = day \/ day < load.days
    PROVE  Routes' /\ \A s \in Services : Quiet(s)
    <1>1. Requests' = Requests /\ \A q : call(q)' = call(q) /\ pc'[q] = pc[q] /\ job'[q] = job[q]
        BY DEF Idles, Requests, call
    <1>2. day' \in 1 .. load.days
        BY WorkloadAssumption DEF Idles, Routes
    <1>3. \A q \in Requests : \A p : (Routed(q, p)' <=> Routed(q, p)) /\ (Read(q, p)' <=> Read(q, p))
        BY <1>1 DEF Routed, Read
    <1>4. Routes'
        BY <1>1, <1>2, <1>3 DEF Routes, Idles
    <1> QED  BY <1>4 DEF Quiet, Idles

LEMMA StepServes ==
    ASSUME Routes, NEW r \in Requests, NEW s \in Services, Steps(s, r)
    PROVE  Serves(r, s)
    BY SocialServe, MomentsServe, MessagesServe, NoticesServe, AccountsServe, StageServe,
       FamiliesServe, AgenciesServe, BoardsServe
    DEF Steps, Services

LEMMA StepKinds ==
    ASSUME Routes, [Next]_vars
    PROVE  \/ \E r \in Requests : \E s \in Services : Takers(r, s) /\ Serves(r, s)
           \/ \E r \in Requests : Halts(r) /\ \A s \in Services : Untouched(s)
           \/ /\ Idles /\ (day' = day \/ day < load.days)
              /\ \A s \in Services : Untouched(s)
    <1> USE DEF Takers, Steps, Untouched, Services
    <1>1. ASSUME NEW r \in Requests, PeopleStep(r), UNCHANGED groupVars
          PROVE  \E s \in Services : Takers(r, s)
        <2>1. UNCHANGED <<familyVars, agencyVars, boardVars>>
            BY <1>1 DEF groupVars
        <2>2. CASE SocialStep(r) /\ UNCHANGED <<momentVars, messageVars, accountVars, stageVars>>
            BY <2>1, <2>2
        <2>3. CASE MomentsStep(r) /\ UNCHANGED <<socialVars, messageVars, accountVars, stageVars>>
            BY <2>1, <2>3
        <2>4. CASE MessagesStep(r) /\ UNCHANGED <<socialVars, momentVars, accountVars, stageVars>>
            BY <2>1, <2>4
        <2>5. CASE /\ NoticesStep(r)
                   /\ UNCHANGED <<socialVars, momentVars, messageVars, accountVars, stageVars>>
            BY <2>1, <2>5
        <2>6. CASE AccountsStep(r) /\ UNCHANGED <<socialVars, momentVars, messageVars, stageVars>>
            BY <2>1, <2>6
        <2>7. CASE StageStep(r) /\ UNCHANGED <<socialVars, momentVars, messageVars, accountVars>>
            BY <2>1, <2>7
        <2> QED  BY <1>1, <2>2, <2>3, <2>4, <2>5, <2>6, <2>7 DEF PeopleStep
    <1>2. ASSUME NEW r \in Requests, GroupsStep(r), UNCHANGED peopleVars
          PROVE  \E s \in Services : Takers(r, s)
        <2>1. UNCHANGED <<socialVars, momentVars, messageVars, accountVars, stageVars>>
            BY <1>2 DEF peopleVars
        <2>2. CASE FamiliesStep(r) /\ UNCHANGED <<agencyVars, boardVars>>
            BY <2>1, <2>2
        <2>3. CASE AgenciesStep(r) /\ UNCHANGED <<familyVars, boardVars>>
            BY <2>1, <2>3
        <2>4. CASE RankingsStep(r) /\ UNCHANGED <<familyVars, agencyVars>>
            BY <2>1, <2>4
        <2> QED  BY <1>2, <2>2, <2>3, <2>4 DEF GroupsStep
    <1>3. CASE \/ Pushing /\ UNCHANGED <<serviceVars, socialVars, momentVars, messageVars, accountVars,
                                         stageVars, groupVars>>
               \/ CallsExpire /\ UNCHANGED <<socialVars, momentVars, messageVars, accountVars,
                                             groupVars>>
        <2>1. Idles /\ day' = day
            BY <1>3 DEF Idles, serviceVars, CallsExpire
        <2> QED  BY <1>3, <2>1 DEF groupVars
    <1>4. CASE Environment /\ UNCHANGED <<peopleVars, groupVars>>
        <2>1. \A s \in Services : Untouched(s)
            BY <1>4 DEF peopleVars, groupVars
        <2>2. CASE Midnight
            BY <2>1, <2>2 DEF Midnight, Idles
        <2>3. ASSUME NEW r \in Requests, Stop(r)  PROVE Halts(r)
            BY <2>3, StopHalts
        <2> QED  BY <1>4, <2>1, <2>2, <2>3 DEF Environment
    <1>5. CASE UNCHANGED vars
        <2>1. \A s \in Services : Untouched(s)
            BY <1>5 DEF vars, peopleVars, groupVars
        <2>2. Idles /\ day' = day
            BY <1>5 DEF Idles, vars, serviceVars
        <2> QED  BY <2>1, <2>2
    <1>6. ASSUME NEW r \in Requests, NEW s \in Services, Takers(r, s)  PROVE Serves(r, s)
        BY <1>6, StepServes DEF Takers
    <1> HIDE DEF Takers, Services
    <1> QED  BY <1>1, <1>2, <1>3, <1>4, <1>5, <1>6 DEF Next

LEMMA RoutesStep ==
    ASSUME Routes, [Next]_vars
    PROVE  Routes'
    BY StepKinds, ServedRoutes, HaltRoutes, IdleRoutes

\* To one service.
LEMMA StepsTo ==
    ASSUME Routes, [Next]_vars, NEW s \in Services
    PROVE  \/ \E r \in Requests : Steps(s, r) /\ Serves(r, s)
           \/ \E r \in Requests : Halts(r) /\ Untouched(s)
           \/ Quiet(s) /\ Untouched(s)
    BY StepKinds, ServesQuiet, IdleRoutes DEF Takers

LEMMA RequestsFinite ==
    ASSUME Routes
    PROVE  IsFiniteSet(Requests)
    BY WorkloadAssumption DEF Routes, Requests

------------------------------------------------------------------------------
\* Patient users: at most one request is under way.

OneUnderWay == \A r, s \in Requests : UnderWay(r) /\ UnderWay(s) => r = s

Patience == load.patient => OneUnderWay

\* Who takes a step finds nobody else under way.
LEMMA TakesAlone ==
    ASSUME Patience, load.patient, NEW r \in Requests, Takes(r), NEW s \in Requests, UnderWay(s)
    PROVE  s = r
    BY DEF Patience, OneUnderWay, Takes, Begins, UnderWay

LEMMA PatienceInit == Init => Patience
    BY DEF Init, ServiceInit, Patience, OneUnderWay, UnderWay, Requests

LEMMA PatienceStep ==
    ASSUME Routes, Patience, [Next]_vars
    PROVE  Patience'
    <1> SUFFICES ASSUME load'.patient  PROVE OneUnderWay'
        BY DEF Patience
    <1>1. ASSUME NEW r \in Requests, NEW s \in Services, Serves(r, s)
          PROVE  OneUnderWay'
        <2>1. load' = load /\ Requests' = Requests /\ Takes(r)
              /\ \A q \in Requests : q # r => (UnderWay(q)' <=> UnderWay(q))
            BY <1>1 DEF Serves, Requests, UnderWay
        <2>2. ASSUME NEW q \in Requests, NEW t \in Requests, UnderWay(q)', UnderWay(t)'
              PROVE  q = t
            <3>1. CASE q = r \/ t = r
                BY <2>1, <2>2, <3>1, TakesAlone
            <3>2. CASE q # r /\ t # r
                BY <2>1, <2>2, <3>2 DEF Patience, OneUnderWay
            <3> QED  BY <3>1, <3>2
        <2> QED  BY <2>1, <2>2 DEF OneUnderWay
    <1>2. ASSUME NEW r \in Requests, Halts(r)
          PROVE  OneUnderWay'
        <2>1. load' = load /\ Requests' = Requests
              /\ \A q \in Requests : UnderWay(q)' => UnderWay(q)
            BY <1>2 DEF Halts, Requests, UnderWay, Over
        <2> QED  BY <2>1 DEF Patience, OneUnderWay
    <1>3. CASE Idles
        <2>1. load' = load /\ Requests' = Requests /\ pc' = pc
            BY <1>3 DEF Idles, Requests
        <2> QED  BY <2>1 DEF Patience, OneUnderWay, UnderWay
    <1> QED
        BY <1>1, <1>2, <1>3, StepKinds

------------------------------------------------------------------------------
\* Follows: what the requests still owe to the counters.

Sides == {"following", "followers"}
Callers == UNION {{w.calls[r].user : r \in DOMAIN w.calls} : w \in Workloads}
Users == People \cup Callers
Pairs == {e \in Users \X Users : e[1] # e[2]}

Update(u, f, d) == [user |-> u, field |-> f, by |-> d]
Updates == [user : Users, field : Sides, by : {1, -1}]

\* Whose counter f is about edge e.
SideOf(e, f) == IF f = "following" THEN e[1] ELSE e[2]

EdgesIn(F, u, f) == {e \in F : u = SideOf(e, f)}

\* The updates for the edges that were deleted.
Owing(gone) == UNION {Counting(e, -1) : e \in gone}

\* What X adds to u's counter f.
Due(X, u, f) ==
    IF Update(u, f, 1) \in X THEN 1 ELSE IF Update(u, f, -1) \in X THEN -1 ELSE 0

\* No two updates of one counter.
Single(X) == \A x, y \in X : x.user = y.user /\ x.field = y.field => x = y

\* Where r is, or got to.
Place(r) == IF pc[r] = "stopped" THEN job[r].at ELSE pc[r]

\* The updates that r has still to make.
Owed(r) ==
    IF Place(r) = "count" /\ call(r).op \in Ops["social"] THEN job[r].todo
    ELSE IF Place(r) \in {"blockCut", "blockCount"} THEN Owing(job[r].gone)
    ELSE {}

Owes(r, u, f) == Due(Owed(r), u, f)
OwesOf(u, f) == [r \in Requests |-> Owes(r, u, f)]

\* What a follow, an unfollow or a block knows.
FollowJob(r) ==
    /\ Place(r) = "followInsert" => edge(r) \in Pairs
    /\ Place(r) \in {"blockInsert", "blockCut", "blockCount"} => edge(r) \in Pairs
    /\ Place(r) = "count" =>
          "todo" \in DOMAIN job[r] /\ job[r].todo \subseteq Updates /\ Single(job[r].todo)
    /\ Place(r) = "blockCut" =>
          /\ "cut" \in DOMAIN job[r]
          /\ job[r].cut \subseteq {edge(r), <<edge(r)[2], edge(r)[1]>>}
          /\ job[r].cut \cap job[r].gone = {}
    /\ Place(r) \in {"blockCut", "blockCount"} =>
          "gone" \in DOMAIN job[r] /\ job[r].gone \subseteq {edge(r), <<edge(r)[2], edge(r)[1]>>}

\* A counter and what is owed to it make the number of edges.
Balanced(u, f) ==
    profile[u][f] + SumFunctionOnSet(OwesOf(u, f), Requests) = Cardinality(EdgesIn(follows, u, f))

ProfileOk ==
    /\ DOMAIN profile = People
    /\ \A u \in People : DOMAIN profile[u] = Sides /\ \A f \in Sides : profile[u][f] \in Int

FollowInv ==
    /\ follows \subseteq Pairs /\ IsFiniteSet(follows)
    /\ ProfileOk
    /\ \A r \in Requests : call(r).op \in Ops["social"] => FollowJob(r)
    /\ \A u \in People : \A f \in Sides : Balanced(u, f)

LEMMA ReverseEdge == \A a, b : Reverse(<<a, b>>) = <<b, a>>
    <1> SUFFICES ASSUME NEW a, NEW b  PROVE Reverse(<<a, b>>) = <<b, a>>
        OBVIOUS
    <1>1. Reverse(<<a, b>>) = [i \in 1 .. 2 |-> <<a, b>>[(2 - i) + 1]]
        BY DEF Reverse
    <1>2. <<b, a>> = [i \in 1 .. 2 |-> <<b, a>>[i]]
        OBVIOUS
    <1>3. \A i \in 1 .. 2 : <<a, b>>[(2 - i) + 1] = <<b, a>>[i]
        OBVIOUS
    <1> QED  BY <1>1, <1>2, <1>3

LEMMA CountingUpdates ==
    ASSUME NEW e \in Pairs, NEW d \in {1, -1}
    PROVE  Counting(e, d) = {Update(SideOf(e, f), f, d) : f \in Sides}
    BY DEF Counting, Update, SideOf, Sides

LEMMA UpdateSame ==
    \A u, f, d, v, g, c : Update(u, f, d) = Update(v, g, c) <=> u = v /\ f = g /\ d = c
    <1> SUFFICES ASSUME NEW u, NEW f, NEW d, NEW v, NEW g, NEW c, Update(u, f, d) = Update(v, g, c)
                 PROVE  u = v /\ f = g /\ d = c
        OBVIOUS
    <1>1. /\ Update(u, f, d).user = u /\ Update(u, f, d).field = f /\ Update(u, f, d).by = d
          /\ Update(v, g, c).user = v /\ Update(v, g, c).field = g /\ Update(v, g, c).by = c
        BY DEF Update
    <1> QED  BY <1>1

LEMMA UpdatesAre ==
    /\ \A x \in Updates : /\ x = Update(x.user, x.field, x.by)
                          /\ x.user \in Users /\ x.field \in Sides /\ x.by \in {1, -1}
    /\ \A u \in Users : \A f \in Sides : \A d \in {1, -1} : Update(u, f, d) \in Updates
    BY DEF Updates, Update

LEMMA CountingIn ==
    ASSUME NEW e \in Pairs, NEW d \in {1, -1}
    PROVE  Counting(e, d) \subseteq Updates /\ Single(Counting(e, d))
    <1>1. \A f \in Sides : SideOf(e, f) \in Users
        BY DEF Pairs, SideOf
    <1>2. Counting(e, d) \subseteq Updates
        BY <1>1, CountingUpdates, UpdatesAre
    <1>3. \A f \in Sides : Update(SideOf(e, f), f, d).field = f
        BY DEF Update
    <1> QED  BY <1>2, <1>3, CountingUpdates DEF Single

LEMMA DueCounting ==
    ASSUME NEW e \in Pairs, NEW d \in {1, -1}, NEW u, NEW f \in Sides
    PROVE  Due(Counting(e, d), u, f) = IF u = SideOf(e, f) THEN d ELSE 0
    <1>1. \A c : Update(u, f, c) \in Counting(e, d) <=> u = SideOf(e, f) /\ c = d
        BY CountingUpdates, UpdateSame
    <1> QED  BY <1>1 DEF Due

LEMMA DueRemove ==
    ASSUME NEW X, X \subseteq Updates, Single(X), NEW x \in X, NEW u, NEW f
    PROVE  Due(X \ {x}, u, f)
              = Due(X, u, f) - (IF x.user = u /\ x.field = f THEN x.by ELSE 0)
    <1>1. x = Update(x.user, x.field, x.by) /\ x.by \in {1, -1}
        BY UpdatesAre
    <1>2. CASE x.user = u /\ x.field = f
        <2>1. \A c : Update(u, f, c) \in X => Update(u, f, c) = x
            <3>1. \A c : Update(u, f, c).user = u /\ Update(u, f, c).field = f
                BY DEF Update
            <3> QED  BY <1>2, <3>1 DEF Single
        <2>2. \A c : Update(u, f, c) \in X <=> c = x.by
            BY <1>1, <1>2, <2>1, UpdateSame
        <2>3. \A c : Update(u, f, c) \notin X \ {x}
            BY <2>1
        <2> QED  BY <1>1, <1>2, <2>2, <2>3 DEF Due
    <1>3. CASE ~(x.user = u /\ x.field = f)
        <2>1. \A c : Update(u, f, c) \in X <=> Update(u, f, c) \in X \ {x}
            BY <1>1, <1>3, UpdateSame
        <2>2. Due(X, u, f) \in Int /\ Due(X \ {x}, u, f) = Due(X, u, f)
            BY <2>1 DEF Due
        <2> QED  BY <1>3, <2>2
    <1> QED  BY <1>2, <1>3

\* A block owes the updates of at most the two edges between its users.
LEMMA OwingIn ==
    ASSUME NEW e \in Pairs, NEW gone, gone \subseteq {e, <<e[2], e[1]>>}
    PROVE  Owing(gone) \subseteq Updates /\ Single(Owing(gone))
    <1> DEFINE b == <<e[2], e[1]>>
    <1>1. b \in Pairs /\ SideOf(b, "following") = e[2] /\ SideOf(b, "followers") = e[1]
          /\ SideOf(e, "following") = e[1] /\ SideOf(e, "followers") = e[2] /\ e[1] # e[2]
        BY DEF Pairs, SideOf
    <1> HIDE DEF b
    <1>2. \A g \in gone : g \in Pairs
        BY <1>1 DEF b
    <1>3. \A x \in Owing(gone) : \E g \in gone : \E f \in Sides : x = Update(SideOf(g, f), f, -1)
        BY <1>2, CountingUpdates DEF Owing
    <1>4. \A g \in gone : \A f \in Sides : /\ Update(SideOf(g, f), f, -1).user = SideOf(g, f)
                                            /\ Update(SideOf(g, f), f, -1).field = f
        BY DEF Update
    <1>5. \A g, h \in gone : \A f \in Sides : SideOf(g, f) = SideOf(h, f) => g = h
        BY <1>1 DEF Sides, b
    <1>6. Owing(gone) \subseteq Updates
        BY <1>2, CountingIn DEF Owing
    <1>7. Single(Owing(gone))
        BY <1>3, <1>4, <1>5 DEF Single
    <1> QED  BY <1>6, <1>7

LEMMA OwingMore ==
    ASSUME NEW e \in Pairs, NEW gone, NEW b, b = <<e[2], e[1]>>, gone \subseteq {b},
           NEW u, NEW f \in Sides
    PROVE  Due(Owing(gone \cup {e}), u, f)
              = Due(Owing(gone), u, f) - (IF u = SideOf(e, f) THEN 1 ELSE 0)
    <1>1. b \in Pairs /\ \A g \in Sides : SideOf(b, g) # SideOf(e, g)
        BY DEF Pairs, SideOf
    <1>2. \A c : Update(u, f, c) \in Owing(gone) <=> gone = {b} /\ c = -1 /\ u = SideOf(b, f)
        BY <1>1, CountingUpdates, UpdateSame DEF Owing
    <1>3. \A c : Update(u, f, c) \in Owing(gone \cup {e})
                    <=> Update(u, f, c) \in Owing(gone) \/ (c = -1 /\ u = SideOf(e, f))
        BY <1>1, CountingUpdates, UpdateSame DEF Owing
    <1>4. CASE u = SideOf(e, f)
        <2>1. /\ Update(u, f, 1) \notin Owing(gone) /\ Update(u, f, -1) \notin Owing(gone)
              /\ Update(u, f, 1) \notin Owing(gone \cup {e})
              /\ Update(u, f, -1) \in Owing(gone \cup {e})
            BY <1>1, <1>2, <1>3, <1>4
        <2> QED  BY <1>4, <2>1 DEF Due
    <1>5. CASE u # SideOf(e, f)
        <2>1. \A c : Update(u, f, c) \in Owing(gone \cup {e}) <=> Update(u, f, c) \in Owing(gone)
            BY <1>3, <1>5
        <2> QED  BY <1>5, <2>1 DEF Due
    <1> QED  BY <1>4, <1>5

LEMMA EdgesCounted ==
    ASSUME NEW F, IsFiniteSet(F), NEW u, NEW f
    PROVE  IsFiniteSet(EdgesIn(F, u, f)) /\ Cardinality(EdgesIn(F, u, f)) \in Nat
    BY FS_Subset, FS_CardinalityType DEF EdgesIn

\* One edge more, or one less.
LEMMA EdgesMore ==
    ASSUME NEW F, IsFiniteSet(F), NEW e, NEW u, NEW f
    PROVE  /\ Cardinality(EdgesIn(F, u, f)) \in Nat
           /\ IsFiniteSet(F \cup {e}) /\ IsFiniteSet(F \ {e})
           /\ e \notin F => Cardinality(EdgesIn(F \cup {e}, u, f))
                 = Cardinality(EdgesIn(F, u, f)) + (IF u = SideOf(e, f) THEN 1 ELSE 0)
           /\ e \in F => Cardinality(EdgesIn(F \ {e}, u, f))
                 = Cardinality(EdgesIn(F, u, f)) - (IF u = SideOf(e, f) THEN 1 ELSE 0)
    <1>1. IsFiniteSet(EdgesIn(F, u, f)) /\ Cardinality(EdgesIn(F, u, f)) \in Nat
        BY EdgesCounted
    <1>2. IsFiniteSet(F \cup {e}) /\ IsFiniteSet(F \ {e})
        BY FS_AddElement, FS_RemoveElement
    <1>3. CASE u = SideOf(e, f)
        <2>1. e \notin F => /\ EdgesIn(F \cup {e}, u, f) = EdgesIn(F, u, f) \cup {e}
                            /\ e \notin EdgesIn(F, u, f)
            BY <1>3 DEF EdgesIn
        <2>2. e \in F => /\ EdgesIn(F \ {e}, u, f) = EdgesIn(F, u, f) \ {e}
                         /\ e \in EdgesIn(F, u, f)
            BY <1>3 DEF EdgesIn
        <2>3. e \notin F => Cardinality(EdgesIn(F \cup {e}, u, f))
                              = Cardinality(EdgesIn(F, u, f)) + 1
            BY <1>1, <2>1, FS_AddElement
        <2>4. e \in F => Cardinality(EdgesIn(F \ {e}, u, f))
                            = Cardinality(EdgesIn(F, u, f)) - 1
            BY <1>1, <2>2, FS_RemoveElement
        <2> QED  BY <1>1, <1>2, <1>3, <2>3, <2>4
    <1>4. CASE u # SideOf(e, f)
        <2>1. /\ EdgesIn(F \cup {e}, u, f) = EdgesIn(F, u, f)
              /\ EdgesIn(F \ {e}, u, f) = EdgesIn(F, u, f)
            BY <1>4 DEF EdgesIn
        <2> QED  BY <1>1, <1>2, <1>4, <2>1
    <1> QED  BY <1>3, <1>4

LEMMA EdgesAdded ==
    ASSUME NEW F, IsFiniteSet(F), NEW e, e \notin F, NEW G, G = F \cup {e}, NEW u, NEW f
    PROVE  /\ Cardinality(EdgesIn(F, u, f)) \in Nat
           /\ Cardinality(EdgesIn(G, u, f))
                 = Cardinality(EdgesIn(F, u, f)) + (IF u = SideOf(e, f) THEN 1 ELSE 0)
    <1>1. IsFiniteSet(EdgesIn(F, u, f)) /\ Cardinality(EdgesIn(F, u, f)) \in Nat
        BY EdgesCounted
    <1>2. CASE u = SideOf(e, f)
        <2>1. EdgesIn(G, u, f) = EdgesIn(F, u, f) \cup {e} /\ e \notin EdgesIn(F, u, f)
            BY <1>2 DEF EdgesIn
        <2> QED  BY <1>1, <1>2, <2>1, FS_AddElement
    <1>3. CASE u # SideOf(e, f)
        <2>1. EdgesIn(G, u, f) = EdgesIn(F, u, f)
            BY <1>3 DEF EdgesIn
        <2> QED  BY <1>1, <1>3, <2>1
    <1> QED  BY <1>2, <1>3

LEMMA DueType == \A X, u, f : Due(X, u, f) \in {-1, 0, 1}
    BY DEF Due

LEMMA DueNone == \A u, f : Due({}, u, f) = 0
    BY DEF Due

LEMMA FollowInit == Init => FollowInv
    <1> SUFFICES ASSUME Init  PROVE FollowInv
        OBVIOUS
    <1>1. /\ follows = {} /\ profile = [u \in People |-> [following |-> 0, followers |-> 0]]
          /\ \A r \in Requests : pc[r] = "idle"
          /\ IsFiniteSet(Requests)
        BY WorkloadAssumption DEF Init, SocialInit, ServiceInit, Requests
    <1>2. follows \subseteq Pairs /\ IsFiniteSet(follows)
        BY <1>1, FS_EmptySet
    <1>3. ProfileOk /\ \A u \in People : \A f \in Sides : profile[u][f] = 0
        BY <1>1 DEF ProfileOk, Sides
    <1>4. \A r \in Requests : FollowJob(r) /\ Owed(r) = {}
        BY <1>1 DEF FollowJob, Owed, Place
    <1>5. ASSUME NEW u \in People, NEW f \in Sides  PROVE Balanced(u, f)
        <2>1. \A r \in Requests : OwesOf(u, f)[r] = 0
            BY <1>4, DueNone DEF OwesOf, Owes
        <2>2. SumFunctionOnSet(OwesOf(u, f), Requests) = 0
            BY <1>1, <2>1, SumZero
        <2>3. EdgesIn(follows, u, f) = {}
            BY <1>1 DEF EdgesIn
        <2> QED  BY <1>3, <2>2, <2>3, FS_EmptySet DEF Balanced
    <1> QED  BY <1>2, <1>3, <1>4, <1>5 DEF FollowInv

\* A step of r that changes the edges, the counters and what r owes by the same.
LEMMA FollowKeeps ==
    ASSUME Routes, FollowInv, NEW r \in Requests, load' = load,
           \A q \in Requests : q # r => pc'[q] = pc[q] /\ job'[q] = job[q],
           follows' \subseteq Pairs, IsFiniteSet(follows'), ProfileOk',
           call(r).op \in Ops["social"] => FollowJob(r)',
           \A u \in People : \A f \in Sides :
              profile'[u][f] + Owes(r, u, f)' - Cardinality(EdgesIn(follows', u, f))
                 = profile[u][f] + Owes(r, u, f) - Cardinality(EdgesIn(follows, u, f))
    PROVE  FollowInv'
    <1>1. Requests' = Requests /\ \A q : call(q)' = call(q) /\ edge(q)' = edge(q)
        BY DEF Requests, call, edge
    <1>2. \A q \in Requests : q # r => Place(q)' = Place(q) /\ (FollowJob(q)' <=> FollowJob(q))
                                       /\ Owed(q)' = Owed(q)
        BY <1>1 DEF Place, FollowJob, Owed
    <1>3. \A q \in Requests : call(q)'.op \in Ops["social"] => FollowJob(q)'
        BY <1>1, <1>2 DEF FollowInv
    <1>4. ASSUME NEW u \in People, NEW f \in Sides  PROVE Balanced(u, f)'
        <2>1. IsFiniteSet(Requests)
            BY RequestsFinite
        <2>2. \A q \in Requests : q # r => Owes(q, u, f)' = Owes(q, u, f)
            BY <1>2 DEF Owes
        <2>3. \A q \in Requests : OwesOf(u, f)[q] \in Int /\ OwesOf(u, f)'[q] \in Int
            BY <1>1, DueType DEF OwesOf, Owes
        <2>4. \A q \in Requests \ {r} : OwesOf(u, f)'[q] = OwesOf(u, f)[q]
            BY <1>1, <2>2 DEF OwesOf
        <2>5. SumFunctionOnSet(OwesOf(u, f)', Requests)
                = SumFunctionOnSet(OwesOf(u, f), Requests) - OwesOf(u, f)[r] + OwesOf(u, f)'[r]
            BY <2>1, <2>3, <2>4, SumUpdate
        <2>6. SumFunctionOnSet(OwesOf(u, f), Requests) \in Int
            BY <2>1, <2>3, SumType
        <2>7. OwesOf(u, f)[r] = Owes(r, u, f) /\ OwesOf(u, f)'[r] = Owes(r, u, f)'
            BY <1>1 DEF OwesOf
        <2>8. /\ Cardinality(EdgesIn(follows, u, f)) \in Int
              /\ Cardinality(EdgesIn(follows', u, f)) \in Int
              /\ profile[u][f] \in Int /\ profile'[u][f] \in Int
            BY EdgesCounted DEF FollowInv, ProfileOk
        <2>9. Balanced(u, f)
            BY DEF FollowInv
        <2>10. OwesOf(u, f)[r] \in Int /\ OwesOf(u, f)'[r] \in Int
            BY <2>3
        <2>11. profile'[u][f] + SumFunctionOnSet(OwesOf(u, f)', Requests)
                  = Cardinality(EdgesIn(follows', u, f))
            BY <2>5, <2>6, <2>7, <2>8, <2>9, <2>10 DEF Balanced
        <2> QED  BY <1>1, <2>11 DEF Balanced
    <1> QED  BY <1>1, <1>3, <1>4 DEF FollowInv

\* Nothing is counted, and the edges stay.
LEMMA FollowRests ==
    ASSUME Routes, FollowInv, NEW r \in Requests, load' = load,
           \A q \in Requests : q # r => pc'[q] = pc[q] /\ job'[q] = job[q],
           follows' = follows, profile' = profile,
           call(r).op \in Ops["social"] => FollowJob(r)', Owed(r)' = Owed(r)
    PROVE  FollowInv'
    <1>1. ProfileOk' /\ \A u, f : Owes(r, u, f)' = Owes(r, u, f)
        BY DEF ProfileOk, FollowInv, Owes
    <1> QED  BY <1>1, FollowKeeps DEF FollowInv

LEMMA CallerKnown == ASSUME Routes, NEW r \in Requests PROVE call(r).user \in Users
    BY DEF Routes, Requests, call, Users, Callers

LEMMA MeetsKeeps ==
    ASSUME Routes, FollowInv, NEW r \in Requests, Serves(r, "social"), Follow(r) \/ Block(r)
    PROVE  FollowInv'
    <1>1. /\ load' = load /\ follows' = follows /\ profile' = profile /\ pc[r] = "idle"
          /\ \/ pc'[r] = "failed"
             \/ pc'[r] = "followInsert" /\ call(r).user # call(r).to /\ call(r).to \in People
             \/ pc'[r] = "blockInsert" /\ call(r).user # call(r).to /\ call(r).to \in People
        BY DEF Follow, Block, Meets, Begins, Passes, Goes, socialVars, Routes
    <1>2. call(r)' = call(r) /\ edge(r)' = edge(r)
        BY <1>1 DEF call, edge
    <1>3. Place(r) = "idle" /\ Place(r)' = pc'[r]
        BY <1>1 DEF Place
    <1>4. Place(r)' \in {"followInsert", "blockInsert"} => edge(r) \in Pairs
        BY <1>1, <1>3, CallerKnown DEF edge, Pairs, Users
    <1>5. FollowJob(r)'
        BY <1>1, <1>2, <1>3, <1>4 DEF FollowJob
    <1>6. Owed(r)' = Owed(r)
        BY <1>1, <1>3 DEF Owed
    <1> QED  BY <1>1, <1>5, <1>6, FollowRests DEF Serves

\* r learns its updates, or is done when there are none.
LEMMA CountsOwed ==
    ASSUME Routes, NEW r \in Requests, call(r).op \in Ops["social"], NEW X, Counts(r, X),
           X \subseteq Updates, Single(X)
    PROVE  FollowJob(r)' /\ Owed(r)' = X
    <1> DEFINE f == [todo |-> X]
    <1>1. Learns(r, f) /\ DOMAIN f = {"todo"} /\ f["todo"] = X
        BY DEF Counts
    <1> HIDE DEF f
    <1>2. "todo" \in DOMAIN job'[r] /\ job'[r].todo = X
        BY <1>1, LearnedOne
    <1>3. pc'[r] = (IF X = {} THEN "done" ELSE "count") /\ call(r)' = call(r)
        BY DEF Counts, Goes, Routes, call
    <1>4. Place(r)' = IF X = {} THEN "done" ELSE "count"
        BY <1>3 DEF Place
    <1> QED  BY <1>2, <1>3, <1>4 DEF FollowJob, Owed

LEMMA InsertKeeps ==
    ASSUME Routes, FollowInv, NEW r \in Requests, Serves(r, "social"), FollowInsert(r)
    PROVE  FollowInv'
    <1> DEFINE e == edge(r)
    <1>1. /\ pc[r] = "followInsert" /\ follows' = follows \cup {e} /\ profile' = profile
          /\ Counts(r, IF e \in follows THEN {} ELSE Counting(e, 1))
          /\ call(r).op \in Ops["social"]
        BY DEF FollowInsert, Serves
    <1>2. Place(r) = "followInsert" /\ Owed(r) = {}
        BY <1>1 DEF Place, Owed
    <1>3. e \in Pairs
        BY <1>1, <1>2 DEF FollowInv, FollowJob
    <1>4. ProfileOk' /\ follows' \subseteq Pairs
        BY <1>1, <1>3 DEF ProfileOk, FollowInv
    <1> HIDE DEF e
    <1>5. CASE e \in follows
        <2>1. follows' = follows /\ Counts(r, {})
            BY <1>1, <1>5
        <2>2. FollowJob(r)' /\ Owed(r)' = {}
            BY <1>1, <2>1, CountsOwed DEF Single
        <2> QED  BY <1>1, <1>2, <2>1, <2>2, FollowRests DEF Serves
    <1>6. CASE e \notin follows
        <2>1. Counts(r, Counting(e, 1)) /\ Counting(e, 1) \subseteq Updates /\ Single(Counting(e, 1))
            BY <1>1, <1>3, <1>6, CountingIn
        <2>2. FollowJob(r)' /\ Owed(r)' = Counting(e, 1)
            BY <1>1, <2>1, CountsOwed
        <2>3. ASSUME NEW u \in People, NEW f \in Sides
              PROVE  profile'[u][f] + Owes(r, u, f)' - Cardinality(EdgesIn(follows', u, f))
                 = profile[u][f] + Owes(r, u, f) - Cardinality(EdgesIn(follows, u, f))
            <3>1. Owes(r, u, f)' = IF u = SideOf(e, f) THEN 1 ELSE 0
                BY <1>3, <2>2, DueCounting DEF Owes
            <3>2. Owes(r, u, f) = 0
                BY <1>2, DueNone DEF Owes
            <3>3. /\ Cardinality(EdgesIn(follows, u, f)) \in Nat
                  /\ Cardinality(EdgesIn(follows', u, f))
                        = Cardinality(EdgesIn(follows, u, f)) + (IF u = SideOf(e, f) THEN 1 ELSE 0)
                <4>1. IsFiniteSet(follows) /\ follows' = follows \cup {e}
                    BY <1>1 DEF FollowInv, e
                <4> QED  BY <4>1, <1>6, EdgesAdded
            <3>4. profile[u][f] \in Int /\ profile'[u][f] = profile[u][f]
                BY <1>1 DEF FollowInv, ProfileOk
            <3> QED  BY <3>1, <3>2, <3>3, <3>4
        <2>4. IsFiniteSet(follows')
            BY <1>1, EdgesMore DEF FollowInv
        <2> QED  BY <1>4, <2>2, <2>3, <2>4, FollowKeeps DEF Serves
    <1> QED  BY <1>5, <1>6

LEMMA UnfollowKeeps ==
    ASSUME Routes, FollowInv, NEW r \in Requests, Serves(r, "social"), Unfollow(r)
    PROVE  FollowInv'
    <1> DEFINE e == edge(r)
    <1>1. /\ pc[r] = "idle" /\ follows' = follows \ {e} /\ profile' = profile
          /\ Counts(r, IF e \in follows THEN Counting(e, -1) ELSE {})
          /\ call(r).op \in Ops["social"]
        BY DEF Unfollow, Serves, Begins
    <1>2. Place(r) = "idle" /\ Owed(r) = {}
        BY <1>1 DEF Place, Owed
    <1>4. ProfileOk' /\ follows' \subseteq Pairs
        BY <1>1 DEF ProfileOk, FollowInv
    <1> HIDE DEF e
    <1>5. CASE e \notin follows
        <2>1. follows' = follows /\ Counts(r, {})
            BY <1>1, <1>5
        <2>2. FollowJob(r)' /\ Owed(r)' = {}
            BY <1>1, <2>1, CountsOwed DEF Single
        <2> QED  BY <1>1, <1>2, <2>1, <2>2, FollowRests DEF Serves
    <1>6. CASE e \in follows
        <2>0. e \in Pairs
            BY <1>6 DEF FollowInv
        <2>1. Counts(r, Counting(e, -1)) /\ Counting(e, -1) \subseteq Updates
              /\ Single(Counting(e, -1))
            BY <1>1, <1>6, <2>0, CountingIn
        <2>2. FollowJob(r)' /\ Owed(r)' = Counting(e, -1)
            BY <1>1, <2>1, CountsOwed
        <2>3. ASSUME NEW u \in People, NEW f \in Sides
              PROVE  profile'[u][f] + Owes(r, u, f)' - Cardinality(EdgesIn(follows', u, f))
                 = profile[u][f] + Owes(r, u, f) - Cardinality(EdgesIn(follows, u, f))
            <3>1. Owes(r, u, f)' = IF u = SideOf(e, f) THEN -1 ELSE 0
                BY <2>0, <2>2, DueCounting DEF Owes
            <3>2. Owes(r, u, f) = 0
                BY <1>2, DueNone DEF Owes
            <3>3. /\ Cardinality(EdgesIn(follows, u, f)) \in Nat
                  /\ Cardinality(EdgesIn(follows', u, f))
                        = Cardinality(EdgesIn(follows, u, f)) - (IF u = SideOf(e, f) THEN 1 ELSE 0)
                BY <1>1, <1>6, EdgesMore DEF FollowInv
            <3>4. profile[u][f] \in Int /\ profile'[u][f] = profile[u][f]
                BY <1>1 DEF FollowInv, ProfileOk
            <3> QED  BY <3>1, <3>2, <3>3, <3>4
        <2>4. IsFiniteSet(follows')
            BY <1>1, EdgesMore DEF FollowInv
        <2> QED  BY <1>4, <2>2, <2>3, <2>4, FollowKeeps DEF Serves
    <1> QED  BY <1>5, <1>6

LEMMA CountKeeps ==
    ASSUME Routes, FollowInv, NEW r \in Requests, Serves(r, "social"), Count(r)
    PROVE  FollowInv'
    <1>1. PICK x \in job[r].todo :
            /\ profile' = [profile EXCEPT ![x.user][x.field] = @ + x.by]
            /\ Counts(r, job[r].todo \ {x})
        BY DEF Count
    <1>2. pc[r] = "count" /\ follows' = follows /\ call(r).op \in Ops["social"]
        BY DEF Count, Serves
    <1>3. Place(r) = "count" /\ Owed(r) = job[r].todo
        BY <1>2 DEF Place, Owed
    <1>4. job[r].todo \subseteq Updates /\ Single(job[r].todo)
        BY <1>2, <1>3 DEF FollowInv, FollowJob
    <1>5. FollowJob(r)' /\ Owed(r)' = job[r].todo \ {x}
        BY <1>1, <1>2, <1>4, CountsOwed DEF Single
    <1>6. x.field \in Sides /\ x.by \in {1, -1}
        BY <1>4, UpdatesAre
    <1>7. /\ ProfileOk'
          /\ \A u \in People : \A f \in Sides :
                profile'[u][f] = profile[u][f] + (IF x.user = u /\ x.field = f THEN x.by ELSE 0)
        <2>1. \A u \in People : profile[u] = [f \in Sides |-> profile[u][f]] \/ TRUE
            OBVIOUS
        <2>2. ProfileOk
            BY DEF FollowInv
        <2>3. DOMAIN profile' = People
            BY <1>1, <2>2 DEF ProfileOk
        <2>4. ASSUME NEW u \in People, u # x.user
              PROVE  profile'[u] = profile[u]
            BY <1>1, <2>2, <2>4 DEF ProfileOk
        <2>5. ASSUME x.user \in People
              PROVE  profile'[x.user] = [profile[x.user] EXCEPT ![x.field] = @ + x.by]
            BY <1>1, <2>2, <2>5 DEF ProfileOk
        <2>6. ASSUME NEW u \in People
              PROVE  /\ DOMAIN profile'[u] = Sides
                     /\ \A f \in Sides :
                           /\ profile'[u][f] \in Int
                           /\ profile'[u][f] = profile[u][f]
                                 + (IF x.user = u /\ x.field = f THEN x.by ELSE 0)
            BY <2>2, <2>4, <2>5, <1>6 DEF ProfileOk
        <2> QED  BY <2>3, <2>6 DEF ProfileOk
    <1>8. ASSUME NEW u \in People, NEW f \in Sides
          PROVE  profile'[u][f] + Owes(r, u, f)' - Cardinality(EdgesIn(follows', u, f))
                 = profile[u][f] + Owes(r, u, f) - Cardinality(EdgesIn(follows, u, f))
        <2>1. Owes(r, u, f)'
                = Owes(r, u, f) - (IF x.user = u /\ x.field = f THEN x.by ELSE 0)
            BY <1>3, <1>4, <1>5, DueRemove DEF Owes
        <2>2. Owes(r, u, f) \in Int /\ profile[u][f] \in Int
              /\ Cardinality(EdgesIn(follows, u, f)) \in Int
            BY DueType, EdgesCounted DEF Owes, FollowInv, ProfileOk
        <2> QED  BY <1>2, <1>6, <1>7, <2>1, <2>2
    <1> QED  BY <1>2, <1>5, <1>7, <1>8, FollowKeeps DEF Serves, FollowInv

LEMMA BlockInsertKeeps ==
    ASSUME Routes, FollowInv, NEW r \in Requests, Serves(r, "social"), BlockInsert(r)
    PROVE  FollowInv'
    <1>1. /\ pc[r] = "blockInsert" /\ follows' = follows /\ profile' = profile
          /\ call(r)' = call(r) /\ edge(r)' = edge(r)
        BY DEF BlockInsert, Serves, call, edge
    <1>2. Place(r) = "blockInsert" /\ Owed(r) = {}
        BY <1>1 DEF Place, Owed
    <1>3. edge(r) \in Pairs
        BY <1>2 DEF FollowInv, FollowJob, Serves
    <1>4. CASE pc'[r] = "done"
        <2>1. Place(r)' = "done"
            BY <1>4 DEF Place
        <2> QED  BY <1>1, <1>2, <2>1, FollowRests DEF Serves, FollowJob, Owed
    <1>5. CASE /\ Learns(r, [cut |-> {edge(r), Reverse(edge(r))}, gone |-> {}])
               /\ pc'[r] = "blockCut"
        <2> DEFINE f == [cut |-> {edge(r), Reverse(edge(r))}, gone |-> {}]
        <2>1. /\ Learns(r, f) /\ DOMAIN f = {"cut", "gone"} /\ f["gone"] = {}
              /\ f["cut"] = {edge(r), Reverse(edge(r))}
            BY <1>5
        <2> HIDE DEF f
        <2>2. /\ "cut" \in DOMAIN job'[r] /\ "gone" \in DOMAIN job'[r]
              /\ job'[r].cut = {edge(r), Reverse(edge(r))} /\ job'[r].gone = {}
            BY <2>1, LearnedOne
        <2>3. Reverse(edge(r)) = <<edge(r)[2], edge(r)[1]>>
            BY ReverseEdge DEF edge
        <2>4. Place(r)' = "blockCut"
            BY <1>5 DEF Place
        <2>5. FollowJob(r)'
            BY <1>1, <1>3, <2>2, <2>3, <2>4 DEF FollowJob
        <2>6. Owed(r)' = {}
            BY <2>2, <2>4 DEF Owed, Owing
        <2> QED  BY <1>1, <1>2, <2>5, <2>6, FollowRests DEF Serves
    <1> QED  BY <1>4, <1>5 DEF BlockInsert, Passes, Goes, Routes

LEMMA BlockCutKeeps ==
    ASSUME Routes, FollowInv, NEW r \in Requests, Serves(r, "social"), BlockCut(r)
    PROVE  FollowInv'
    <1>1. PICK e \in job[r].cut :
            /\ follows' = follows \ {e}
            /\ Learns(r, [cut |-> job[r].cut \ {e}, gone |-> job[r].gone \cup ({e} \cap follows)])
            /\ Goes(r, IF job[r].cut = {e} THEN "blockCount" ELSE "blockCut")
        BY DEF BlockCut
    <1>2. /\ pc[r] = "blockCut" /\ profile' = profile
          /\ call(r)' = call(r) /\ edge(r)' = edge(r)
        BY DEF BlockCut, Serves, call, edge
    <1>3. Place(r) = "blockCut" /\ Owed(r) = Owing(job[r].gone)
        BY <1>2 DEF Place, Owed
    <1> DEFINE a == edge(r)
               b == <<edge(r)[2], edge(r)[1]>>
    <1>4. /\ a \in Pairs /\ b \in Pairs /\ a = <<b[2], b[1]>>
          /\ job[r].cut \subseteq {a, b} /\ job[r].gone \subseteq {a, b}
          /\ job[r].cut \cap job[r].gone = {}
        BY <1>3 DEF FollowInv, FollowJob, Serves, Pairs
    <1>5. PICK g : g = job[r].gone \cup ({e} \cap follows)
        OBVIOUS
    <1>6. /\ "cut" \in DOMAIN job'[r] /\ "gone" \in DOMAIN job'[r]
          /\ job'[r].cut = job[r].cut \ {e} /\ job'[r].gone = g
        <2> DEFINE f == [cut |-> job[r].cut \ {e}, gone |-> g]
        <2>1. /\ Learns(r, f) /\ DOMAIN f = {"cut", "gone"} /\ f["gone"] = g
              /\ f["cut"] = job[r].cut \ {e}
            BY <1>1, <1>5
        <2> HIDE DEF f
        <2> QED  BY <2>1, LearnedOne
    <1>7. Place(r)' \in {"blockCut", "blockCount"}
        BY <1>1, <1>2 DEF Goes, Place, Routes
    <1>8. FollowJob(r)' /\ Owed(r)' = Owing(g)
        <2>1. g \subseteq {a, b} /\ (job[r].cut \ {e}) \cap g = {}
            BY <1>4, <1>5
        <2> HIDE DEF a, b
        <2>2. Owed(r)' = Owing(g)
            BY <1>6, <1>7 DEF Owed
        <2>3. edge(r)' = a /\ <<edge(r)'[2], edge(r)'[1]>> = b
            BY <1>2 DEF a, b
        <2>4. job[r].cut \ {e} \subseteq {a, b}
            BY <1>4
        <2> QED  BY <1>4, <1>6, <1>7, <2>1, <2>2, <2>3, <2>4 DEF FollowJob
    <1>9. ASSUME NEW u \in People, NEW f \in Sides
          PROVE  profile'[u][f] + Owes(r, u, f)' - Cardinality(EdgesIn(follows', u, f))
                 = profile[u][f] + Owes(r, u, f) - Cardinality(EdgesIn(follows, u, f))
        <2>1. Owes(r, u, f) = Due(Owing(job[r].gone), u, f) /\ Owes(r, u, f)' = Due(Owing(g), u, f)
            BY <1>3, <1>8 DEF Owes
        <2>2. Owes(r, u, f) \in Int /\ profile[u][f] \in Int
              /\ Cardinality(EdgesIn(follows, u, f)) \in Int
            BY DueType, EdgesCounted DEF Owes, FollowInv, ProfileOk
        <2>3. CASE e \notin follows
            <3>1. follows' = follows /\ g = job[r].gone
                BY <1>1, <1>5, <2>3
            <3> QED  BY <1>2, <2>1, <2>2, <3>1
        <2>4. CASE e \in follows
            <3>1. g = job[r].gone \cup {e}
                BY <1>5, <2>4
            <3>2. e \in Pairs /\ job[r].gone \subseteq {<<e[2], e[1]>>}
                BY <1>1, <1>4
            <3>3. Owes(r, u, f)' = Owes(r, u, f) - (IF u = SideOf(e, f) THEN 1 ELSE 0)
                <4>1. PICK c : c = <<e[2], e[1]>>
                    OBVIOUS
                <4>2. job[r].gone \subseteq {c}
                    BY <3>2, <4>1
                <4>3. Due(Owing(job[r].gone \cup {e}), u, f)
                        = Due(Owing(job[r].gone), u, f) - (IF u = SideOf(e, f) THEN 1 ELSE 0)
                    BY <3>2, <4>1, <4>2, OwingMore
                <4> QED  BY <2>1, <3>1, <4>3
            <3>4. Cardinality(EdgesIn(follows', u, f))
                    = Cardinality(EdgesIn(follows, u, f)) - (IF u = SideOf(e, f) THEN 1 ELSE 0)
                BY <1>1, <2>4, EdgesMore DEF FollowInv
            <3> QED  BY <1>2, <2>2, <3>3, <3>4
        <2> QED  BY <2>3, <2>4
    <1>10. follows' \subseteq Pairs /\ IsFiniteSet(follows') /\ ProfileOk'
        BY <1>1, <1>2, EdgesMore DEF FollowInv, ProfileOk
    <1> QED  BY <1>8, <1>9, <1>10, FollowKeeps DEF Serves

LEMMA BlockCountKeeps ==
    ASSUME Routes, FollowInv, NEW r \in Requests, Serves(r, "social"), BlockCount(r)
    PROVE  FollowInv'
    <1>1. /\ pc[r] = "blockCount" /\ follows' = follows /\ profile' = profile
          /\ Counts(r, Owing(job[r].gone)) /\ call(r).op \in Ops["social"]
        BY DEF BlockCount, Owing, Serves, socialVars
    <1>2. Place(r) = "blockCount" /\ Owed(r) = Owing(job[r].gone)
        BY <1>1 DEF Place, Owed
    <1>3. Owing(job[r].gone) \subseteq Updates /\ Single(Owing(job[r].gone))
        BY <1>1, <1>2, OwingIn DEF FollowInv, FollowJob
    <1>4. FollowJob(r)' /\ Owed(r)' = Owing(job[r].gone)
        BY <1>1, <1>3, CountsOwed
    <1> QED  BY <1>1, <1>2, <1>4, FollowRests DEF Serves

\* What does not touch the edges: unblocking, visits and lists.
LEMMA ListsKeepFollows ==
    ASSUME Routes, FollowInv, NEW r \in Requests, Serves(r, "social"),
           Unblock(r) \/ Visit(r) \/ Listing(r) \/ FriendsSide(r) \/ Hydrate(r)
    PROVE  FollowInv'
    <1>1. follows' = follows /\ profile' = profile
        BY DEF Unblock, Visit, Listing, Lists, FriendsSide, Hydrate, socialVars
    <1>2. pc[r] \in {"idle", "friends", "hydrate"} /\ pc'[r] \in {"done", "friends", "hydrate"}
        BY DEF Unblock, Visit, Listing, Lists, FriendsSide, Hydrate, Begins, Passes, Goes, Routes
    <1>3. Place(r) = pc[r] /\ Place(r)' = pc'[r]
        BY <1>2 DEF Place
    <1> QED  BY <1>1, <1>2, <1>3, FollowRests DEF Serves, FollowJob, Owed

LEMMA SocialKeepsFollows ==
    ASSUME Routes, FollowInv, NEW r \in Requests, Serves(r, "social"), SocialStep(r)
    PROVE  FollowInv'
    BY MeetsKeeps, InsertKeeps, UnfollowKeeps, CountKeeps, BlockInsertKeeps, BlockCutKeeps,
       BlockCountKeeps, ListsKeepFollows
    DEF SocialStep

\* The calls for other services owe nothing.
LEMMA OthersOweNothing ==
    ASSUME Routes, NEW r \in Requests, call(r).op \notin Ops["social"]
    PROVE  Owed(r) = {}
    <1>1. Routed(r, Place(r))
        BY DEF Routes, Place
    <1>2. Place(r) \notin {"blockCut", "blockCount"}
        BY <1>1 DEF Routed, Services, Places
    <1> QED  BY <1>2 DEF Owed

\* Counters and edges stay, and what is owed.
LEMMA FollowStays ==
    ASSUME FollowInv, load' = load, follows' = follows, profile' = profile,
           \A q \in Requests : call(q).op \in Ops["social"] => FollowJob(q)',
           \A q \in Requests : Owed(q)' = Owed(q)
    PROVE  FollowInv'
    <1>1. Requests' = Requests /\ \A q : call(q)' = call(q)
        BY DEF Requests, call
    <1>2. ASSUME NEW u, NEW f  PROVE OwesOf(u, f)' = OwesOf(u, f)
        BY <1>1 DEF OwesOf, Owes
    <1>3. \A u \in People : \A f \in Sides : Balanced(u, f)'
        BY <1>1, <1>2 DEF Balanced, FollowInv
    <1> QED  BY <1>1, <1>3 DEF FollowInv, ProfileOk

LEMMA FollowStep ==
    ASSUME Routes, FollowInv, [Next]_vars
    PROVE  FollowInv'
    <1>0. "social" \in Services /\ Routes'
        BY RoutesStep DEF Services
    <1>1. ASSUME NEW r \in Requests, Steps("social", r), Serves(r, "social")
          PROVE  FollowInv'
        BY <1>1, SocialKeepsFollows DEF Steps
    <1>2. ASSUME NEW r \in Requests, Halts(r), Untouched("social")
          PROVE  FollowInv'
        <2>1. follows' = follows /\ profile' = profile
            BY <1>2 DEF Untouched, socialVars
        <2>2. Place(r)' = pc[r] /\ Place(r) = pc[r] /\ call(r)' = call(r) /\ edge(r)' = edge(r)
            BY <1>2 DEF Halts, Place, UnderWay, Over, call, edge
        <2>3. ASSUME NEW x \in {"todo", "cut", "gone"}
              PROVE  /\ x \in DOMAIN job'[r] <=> x \in DOMAIN job[r]
                     /\ x \in DOMAIN job[r] => job'[r][x] = job[r][x]
            BY <1>2 DEF Halts
        <2>4. call(r).op \in Ops["social"] => FollowJob(r)' /\ Owed(r)' = Owed(r)
            <3>1. SUFFICES ASSUME call(r).op \in Ops["social"], FollowJob(r)
                           PROVE  FollowJob(r)' /\ Owed(r)' = Owed(r)
                BY DEF FollowInv
            <3>2. FollowJob(r)'
                BY <2>2, <2>3, <3>1 DEF FollowJob
            <3>3. Owed(r)' = Owed(r)
                BY <2>2, <2>3, <3>1 DEF FollowJob, Owed
            <3> QED  BY <3>2, <3>3
        <2>5. Owed(r)' = Owed(r)
            <3>1. CASE call(r).op \notin Ops["social"]
                <4>1. Owed(r) = {}
                    BY <3>1, OthersOweNothing
                <4>2. Place(r) \notin {"blockCut", "blockCount"}
                    BY <2>2, <3>1 DEF Routes, Routed, Services, Places
                <4> QED  BY <2>2, <3>1, <4>1, <4>2 DEF Owed
            <3> QED  BY <2>4, <3>1
        <2> QED  BY <1>2, <2>1, <2>4, <2>5, FollowRests DEF Halts
    <1>3. ASSUME Quiet("social"), Untouched("social")
          PROVE  FollowInv'
        <2>1. follows' = follows /\ profile' = profile /\ load' = load
            BY <1>3 DEF Untouched, socialVars, Quiet
        <2>2. Requests' = Requests /\ \A q : call(q)' = call(q) /\ edge(q)' = edge(q)
            BY <2>1 DEF Requests, call, edge
        <2>3. ASSUME NEW q \in Requests, call(q).op \in Ops["social"]
              PROVE  FollowJob(q)' /\ Owed(q)' = Owed(q)
            <3>1. pc'[q] = pc[q] /\ job'[q] = job[q]
                BY <1>3, <2>3 DEF Quiet
            <3>2. Place(q)' = Place(q) /\ FollowJob(q)
                BY <2>3, <3>1 DEF Place, FollowInv
            <3> QED  BY <2>2, <3>1, <3>2 DEF FollowJob, Owed
        <2>4. ASSUME NEW q \in Requests, call(q).op \notin Ops["social"]
              PROVE  Owed(q)' = Owed(q)
            <3>1. Owed(q) = {}
                BY <2>4, OthersOweNothing
            <3>2. Routed(q, Place(q))'
                BY <1>0, <2>2 DEF Routes, Place
            <3>3. Place(q)' \notin {"blockCut", "blockCount"}
                BY <2>2, <2>4, <3>2 DEF Routed, Services, Places
            <3>4. Owed(q)' = {}
                BY <2>2, <2>4, <3>3 DEF Owed
            <3> QED  BY <3>1, <3>4
        <2> QED  BY <2>1, <2>3, <2>4, FollowStays
    <1> QED  BY <1>0, <1>1, <1>2, <1>3, StepsTo

------------------------------------------------------------------------------
\* Whoever stopped half way is counted.

Halted == {r \in Requests : pc[r] = "stopped"}

StopsInv == stops = Cardinality(Halted)

LEMMA StopsInit == Init => StopsInv
    <1> SUFFICES ASSUME Init  PROVE StopsInv
        OBVIOUS
    <1>1. Halted = {} /\ stops = 0
        BY DEF Init, ServiceInit, Halted, Requests
    <1> QED  BY <1>1, FS_EmptySet DEF StopsInv

LEMMA StopsStep ==
    ASSUME Routes, StopsInv, [Next]_vars
    PROVE  StopsInv'
    <1>1. ASSUME NEW r \in Requests, NEW s \in Services, Serves(r, s)
          PROVE  StopsInv'
        <2>1. Requests' = Requests /\ stops' = stops
            BY <1>1 DEF Serves, Requests
        <2>2. pc[r] # "stopped" /\ pc'[r] # "stopped"
            BY <1>1, EndsApart DEF Serves, Takes, UnderWay, Over, Begins
        <2>3. \A q \in Requests : pc'[q] = "stopped" <=> pc[q] = "stopped"
            BY <1>1, <2>2 DEF Serves
        <2>4. Halted' = Halted
            BY <2>1, <2>3 DEF Halted
        <2> QED  BY <2>1, <2>4 DEF StopsInv
    <1>2. ASSUME NEW r \in Requests, Halts(r)
          PROVE  StopsInv'
        <2>1. Requests' = Requests /\ stops' = stops + 1
            BY <1>2 DEF Halts, Requests
        <2>2. r \notin Halted /\ Halted' = Halted \cup {r}
            BY <1>2, <2>1 DEF Halts, Halted, UnderWay, Over
        <2>3. IsFiniteSet(Halted)
            BY RequestsFinite, FS_Subset DEF Halted
        <2> QED  BY <2>1, <2>2, <2>3, FS_AddElement DEF StopsInv
    <1>3. CASE Idles
        <2>1. Halted' = Halted
            BY <1>3 DEF Idles, Halted, Requests
        <2> QED  BY <1>3, <2>1 DEF StopsInv, Idles
    <1> QED  BY <1>1, <1>2, <1>3, StepKinds

\* Once all have been answered, only those who stopped owe anything.
LEMMA FollowsCount ==
    ASSUME Routes, FollowInv, StopsInv
    PROVE  FollowsCounted
    <1> SUFFICES ASSUME \A r \in Requests : pc[r] \in Over \cup {"idle"},
                        NEW u \in People, NEW f \in Sides
                 PROVE  profile[u][f] - Cardinality(Edges(u, f)) \in (0 - stops) .. stops
        BY DEF FollowsCounted, Sides
    <1>1. IsFiniteSet(Requests) /\ IsFiniteSet(Halted)
        BY RequestsFinite, FS_Subset DEF Halted
    <1> DEFINE none == [r \in Requests |-> 0]
               dead == [r \in Requests |-> IF r \in Halted THEN 1 ELSE 0]
               less == [r \in Requests |-> -1 * dead[r]]
               owes == OwesOf(u, f)
    <1>2. \A r \in Requests : owes[r] \in Int /\ less[r] <= owes[r] /\ owes[r] <= dead[r]
        <2> SUFFICES ASSUME NEW r \in Requests
                     PROVE  owes[r] \in Int /\ less[r] <= owes[r] /\ owes[r] <= dead[r]
            OBVIOUS
        <2>1. owes[r] = Owes(r, u, f)
            BY DEF OwesOf
        <2>2. CASE pc[r] = "stopped"
            <3>1. dead[r] = 1 /\ less[r] = -1
                BY <2>2 DEF Halted
            <3> HIDE DEF dead, less, owes
            <3> QED  BY <2>1, <3>1, DueType DEF Owes
        <2>3. CASE pc[r] # "stopped"
            <3>1. Place(r) \in {"idle", "done", "failed"}
                BY <2>3 DEF Place, Over
            <3>2. Owed(r) = {}
                BY <3>1 DEF Owed
            <3>3. dead[r] = 0
                BY <2>3 DEF Halted
            <3>4. less[r] = -1 * dead[r]
                OBVIOUS
            <3> HIDE DEF dead, less, owes
            <3> QED  BY <2>1, <3>2, <3>3, <3>4, DueNone DEF Owes
        <2> QED  BY <2>2, <2>3
    <1>3. /\ \A r \in Requests : dead[r] \in Int /\ less[r] = -1 * dead[r] /\ less[r] \in Int
          /\ \A r \in Requests : none[r] = 0 /\ dead[r] = IF r \in Halted THEN none[r] + 1 ELSE none[r]
          /\ Halted \subseteq Requests
        BY DEF Halted
    <1> HIDE DEF none, dead, less, owes
    <1>4. SumFunctionOnSet(none, Requests) = 0
        BY <1>1, <1>3, SumZero
    <1>5. SumFunctionOnSet(dead, Requests) = stops
        <2>1. SumFunctionOnSet(dead, Requests) = SumFunctionOnSet(none, Requests) + Cardinality(Halted)
            <3>1. Halted \in SUBSET Requests /\ \A r \in Requests : none[r] \in Int
                BY <1>3
            <3>2. \A r \in Requests : dead[r] = IF r \in Halted THEN none[r] + 1 ELSE none[r]
                BY <1>3
            <3> QED  BY <1>1, <3>1, <3>2, SumCount
        <2> QED  BY <1>1, <1>4, <2>1, FS_CardinalityType DEF StopsInv
    <1>6. SumFunctionOnSet(less, Requests) = -1 * SumFunctionOnSet(dead, Requests)
        <2>1. PICK c \in Int : c = -1
            OBVIOUS
        <2>2. \A r \in Requests : dead[r] \in Int /\ less[r] = c * dead[r]
            BY <1>3, <2>1
        <2>3. SumFunctionOnSet(less, Requests) = c * SumFunctionOnSet(dead, Requests)
            BY <1>1, <2>2, SumScale
        <2>4. SumFunctionOnSet(dead, Requests) \in Int
            BY <1>1, <1>3, SumType
        <2> QED  BY <2>1, <2>3, <2>4
    <1>7. /\ SumFunctionOnSet(less, Requests) <= SumFunctionOnSet(owes, Requests)
          /\ SumFunctionOnSet(owes, Requests) <= SumFunctionOnSet(dead, Requests)
        BY <1>1, <1>2, <1>3, SumLess
    <1>8. SumFunctionOnSet(owes, Requests) \in Int
        BY <1>1, <1>2, SumType
    <1>9. EdgesIn(follows, u, f) = Edges(u, f)
        BY DEF EdgesIn, Edges, SideOf
    <1>10. profile[u][f] + SumFunctionOnSet(owes, Requests) = Cardinality(Edges(u, f))
        BY <1>9 DEF FollowInv, Balanced, owes
    <1>11. profile[u][f] \in Int /\ Cardinality(Edges(u, f)) \in Nat
        BY <1>9, EdgesCounted DEF FollowInv, ProfileOk
    <1>12. stops \in Nat
        BY <1>1, FS_CardinalityType DEF StopsInv
    <1> QED  BY <1>5, <1>6, <1>7, <1>8, <1>10, <1>11, <1>12

------------------------------------------------------------------------------
\* Lists: whom the caller hid when he asked, he hides.

NobodyUnblocks == \A r \in Requests : call(r).op # "unblock"

Lister(r) ==
    "before" \in DOMAIN job[r] =>
        /\ pc[r] \in {"friends", "hydrate", "done", "stopped"}
        /\ job[r].before \subseteq Hidden(call(r).user)
        /\ pc[r] = "done" /\ call(r).op # "blocked" => job[r].people \cap job[r].before = {}

ListInv == NobodyUnblocks => \A r \in Requests : Lister(r)

LEMMA ListInit == Init => ListInv
    BY DEF Init, ServiceInit, Requests, ListInv, Lister

\* Blocks stay, and what a request has read.
LEMMA ListerStays ==
    ASSUME NEW r, call(r)' = call(r), blocks \subseteq blocks', pc'[r] = pc[r] \/ pc'[r] = "stopped",
           Lister(r),
           \A x \in {"before", "people"} : x \in DOMAIN job'[r] =>
              x \in DOMAIN job[r] /\ job'[r][x] = job[r][x],
           "before" \in DOMAIN job[r] /\ pc[r] = "done" => job'[r] = job[r]
    PROVE  Lister(r)'
    <1>1. Hidden(call(r).user) \subseteq Hidden(call(r).user)'
        BY DEF Hidden
    <1> QED  BY <1>1 DEF Lister

LEMMA SocialKeepsLists ==
    ASSUME Routes, NobodyUnblocks, NEW r \in Requests, Lister(r), SocialStep(r)
    PROVE  blocks \subseteq blocks' /\ Lister(r)'
    <1>1. Serves(r, "social")
        BY SocialServe
    <1>2. call(r)' = call(r) /\ "social" \in Services
        BY <1>1 DEF Serves, call, Services
    <1>3. CASE \/ Follow(r) \/ FollowInsert(r) \/ Unfollow(r) \/ Count(r)
               \/ Block(r) \/ BlockInsert(r) \/ BlockCut(r) \/ BlockCount(r) \/ Visit(r)
        <2>1. pc[r] \in {"idle", "followInsert", "count", "blockInsert", "blockCut", "blockCount"}
            BY <1>3 DEF Follow, FollowInsert, Unfollow, Count, Block, BlockInsert, BlockCut, BlockCount,
                        Visit, Meets, Begins
        <2>2. "before" \notin DOMAIN job[r]
            BY <2>1 DEF Lister
        <2>3. \/ job' = job
              \/ \E f : Learns(r, f) /\ "before" \notin DOMAIN f
            <3>1. ASSUME NEW X, Counts(r, X)
                  PROVE  \E f : Learns(r, f) /\ "before" \notin DOMAIN f
                BY <3>1 DEF Counts
            <3>2. CASE Follow(r) \/ Block(r) \/ Visit(r)
                BY <3>2 DEF Follow, Block, Visit, Meets, Passes
            <3>3. CASE FollowInsert(r) \/ Unfollow(r) \/ Count(r) \/ BlockCount(r)
                BY <3>1, <3>3 DEF FollowInsert, Unfollow, Count, BlockCount
            <3>4. CASE BlockInsert(r)
                <4>1. \A X : "before" \notin DOMAIN [cut |-> X, gone |-> {}]
                    OBVIOUS
                <4> QED  BY <3>4, <4>1 DEF BlockInsert, Passes
            <3>5. CASE BlockCut(r)
                <4>1. \A X, Y : "before" \notin DOMAIN [cut |-> X, gone |-> Y]
                    OBVIOUS
                <4> QED  BY <3>5, <4>1 DEF BlockCut
            <3> QED  BY <1>3, <3>2, <3>3, <3>4, <3>5
        <2>4. "before" \notin DOMAIN job'[r]
            BY <2>2, <2>3, LearnedOne
        <2>5. blocks \subseteq blocks'
            BY <1>3 DEF Follow, FollowInsert, Unfollow, Count, Block, BlockInsert, BlockCut, BlockCount,
                        Visit, Meets, socialVars
        <2> QED  BY <2>4, <2>5 DEF Lister
    <1>4. CASE Unblock(r)
        BY <1>4 DEF Unblock, Begins, NobodyUnblocks
    <1>5. CASE Listing(r)
        <2>0. PICK to \in {"hydrate", "done", "friends"} :
                (\E people, sides : Lists(r, people, sides, to)) /\ (to = "done" => call(r).op = "blocked")
            <3>1. CASE \E people, sides : Lists(r, people, sides, "hydrate")
                BY <3>1
            <3>2. CASE \E people, sides : Lists(r, people, sides, "friends")
                BY <3>2
            <3>3. CASE call(r).op = "blocked" /\ \E people, sides : Lists(r, people, sides, "done")
                BY <3>3
            <3> QED  BY <1>5, <3>1, <3>2, <3>3 DEF Listing, Begins
        <2>1. PICK people, sides : Lists(r, people, sides, to)
            BY <2>0
        <2> DEFINE f == [people |-> people, sides |-> sides, before |-> Hidden(call(r).user)]
        <2>2. /\ Learns(r, f) /\ DOMAIN f = {"people", "sides", "before"}
              /\ f["before"] = Hidden(call(r).user)
            BY <2>1 DEF Lists
        <2> HIDE DEF f
        <2>3. "before" \in DOMAIN job'[r] /\ job'[r].before = Hidden(call(r).user)
            BY <2>2, LearnedOne
        <2>4. blocks' = blocks /\ pc'[r] = to
            BY <2>1 DEF Lists, socialVars, Goes, Routes
        <2>5. Hidden(call(r).user)' = Hidden(call(r).user)
            BY <1>2, <2>4 DEF Hidden
        <2> QED  BY <1>2, <2>0, <2>3, <2>4, <2>5 DEF Lister
    <1>6. CASE FriendsSide(r)
        <2>0. PICK side \in job[r].sides :
                /\ Learns(r, [sides |-> job[r].sides \ {side},
                              people |-> job[r].people \cap Side(call(r).to, side)])
                /\ Goes(r, IF job[r].sides = {side} THEN "hydrate" ELSE "friends")
            BY <1>6 DEF FriendsSide
        <2>1. PICK to \in {"hydrate", "friends"} : Goes(r, to)
            BY <2>0
        <2> DEFINE f == [sides |-> job[r].sides \ {side},
                         people |-> job[r].people \cap Side(call(r).to, side)]
        <2>2. Learns(r, f) /\ DOMAIN f = {"people", "sides"}
            BY <2>0
        <2> HIDE DEF f
        <2>3. /\ "before" \in DOMAIN job'[r] => "before" \in DOMAIN job[r]
              /\ "before" \in DOMAIN job[r] => job'[r].before = job[r].before
            BY <2>2, LearnedOne
        <2>4. blocks' = blocks /\ pc'[r] = to
            BY <1>6, <2>1 DEF FriendsSide, socialVars, Goes, Routes
        <2>5. Hidden(call(r).user)' = Hidden(call(r).user)
            BY <1>2, <2>4 DEF Hidden
        <2> QED  BY <2>1, <2>3, <2>4, <2>5 DEF Lister
    <1>7. CASE Hydrate(r)
        <2> DEFINE f == [people |-> job[r].people \ Hidden(call(r).user)]
        <2>2. /\ Learns(r, f) /\ DOMAIN f = {"people"}
              /\ f["people"] = job[r].people \ Hidden(call(r).user)
            BY <1>7 DEF Hydrate
        <2> HIDE DEF f
        <2>3. /\ "before" \in DOMAIN job'[r] => "before" \in DOMAIN job[r]
              /\ "before" \in DOMAIN job[r] => job'[r].before = job[r].before
              /\ job'[r].people = job[r].people \ Hidden(call(r).user)
            BY <2>2, LearnedOne
        <2>4. blocks' = blocks /\ pc'[r] = "done"
            BY <1>7 DEF Hydrate, socialVars, Goes, Routes
        <2>5. Hidden(call(r).user)' = Hidden(call(r).user)
            BY <1>2, <2>4 DEF Hidden
        <2> QED  BY <2>3, <2>4, <2>5 DEF Lister
    <1> QED  BY <1>3, <1>4, <1>5, <1>6, <1>7 DEF SocialStep

LEMMA ListStep ==
    ASSUME Routes, ListInv, [Next]_vars
    PROVE  ListInv'
    <1>1. Routes' /\ load' = load /\ "social" \in Services
        BY RoutesStep, StepKinds DEF Serves, Halts, Idles, Services
    <1>2. Requests' = Requests /\ \A q : call(q)' = call(q)
        BY <1>1 DEF Requests, call
    <1> SUFFICES ASSUME NobodyUnblocks, NEW q \in Requests  PROVE Lister(q)'
        BY <1>2 DEF ListInv, NobodyUnblocks
    <1>3. Lister(q)
        BY DEF ListInv
    <1>4. CASE call(q).op \notin Ops["social"]
        <2>1. \A s \in Services : "before" \in Fields[s] => s = "social"
            BY DEF Services, Fields
        <2>2. \A x \in DOMAIN job'[q] : Read(q, x)'
            BY <1>1, <1>2 DEF Routes
        <2>3. "before" \notin DOMAIN job'[q]
            BY <1>2, <1>4, <2>1, <2>2 DEF Read
        <2> QED  BY <2>3 DEF Lister
    <1>5. CASE call(q).op \in Ops["social"]
        <2>1. ASSUME NEW r \in Requests, SocialStep(r), Serves(r, "social")
              PROVE  Lister(q)'
            <3>1. blocks \subseteq blocks' /\ (r = q => Lister(q)')
                BY <1>3, <2>1, SocialKeepsLists DEF ListInv
            <3>2. CASE q # r
                BY <1>2, <1>3, <2>1, <3>1, <3>2, ListerStays DEF Serves
            <3> QED  BY <3>1, <3>2
        <2>2. ASSUME NEW r \in Requests, Halts(r), UNCHANGED socialVars
              PROVE  Lister(q)'
            <3>1. blocks' = blocks
                BY <2>2 DEF socialVars
            <3>2. /\ pc'[q] = pc[q] \/ pc'[q] = "stopped"
                  /\ \A x \in {"before", "people"} : x \in DOMAIN job'[q] =>
                        x \in DOMAIN job[q] /\ job'[q][x] = job[q][x]
                  /\ pc[q] = "done" => job'[q] = job[q]
                BY <2>2 DEF Halts, UnderWay, Over
            <3> QED  BY <1>2, <1>3, <3>1, <3>2, ListerStays
        <2>3. ASSUME Quiet("social"), UNCHANGED socialVars
              PROVE  Lister(q)'
            <3>1. blocks' = blocks /\ pc'[q] = pc[q] /\ job'[q] = job[q]
                BY <1>5, <2>3 DEF socialVars, Quiet
            <3> QED  BY <1>2, <1>3, <3>1, ListerStays
        <2> QED  BY <1>1, <2>1, <2>2, <2>3, StepsTo DEF Steps, Untouched
    <1> QED  BY <1>4, <1>5

\* The counters of follows are those of the edges, up to what stopped half way, and a list
\* shows nobody whom its caller hid when he asked for it.
THEOREM FollowsAlwaysHold == Spec => []FollowsHold
    <1> DEFINE I == Routes /\ FollowInv /\ StopsInv /\ ListInv
    <1>1. Init => I
        BY RoutesInit, FollowInit, StopsInit, ListInit
    <1>2. I /\ [Next]_vars => I'
        BY RoutesStep, FollowStep, StopsStep, ListStep
    <1>3. I => FollowsHold
        <2>1. ListInv => ListsHideBlocked
            BY DEF ListInv, NobodyUnblocks, Lister, ListsHideBlocked, Answered
        <2> QED  BY <2>1, FollowsCount DEF FollowsHold
    <1> QED  BY <1>1, <1>2, <1>3, PTL DEF Spec

------------------------------------------------------------------------------
\* Moments: what the requests will add to a counter.

LikeDue(r, m) ==
    IF momentOf(r) # m THEN 0
    ELSE IF pc[r] = "reactCount" THEN 1 ELSE IF pc[r] = "unlikeCount" THEN -1 ELSE 0

NoteDue(r, m) ==
    IF pc[r] = "commentCount" /\ momentOf(r) = m THEN 1
    ELSE IF pc[r] = "commentDown" /\ job[r].doc.moment = m THEN -1 ELSE 0

LikesDue(m) == SumFunctionOnSet([r \in Requests |-> LikeDue(r, m)], Requests)
NotesDue(m) == SumFunctionOnSet([r \in Requests |-> NoteDue(r, m)], Requests)

\* All but one term are 0.
LEMMA SumOne ==
    ASSUME NEW S, IsFiniteSet(S), NEW x \in S, NEW f, f[x] \in Int, \A y \in S \ {x} : f[y] = 0
    PROVE  SumFunctionOnSet(f, S) = f[x]
    <1> DEFINE z == [y \in S |-> 0]
    <1>1. \A y \in S : z[y] = 0 /\ z[y] \in Int /\ f[y] \in Int
        OBVIOUS
    <1> HIDE DEF z
    <1>2. SumFunctionOnSet(z, S) = 0
        BY <1>1, SumZero
    <1>3. SumFunctionOnSet(f, S) = SumFunctionOnSet(z, S) - z[x] + f[x]
        BY <1>1, SumUpdate
    <1> QED  BY <1>1, <1>2, <1>3

LEMMA DueIsInt == \A r, m : LikeDue(r, m) \in {-1, 0, 1} /\ NoteDue(r, m) \in {-1, 0, 1}
    BY DEF LikeDue, NoteDue

LEMMA DueMoves ==
    ASSUME Routes, NEW r \in Requests, load' = load,
           \A q \in Requests : q # r => pc'[q] = pc[q] /\ job'[q] = job[q], NEW m
    PROVE  /\ LikesDue(m) \in Int /\ LikesDue(m)' = LikesDue(m) - LikeDue(r, m) + LikeDue(r, m)'
           /\ NotesDue(m) \in Int /\ NotesDue(m)' = NotesDue(m) - NoteDue(r, m) + NoteDue(r, m)'
    <1>1. IsFiniteSet(Requests) /\ Requests' = Requests /\ \A q : call(q)' = call(q)
        BY RequestsFinite DEF Requests, call
    <1>2. \A q \in Requests : q # r => LikeDue(q, m)' = LikeDue(q, m) /\ NoteDue(q, m)' = NoteDue(q, m)
        BY <1>1 DEF LikeDue, NoteDue, momentOf
    <1>3. ASSUME NEW f, NEW g, f = [q \in Requests |-> LikeDue(q, m)],
                 g = [q \in Requests |-> LikeDue(q, m)']
          PROVE  /\ SumFunctionOnSet(f, Requests) \in Int
                 /\ SumFunctionOnSet(g, Requests) = SumFunctionOnSet(f, Requests) - f[r] + g[r]
        <2>1. \A q \in Requests : f[q] \in Int /\ g[q] \in Int
            BY <1>3, DueIsInt DEF LikeDue
        <2>2. \A q \in Requests \ {r} : g[q] = f[q]
            BY <1>2, <1>3
        <2> QED  BY <1>1, <2>1, <2>2, SumType, SumUpdate
    <1>4. ASSUME NEW f, NEW g, f = [q \in Requests |-> NoteDue(q, m)],
                 g = [q \in Requests |-> NoteDue(q, m)']
          PROVE  /\ SumFunctionOnSet(f, Requests) \in Int
                 /\ SumFunctionOnSet(g, Requests) = SumFunctionOnSet(f, Requests) - f[r] + g[r]
        <2>1. \A q \in Requests : f[q] \in Int /\ g[q] \in Int
            BY <1>4, DueIsInt DEF NoteDue
        <2>2. \A q \in Requests \ {r} : g[q] = f[q]
            BY <1>2, <1>4
        <2> QED  BY <1>1, <2>1, <2>2, SumType, SumUpdate
    <1> QED  BY <1>1, <1>3, <1>4 DEF LikesDue, NotesDue

\* Among patient users only the one who is served owes anything.
LEMMA DueAlone ==
    ASSUME Routes, Patience, load.patient, NEW r \in Requests, Takes(r), NEW m
    PROVE  LikesDue(m) = LikeDue(r, m) /\ NotesDue(m) = NoteDue(r, m)
    <1>1. IsFiniteSet(Requests)
        BY RequestsFinite
    <1>2. \A q \in Requests \ {r} : ~UnderWay(q)
        BY TakesAlone
    <1>3. \A q \in Requests \ {r} : LikeDue(q, m) = 0 /\ NoteDue(q, m) = 0
        BY <1>2 DEF UnderWay, Over, LikeDue, NoteDue
    <1>4. ASSUME NEW f, f = [q \in Requests |-> LikeDue(q, m)]
          PROVE  SumFunctionOnSet(f, Requests) = LikeDue(r, m)
        <2>1. f[r] \in Int /\ f[r] = LikeDue(r, m) /\ \A q \in Requests \ {r} : f[q] = 0
            BY <1>3, <1>4, DueIsInt
        <2> QED  BY <1>1, <2>1, SumOne
    <1>5. ASSUME NEW f, f = [q \in Requests |-> NoteDue(q, m)]
          PROVE  SumFunctionOnSet(f, Requests) = NoteDue(r, m)
        <2>1. f[r] \in Int /\ f[r] = NoteDue(r, m) /\ \A q \in Requests \ {r} : f[q] = 0
            BY <1>3, <1>5, DueIsInt
        <2> QED  BY <1>1, <2>1, SumOne
    <1> QED  BY <1>4, <1>5 DEF LikesDue, NotesDue

------------------------------------------------------------------------------
\* The shape of moments, comments and what is read of them.

MomentOk(m) ==
    /\ m \in Requests /\ pc[m] = "done" /\ call(m).op \in Ops["moments"]
    /\ DOMAIN moments[m] = {"author", "status", "likes", "comments"}
    /\ moments[m].likes \in Nat /\ moments[m].comments \in Nat

CommentOk(c) ==
    /\ c \in Requests /\ pc[c] \in {"commentCount", "done", "stopped"}
    /\ call(c).op \in Ops["moments"]
    /\ DOMAIN comments[c] = {"moment", "author", "status"}
    /\ comments[c].moment \in DOMAIN moments
    /\ comments[c].status \in {"active", "deleted", "removed"}

MomentJob(r) ==
    /\ pc[r] \in {"momentSave", "reactUpsert", "reactCount", "unlikeDelete", "unlikeCount",
                  "commentParent", "commentCreate", "commentCount"} => Exists(r)
    /\ pc[r] \in {"commentDelete", "commentRemove", "commentDown"} =>
          /\ "doc" \in DOMAIN job[r] /\ call(r).comment \in DOMAIN comments
          /\ job[r].doc.moment = comments[call(r).comment].moment
    /\ pc[r] \in {"commentDelete", "commentRemove"} /\ load.patient =>
          job[r].doc = comments[call(r).comment]
    /\ pc[r] = "commentDelete" => call(r).op = "deleteComment" /\ job[r].doc.status # "deleted"
    /\ call(r).op = "deleteComment" =>
          pc[r] \in Over \cup {"idle", "commentDelete", "commentDown"}

MomentShape ==
    /\ \A m \in DOMAIN moments : MomentOk(m)
    /\ IsFiniteSet(DOMAIN reactions)
    /\ \A k \in DOMAIN reactions : k[1] \in DOMAIN moments
    /\ IsFiniteSet(DOMAIN comments)
    /\ \A c \in DOMAIN comments : CommentOk(c)
    /\ \A r \in Requests : call(r).op \in Ops["moments"] => MomentJob(r)

\* A counter with what it will be changed by, against the rows.
LikesOver(m) == moments[m].likes + LikesDue(m) - Cardinality(Likes(m))
NotesOver(m) == moments[m].comments + NotesDue(m) - Cardinality(Shown(m))

CountedAt(m) ==
    /\ LikesOver(m) >= 0
    /\ load.patient => LikesOver(m) = 0
    /\ load.patient /\ ~CountedOutTwice => NotesOver(m) = 0

NobodyStopped == \A r \in Requests : call(r).op \in Ops["moments"] => pc[r] # "stopped"

MomentInv == MomentShape /\ (NobodyStopped => \A m \in DOMAIN moments : CountedAt(m))

\* Where nothing is due.
Still(p) == p \notin {"reactCount", "unlikeCount", "commentCount", "commentDown"}

LEMMA MomentInit == Init => MomentInv
    <1> SUFFICES ASSUME Init  PROVE MomentInv
        OBVIOUS
    <1>1. /\ DOMAIN moments = {} /\ DOMAIN reactions = {} /\ DOMAIN comments = {}
          /\ \A r \in Requests : pc[r] = "idle"
        BY DEF Init, MomentsInit, ServiceInit, Requests
    <1>2. \A r \in Requests : MomentJob(r)
        BY <1>1 DEF MomentJob
    <1> QED  BY <1>1, <1>2, FS_EmptySet DEF MomentInv, MomentShape

\* What a request has read stays true while the others only add rows.
LEMMA MomentJobStays ==
    ASSUME NEW q, pc'[q] = pc[q], job'[q] = job[q], load' = load, MomentJob(q),
           DOMAIN moments \subseteq DOMAIN moments',
           \A c \in DOMAIN comments :
              c \in DOMAIN comments' /\ comments'[c].moment = comments[c].moment,
           load.patient /\ UnderWay(q) => comments' = comments
    PROVE  MomentJob(q)'
    <1>1. call(q)' = call(q) /\ (Exists(q) => Exists(q)')
        BY DEF call, Exists, momentOf
    <1>2. pc[q] \in {"commentDelete", "commentRemove"} => UnderWay(q)
        BY DEF UnderWay, Over
    <1> QED  BY <1>1, <1>2 DEF MomentJob

LEMMA MomentKeeps ==
    ASSUME Routes, Patience, MomentShape, NEW r \in Requests, Serves(r, "moments"),
           \A m \in DOMAIN moments : m \in DOMAIN moments',
           \A m \in DOMAIN moments' :
              /\ m \in DOMAIN moments \/ (m = r /\ pc'[r] = "done")
              /\ DOMAIN moments'[m] = {"author", "status", "likes", "comments"}
              /\ moments'[m].likes \in Nat /\ moments'[m].comments \in Nat,
           IsFiniteSet(DOMAIN reactions'),
           \A k \in DOMAIN reactions' : k[1] \in DOMAIN moments',
           IsFiniteSet(DOMAIN comments'),
           \A c \in DOMAIN comments :
              c \in DOMAIN comments' /\ comments'[c].moment = comments[c].moment,
           \A c \in DOMAIN comments' :
              /\ c \in DOMAIN comments \/ (c = r /\ pc'[r] = "commentCount")
              /\ DOMAIN comments'[c] = {"moment", "author", "status"}
              /\ comments'[c].moment \in DOMAIN moments'
              /\ comments'[c].status \in {"active", "deleted", "removed"},
           pc[r] = "commentCount" => pc'[r] = "done",
           MomentJob(r)'
    PROVE  MomentShape'
    <1>1. /\ load' = load /\ Requests' = Requests /\ Takes(r)
          /\ \A q : call(q)' = call(q)
          /\ \A q \in Requests : q # r => pc'[q] = pc[q] /\ job'[q] = job[q]
        BY DEF Serves, Requests, call
    <1>2. pc[r] \notin {"done", "stopped", "failed"} /\ call(r).op \in Ops["moments"]
        BY <1>1 DEF Takes, UnderWay, Over, Begins, Serves
    <1>3. \A m \in DOMAIN moments' : MomentOk(m)'
        BY <1>1, <1>2 DEF MomentShape, MomentOk
    <1>4. \A c \in DOMAIN comments' : CommentOk(c)'
        BY <1>1, <1>2 DEF MomentShape, CommentOk
    <1>5. ASSUME NEW q \in Requests, call(q).op \in Ops["moments"]
          PROVE  MomentJob(q)'
        <2>1. CASE q = r
            BY <2>1
        <2>2. CASE q # r
            <3>1. load.patient => ~UnderWay(q)
                BY <1>1, <2>2, TakesAlone
            <3>2. MomentJob(q) /\ DOMAIN moments \subseteq DOMAIN moments'
                BY <1>5 DEF MomentShape
            <3> QED  BY <1>1, <2>2, <3>1, <3>2, MomentJobStays
        <2> QED  BY <2>1, <2>2
    <1> QED  BY <1>1, <1>3, <1>4, <1>5 DEF MomentShape

\* A comment that was counted out twice remains so.
LEMMA TwiceStays ==
    ASSUME Routes, MomentShape, NEW r \in Requests, Serves(r, "moments"), MomentsStep(r),
           CountedOutTwice
    PROVE  CountedOutTwice'
    <1>1. PICK q \in Requests : /\ "doc" \in DOMAIN job[q] /\ call(q).op = "deleteComment"
                                /\ job[q].doc.status = "removed"
        BY DEF CountedOutTwice
    <1>2. Requests' = Requests /\ call(q)' = call(q) /\ Takes(r)
        BY DEF Serves, Requests, call
    <1>3. job'[q] = job[q]
        <2>1. CASE q # r
            BY <2>1 DEF Serves
        <2>2. CASE q = r
            <3>1. pc[r] # "idle"
                BY <1>1, <2>2 DEF Routes
            <3>2. pc[r] \in {"commentDelete", "commentDown"}
                BY <1>1, <1>2, <2>2, <3>1 DEF MomentShape, MomentJob, Ops, Takes, UnderWay, Over, Begins
            <3>3. CommentDelete(r) \/ CommentDown(r)
                BY <3>2 DEF MomentsStep, CreateMoment, Moderate, MomentSave, React, ReactUpsert,
                    ReactCount, Unlike, UnlikeDelete, UnlikeCount, CreateComment, CommentParent,
                    CommentCreate, CommentCount, DeleteComment, RemoveComment, CommentRemove,
                    Feed, FeedFind, Begins
            <3> QED  BY <2>2, <3>3 DEF CommentDelete, CommentDown, SaveComment, Tally, Passes
        <2> QED  BY <2>1, <2>2
    <1> QED  BY <1>1, <1>2, <1>3 DEF CountedOutTwice

\* A step that changes the counter of m, what is due to it and the rows by the same.
LEMMA CountedKeeps ==
    ASSUME Routes, MomentShape, NEW r \in Requests, Serves(r, "moments"), MomentsStep(r),
           NEW m, CountedAt(m),
           moments[m].likes \in Int, moments[m].comments \in Int,
           moments'[m].likes \in Int, moments'[m].comments \in Int,
           NEW a \in Int, NEW b \in Int,
           Cardinality(Likes(m)) \in Int, Cardinality(Likes(m))' = Cardinality(Likes(m)) + a,
           Cardinality(Shown(m)) \in Int, Cardinality(Shown(m))' = Cardinality(Shown(m)) + b,
           moments'[m].likes + LikeDue(r, m)' >= moments[m].likes + LikeDue(r, m) + a,
           load.patient =>
              moments'[m].likes + LikeDue(r, m)' = moments[m].likes + LikeDue(r, m) + a,
           load.patient /\ ~CountedOutTwice /\ ~CountedOutTwice' =>
              moments'[m].comments + NoteDue(r, m)' = moments[m].comments + NoteDue(r, m) + b
    PROVE  CountedAt(m)'
    <1>1. load' = load /\ \A q \in Requests : q # r => pc'[q] = pc[q] /\ job'[q] = job[q]
        BY DEF Serves
    <1>2. /\ LikesDue(m) \in Int /\ LikesDue(m)' = LikesDue(m) - LikeDue(r, m) + LikeDue(r, m)'
          /\ NotesDue(m) \in Int /\ NotesDue(m)' = NotesDue(m) - NoteDue(r, m) + NoteDue(r, m)'
        BY <1>1, DueMoves
    <1>3. /\ LikeDue(r, m) \in Int /\ LikeDue(r, m)' \in Int
          /\ NoteDue(r, m) \in Int /\ NoteDue(r, m)' \in Int
        BY DueIsInt DEF LikeDue, NoteDue
    <1>4. ~CountedOutTwice' => ~CountedOutTwice
        BY TwiceStays
    <1>5. LikesOver(m)' >= 0
        BY <1>2, <1>3 DEF LikesOver, CountedAt
    <1>6. load.patient => LikesOver(m)' = 0
        BY <1>2, <1>3 DEF LikesOver, CountedAt
    <1>7. load.patient /\ ~CountedOutTwice' => NotesOver(m)' = 0
        BY <1>2, <1>3, <1>4 DEF NotesOver, CountedAt
    <1> QED  BY <1>1, <1>5, <1>6, <1>7 DEF CountedAt

LEMMA RowsFinite ==
    ASSUME MomentShape, NEW m
    PROVE  /\ IsFiniteSet(Likes(m)) /\ Cardinality(Likes(m)) \in Nat
           /\ IsFiniteSet(Shown(m)) /\ Cardinality(Shown(m)) \in Nat
    BY FS_Subset, FS_CardinalityType DEF MomentShape, Likes, Shown

LEMMA StillDue ==
    ASSUME NEW r, NEW m, Still(pc[r])
    PROVE  LikeDue(r, m) = 0 /\ NoteDue(r, m) = 0
    BY DEF Still, LikeDue, NoteDue

\* A step that reads, or changes the status of a moment.
LEMMA MomentReads ==
    ASSUME Routes, Patience, MomentInv, NEW r \in Requests, Serves(r, "moments"), MomentsStep(r),
           DOMAIN moments' = DOMAIN moments,
           \A m \in DOMAIN moments :
              /\ DOMAIN moments'[m] = DOMAIN moments[m]
              /\ moments'[m].likes = moments[m].likes /\ moments'[m].comments = moments[m].comments,
           UNCHANGED <<reactions, comments>>,
           Still(pc[r]), Still(pc'[r]), MomentJob(r)'
    PROVE  MomentInv'
    <1>1. MomentShape'
        BY MomentKeeps DEF MomentInv, MomentShape, MomentOk, CommentOk, Still
    <1>2. NobodyStopped' => NobodyStopped
        BY DEF NobodyStopped, Serves, Requests, call, Takes, UnderWay, Over, Begins
    <1>3. ASSUME NEW m \in DOMAIN moments', CountedAt(m)  PROVE CountedAt(m)'
        <2>1. /\ LikeDue(r, m) = 0 /\ NoteDue(r, m) = 0
              /\ LikeDue(r, m)' = 0 /\ NoteDue(r, m)' = 0
            BY DEF Still, LikeDue, NoteDue
        <2>2. Likes(m)' = Likes(m) /\ Shown(m)' = Shown(m)
            BY DEF Likes, Shown
        <2>3. Cardinality(Likes(m)) \in Nat /\ Cardinality(Shown(m)) \in Nat
            BY RowsFinite DEF MomentInv
        <2>4. moments[m].likes \in Nat /\ moments[m].comments \in Nat
            BY DEF MomentInv, MomentShape, MomentOk
        <2> QED  BY <1>3, <2>1, <2>2, <2>3, <2>4, CountedKeeps DEF MomentInv
    <1> QED  BY <1>1, <1>2, <1>3 DEF MomentInv

LEMMA LooksKeeps ==
    ASSUME Routes, Patience, MomentInv, NEW r \in Requests, Serves(r, "moments"), MomentsStep(r),
           Moderate(r) \/ React(r) \/ Unlike(r) \/ CreateComment(r) \/ CommentParent(r)
    PROVE  MomentInv'
    <1>1. /\ pc[r] \in {"idle", "commentParent"} /\ UNCHANGED momentVars
          /\ call(r).op # "deleteComment" \/ pc[r] # "idle"
        BY DEF Moderate, React, Unlike, CreateComment, CommentParent, Looks, Begins
    <1>2. /\ pc'[r] \in {"momentSave", "reactUpsert", "unlikeDelete", "commentCreate",
                         "commentParent", "failed", "done"}
          /\ pc'[r] \in {"failed", "done"} \/ Exists(r)
        BY DEF Moderate, React, Unlike, CreateComment, CommentParent, Looks, Passes, Goes, Begins,
               Active, Routes, MomentInv, MomentShape, MomentJob, Serves
    <1>3. call(r)' = call(r) /\ (Exists(r) => Exists(r)')
        BY <1>1 DEF Serves, call, Exists, momentOf, momentVars
    <1>4. call(r).op # "deleteComment" \/ pc'[r] \in {"failed", "done"}
        BY <1>1, <1>2 DEF MomentInv, MomentShape, MomentJob, Serves, Over
    <1>5. MomentJob(r)'
        BY <1>2, <1>3, <1>4 DEF MomentJob, Over
    <1> QED  BY <1>1, <1>2, <1>5, MomentReads DEF Still, momentVars

LEMMA FindsKeeps ==
    ASSUME Routes, Patience, MomentInv, NEW r \in Requests, Serves(r, "moments"), MomentsStep(r),
           DeleteComment(r) \/ RemoveComment(r)
    PROVE  MomentInv'
    <1> DEFINE c == call(r).comment
    <1>1. pc[r] = "idle" /\ UNCHANGED momentVars /\ call(r)' = call(r)
        BY DEF DeleteComment, RemoveComment, FindsComment, Looks, Begins, Serves, call
    <1>2. CASE pc'[r] \in {"failed", "done"}
        <2>1. MomentJob(r)'
            BY <1>2 DEF MomentJob, Over
        <2> QED  BY <1>1, <1>2, <2>1, MomentReads DEF Still, momentVars
    <1>3. CASE /\ c \in DOMAIN comments /\ Learns(r, [doc |-> comments[c]])
               /\ \/ pc'[r] = "commentRemove" /\ call(r).op # "deleteComment"
                  \/ pc'[r] = "commentDelete" /\ call(r).op = "deleteComment"
                        /\ comments[c].status # "deleted"
        <2>1. PICK f : f = [doc |-> comments[c]]
            OBVIOUS
        <2>2. DOMAIN f = {"doc"} /\ f["doc"] = comments[c] /\ Learns(r, f)
            BY <1>3, <2>1
        <2>3. "doc" \in DOMAIN job'[r] /\ job'[r].doc = comments[c]
            BY <2>2, LearnedOne
        <2>4. MomentJob(r)'
            BY <1>1, <1>3, <2>3 DEF MomentJob, Over, momentVars
        <2> QED  BY <1>1, <1>3, <2>4, MomentReads DEF Still, momentVars
    <1>4. CASE DeleteComment(r)
        BY <1>2, <1>3, <1>4 DEF DeleteComment, FindsComment, Looks, Passes, Goes, Begins, Routes
    <1>5. CASE RemoveComment(r)
        BY <1>2, <1>3, <1>5 DEF RemoveComment, FindsComment, Looks, Passes, Goes, Begins, Routes
    <1> QED  BY <1>4, <1>5

LEMMA FeedKeeps ==
    ASSUME Routes, Patience, MomentInv, NEW r \in Requests, Serves(r, "moments"), MomentsStep(r),
           Feed(r) \/ FeedFind(r)
    PROVE  MomentInv'
    <1>1. /\ pc[r] \in {"idle", "feedFind"} /\ pc'[r] \in {"feedFind", "done"}
          /\ UNCHANGED momentVars /\ call(r)' = call(r)
        BY DEF Feed, FeedFind, Begins, Goes, Routes, Serves, call
    <1>2. call(r).op # "deleteComment"
        BY DEF Feed, FeedFind, Begins, MomentInv, MomentShape, MomentJob, Serves, Over
    <1>3. MomentJob(r)'
        BY <1>1, <1>2 DEF MomentJob
    <1> QED  BY <1>1, <1>3, MomentReads DEF Still, momentVars

LEMMA SaveKeeps ==
    ASSUME Routes, Patience, MomentInv, NEW r \in Requests, Serves(r, "moments"), MomentsStep(r),
           MomentSave(r)
    PROVE  MomentInv'
    <1>1. /\ pc[r] = "momentSave" /\ pc'[r] = "done" /\ UNCHANGED <<reactions, comments>>
          /\ moments' = [moments EXCEPT ![momentOf(r)].status = NewStatus(r)]
        BY DEF MomentSave, Passes, Goes, Routes
    <1>2. MomentJob(r)'
        BY <1>1 DEF MomentJob, Over
    <1>3. ASSUME NEW m \in DOMAIN moments
          PROVE  /\ DOMAIN moments'[m] = DOMAIN moments[m]
                 /\ moments'[m].likes = moments[m].likes /\ moments'[m].comments = moments[m].comments
        BY <1>1
    <1> QED  BY <1>1, <1>2, <1>3, MomentReads DEF Still

LEMMA CreateKeeps ==
    ASSUME Routes, Patience, MomentInv, NEW r \in Requests, Serves(r, "moments"), MomentsStep(r),
           CreateMoment(r)
    PROVE  MomentInv'
    <1>1. /\ pc[r] = "idle" /\ pc'[r] = "done" /\ UNCHANGED <<reactions, comments>>
          /\ moments' = Put(moments, r, [author |-> call(r).user, status |-> "active", likes |-> 0,
                                         comments |-> 0])
        BY DEF CreateMoment, Passes, Goes, Routes, Begins
    <1>2. r \notin DOMAIN moments
        BY <1>1 DEF MomentInv, MomentShape, MomentOk
    <1>3. /\ DOMAIN moments' = DOMAIN moments \cup {r}
          /\ \A m \in DOMAIN moments : moments'[m] = moments[m]
          /\ DOMAIN moments'[r] = {"author", "status", "likes", "comments"}
          /\ moments'[r].likes = 0 /\ moments'[r].comments = 0
        BY <1>1, <1>2 DEF Put
    <1>4. MomentJob(r)'
        BY <1>1 DEF MomentJob, Over
    <1>5. MomentShape'
        <2>1. \A m \in DOMAIN moments' :
                /\ m \in DOMAIN moments \/ (m = r /\ pc'[r] = "done")
                /\ DOMAIN moments'[m] = {"author", "status", "likes", "comments"}
                /\ moments'[m].likes \in Nat /\ moments'[m].comments \in Nat
            <3>1. \A m \in DOMAIN moments :
                    /\ DOMAIN moments[m] = {"author", "status", "likes", "comments"}
                    /\ moments[m].likes \in Nat /\ moments[m].comments \in Nat
                BY DEF MomentInv, MomentShape, MomentOk
            <3> QED  BY <1>1, <1>3, <3>1
        <2>2. /\ IsFiniteSet(DOMAIN reactions') /\ IsFiniteSet(DOMAIN comments')
              /\ \A k \in DOMAIN reactions' : k[1] \in DOMAIN moments'
            BY <1>1, <1>3 DEF MomentInv, MomentShape
        <2>3. \A c \in DOMAIN comments' :
                /\ c \in DOMAIN comments /\ comments'[c].moment = comments[c].moment
                /\ DOMAIN comments'[c] = {"moment", "author", "status"}
                /\ comments'[c].moment \in DOMAIN moments'
                /\ comments'[c].status \in {"active", "deleted", "removed"}
            BY <1>1, <1>3 DEF MomentInv, MomentShape, CommentOk
        <2> QED  BY <1>1, <1>3, <1>4, <2>1, <2>2, <2>3, MomentKeeps DEF MomentInv
    <1>6. NobodyStopped' => NobodyStopped
        BY DEF NobodyStopped, Serves, Requests, call, Takes, UnderWay, Over, Begins
    <1>7. ASSUME NEW m \in DOMAIN moments, CountedAt(m)  PROVE CountedAt(m)'
        <2>1. /\ LikeDue(r, m) = 0 /\ NoteDue(r, m) = 0
              /\ LikeDue(r, m)' = 0 /\ NoteDue(r, m)' = 0
            BY <1>1 DEF LikeDue, NoteDue
        <2>2. Likes(m)' = Likes(m) /\ Shown(m)' = Shown(m)
            BY <1>1 DEF Likes, Shown
        <2>3. Cardinality(Likes(m)) \in Nat /\ Cardinality(Shown(m)) \in Nat
            BY RowsFinite DEF MomentInv
        <2>4. moments[m].likes \in Nat /\ moments[m].comments \in Nat /\ moments'[m] = moments[m]
            BY <1>3 DEF MomentInv, MomentShape, MomentOk
        <2> QED  BY <1>7, <2>1, <2>2, <2>3, <2>4, CountedKeeps DEF MomentInv
    <1>8. CountedAt(r)'
        <2>1. IsFiniteSet(Requests') /\ Requests' = Requests /\ \A q : call(q)' = call(q)
            BY RequestsFinite DEF Serves, Requests, call
        <2>2. Likes(r)' = {} /\ Shown(r)' = {}
            BY <1>1, <1>2 DEF Likes, Shown, MomentInv, MomentShape, CommentOk
        <2>3. ASSUME NEW q \in Requests  PROVE LikeDue(q, r)' = 0 /\ NoteDue(q, r)' = 0
            <3>1. CASE q = r
                BY <1>1, <3>1 DEF LikeDue, NoteDue
            <3>2. CASE q # r
                <4>1. pc'[q] = pc[q] /\ job'[q] = job[q]
                    BY <3>2 DEF Serves
                <4>2. pc[q] \in {"reactCount", "unlikeCount", "commentCount", "commentDown"} =>
                         MomentJob(q)
                    BY DEF Routes, Routed, Services, Places, MomentInv, MomentShape
                <4>3. pc[q] \in {"reactCount", "unlikeCount", "commentCount"} => momentOf(q) # r
                    BY <1>2, <4>2 DEF MomentJob, Exists
                <4>4. pc[q] = "commentDown" => job[q].doc.moment # r
                    BY <1>2, <4>2 DEF MomentJob, MomentInv, MomentShape, CommentOk
                <4> QED  BY <2>1, <4>1, <4>3, <4>4 DEF LikeDue, NoteDue, momentOf
            <3> QED  BY <3>1, <3>2
        <2>4. ASSUME NEW f, f = [q \in Requests' |-> LikeDue(q, r)']
              PROVE  SumFunctionOnSet(f, Requests') = 0
            BY <2>1, <2>3, <2>4, SumZero
        <2>5. ASSUME NEW f, f = [q \in Requests' |-> NoteDue(q, r)']
              PROVE  SumFunctionOnSet(f, Requests') = 0
            BY <2>1, <2>3, <2>5, SumZero
        <2>6. LikesDue(r)' = 0 /\ NotesDue(r)' = 0
            BY <2>4, <2>5 DEF LikesDue, NotesDue
        <2> QED  BY <1>3, <2>2, <2>6, FS_EmptySet DEF CountedAt, LikesOver, NotesOver
    <1> QED  BY <1>3, <1>5, <1>6, <1>7, <1>8 DEF MomentInv

\* A step that keeps the rows in shape and every counter.
LEMMA MomentCounts ==
    ASSUME MomentInv, NEW r \in Requests, Serves(r, "moments"),
           MomentShape', DOMAIN moments' = DOMAIN moments,
           \A m \in DOMAIN moments : CountedAt(m) => CountedAt(m)'
    PROVE  MomentInv'
    <1>1. NobodyStopped' => NobodyStopped
        BY DEF NobodyStopped, Serves, Requests, call, Takes, UnderWay, Over, Begins
    <1> QED  BY <1>1 DEF MomentInv

\* The shape, when only reactions change, or only comments, or only counters.
LEMMA ReactionsShape ==
    ASSUME Routes, Patience, MomentShape, NEW r \in Requests, Serves(r, "moments"),
           UNCHANGED <<moments, comments>>,
           IsFiniteSet(DOMAIN reactions'), \A k \in DOMAIN reactions' : k[1] \in DOMAIN moments,
           pc[r] # "commentCount", MomentJob(r)'
    PROVE  MomentShape'
    <1>1. \A m \in DOMAIN moments' :
            /\ m \in DOMAIN moments
            /\ DOMAIN moments'[m] = {"author", "status", "likes", "comments"}
            /\ moments'[m].likes \in Nat /\ moments'[m].comments \in Nat
        BY DEF MomentShape, MomentOk
    <1>2. IsFiniteSet(DOMAIN comments')
          /\ \A c \in DOMAIN comments' :
                /\ c \in DOMAIN comments /\ comments'[c].moment = comments[c].moment
                /\ DOMAIN comments'[c] = {"moment", "author", "status"}
                /\ comments'[c].moment \in DOMAIN moments'
                /\ comments'[c].status \in {"active", "deleted", "removed"}
        BY DEF MomentShape, CommentOk
    <1> QED  BY <1>1, <1>2, MomentKeeps

LEMMA CommentsShape ==
    ASSUME Routes, Patience, MomentShape, NEW r \in Requests, Serves(r, "moments"),
           UNCHANGED <<moments, reactions>>, IsFiniteSet(DOMAIN comments'),
           \A c \in DOMAIN comments :
              c \in DOMAIN comments' /\ comments'[c].moment = comments[c].moment,
           \A c \in DOMAIN comments' :
              /\ c \in DOMAIN comments \/ (c = r /\ pc'[r] = "commentCount")
              /\ DOMAIN comments'[c] = {"moment", "author", "status"}
              /\ comments'[c].moment \in DOMAIN moments
              /\ comments'[c].status \in {"active", "deleted", "removed"},
           pc[r] # "commentCount", MomentJob(r)'
    PROVE  MomentShape'
    <1>1. \A m \in DOMAIN moments' :
            /\ m \in DOMAIN moments
            /\ DOMAIN moments'[m] = {"author", "status", "likes", "comments"}
            /\ moments'[m].likes \in Nat /\ moments'[m].comments \in Nat
        BY DEF MomentShape, MomentOk
    <1>2. IsFiniteSet(DOMAIN reactions') /\ \A k \in DOMAIN reactions' : k[1] \in DOMAIN moments'
        BY DEF MomentShape
    <1> QED  BY <1>1, <1>2, MomentKeeps

LEMMA CountersShape ==
    ASSUME Routes, Patience, MomentShape, NEW r \in Requests, Serves(r, "moments"),
           UNCHANGED <<reactions, comments>>, DOMAIN moments' = DOMAIN moments,
           \A m \in DOMAIN moments :
              /\ DOMAIN moments'[m] = DOMAIN moments[m]
              /\ moments'[m].likes \in Nat /\ moments'[m].comments \in Nat,
           pc'[r] = "done"
    PROVE  MomentShape'
    <1>1. \A m \in DOMAIN moments' :
            /\ m \in DOMAIN moments
            /\ DOMAIN moments'[m] = {"author", "status", "likes", "comments"}
            /\ moments'[m].likes \in Nat /\ moments'[m].comments \in Nat
        BY DEF MomentShape, MomentOk
    <1>2. IsFiniteSet(DOMAIN reactions') /\ \A k \in DOMAIN reactions' : k[1] \in DOMAIN moments'
        BY DEF MomentShape
    <1>3. IsFiniteSet(DOMAIN comments')
          /\ \A c \in DOMAIN comments' :
                /\ c \in DOMAIN comments /\ comments'[c].moment = comments[c].moment
                /\ DOMAIN comments'[c] = {"moment", "author", "status"}
                /\ comments'[c].moment \in DOMAIN moments'
                /\ comments'[c].status \in {"active", "deleted", "removed"}
        BY DEF MomentShape, CommentOk
    <1>4. MomentJob(r)'
        BY DEF MomentJob, Over
    <1> QED  BY <1>1, <1>2, <1>3, <1>4, MomentKeeps

\* Which of two sets of rows are more.
LEMMA RowAdded ==
    ASSUME NEW S, IsFiniteSet(S), NEW x, NEW T, T = S \cup {x}
    PROVE  Cardinality(T) = Cardinality(S) + (IF x \in S THEN 0 ELSE 1)
    BY FS_AddElement, FS_CardinalityType, S \cup {x} = S \/ x \notin S

LEMMA RowRemoved ==
    ASSUME NEW S, IsFiniteSet(S), NEW x, NEW T, T = S \ {x}
    PROVE  Cardinality(T) = Cardinality(S) - (IF x \in S THEN 1 ELSE 0)
    BY FS_RemoveElement, FS_CardinalityType, S \ {x} = S \/ x \in S

LEMMA UpsertKeeps ==
    ASSUME Routes, Patience, MomentInv, NEW r \in Requests, Serves(r, "moments"), MomentsStep(r),
           ReactUpsert(r)
    PROVE  MomentInv'
    <1> DEFINE k == <<momentOf(r), call(r).user>>
    <1>1. /\ pc[r] = "reactUpsert" /\ UNCHANGED <<moments, comments>>
          /\ DOMAIN reactions' = DOMAIN reactions \cup {k}
          /\ pc'[r] = (IF k \in DOMAIN reactions THEN "done" ELSE "reactCount")
        BY DEF ReactUpsert, Put, Passes, Goes, Routes
    <1>2. Exists(r) /\ call(r).op # "deleteComment"
        BY <1>1 DEF MomentInv, MomentShape, MomentJob, Serves, Over
    <1>3. call(r)' = call(r) /\ Exists(r)' /\ momentOf(r)' = momentOf(r)
        BY <1>1, <1>2 DEF Serves, call, Exists, momentOf
    <1>4. MomentJob(r)'
        BY <1>1, <1>2, <1>3 DEF MomentJob
    <1>5. k[1] = momentOf(r)
        OBVIOUS
    <1>6. MomentShape'
        <2>1. IsFiniteSet(DOMAIN reactions')
            BY <1>1, FS_AddElement DEF MomentInv, MomentShape
        <2>2. \A x \in DOMAIN reactions' : x[1] \in DOMAIN moments
            BY <1>1, <1>2, <1>5 DEF MomentInv, MomentShape, Exists
        <2> QED  BY <1>1, <1>4, <2>1, <2>2, ReactionsShape DEF MomentInv
    <1>7. ASSUME NEW m \in DOMAIN moments, CountedAt(m)  PROVE CountedAt(m)'
        <2> HIDE DEF k
        <2>1. PICK a \in Int : a = IF m = momentOf(r) /\ k \notin DOMAIN reactions THEN 1 ELSE 0
            OBVIOUS
        <2>2. LikeDue(r, m) = 0 /\ NoteDue(r, m) = 0 /\ LikeDue(r, m)' = a /\ NoteDue(r, m)' = 0
            BY <1>1, <1>3, <2>1 DEF LikeDue, NoteDue
        <2>3. Shown(m)' = Shown(m) /\ moments'[m] = moments[m]
            BY <1>1 DEF Shown
        <2>4. /\ IsFiniteSet(Likes(m))
              /\ Cardinality(Likes(m)) \in Nat /\ Cardinality(Shown(m)) \in Nat
            BY RowsFinite DEF MomentInv
        <2>5. Cardinality(Likes(m))' = Cardinality(Likes(m)) + a
            <3>1. CASE m = momentOf(r)
                <4>1. Likes(m)' = Likes(m) \cup {k} /\ (k \in Likes(m) <=> k \in DOMAIN reactions)
                    BY <1>1, <1>5, <3>1 DEF Likes
                <4> QED  BY <2>1, <2>4, <3>1, <4>1, RowAdded
            <3>2. CASE m # momentOf(r)
                <4>1. Likes(m)' = Likes(m)
                    BY <1>1, <1>5, <3>2 DEF Likes
                <4> QED  BY <2>1, <2>4, <3>2, <4>1
            <3> QED  BY <3>1, <3>2
        <2>6. moments[m].likes \in Nat /\ moments[m].comments \in Nat
            BY DEF MomentInv, MomentShape, MomentOk
        <2> QED  BY <1>7, <2>2, <2>3, <2>4, <2>5, <2>6, CountedKeeps DEF MomentInv
    <1> QED  BY <1>1, <1>6, <1>7, MomentCounts

LEMMA DropKeeps ==
    ASSUME Routes, Patience, MomentInv, NEW r \in Requests, Serves(r, "moments"), MomentsStep(r),
           UnlikeDelete(r)
    PROVE  MomentInv'
    <1> DEFINE k == <<momentOf(r), call(r).user>>
    <1>1. /\ pc[r] = "unlikeDelete" /\ UNCHANGED <<moments, comments>>
          /\ DOMAIN reactions' = DOMAIN reactions \ {k}
          /\ pc'[r] = (IF k \in DOMAIN reactions THEN "unlikeCount" ELSE "done")
        BY DEF UnlikeDelete, Restrict, Passes, Goes, Routes
    <1>2. Exists(r) /\ call(r).op # "deleteComment"
        BY <1>1 DEF MomentInv, MomentShape, MomentJob, Serves, Over
    <1>3. call(r)' = call(r) /\ Exists(r)' /\ momentOf(r)' = momentOf(r)
        BY <1>1, <1>2 DEF Serves, call, Exists, momentOf
    <1>4. MomentJob(r)'
        BY <1>1, <1>2, <1>3 DEF MomentJob
    <1>5. k[1] = momentOf(r)
        OBVIOUS
    <1>6. MomentShape'
        <2>1. IsFiniteSet(DOMAIN reactions')
            BY <1>1, FS_RemoveElement DEF MomentInv, MomentShape
        <2>2. \A x \in DOMAIN reactions' : x[1] \in DOMAIN moments
            BY <1>1 DEF MomentInv, MomentShape
        <2> QED  BY <1>1, <1>4, <2>1, <2>2, ReactionsShape DEF MomentInv
    <1>7. ASSUME NEW m \in DOMAIN moments, CountedAt(m)  PROVE CountedAt(m)'
        <2> HIDE DEF k
        <2>1. PICK a \in Int : a = IF m = momentOf(r) /\ k \in DOMAIN reactions THEN -1 ELSE 0
            OBVIOUS
        <2>2. LikeDue(r, m) = 0 /\ NoteDue(r, m) = 0 /\ LikeDue(r, m)' = a /\ NoteDue(r, m)' = 0
            BY <1>1, <1>3, <2>1 DEF LikeDue, NoteDue
        <2>3. Shown(m)' = Shown(m) /\ moments'[m] = moments[m]
            BY <1>1 DEF Shown
        <2>4. /\ IsFiniteSet(Likes(m))
              /\ Cardinality(Likes(m)) \in Nat /\ Cardinality(Shown(m)) \in Nat
            BY RowsFinite DEF MomentInv
        <2>5. Cardinality(Likes(m))' = Cardinality(Likes(m)) + a
            <3>1. CASE m = momentOf(r)
                <4>1. Likes(m)' = Likes(m) \ {k} /\ (k \in Likes(m) <=> k \in DOMAIN reactions)
                    BY <1>1, <1>5, <3>1 DEF Likes
                <4> QED  BY <2>1, <2>4, <3>1, <4>1, RowRemoved
            <3>2. CASE m # momentOf(r)
                <4>1. Likes(m)' = Likes(m)
                    BY <1>1, <1>5, <3>2 DEF Likes
                <4> QED  BY <2>1, <2>4, <3>2, <4>1
            <3> QED  BY <3>1, <3>2
        <2>6. moments[m].likes \in Nat /\ moments[m].comments \in Nat
            BY DEF MomentInv, MomentShape, MomentOk
        <2> QED  BY <1>7, <2>2, <2>3, <2>4, <2>5, <2>6, CountedKeeps DEF MomentInv
    <1> QED  BY <1>1, <1>6, <1>7, MomentCounts

\* What a tally does to the two counters.
LEMMA TallyChanges ==
    ASSUME MomentShape, NEW n \in DOMAIN moments, NEW field \in {"likes", "comments"},
           NEW by \in {1, -1}, moments' = Tallied(n, field, by)
    PROVE  /\ DOMAIN moments' = DOMAIN moments
           /\ \A m \in DOMAIN moments :
                 /\ DOMAIN moments'[m] = DOMAIN moments[m]
                 /\ moments'[m].likes \in Nat /\ moments'[m].comments \in Nat
                 /\ moments'[m].likes = moments[m].likes
                       + (IF m = n /\ field = "likes" /\ (by = 1 \/ moments[m].likes # 0)
                          THEN by ELSE 0)
                 /\ moments'[m].comments = moments[m].comments
                       + (IF m = n /\ field = "comments" /\ (by = 1 \/ moments[m].comments # 0)
                          THEN by ELSE 0)
    <1>1. DOMAIN moments' = DOMAIN moments
          /\ \A m \in DOMAIN moments : m # n => moments'[m] = moments[m]
        BY DEF Tallied
    <1>2. moments'[n] = [moments[n] EXCEPT ![field] = IF by < 0 /\ @ = 0 THEN @ ELSE @ + by]
        BY DEF Tallied
    <1>3. \A m \in DOMAIN moments : /\ DOMAIN moments[m] = {"author", "status", "likes", "comments"}
                                    /\ moments[m].likes \in Nat /\ moments[m].comments \in Nat
        BY DEF MomentShape, MomentOk
    <1>4. ASSUME NEW m \in DOMAIN moments, m # n
          PROVE  /\ DOMAIN moments'[m] = DOMAIN moments[m]
                 /\ moments'[m].likes \in Nat /\ moments'[m].comments \in Nat
                 /\ moments'[m].likes = moments[m].likes /\ moments'[m].comments = moments[m].comments
        BY <1>1, <1>3, <1>4
    <1>5. CASE field = "likes"
        <2>1. /\ DOMAIN moments'[n] = DOMAIN moments[n]
              /\ moments'[n].comments = moments[n].comments
              /\ moments'[n].likes = IF by < 0 /\ moments[n].likes = 0 THEN moments[n].likes
                                     ELSE moments[n].likes + by
            BY <1>2, <1>3, <1>5
        <2> QED  BY <1>1, <1>3, <1>4, <1>5, <2>1
    <1>6. CASE field = "comments"
        <2>1. /\ DOMAIN moments'[n] = DOMAIN moments[n]
              /\ moments'[n].likes = moments[n].likes
              /\ moments'[n].comments = IF by < 0 /\ moments[n].comments = 0 THEN moments[n].comments
                                        ELSE moments[n].comments + by
            BY <1>2, <1>3, <1>6
        <2> QED  BY <1>1, <1>3, <1>4, <1>6, <2>1
    <1> QED  BY <1>5, <1>6

LEMMA LikesTallied ==
    ASSUME Routes, Patience, MomentInv, NEW r \in Requests, Serves(r, "moments"), MomentsStep(r),
           ReactCount(r) \/ UnlikeCount(r)
    PROVE  MomentInv'
    <1>1. PICK by \in {1, -1} :
            /\ moments' = Tallied(momentOf(r), "likes", by)
            /\ pc[r] = (IF by = 1 THEN "reactCount" ELSE "unlikeCount")
        BY DEF ReactCount, UnlikeCount, Tally
    <1>2. pc'[r] = "done" /\ UNCHANGED <<reactions, comments>>
        BY DEF ReactCount, UnlikeCount, Tally, Passes, Goes, Routes
    <1>3. momentOf(r) \in DOMAIN moments
        BY <1>1 DEF MomentInv, MomentShape, MomentJob, Serves, Exists
    <1>4. /\ DOMAIN moments' = DOMAIN moments
          /\ \A m \in DOMAIN moments :
                /\ DOMAIN moments'[m] = DOMAIN moments[m]
                /\ moments'[m].likes \in Nat /\ moments'[m].comments \in Nat
                /\ moments'[m].likes = moments[m].likes
                      + (IF m = momentOf(r) /\ (by = 1 \/ moments[m].likes # 0) THEN by ELSE 0)
                /\ moments'[m].comments = moments[m].comments
        <2>1. PICK field \in {"likes", "comments"} : field = "likes"
            OBVIOUS
        <2>2. moments' = Tallied(momentOf(r), field, by) /\ MomentShape
            BY <1>1, <2>1 DEF MomentInv
        <2>3. \A m \in DOMAIN moments : moments[m].likes \in Nat /\ moments[m].comments \in Nat
            BY <2>2 DEF MomentShape, MomentOk
        <2> QED  BY <1>3, <2>1, <2>2, <2>3, TallyChanges
    <1>5. MomentShape'
        BY <1>2, <1>4, CountersShape DEF MomentInv
    <1>6. ASSUME NEW m \in DOMAIN moments, CountedAt(m)  PROVE CountedAt(m)'
        <2>1. /\ LikeDue(r, m) = (IF m = momentOf(r) THEN by ELSE 0) /\ NoteDue(r, m) = 0
              /\ LikeDue(r, m)' = 0 /\ NoteDue(r, m)' = 0
            BY <1>1, <1>2 DEF LikeDue, NoteDue
        <2>2. Likes(m)' = Likes(m) /\ Shown(m)' = Shown(m)
            BY <1>2 DEF Likes, Shown
        <2>3. Cardinality(Likes(m)) \in Nat /\ Cardinality(Shown(m)) \in Nat
            BY RowsFinite DEF MomentInv
        <2>4. moments[m].likes \in Nat /\ moments[m].comments \in Nat
            BY DEF MomentInv, MomentShape, MomentOk
        <2>5. load.patient => moments[m].likes + LikeDue(r, m) = Cardinality(Likes(m))
            BY <1>6, <2>1, <2>3, <2>4, DueAlone DEF CountedAt, LikesOver, Serves
        <2> QED  BY <1>4, <1>6, <2>1, <2>2, <2>3, <2>4, <2>5, CountedKeeps DEF MomentInv
    <1> QED  BY <1>4, <1>5, <1>6, MomentCounts

LEMMA NotesTallied ==
    ASSUME Routes, Patience, MomentInv, NEW r \in Requests, Serves(r, "moments"), MomentsStep(r),
           CommentCount(r) \/ CommentDown(r)
    PROVE  MomentInv'
    <1>1. PICK by \in {1, -1}, n \in DOMAIN moments :
            /\ moments' = Tallied(n, "comments", by)
            /\ pc[r] = (IF by = 1 THEN "commentCount" ELSE "commentDown")
            /\ n = (IF by = 1 THEN momentOf(r) ELSE job[r].doc.moment)
        <2>1. CASE CommentCount(r)
            BY <2>1 DEF CommentCount, Tally, MomentInv, MomentShape, MomentJob, Serves, Exists
        <2>2. CASE CommentDown(r)
            <3>1. job[r].doc.moment \in DOMAIN moments
                BY <2>2 DEF CommentDown, MomentInv, MomentShape, MomentJob, CommentOk, Serves
            <3> QED  BY <2>2, <3>1 DEF CommentDown, Tally
        <2> QED  BY <2>1, <2>2
    <1>2. pc'[r] = "done" /\ UNCHANGED <<reactions, comments>>
        BY DEF CommentCount, CommentDown, Tally, Passes, Goes, Routes
    <1>4. /\ DOMAIN moments' = DOMAIN moments
          /\ \A m \in DOMAIN moments :
                /\ DOMAIN moments'[m] = DOMAIN moments[m]
                /\ moments'[m].likes \in Nat /\ moments'[m].comments \in Nat
                /\ moments'[m].comments = moments[m].comments
                      + (IF m = n /\ (by = 1 \/ moments[m].comments # 0) THEN by ELSE 0)
                /\ moments'[m].likes = moments[m].likes
        <2>1. PICK field \in {"likes", "comments"} : field = "comments"
            OBVIOUS
        <2>2. moments' = Tallied(n, field, by) /\ MomentShape
            BY <1>1, <2>1 DEF MomentInv
        <2>3. \A m \in DOMAIN moments : moments[m].likes \in Nat /\ moments[m].comments \in Nat
            BY <2>2 DEF MomentShape, MomentOk
        <2> QED  BY <2>1, <2>2, <2>3, TallyChanges
    <1>5. MomentShape'
        BY <1>2, <1>4, CountersShape DEF MomentInv
    <1>6. ASSUME NEW m \in DOMAIN moments, CountedAt(m)  PROVE CountedAt(m)'
        <2>1. /\ NoteDue(r, m) = (IF m = n THEN by ELSE 0) /\ LikeDue(r, m) = 0
              /\ LikeDue(r, m)' = 0 /\ NoteDue(r, m)' = 0
            BY <1>1, <1>2 DEF LikeDue, NoteDue
        <2>2. Likes(m)' = Likes(m) /\ Shown(m)' = Shown(m)
            BY <1>2 DEF Likes, Shown
        <2>3. Cardinality(Likes(m)) \in Nat /\ Cardinality(Shown(m)) \in Nat
            BY RowsFinite DEF MomentInv
        <2>4. moments[m].likes \in Nat /\ moments[m].comments \in Nat
            BY DEF MomentInv, MomentShape, MomentOk
        <2>5. load.patient /\ ~CountedOutTwice =>
                 moments[m].comments + NoteDue(r, m) = Cardinality(Shown(m))
            BY <1>6, <2>1, <2>3, <2>4, DueAlone DEF CountedAt, NotesOver, Serves
        <2>6. load.patient /\ ~CountedOutTwice =>
                 moments'[m].comments + NoteDue(r, m)' = moments[m].comments + NoteDue(r, m)
            BY <1>4, <2>1, <2>3, <2>4, <2>5
        <2> QED  BY <1>4, <1>6, <2>1, <2>2, <2>3, <2>4, <2>6, CountedKeeps DEF MomentInv
    <1> QED  BY <1>4, <1>5, <1>6, MomentCounts

LEMMA WriteKeeps ==
    ASSUME Routes, Patience, MomentInv, NEW r \in Requests, Serves(r, "moments"), MomentsStep(r),
           CommentCreate(r)
    PROVE  MomentInv'
    <1>1. /\ pc[r] = "commentCreate" /\ pc'[r] = "commentCount" /\ UNCHANGED <<moments, reactions>>
          /\ comments' = Put(comments, r,
                 [moment |-> momentOf(r), author |-> call(r).user, status |-> "active"])
        BY DEF CommentCreate, Passes, Goes, Routes
    <1>2. Exists(r) /\ call(r).op # "deleteComment" /\ r \notin DOMAIN comments
        BY <1>1 DEF MomentInv, MomentShape, MomentJob, CommentOk, Serves, Over
    <1>3. call(r)' = call(r) /\ Exists(r)' /\ momentOf(r)' = momentOf(r)
        BY <1>1, <1>2 DEF Serves, call, Exists, momentOf
    <1>4. MomentJob(r)'
        BY <1>1, <1>2, <1>3 DEF MomentJob
    <1>5. /\ DOMAIN comments' = DOMAIN comments \cup {r}
          /\ \A c \in DOMAIN comments : comments'[c] = comments[c]
          /\ DOMAIN comments'[r] = {"moment", "author", "status"}
          /\ comments'[r].moment = momentOf(r) /\ comments'[r].status = "active"
        BY <1>1, <1>2 DEF Put
    <1>6. MomentShape'
        <2>1. IsFiniteSet(DOMAIN comments')
            BY <1>5, FS_AddElement DEF MomentInv, MomentShape
        <2>2. \A c \in DOMAIN comments' :
                /\ c \in DOMAIN comments \/ (c = r /\ pc'[r] = "commentCount")
                /\ DOMAIN comments'[c] = {"moment", "author", "status"}
                /\ comments'[c].moment \in DOMAIN moments
                /\ comments'[c].status \in {"active", "deleted", "removed"}
            BY <1>1, <1>2, <1>5 DEF MomentInv, MomentShape, CommentOk, Exists
        <2> QED  BY <1>1, <1>4, <1>5, <2>1, <2>2, CommentsShape DEF MomentInv
    <1>7. ASSUME NEW m \in DOMAIN moments, CountedAt(m)  PROVE CountedAt(m)'
        <2>1. PICK b \in Int : b = IF m = momentOf(r) THEN 1 ELSE 0
            OBVIOUS
        <2>2. LikeDue(r, m) = 0 /\ NoteDue(r, m) = 0 /\ LikeDue(r, m)' = 0 /\ NoteDue(r, m)' = b
            BY <1>1, <1>3, <2>1 DEF LikeDue, NoteDue
        <2>3. Likes(m)' = Likes(m) /\ moments'[m] = moments[m]
            BY <1>1 DEF Likes
        <2>4. /\ IsFiniteSet(Shown(m))
              /\ Cardinality(Likes(m)) \in Nat /\ Cardinality(Shown(m)) \in Nat
            BY RowsFinite DEF MomentInv
        <2>5. Cardinality(Shown(m))' = Cardinality(Shown(m)) + b
            <3>1. CASE m = momentOf(r)
                <4>1. Shown(m)' = Shown(m) \cup {r} /\ r \notin Shown(m)
                    BY <1>2, <1>5, <3>1 DEF Shown
                <4> QED  BY <2>1, <2>4, <3>1, <4>1, RowAdded
            <3>2. CASE m # momentOf(r)
                <4>1. Shown(m)' = Shown(m)
                    BY <1>2, <1>5, <3>2 DEF Shown
                <4> QED  BY <2>1, <2>4, <3>2, <4>1
            <3> QED  BY <3>1, <3>2
        <2>6. moments[m].likes \in Nat /\ moments[m].comments \in Nat
            BY DEF MomentInv, MomentShape, MomentOk
        <2> QED  BY <1>7, <2>2, <2>3, <2>4, <2>5, <2>6, CountedKeeps DEF MomentInv
    <1> QED  BY <1>1, <1>6, <1>7, MomentCounts

LEMMA StatusKeeps ==
    ASSUME Routes, Patience, MomentInv, NEW r \in Requests, Serves(r, "moments"), MomentsStep(r),
           CommentDelete(r) \/ CommentRemove(r)
    PROVE  MomentInv'
    <1> DEFINE c == call(r).comment
    <1>1. PICK status \in {"deleted", "removed"} :
            /\ comments' = [comments EXCEPT ![c].status = status]
            /\ pc[r] = (IF status = "deleted" THEN "commentDelete" ELSE "commentRemove")
            /\ pc'[r] = (IF status = "deleted" \/ job[r].doc.status = "active"
                         THEN "commentDown" ELSE "done")
        BY DEF CommentDelete, CommentRemove, SaveComment, Passes, Goes, Routes
    <1>2. /\ UNCHANGED <<moments, reactions>> /\ job' = job
          /\ call(r)' = call(r)
        BY DEF CommentDelete, CommentRemove, SaveComment, Passes, Serves, call
    <1>3. /\ "doc" \in DOMAIN job[r] /\ c \in DOMAIN comments
          /\ job[r].doc.moment = comments[c].moment
          /\ load.patient => job[r].doc = comments[c]
          /\ status = "deleted" => call(r).op = "deleteComment" /\ job[r].doc.status # "deleted"
          /\ call(r).op = "deleteComment" => status = "deleted"
        BY <1>1 DEF MomentInv, MomentShape, MomentJob, Serves, Over
    <1>4. /\ DOMAIN comments' = DOMAIN comments
          /\ \A x \in DOMAIN comments :
                /\ comments'[x].moment = comments[x].moment
                /\ DOMAIN comments'[x] = DOMAIN comments[x]
                /\ comments'[x].status = IF x = c THEN status ELSE comments[x].status
        <2>1. \A x \in DOMAIN comments : "status" \in DOMAIN comments[x]
            BY DEF MomentInv, MomentShape, CommentOk
        <2> QED  BY <1>1, <2>1
    <1>5. MomentJob(r)'
        BY <1>1, <1>2, <1>3, <1>4 DEF MomentJob, Over
    <1>6. MomentShape'
        <2>1. IsFiniteSet(DOMAIN comments')
            BY <1>4 DEF MomentInv, MomentShape
        <2>2. \A x \in DOMAIN comments' :
                /\ x \in DOMAIN comments
                /\ DOMAIN comments'[x] = {"moment", "author", "status"}
                /\ comments'[x].moment \in DOMAIN moments
                /\ comments'[x].status \in {"active", "deleted", "removed"}
            BY <1>4 DEF MomentInv, MomentShape, CommentOk
        <2> QED  BY <1>1, <1>2, <1>4, <1>5, <2>1, <2>2, CommentsShape DEF MomentInv
    <1>7. ASSUME NEW m \in DOMAIN moments, CountedAt(m)  PROVE CountedAt(m)'
        <2>1. PICK b \in Int :
                 b = IF m = comments[c].moment /\ comments[c].status = "active" THEN -1 ELSE 0
            OBVIOUS
        <2>2. LikeDue(r, m) = 0 /\ NoteDue(r, m) = 0 /\ LikeDue(r, m)' = 0
            BY <1>1 DEF LikeDue, NoteDue
        <2>3. Likes(m)' = Likes(m) /\ moments'[m] = moments[m]
            BY <1>2 DEF Likes
        <2>4. /\ IsFiniteSet(Shown(m))
              /\ Cardinality(Likes(m)) \in Nat /\ Cardinality(Shown(m)) \in Nat
            BY RowsFinite DEF MomentInv
        <2>5. Cardinality(Shown(m))' = Cardinality(Shown(m)) + b
            <3>1. Shown(m)' = Shown(m) \ {c}
                BY <1>3, <1>4 DEF Shown
            <3>2. c \in Shown(m) <=> m = comments[c].moment /\ comments[c].status = "active"
                BY <1>3 DEF Shown
            <3> QED  BY <2>1, <2>4, <3>1, <3>2, RowRemoved
        <2>6. load.patient /\ ~CountedOutTwice => NoteDue(r, m)' = b
            <3> SUFFICES ASSUME load.patient, ~CountedOutTwice  PROVE NoteDue(r, m)' = b
                OBVIOUS
            <3>1. job[r].doc = comments[c] /\ comments[c].status \in {"active", "deleted", "removed"}
                BY <1>3 DEF MomentInv, MomentShape, CommentOk
            <3>2. status = "deleted" => comments[c].status = "active"
                BY <1>3, <3>1 DEF CountedOutTwice
            <3>3. pc'[r] = IF comments[c].status = "active" THEN "commentDown" ELSE "done"
                BY <1>1, <3>1, <3>2
            <3>4. job'[r].doc.moment = comments[c].moment
                BY <1>2, <1>3
            <3> QED  BY <2>1, <3>3, <3>4 DEF NoteDue
        <2>7. moments[m].likes \in Nat /\ moments[m].comments \in Nat
            BY DEF MomentInv, MomentShape, MomentOk
        <2> QED  BY <1>7, <2>1, <2>2, <2>3, <2>4, <2>5, <2>6, <2>7, CountedKeeps DEF MomentInv
    <1> QED  BY <1>2, <1>6, <1>7, MomentCounts

LEMMA MomentsKeep ==
    ASSUME Routes, Patience, MomentInv, NEW r \in Requests, Serves(r, "moments"), MomentsStep(r)
    PROVE  MomentInv'
    BY LooksKeeps, FindsKeeps, FeedKeeps, SaveKeeps, CreateKeeps, UpsertKeeps, DropKeeps,
       LikesTallied, NotesTallied, WriteKeeps, StatusKeeps
    DEF MomentsStep

\* A step of the other services, or of nobody.
LEMMA MomentIdles ==
    ASSUME Routes, Routes', MomentInv, load' = load, UNCHANGED momentVars,
           \A q \in Requests : call(q).op \in Ops["moments"] => pc'[q] = pc[q] /\ job'[q] = job[q]
    PROVE  MomentInv'
    <1>1. /\ Requests' = Requests /\ UNCHANGED <<moments, reactions, comments>>
          /\ \A q : call(q)' = call(q)
        BY DEF Requests, call, momentVars
    <1>2. ASSUME NEW q \in Requests, call(q).op \in Ops["moments"]  PROVE MomentJob(q)'
        <2>1. /\ pc'[q] = pc[q] /\ job'[q] = job[q] /\ MomentJob(q)
              /\ DOMAIN moments \subseteq DOMAIN moments' /\ comments' = comments
            BY <1>1, <1>2 DEF MomentInv, MomentShape
        <2> QED  BY <2>1, MomentJobStays
    <1>3. MomentShape'
        <2>1. \A m \in DOMAIN moments : MomentOk(m)'
            BY <1>1 DEF MomentInv, MomentShape, MomentOk
        <2>2. \A c \in DOMAIN comments : CommentOk(c)'
            BY <1>1 DEF MomentInv, MomentShape, CommentOk
        <2> QED  BY <1>1, <1>2, <2>1, <2>2 DEF MomentInv, MomentShape
    <1>4. ASSUME NEW m, NEW q \in Requests
          PROVE  LikeDue(q, m)' = LikeDue(q, m) /\ NoteDue(q, m)' = NoteDue(q, m)
        <2>1. CASE call(q).op \in Ops["moments"]
            BY <1>1, <2>1 DEF LikeDue, NoteDue, momentOf
        <2>2. CASE call(q).op \notin Ops["moments"]
            <3>1. Routed(q, pc[q]) /\ Routed(q, pc[q])'
                BY <1>1 DEF Routes
            <3>2. Still(pc[q]) /\ Still(pc'[q])
                BY <1>1, <2>2, <3>1 DEF Routed, Services, Places, Still
            <3> QED  BY <3>2 DEF Still, LikeDue, NoteDue
        <2> QED  BY <2>1, <2>2
    <1>5. \A m : LikesDue(m)' = LikesDue(m) /\ NotesDue(m)' = NotesDue(m)
        BY <1>1, <1>4 DEF LikesDue, NotesDue
    <1>6. (NobodyStopped' <=> NobodyStopped) /\ (CountedOutTwice => CountedOutTwice')
        BY <1>1 DEF NobodyStopped, CountedOutTwice, Ops
    <1>7. \A m : Likes(m)' = Likes(m) /\ Shown(m)' = Shown(m)
        BY <1>1 DEF Likes, Shown
    <1>8. ASSUME NEW m, CountedAt(m)  PROVE CountedAt(m)'
        <2>1. LikesOver(m)' = LikesOver(m) /\ NotesOver(m)' = NotesOver(m)
            BY <1>1, <1>5, <1>7 DEF LikesOver, NotesOver
        <2> QED  BY <1>6, <1>8, <2>1 DEF CountedAt
    <1> QED  BY <1>1, <1>3, <1>6, <1>8 DEF MomentInv

LEMMA MomentHalts ==
    ASSUME MomentInv, NEW r \in Requests, Halts(r), UNCHANGED momentVars,
           call(r).op \in Ops["moments"]
    PROVE  MomentInv'
    <1>1. /\ Requests' = Requests /\ UNCHANGED <<moments, reactions, comments>> /\ load' = load
          /\ \A q : call(q)' = call(q)
          /\ pc'[r] = "stopped" /\ pc[r] # "done"
          /\ \A q \in Requests : q # r => pc'[q] = pc[q] /\ job'[q] = job[q]
        BY DEF Halts, Requests, call, momentVars, UnderWay, Over
    <1>2. ASSUME NEW q \in Requests, call(q).op \in Ops["moments"]  PROVE MomentJob(q)'
        <2>1. CASE q = r
            BY <1>1, <2>1 DEF MomentJob, Over
        <2>2. CASE q # r
            <3>1. /\ pc'[q] = pc[q] /\ job'[q] = job[q] /\ MomentJob(q)
                  /\ DOMAIN moments \subseteq DOMAIN moments' /\ comments' = comments
                BY <1>1, <1>2, <2>2 DEF MomentInv, MomentShape
            <3> QED  BY <1>1, <3>1, MomentJobStays
        <2> QED  BY <2>1, <2>2
    <1>3. \A m \in DOMAIN moments : MomentOk(m)'
        BY <1>1 DEF MomentInv, MomentShape, MomentOk
    <1>4. \A c \in DOMAIN comments : CommentOk(c)'
        BY <1>1 DEF MomentInv, MomentShape, CommentOk
    <1>5. MomentShape'
        BY <1>1, <1>2, <1>3, <1>4 DEF MomentInv, MomentShape
    <1>6. ~NobodyStopped'
        BY <1>1 DEF NobodyStopped
    <1> QED  BY <1>5, <1>6 DEF MomentInv

LEMMA MomentStep ==
    ASSUME Routes, Patience, MomentInv, [Next]_vars
    PROVE  MomentInv'
    <1>1. Routes' /\ "moments" \in Services
        BY RoutesStep DEF Services
    <1>2. ASSUME NEW r \in Requests, Steps("moments", r), Serves(r, "moments")  PROVE MomentInv'
        BY <1>2, MomentsKeep DEF Steps
    <1>3. ASSUME NEW r \in Requests, Halts(r), Untouched("moments")  PROVE MomentInv'
        <2>1. UNCHANGED momentVars
            BY <1>3 DEF Untouched
        <2>2. CASE call(r).op \in Ops["moments"]
            BY <1>3, <2>1, <2>2, MomentHalts
        <2>3. CASE call(r).op \notin Ops["moments"]
            BY <1>1, <1>3, <2>1, <2>3, MomentIdles DEF Halts
        <2> QED  BY <2>2, <2>3
    <1>4. ASSUME Quiet("moments"), Untouched("moments")  PROVE MomentInv'
        BY <1>1, <1>4, MomentIdles DEF Quiet, Untouched
    <1> QED  BY <1>1, <1>2, <1>3, <1>4, StepsTo

\* Once all calls are answered, nothing is due.
LEMMA NothingDue ==
    ASSUME Routes, \A r \in Requests : pc[r] \in {"idle", "done", "failed"}, NEW m
    PROVE  LikesDue(m) = 0 /\ NotesDue(m) = 0
    <1>1. IsFiniteSet(Requests)
        BY RequestsFinite
    <1>2. \A r \in Requests : LikeDue(r, m) = 0 /\ NoteDue(r, m) = 0
        BY DEF LikeDue, NoteDue
    <1>3. ASSUME NEW f, f = [r \in Requests |-> LikeDue(r, m)]
          PROVE  SumFunctionOnSet(f, Requests) = 0
        BY <1>1, <1>2, <1>3, SumZero
    <1>4. ASSUME NEW f, f = [r \in Requests |-> NoteDue(r, m)]
          PROVE  SumFunctionOnSet(f, Requests) = 0
        BY <1>1, <1>2, <1>4, SumZero
    <1> QED  BY <1>3, <1>4 DEF LikesDue, NotesDue

\* react, unlike and the comments: a moment never shows fewer likes than it has reactions, and
\* among users who wait for each other both of its counters are exact.
THEOREM MomentsAlwaysCounted == Spec => []MomentsCounted
    <1> DEFINE I == Routes /\ Patience /\ MomentInv
    <1>1. Init => I
        BY RoutesInit, PatienceInit, MomentInit
    <1>2. I /\ [Next]_vars => I'
        BY RoutesStep, PatienceStep, MomentStep
    <1>3. I => MomentsCounted
        <2> SUFFICES ASSUME I, \A r \in Requests : pc[r] \in {"idle", "done", "failed"},
                            NEW m \in DOMAIN moments
                     PROVE  /\ moments[m].likes >= Cardinality(Likes(m))
                            /\ load.patient => moments[m].likes = Cardinality(Likes(m))
                            /\ load.patient /\ ~CountedOutTwice =>
                                  moments[m].comments = Cardinality(Shown(m))
            BY DEF MomentsCounted
        <2>1. CountedAt(m)
            BY DEF MomentInv, NobodyStopped
        <2>2. Cardinality(Likes(m)) \in Nat /\ Cardinality(Shown(m)) \in Nat
            BY RowsFinite DEF MomentInv
        <2>3. moments[m].likes \in Nat /\ moments[m].comments \in Nat
            BY DEF MomentInv, MomentShape, MomentOk
        <2> QED  BY <2>1, <2>2, <2>3, NothingDue DEF CountedAt, LikesOver, NotesOver
    <1> QED  BY <1>1, <1>2, <1>3, PTL DEF Spec

------------------------------------------------------------------------------
\* Messages: the thread of a pair, and what is read of it.

ThreadOk(t) ==
    /\ t \in Requests /\ call(t).op \in Ops["messages"]
    /\ pc[t] \in {"sendMessage", "sendSave", "sendNotice", "done", "stopped"}
    /\ DOMAIN threads[t] = {"pair", "last", "unread"}
    /\ DOMAIN threads[t].unread = threads[t].pair
    /\ \A u \in threads[t].pair : threads[t].unread[u] \in Nat

\* A pair has one thread.
OneThread ==
    \A t, s \in DOMAIN threads : threads[t].pair = threads[s].pair => t = s

MessageOk(m) ==
    /\ m \in Requests /\ call(m).op \in Ops["messages"]
    /\ pc[m] \in {"sendSave", "sendNotice", "done", "stopped"}
    /\ messages[m].from = call(m).user /\ messages[m].to = call(m).to
    /\ messages[m].thread \in DOMAIN threads
    /\ threads[messages[m].thread].pair = pairOf(m)
    /\ pc[m] = "done" => <<m, messages[m].to>> \in DOMAIN inbox

\* What a send or a read has of its thread.
MessageJob(r) ==
    /\ pc[r] \in {"sendMessage", "sendSave", "readSave"} =>
          /\ "thread" \in DOMAIN job[r] /\ "doc" \in DOMAIN job[r]
          /\ job[r].thread \in DOMAIN threads /\ threads[job[r].thread].pair = pairOf(r)
          /\ DOMAIN job[r].doc.unread = pairOf(r)
          /\ \A u \in pairOf(r) : job[r].doc.unread[u] \in Nat
    /\ pc[r] = "sendSave" => r \in DOMAIN messages /\ messages[r].thread = job[r].thread
    /\ pc[r] = "sendNotice" => r \in DOMAIN messages
    /\ "seen" \in DOMAIN job[r] => pc[r] = "done" /\ job[r].seen \subseteq DOMAIN messages

MessageShape ==
    /\ \A t \in DOMAIN threads : ThreadOk(t)
    /\ OneThread
    /\ \A m \in DOMAIN messages : MessageOk(m)
    /\ \A r \in Requests : call(r).op \in Ops["messages"] => MessageJob(r)

\* Threads keep their pair, messages and notices stay.
MessagesGrow ==
    /\ \A t \in DOMAIN threads : t \in DOMAIN threads' /\ threads'[t].pair = threads[t].pair
    /\ \A m \in DOMAIN messages : m \in DOMAIN messages' /\ messages'[m] = messages[m]
    /\ DOMAIN inbox \subseteq DOMAIN inbox'

\* A save changes the counters of one thread, and its preview.
Rewrites(t) ==
    /\ DOMAIN threads' = DOMAIN threads
    /\ \A s \in DOMAIN threads : s # t => threads'[s] = threads[s]
    /\ threads'[t].pair = threads[t].pair
    /\ DOMAIN threads'[t] = DOMAIN threads[t]
    /\ DOMAIN threads'[t].unread = DOMAIN threads[t].unread
    /\ \A u \in DOMAIN threads[t].unread : threads'[t].unread[u] \in Nat

\* A push is not a notice.
LEMMA StageKeepsInbox ==
    ASSUME NEW r, StageStep(r)
    PROVE  inbox' = inbox
    <1>1. CASE \/ EnterStage(r) \/ LeaveStage(r) \/ LeaveMics(r)
               \/ TakeMic(r) \/ TakeMicClaim(r) \/ TakeMicVacate(r) \/ TakeMicClear(r) \/ StandUp(r)
               \/ LockMic(r) \/ LockMicSave(r) \/ KickMic(r)
        BY <1>1 DEF EnterStage, LeaveStage, LeaveMics, TakeMic, TakeMicClaim, TakeMicVacate,
                    TakeMicClear, StandUp,
                    LockMic, LockMicSave, KickMic, Seating, noticeVars
    <1>2. CASE KickMicSave(r) \/ InvitePresent(r)
        BY <1>2 DEF KickMicSave, InvitePresent, Rings, noticeVars
    <1>3. CASE SetMuted(r) \/ SetVideo(r) \/ MicSave(r) \/ Invite(r) \/ InviteSeat(r)
        BY <1>3 DEF SetMuted, SetVideo, MicSave, Invite, InviteSeat, Seating, Quietly, noticeVars
    <1>4. CASE \/ AskCall(r) \/ AskSeated(r) \/ AskUpsert(r)
               \/ ApproveCall(r) \/ ApproveExpired(r) \/ ApproveDelete(r)
               \/ DenyCall(r) \/ DenyDelete(r) \/ CancelCall(r)
        BY <1>4 DEF AskCall, AskSeated, AskUpsert, ApproveCall, ApproveExpired, ApproveDelete,
                    DenyCall, DenyDelete, CancelCall, Quietly, noticeVars
    <1>5. CASE \/ SetPolicies(r) \/ PoliciesSave(r)
               \/ SendChat(r) \/ ChatCreate(r) \/ CleanChat(r) \/ CleanChatSave(r)
        BY <1>5 DEF SetPolicies, PoliciesSave, SendChat, ChatCreate, CleanChat, CleanChatSave,
                    Seating, OnlyLines, noticeVars
    <1> QED  BY <1>1, <1>2, <1>3, <1>4, <1>5 DEF StageStep

\* The inbox forgets nothing.
LEMMA InboxGrows ==
    ASSUME [Next]_vars
    PROVE  DOMAIN inbox \subseteq DOMAIN inbox'
    <1>1. ASSUME NEW r, NEW u, Notify(r, u)  PROVE DOMAIN inbox \subseteq DOMAIN inbox'
        BY <1>1 DEF Notify, Put
    <1>2. UNCHANGED noticeVars => DOMAIN inbox \subseteq DOMAIN inbox'
        BY DEF noticeVars
    <1>3. ASSUME NEW r \in Requests, PeopleStep(r)  PROVE DOMAIN inbox \subseteq DOMAIN inbox'
        <2>1. CASE SocialStep(r) /\ UNCHANGED noticeVars
            BY <1>2, <2>1
        <2>2. CASE MomentsStep(r) /\ UNCHANGED noticeVars
            BY <1>2, <2>2
        <2>3. CASE MessagesStep(r)
            BY <1>1, <1>2, <2>3 DEF MessagesStep, SendNotice
        <2>4. CASE NoticesStep(r)
            BY <1>1, <1>2, <2>4
            DEF NoticesStep, Broadcast, BroadcastTo, MarkNotice, MarkAll, RegisterDevice,
                UnregisterDevice
        <2>5. CASE AccountsStep(r)
            <3>1. UNCHANGED inbox \/ UNCHANGED noticeVars
                BY <2>5 DEF AccountsStep, DeleteDevices
            <3> QED  BY <1>2, <3>1
        <2>6. CASE StageStep(r)
            BY <2>6, StageKeepsInbox
        <2> QED  BY <1>3, <2>1, <2>2, <2>3, <2>4, <2>5, <2>6 DEF PeopleStep
    <1>4. ASSUME NEW r \in Requests, GroupsStep(r), UNCHANGED peopleVars
          PROVE  DOMAIN inbox \subseteq DOMAIN inbox'
        BY <1>2, <1>4 DEF peopleVars
    <1>5. CASE Pushing
        BY <1>5 DEF Pushing, PushFind, PushSend
    <1>6. CASE CallsExpire \/ UNCHANGED peopleVars \/ UNCHANGED vars
        BY <1>2, <1>6 DEF CallsExpire, Quietly, peopleVars, vars
    <1> QED  BY <1>3, <1>4, <1>5, <1>6 DEF Next

LEMMA MessageInit == Init => MessageShape
    <1> SUFFICES ASSUME Init  PROVE MessageShape
        OBVIOUS
    <1>1. /\ DOMAIN threads = {} /\ DOMAIN messages = {}
          /\ \A r \in Requests : pc[r] = "idle" /\ DOMAIN job[r] = {}
        BY DEF Init, MessagesInit, ServiceInit, Requests
    <1>2. \A r \in Requests : MessageJob(r)
        BY <1>1 DEF MessageJob
    <1> QED  BY <1>1, <1>2 DEF MessageShape, OneThread

LEMMA MessageJobStays ==
    ASSUME MessagesGrow, NEW q, pc'[q] = pc[q], job'[q] = job[q], load' = load, MessageJob(q)
    PROVE  MessageJob(q)'
    <1>1. call(q)' = call(q) /\ pairOf(q)' = pairOf(q)
        BY DEF call, pairOf
    <1> QED  BY <1>1 DEF MessageJob, MessagesGrow

LEMMA MessageOkStays ==
    ASSUME MessagesGrow, NEW m \in DOMAIN messages, MessageOk(m), pc'[m] = pc[m], load' = load
    PROVE  MessageOk(m)'
    <1>1. call(m)' = call(m) /\ pairOf(m)' = pairOf(m) /\ Requests' = Requests
        BY DEF call, pairOf, Requests
    <1> QED  BY <1>1 DEF MessageOk, MessagesGrow

LEMMA MessageKeeps ==
    ASSUME Routes, MessageShape, NEW r \in Requests, Serves(r, "messages"), MessagesGrow,
           \A t \in DOMAIN threads' :
              /\ t \in DOMAIN threads \/ (t = r /\ pc'[r] = "sendMessage")
              /\ DOMAIN threads'[t] = {"pair", "last", "unread"}
              /\ DOMAIN threads'[t].unread = threads'[t].pair
              /\ \A u \in threads'[t].pair : threads'[t].unread[u] \in Nat,
           OneThread',
           \A m \in DOMAIN messages' : m \in DOMAIN messages \/ m = r,
           r \in DOMAIN messages' => MessageOk(r)',
           pc[r] \in {"sendMessage", "sendSave", "sendNotice"} =>
              pc'[r] \in {"sendSave", "sendNotice", "done"},
           MessageJob(r)'
    PROVE  MessageShape'
    <1>1. /\ load' = load /\ Requests' = Requests /\ Takes(r) /\ call(r).op \in Ops["messages"]
          /\ \A q : call(q)' = call(q)
          /\ \A q \in Requests : q # r => pc'[q] = pc[q] /\ job'[q] = job[q]
        BY DEF Serves, Requests, call
    <1>2. pc[r] \notin {"done", "stopped", "failed"}
        BY <1>1 DEF Takes, UnderWay, Over, Begins
    <1>3. ASSUME NEW t \in DOMAIN threads'  PROVE ThreadOk(t)'
        <2>1. CASE t = r
            <3>1. pc'[r] \in {"sendMessage", "sendSave", "sendNotice", "done"}
                BY <1>2, <1>3, <2>1 DEF MessageShape, ThreadOk
            <3> QED  BY <1>1, <1>3, <2>1, <3>1 DEF ThreadOk
        <2>2. CASE t # r
            <3>1. ThreadOk(t) /\ t \in Requests
                BY <1>3, <2>2 DEF MessageShape, ThreadOk
            <3> QED  BY <1>1, <1>3, <2>2, <3>1 DEF ThreadOk
        <2> QED  BY <2>1, <2>2
    <1>4. ASSUME NEW m \in DOMAIN messages'  PROVE MessageOk(m)'
        <2>1. CASE m # r
            <3>1. m \in DOMAIN messages /\ MessageOk(m) /\ m \in Requests
                BY <1>4, <2>1 DEF MessageShape, MessageOk
            <3> QED  BY <1>1, <2>1, <3>1, MessageOkStays
        <2> QED  BY <1>4, <2>1
    <1>5. ASSUME NEW q \in Requests, call(q).op \in Ops["messages"]  PROVE MessageJob(q)'
        <2>1. CASE q # r
            BY <1>1, <1>5, <2>1, MessageJobStays DEF MessageShape
        <2> QED  BY <1>5, <2>1
    <1> QED  BY <1>1, <1>3, <1>4, <1>5 DEF MessageShape

\* A step that writes to no thread and no message.
LEMMA MessageReads ==
    ASSUME Routes, MessageShape, NEW r \in Requests, Serves(r, "messages"),
           UNCHANGED messageVars, DOMAIN inbox \subseteq DOMAIN inbox',
           pc[r] \in {"sendMessage", "sendSave", "sendNotice"} => pc'[r] = "done",
           r \in DOMAIN messages /\ pc'[r] = "done" => <<r, call(r).to>> \in DOMAIN inbox',
           r \in DOMAIN messages => pc'[r] = "done",
           MessageJob(r)'
    PROVE  MessageShape'
    <1>1. threads' = threads /\ messages' = messages
        BY DEF messageVars
    <1>2. MessagesGrow
        BY <1>1 DEF MessagesGrow
    <1>3. OneThread'
        BY <1>1 DEF OneThread, MessageShape
    <1>4. \A t \in DOMAIN threads' :
              /\ t \in DOMAIN threads
              /\ DOMAIN threads'[t] = {"pair", "last", "unread"}
              /\ DOMAIN threads'[t].unread = threads'[t].pair
              /\ \A u \in threads'[t].pair : threads'[t].unread[u] \in Nat
        BY <1>1 DEF MessageShape, ThreadOk
    <1>5. ASSUME r \in DOMAIN messages  PROVE MessageOk(r)'
        <2>1. call(r)' = call(r) /\ pairOf(r)' = pairOf(r) /\ Requests' = Requests
            BY DEF Serves, call, pairOf, Requests
        <2> QED  BY <1>1, <1>5, <2>1 DEF MessageShape, MessageOk
    <1> QED  BY <1>1, <1>2, <1>3, <1>4, <1>5, MessageKeeps

\* What is read of a thread.
LEMMA ThreadLearned ==
    ASSUME Routes, NEW r \in Requests, NEW t, NEW document, MessageJob(r), pc[r] # "done",
           Learns(r, [thread |-> t, doc |-> document])
    PROVE  /\ {"thread", "doc"} \subseteq DOMAIN job'[r] /\ "seen" \notin DOMAIN job'[r]
           /\ job'[r].thread = t /\ job'[r].doc = document
           /\ DOMAIN job' = Requests
    <1> DEFINE f == [thread |-> t, doc |-> document]
    <1>1. /\ DOMAIN f = {"thread", "doc"} /\ f.thread = t /\ f.doc = document
          /\ Learns(r, f)
        OBVIOUS
    <1>2. "seen" \notin DOMAIN job[r]
        BY DEF MessageJob
    <1> HIDE DEF f
    <1>3. /\ DOMAIN job' = Requests /\ DOMAIN job'[r] = DOMAIN job[r] \cup DOMAIN f
          /\ \A x \in DOMAIN f : job'[r][x] = f[x]
        BY <1>1, LearnedOne
    <1> QED  BY <1>1, <1>2, <1>3

\* The document that a request of the pair holds.
LEMMA ThreadHeld ==
    ASSUME NEW r \in Requests, load' = load, NEW t \in DOMAIN threads',
           threads'[t].pair = pairOf(r), ThreadOk(t)', pc'[r] \in {"sendMessage", "readSave"},
           {"thread", "doc"} \subseteq DOMAIN job'[r], "seen" \notin DOMAIN job'[r],
           job'[r].thread = t, job'[r].doc = threads'[t]
    PROVE  MessageJob(r)'
    <1>1. pairOf(r)' = pairOf(r)
        BY DEF pairOf, call
    <1>2. /\ DOMAIN job'[r].doc.unread = pairOf(r)
          /\ \A u \in pairOf(r) : job'[r].doc.unread[u] \in Nat
        BY DEF ThreadOk
    <1> QED  BY <1>1, <1>2 DEF MessageJob

LEMMA SendShape ==
    ASSUME Routes, MessageShape, NEW r \in Requests, Serves(r, "messages"), Send(r),
           DOMAIN inbox \subseteq DOMAIN inbox'
    PROVE  MessageShape'
    <1>1. /\ pc[r] = "idle" /\ job'[r] = <<>> /\ UNCHANGED messageVars
          /\ pc'[r] \in {"sendFind", "failed"}
        BY DEF Send, Begins, Passes, Goes, Routes
    <1>2. DOMAIN job'[r] = {}
        BY <1>1
    <1>3. MessageJob(r)'
        BY <1>1, <1>2 DEF MessageJob
    <1>4. r \notin DOMAIN messages
        BY <1>1 DEF MessageShape, MessageOk
    <1> QED  BY <1>1, <1>3, <1>4, MessageReads

LEMMA FindShape ==
    ASSUME Routes, MessageShape, NEW r \in Requests, Serves(r, "messages"), SendFind(r),
           DOMAIN inbox \subseteq DOMAIN inbox'
    PROVE  MessageShape'
    <1>1. /\ pc[r] \in {"sendFind", "sendWinner"} /\ UNCHANGED messageVars
          /\ r \notin DOMAIN messages /\ MessageJob(r)
        BY DEF SendFind, MessageShape, MessageOk, Serves
    <1>2. threads' = threads
        BY <1>1 DEF messageVars
    <1>3. MessageJob(r)'
        <2>1. CASE threadsOf(pairOf(r)) = {}
            <3>1. pc'[r] = "sendCreate" /\ job'[r] = job[r]
                BY <2>1 DEF SendFind, Goes, Routes
            <3>2. "seen" \notin DOMAIN job[r]
                BY <1>1 DEF MessageJob
            <3> QED  BY <3>1, <3>2 DEF MessageJob
        <2>2. CASE threadsOf(pairOf(r)) # {}
            <3>1. PICK t \in threadsOf(pairOf(r)) : Opens(r, t, threads[t])
                BY <2>2 DEF SendFind
            <3>2. pc'[r] = "sendMessage" /\ Learns(r, [thread |-> t, doc |-> threads[t]])
                BY <3>1 DEF Opens, Goes, Routes
            <3>3. /\ {"thread", "doc"} \subseteq DOMAIN job'[r] /\ "seen" \notin DOMAIN job'[r]
                  /\ job'[r].thread = t /\ job'[r].doc = threads[t]
                BY <1>1, <3>2, ThreadLearned
            <3>4. /\ t \in DOMAIN threads' /\ threads'[t].pair = pairOf(r) /\ ThreadOk(t)
                BY <1>2 DEF threadsOf, MessageShape
            <3>5. t \in Requests /\ (t = r => FALSE)
                BY <1>1, <3>4 DEF ThreadOk
            <3>6. ThreadOk(t)'
                BY <1>2, <3>4, <3>5 DEF ThreadOk, Serves, Requests, call
            <3> QED  BY <1>2, <3>2, <3>3, <3>4, <3>6, ThreadHeld DEF Serves
        <2> QED  BY <2>1, <2>2
    <1>4. pc[r] \notin {"sendMessage", "sendSave", "sendNotice"}
        BY <1>1
    <1> QED  BY <1>1, <1>3, <1>4, MessageReads

LEMMA CreateShape ==
    ASSUME Routes, MessageShape, NEW r \in Requests, Serves(r, "messages"), SendCreate(r),
           DOMAIN inbox \subseteq DOMAIN inbox'
    PROVE  MessageShape'
    <1>1. /\ pc[r] = "sendCreate" /\ messages' = messages
          /\ r \notin DOMAIN messages /\ MessageJob(r) /\ call(r).op \in Ops["messages"]
        BY DEF SendCreate, MessageShape, MessageOk, Serves
    <1>2. CASE threadsOf(pairOf(r)) # {}
        <2>1. pc'[r] = "sendWinner" /\ job'[r] = job[r] /\ UNCHANGED messageVars
            BY <1>1, <1>2 DEF SendCreate, Goes, Routes, messageVars
        <2>2. "seen" \notin DOMAIN job[r]
            BY <1>1 DEF MessageJob
        <2>3. MessageJob(r)'
            BY <2>1, <2>2 DEF MessageJob
        <2> QED  BY <1>1, <2>1, <2>3, MessageReads
    <1>3. CASE threadsOf(pairOf(r)) = {}
        <2> DEFINE new == Thread(pairOf(r))
        <2>1. /\ DOMAIN new = {"pair", "last", "unread"} /\ new.pair = pairOf(r)
              /\ DOMAIN new.unread = pairOf(r) /\ \A u \in pairOf(r) : new.unread[u] \in Nat
            BY DEF Thread
        <2>2. threads' = Put(threads, r, new) /\ Opens(r, r, new)
            BY <1>3 DEF SendCreate
        <2> HIDE DEF new
        <2>3. r \notin DOMAIN threads
            BY <1>1 DEF MessageShape, ThreadOk
        <2>4. /\ DOMAIN threads' = DOMAIN threads \cup {r} /\ threads'[r] = new
              /\ \A t \in DOMAIN threads : threads'[t] = threads[t]
            BY <2>2, <2>3 DEF Put
        <2>5. pc'[r] = "sendMessage" /\ Learns(r, [thread |-> r, doc |-> new])
            BY <2>2 DEF Opens, Goes, Routes
        <2>6. /\ {"thread", "doc"} \subseteq DOMAIN job'[r] /\ "seen" \notin DOMAIN job'[r]
              /\ job'[r].thread = r /\ job'[r].doc = new
            BY <1>1, <2>5, ThreadLearned
        <2>7. ThreadOk(r)'
            BY <1>1, <2>1, <2>4, <2>5 DEF ThreadOk, Serves, Requests, call
        <2>8. MessageJob(r)'
            BY <2>1, <2>4, <2>5, <2>6, <2>7, ThreadHeld DEF Serves
        <2>9. OneThread'
            <3>1. \A t \in DOMAIN threads : threads[t].pair # pairOf(r)
                BY <1>3 DEF threadsOf
            <3> QED  BY <2>1, <2>4, <3>1 DEF OneThread, MessageShape
        <2>10. MessagesGrow
            BY <1>1, <2>4 DEF MessagesGrow
        <2>11. \A t \in DOMAIN threads' :
                  /\ t \in DOMAIN threads \/ (t = r /\ pc'[r] = "sendMessage")
                  /\ DOMAIN threads'[t] = {"pair", "last", "unread"}
                  /\ DOMAIN threads'[t].unread = threads'[t].pair
                  /\ \A u \in threads'[t].pair : threads'[t].unread[u] \in Nat
            BY <2>1, <2>4, <2>5 DEF MessageShape, ThreadOk
        <2> QED  BY <1>1, <2>8, <2>9, <2>10, <2>11, MessageKeeps
    <1> QED  BY <1>2, <1>3

LEMMA MessageSent ==
    ASSUME Routes, MessageShape, NEW r \in Requests, Serves(r, "messages"), SendMessage(r)
    PROVE  /\ pc[r] = "sendMessage" /\ pc'[r] = "sendSave" /\ threads' = threads
           /\ job'[r] = job[r] /\ r \notin DOMAIN messages /\ MessageJob(r)
           /\ DOMAIN messages' = DOMAIN messages \cup {r}
           /\ messages'[r].thread = job[r].thread
           /\ messages'[r].from = call(r).user /\ messages'[r].to = call(r).to
           /\ \A m \in DOMAIN messages : messages'[m] = messages[m]
    <1>1. pc[r] = "sendMessage" /\ pc'[r] = "sendSave" /\ threads' = threads /\ job'[r] = job[r]
        BY DEF SendMessage, Passes, Goes, Routes
    <1>2. r \notin DOMAIN messages /\ MessageJob(r)
        BY <1>1 DEF MessageShape, MessageOk, Serves
    <1> DEFINE new == [thread |-> job[r].thread, from |-> call(r).user, to |-> call(r).to]
    <1>3. /\ new.thread = job[r].thread /\ new.from = call(r).user /\ new.to = call(r).to
          /\ messages' = Put(messages, r, new)
        BY DEF SendMessage
    <1> HIDE DEF new
    <1> QED  BY <1>1, <1>2, <1>3 DEF Put

LEMMA MessageShapes ==
    ASSUME Routes, MessageShape, NEW r \in Requests, Serves(r, "messages"), SendMessage(r),
           DOMAIN inbox \subseteq DOMAIN inbox'
    PROVE  MessageShape'
    <1>1. /\ pc[r] = "sendMessage" /\ pc'[r] = "sendSave" /\ threads' = threads
          /\ job'[r] = job[r] /\ r \notin DOMAIN messages /\ MessageJob(r)
          /\ DOMAIN messages' = DOMAIN messages \cup {r}
          /\ messages'[r].thread = job[r].thread
          /\ messages'[r].from = call(r).user /\ messages'[r].to = call(r).to
          /\ \A m \in DOMAIN messages : messages'[m] = messages[m]
        BY MessageSent
    <1>2. /\ Requests' = Requests /\ call(r)' = call(r) /\ pairOf(r)' = pairOf(r)
          /\ call(r).op \in Ops["messages"]
        BY DEF Serves, Requests, call, pairOf
    <1>3. MessagesGrow
        BY <1>1 DEF MessagesGrow
    <1>4. OneThread'
        BY <1>1 DEF OneThread, MessageShape
    <1>5. MessageOk(r)'
        BY <1>1, <1>2 DEF MessageJob, MessageOk
    <1>6. MessageJob(r)'
        BY <1>1, <1>2 DEF MessageJob
    <1>7. \A t \in DOMAIN threads' :
              /\ t \in DOMAIN threads
              /\ DOMAIN threads'[t] = {"pair", "last", "unread"}
              /\ DOMAIN threads'[t].unread = threads'[t].pair
              /\ \A u \in threads'[t].pair : threads'[t].unread[u] \in Nat
        BY <1>1 DEF MessageShape, ThreadOk
    <1> QED  BY <1>1, <1>3, <1>4, <1>5, <1>6, <1>7, MessageKeeps

LEMMA SaveShape ==
    ASSUME Routes, MessageShape, NEW r \in Requests, Serves(r, "messages"), messages' = messages,
           NEW t \in DOMAIN threads, Rewrites(t), DOMAIN inbox \subseteq DOMAIN inbox',
           pc[r] \in {"sendSave", "readSave"},
           pc[r] = "sendSave" => pc'[r] = "sendNotice", MessageJob(r)'
    PROVE  MessageShape'
    <1>1. MessagesGrow
        BY DEF MessagesGrow, Rewrites
    <1>2. \A s \in DOMAIN threads' :
              /\ s \in DOMAIN threads /\ threads'[s].pair = threads[s].pair
              /\ DOMAIN threads'[s] = {"pair", "last", "unread"}
              /\ DOMAIN threads'[s].unread = threads'[s].pair
              /\ \A u \in threads'[s].pair : threads'[s].unread[u] \in Nat
        <2> TAKE s \in DOMAIN threads'
        <2>1. s \in DOMAIN threads /\ ThreadOk(s)
            BY DEF Rewrites, MessageShape
        <2>2. CASE s = t
            BY <2>1, <2>2 DEF Rewrites, ThreadOk
        <2>3. CASE s # t
            BY <2>1, <2>3 DEF Rewrites, ThreadOk
        <2> QED  BY <2>1, <2>2, <2>3
    <1>3. OneThread'
        BY <1>2 DEF OneThread, MessageShape
    <1>4. ASSUME r \in DOMAIN messages  PROVE MessageOk(r)'
        <2>1. MessageOk(r) /\ pc[r] = "sendSave"
            BY <1>4 DEF MessageShape, MessageOk
        <2>2. call(r)' = call(r) /\ pairOf(r)' = pairOf(r) /\ Requests' = Requests
            BY DEF Serves, call, pairOf, Requests
        <2>3. /\ messages[r].thread \in DOMAIN threads'
              /\ threads'[messages[r].thread].pair = pairOf(r)
            BY <1>1, <2>1 DEF MessageOk, MessagesGrow
        <2> QED  BY <2>1, <2>2, <2>3 DEF MessageOk
    <1> QED  BY <1>1, <1>2, <1>3, <1>4, MessageKeeps

\* The save of a send.
LEMMA SendSaved ==
    ASSUME Routes, MessageShape, NEW r \in Requests, Serves(r, "messages"), SendSave(r)
    PROVE  /\ pc[r] = "sendSave" /\ pc'[r] = "sendNotice" /\ messages' = messages
           /\ job'[r] = job[r] /\ MessageJob(r) /\ job[r].thread \in DOMAIN threads
           /\ threads[job[r].thread].pair = pairOf(r)
           /\ Rewrites(job[r].thread) /\ threads'[job[r].thread].last = r
           /\ \A u \in pairOf(r) :
                 threads'[job[r].thread].unread[u] =
                    IF u = call(r).to THEN job[r].doc.unread[u] + 1
                    ELSE threads[job[r].thread].unread[u]
    <1>1. pc[r] = "sendSave" /\ pc'[r] = "sendNotice" /\ messages' = messages /\ job'[r] = job[r]
        BY DEF SendSave, SaveThread, Passes, Goes, Routes
    <1>2. MessageJob(r)
        BY DEF MessageShape, Serves
    <1> DEFINE t == job[r].thread
               held == job[r].doc.unread
               new == [held EXCEPT ![call(r).to] = @ + 1]
               saved == [threads[t] EXCEPT !.last = r, !.unread = Saves(@, held, new)]
    <1>3. /\ t \in DOMAIN threads /\ threads[t].pair = pairOf(r)
          /\ DOMAIN held = pairOf(r) /\ \A u \in pairOf(r) : held[u] \in Nat
        BY <1>1, <1>2 DEF MessageJob
    <1>4. /\ DOMAIN threads[t] = {"pair", "last", "unread"} /\ DOMAIN threads[t].unread = pairOf(r)
          /\ \A u \in pairOf(r) : threads[t].unread[u] \in Nat
        BY <1>3 DEF MessageShape, ThreadOk
    <1>5. threads' = [threads EXCEPT ![t] = saved]
        BY DEF SendSave, SaveThread
    <1>6. /\ DOMAIN new = pairOf(r)
          /\ \A u \in pairOf(r) : new[u] = IF u = call(r).to THEN held[u] + 1 ELSE held[u]
        BY <1>3
    <1> HIDE DEF new, t
    <1>12. /\ saved.pair = threads[t].pair /\ DOMAIN saved = DOMAIN threads[t] /\ saved.last = r
           /\ saved.unread = Saves(threads[t].unread, held, new)
        BY <1>4
    <1> HIDE DEF saved
    <1>7. /\ DOMAIN threads' = DOMAIN threads
          /\ \A s \in DOMAIN threads : s # t => threads'[s] = threads[s]
          /\ threads'[t] = saved
        BY <1>3, <1>5
    <1>8. /\ threads'[t].pair = threads[t].pair /\ DOMAIN threads'[t] = DOMAIN threads[t]
          /\ threads'[t].last = r /\ threads'[t].unread = Saves(threads[t].unread, held, new)
        BY <1>7, <1>12
    <1>9. /\ DOMAIN threads'[t].unread = pairOf(r)
          /\ \A u \in pairOf(r) :
                threads'[t].unread[u] = IF new[u] # held[u] THEN new[u] ELSE threads[t].unread[u]
        BY <1>4, <1>8 DEF Saves
    <1>10. \A u \in pairOf(r) :
              /\ threads'[t].unread[u] = IF u = call(r).to THEN held[u] + 1
                                         ELSE threads[t].unread[u]
              /\ threads'[t].unread[u] \in Nat
        BY <1>3, <1>4, <1>6, <1>9
    <1>11. Rewrites(t)
        BY <1>4, <1>7, <1>8, <1>9, <1>10 DEF Rewrites
    <1> QED  BY <1>1, <1>2, <1>3, <1>8, <1>10, <1>11 DEF t

LEMMA SendSaveShape ==
    ASSUME Routes, MessageShape, NEW r \in Requests, Serves(r, "messages"), SendSave(r),
           DOMAIN inbox \subseteq DOMAIN inbox'
    PROVE  MessageShape'
    <1>1. /\ pc[r] = "sendSave" /\ pc'[r] = "sendNotice" /\ messages' = messages
          /\ job'[r] = job[r] /\ MessageJob(r) /\ job[r].thread \in DOMAIN threads
          /\ Rewrites(job[r].thread)
        BY SendSaved
    <1>2. MessageJob(r)'
        BY <1>1 DEF MessageJob
    <1> QED  BY <1>1, <1>2, SaveShape

LEMMA NoticeShape ==
    ASSUME Routes, MessageShape, NEW r \in Requests, Serves(r, "messages"), SendNotice(r),
           DOMAIN inbox \subseteq DOMAIN inbox'
    PROVE  MessageShape'
    <1>1. /\ pc[r] = "sendNotice" /\ pc'[r] = "done" /\ UNCHANGED messageVars
          /\ job'[r] = job[r] /\ MessageJob(r)
        BY DEF SendNotice, Passes, Goes, Routes, MessageShape, Serves
    <1>2. "seen" \notin DOMAIN job[r]
        BY <1>1 DEF MessageJob
    <1>3. <<r, call(r).to>> \in DOMAIN inbox'
        BY DEF SendNotice, Notify, Put
    <1>4. MessageJob(r)'
        BY <1>1, <1>2 DEF MessageJob
    <1> QED  BY <1>1, <1>3, <1>4, MessageReads

LEMMA ReadThreadShape ==
    ASSUME Routes, MessageShape, NEW r \in Requests, Serves(r, "messages"), ReadThread(r),
           DOMAIN inbox \subseteq DOMAIN inbox'
    PROVE  MessageShape'
    <1>1. /\ pc[r] = "idle" /\ UNCHANGED messageVars
          /\ r \notin DOMAIN messages /\ MessageJob(r)
        BY DEF ReadThread, Begins, MessageShape, MessageOk, Serves
    <1>2. threads' = threads
        BY <1>1 DEF messageVars
    <1>3. MessageJob(r)'
        <2>1. CASE pc'[r] = "done" /\ job'[r] = job[r]
            <3>1. "seen" \notin DOMAIN job[r]
                BY <1>1 DEF MessageJob
            <3> QED  BY <2>1, <3>1 DEF MessageJob
        <2>2. ASSUME NEW t \in threadsOf(pairOf(r)), Goes(r, "readSave"),
                     Learns(r, [thread |-> t, doc |-> threads[t]])
              PROVE  MessageJob(r)'
            <3>1. pc'[r] = "readSave"
                BY <2>2 DEF Goes, Routes
            <3>2. /\ {"thread", "doc"} \subseteq DOMAIN job'[r] /\ "seen" \notin DOMAIN job'[r]
                  /\ job'[r].thread = t /\ job'[r].doc = threads[t]
                BY <1>1, <2>2, ThreadLearned
            <3>3. /\ t \in DOMAIN threads' /\ threads'[t].pair = pairOf(r) /\ ThreadOk(t)
                BY <1>2 DEF threadsOf, MessageShape
            <3>4. t \in Requests /\ t # r
                BY <1>1, <3>3 DEF ThreadOk
            <3>5. ThreadOk(t)'
                BY <1>2, <3>3, <3>4 DEF ThreadOk, Serves, Requests, call
            <3> QED  BY <1>2, <3>1, <3>2, <3>3, <3>5, ThreadHeld DEF Serves
        <2> QED  BY <2>1, <2>2 DEF ReadThread, Passes, Goes, Routes
    <1> QED  BY <1>1, <1>3, MessageReads

\* The save of a read.
LEMMA ReadSaved ==
    ASSUME Routes, MessageShape, NEW r \in Requests, Serves(r, "messages"), ReadSave(r)
    PROVE  /\ pc[r] = "readSave" /\ pc'[r] = "done" /\ messages' = messages
           /\ MessageJob(r) /\ job[r].thread \in DOMAIN threads
           /\ threads[job[r].thread].pair = pairOf(r)
           /\ Rewrites(job[r].thread)
           /\ threads'[job[r].thread].last = threads[job[r].thread].last
           /\ \A u \in pairOf(r) :
                 threads'[job[r].thread].unread[u] =
                    IF u = call(r).user /\ job[r].doc.unread[u] # 0 THEN 0
                    ELSE threads[job[r].thread].unread[u]
           /\ "seen" \in DOMAIN job'[r]
           /\ job'[r].seen = {m \in DOMAIN messages : messages[m].thread = job[r].thread}
    <1>1. pc[r] = "readSave" /\ pc'[r] = "done" /\ messages' = messages
        BY DEF ReadSave, Goes, Routes
    <1>2. MessageJob(r)
        BY DEF MessageShape, Serves
    <1> DEFINE t == job[r].thread
               held == job[r].doc.unread
               new == [held EXCEPT ![call(r).user] = 0]
               known == [seen |-> {m \in DOMAIN messages : messages[m].thread = t}]
    <1>3. /\ t \in DOMAIN threads /\ threads[t].pair = pairOf(r)
          /\ DOMAIN held = pairOf(r) /\ \A u \in pairOf(r) : held[u] \in Nat
        BY <1>1, <1>2 DEF MessageJob
    <1>4. /\ DOMAIN threads[t] = {"pair", "last", "unread"} /\ DOMAIN threads[t].unread = pairOf(r)
          /\ \A u \in pairOf(r) : threads[t].unread[u] \in Nat
        BY <1>3 DEF MessageShape, ThreadOk
    <1>5. /\ threads' = [threads EXCEPT ![t].unread = Saves(@, held, new)]
          /\ Learns(r, known)
        BY DEF ReadSave
    <1>6. /\ DOMAIN new = pairOf(r)
          /\ \A u \in pairOf(r) : new[u] = IF u = call(r).user THEN 0 ELSE held[u]
        BY <1>3
    <1>7. /\ DOMAIN known = {"seen"}
          /\ known.seen = {m \in DOMAIN messages : messages[m].thread = t}
        OBVIOUS
    <1> HIDE DEF new, t, known
    <1>8. /\ DOMAIN threads' = DOMAIN threads
          /\ \A s \in DOMAIN threads : s # t => threads'[s] = threads[s]
          /\ threads'[t] = [threads[t] EXCEPT !.unread = Saves(@, held, new)]
        BY <1>3, <1>5
    <1>9. /\ threads'[t].pair = threads[t].pair /\ DOMAIN threads'[t] = DOMAIN threads[t]
          /\ threads'[t].last = threads[t].last
          /\ threads'[t].unread = Saves(threads[t].unread, held, new)
        BY <1>4, <1>8
    <1>10. /\ DOMAIN threads'[t].unread = pairOf(r)
           /\ \A u \in pairOf(r) :
                threads'[t].unread[u] = IF new[u] # held[u] THEN new[u] ELSE threads[t].unread[u]
        BY <1>4, <1>9 DEF Saves
    <1>11. \A u \in pairOf(r) :
              /\ threads'[t].unread[u] = IF u = call(r).user /\ held[u] # 0 THEN 0
                                         ELSE threads[t].unread[u]
              /\ threads'[t].unread[u] \in Nat
        BY <1>3, <1>4, <1>6, <1>10
    <1>12. Rewrites(t)
        BY <1>4, <1>8, <1>9, <1>10, <1>11 DEF Rewrites
    <1>13. "seen" \in DOMAIN job'[r] /\ job'[r].seen = known.seen
        BY <1>5, <1>7, LearnedOne
    <1> QED  BY <1>1, <1>2, <1>3, <1>7, <1>9, <1>11, <1>12, <1>13 DEF t

LEMMA ReadSaveShape ==
    ASSUME Routes, MessageShape, NEW r \in Requests, Serves(r, "messages"), ReadSave(r),
           DOMAIN inbox \subseteq DOMAIN inbox'
    PROVE  MessageShape'
    <1>1. /\ pc[r] = "readSave" /\ pc'[r] = "done" /\ messages' = messages
          /\ job[r].thread \in DOMAIN threads /\ Rewrites(job[r].thread)
          /\ job'[r].seen \subseteq DOMAIN messages
        BY ReadSaved
    <1>2. MessageJob(r)'
        BY <1>1 DEF MessageJob
    <1> QED  BY <1>1, <1>2, SaveShape

LEMMA MessagesShape ==
    ASSUME Routes, MessageShape, NEW r \in Requests, Serves(r, "messages"), MessagesStep(r),
           DOMAIN inbox \subseteq DOMAIN inbox'
    PROVE  MessageShape'
    BY SendShape, FindShape, CreateShape, MessageShapes, SendSaveShape, NoticeShape,
       ReadThreadShape, ReadSaveShape
    DEF MessagesStep

\* A step of the other services, or of nobody.
LEMMA MessageIdles ==
    ASSUME Routes, MessageShape, load' = load, UNCHANGED messageVars,
           DOMAIN inbox \subseteq DOMAIN inbox',
           \A q \in Requests : call(q).op \in Ops["messages"] => pc'[q] = pc[q] /\ job'[q] = job[q]
    PROVE  MessageShape'
    <1>1. /\ Requests' = Requests /\ threads' = threads /\ messages' = messages
          /\ \A q : call(q)' = call(q)
        BY DEF Requests, call, messageVars
    <1>2. MessagesGrow
        BY <1>1 DEF MessagesGrow
    <1>3. \A t \in DOMAIN threads' : ThreadOk(t)'
        BY <1>1 DEF MessageShape, ThreadOk
    <1>4. \A m \in DOMAIN messages' : MessageOk(m)'
        <2> TAKE m \in DOMAIN messages'
        <2>1. m \in DOMAIN messages /\ MessageOk(m) /\ pc'[m] = pc[m]
            BY <1>1 DEF MessageShape, MessageOk
        <2> QED  BY <1>2, <2>1, MessageOkStays
    <1>5. \A q \in Requests : call(q).op \in Ops["messages"] => MessageJob(q)'
        BY <1>2, MessageJobStays DEF MessageShape
    <1>6. OneThread'
        BY <1>1 DEF OneThread, MessageShape
    <1> QED  BY <1>1, <1>3, <1>4, <1>5, <1>6 DEF MessageShape

LEMMA MessageHalts ==
    ASSUME Routes, MessageShape, NEW r \in Requests, Halts(r), UNCHANGED messageVars,
           DOMAIN inbox \subseteq DOMAIN inbox', call(r).op \in Ops["messages"]
    PROVE  MessageShape'
    <1>1. /\ Requests' = Requests /\ threads' = threads /\ messages' = messages
          /\ load' = load /\ \A q : call(q)' = call(q)
          /\ pc'[r] = "stopped" /\ pc[r] \notin {"idle", "done", "failed", "stopped"}
          /\ DOMAIN job'[r] = DOMAIN job[r] \cup {"at"}
          /\ \A q \in Requests : q # r => pc'[q] = pc[q] /\ job'[q] = job[q]
        BY DEF Halts, Requests, call, messageVars, UnderWay, Over
    <1>2. MessagesGrow
        BY <1>1 DEF MessagesGrow
    <1>3. \A t \in DOMAIN threads' : ThreadOk(t)'
        BY <1>1 DEF MessageShape, ThreadOk
    <1>4. \A m \in DOMAIN messages' : MessageOk(m)'
        <2> TAKE m \in DOMAIN messages'
        <2>1. m \in DOMAIN messages /\ MessageOk(m) /\ m \in Requests
            BY <1>1 DEF MessageShape, MessageOk
        <2>2. CASE m # r
            BY <1>1, <1>2, <2>1, <2>2, MessageOkStays
        <2>3. CASE m = r
            <3>1. pairOf(r)' = pairOf(r)
                BY <1>1 DEF pairOf
            <3> QED  BY <1>1, <2>1, <2>3, <3>1 DEF MessageOk
        <2> QED  BY <2>2, <2>3
    <1>5. \A q \in Requests : call(q).op \in Ops["messages"] => MessageJob(q)'
        <2> TAKE q \in Requests
        <2> HAVE call(q).op \in Ops["messages"]
        <2>1. MessageJob(q)
            BY DEF MessageShape
        <2>2. CASE q # r
            BY <1>1, <1>2, <2>1, <2>2, MessageJobStays
        <2>3. CASE q = r
            <3>1. "seen" \notin DOMAIN job'[r]
                BY <1>1, <2>1, <2>3 DEF MessageJob
            <3> QED  BY <1>1, <2>3, <3>1 DEF MessageJob
        <2> QED  BY <2>2, <2>3
    <1>6. OneThread'
        BY <1>1 DEF OneThread, MessageShape
    <1> QED  BY <1>1, <1>3, <1>4, <1>5, <1>6 DEF MessageShape

------------------------------------------------------------------------------
\* Messages: the counters, among patient users of whom nobody dies.

\* The counter of u in t that a send has still to write.
Unwritten(u, t) ==
    IF \E q \in Requests : pc[q] = "sendSave" /\ job[q].thread = t /\ call(q).to = u
    THEN 1 ELSE 0

\* A send to t is under way.
Awaited(t) ==
    \E q \in Requests : pc[q] \in {"sendMessage", "sendSave"} /\ job[q].thread = t

TalliedThread(t) ==
    /\ \A u \in threads[t].pair : threads[t].unread[u] + Unwritten(u, t) = Cardinality(Unseen(u, t))
    /\ \/ Awaited(t)
       \/ threads[t].last \in DOMAIN messages /\ messages[threads[t].last].thread = t

\* Nobody writes to a document between the read and the save of a request.
FreshRead(r) ==
    pc[r] \in {"sendMessage", "sendSave", "readSave"} => job[r].doc = threads[job[r].thread]

Undisturbed == load.patient /\ stops = 0

MessageInv ==
    /\ MessageShape
    /\ stops \in Nat
    /\ Undisturbed => (\A t \in DOMAIN threads : TalliedThread(t))
                      /\ \A r \in Requests : FreshRead(r)

\* The elements of Unseen.
Unread(m, u, t) ==
    /\ m \in DOMAIN messages /\ messages[m].thread = t /\ messages[m].to = u
    /\ \A q \in Requests : "seen" \in DOMAIN job[q] /\ call(q).user = u => m \notin job[q].seen

LEMMA UnseenIs ==
    \A u, t : (\A m : m \in Unseen(u, t) <=> Unread(m, u, t))
              /\ (\A m : m \in Unseen(u, t)' <=> Unread(m, u, t)')
    BY DEF Unseen, Unread

LEMMA UnseenSame ==
    ASSUME NEW u, NEW t, \A m : Unread(m, u, t)' <=> Unread(m, u, t)
    PROVE  Unseen(u, t)' = Unseen(u, t)
    BY UnseenIs

\* Only a read has seen something.
LEMMA SeenByReads ==
    ASSUME Routes, MessageShape, NEW q \in Requests, "seen" \in DOMAIN job[q]
    PROVE  /\ call(q).op \in Ops["messages"] /\ pc[q] = "done"
           /\ job[q].seen \subseteq DOMAIN messages
    <1>1. Read(q, "seen")
        BY DEF Routes
    <1>2. call(q).op \in Ops["messages"]
        BY <1>1 DEF Read, Services, Fields
    <1> QED  BY <1>2 DEF MessageShape, MessageJob

LEMMA UnseenFinite ==
    ASSUME Routes, MessageShape, NEW u, NEW t
    PROVE  IsFiniteSet(Unseen(u, t))
    <1>1. DOMAIN messages \subseteq Requests
        BY DEF MessageShape, MessageOk
    <1>2. Unseen(u, t) \subseteq DOMAIN messages
        BY DEF Unseen
    <1> QED  BY <1>1, <1>2, RequestsFinite, FS_Subset

\* A step that neither sends nor answers a read.
LEMMA UnseenStays ==
    ASSUME NEW r \in Requests, Serves(r, "messages"), messages' = messages,
           "seen" \notin DOMAIN job[r], "seen" \notin DOMAIN job'[r]
    PROVE  \A u, t : Unseen(u, t)' = Unseen(u, t)
    <1>1. Requests' = Requests /\ \A q : call(q)' = call(q)
        BY DEF Serves, Requests, call
    <1>2. \A m, u, t : Unread(m, u, t)' <=> Unread(m, u, t)
        BY <1>1 DEF Unread, Serves
    <1> QED  BY <1>2, UnseenIs

LEMMA TalliesStay ==
    ASSUME Routes, MessageInv, NEW r \in Requests, Serves(r, "messages"), MessageShape',
           UNCHANGED messageVars, "seen" \notin DOMAIN job[r], "seen" \notin DOMAIN job'[r],
           pc[r] \notin {"sendMessage", "sendSave"}, pc'[r] # "sendSave", FreshRead(r)'
    PROVE  MessageInv'
    <1>1. /\ load' = load /\ stops' = stops /\ Requests' = Requests /\ \A q : call(q)' = call(q)
          /\ threads' = threads /\ messages' = messages
          /\ \A q \in Requests : q # r => pc'[q] = pc[q] /\ job'[q] = job[q]
        BY DEF Serves, Requests, call, messageVars
    <1>2. \A u, t : Unseen(u, t)' = Unseen(u, t)
        BY <1>1, UnseenStays
    <1>3. \A u, t : Unwritten(u, t)' = Unwritten(u, t)
        BY <1>1 DEF Unwritten
    <1>4. \A t : Awaited(t) => Awaited(t)'
        BY <1>1 DEF Awaited
    <1>5. ASSUME NEW t \in DOMAIN threads, TalliedThread(t)  PROVE TalliedThread(t)'
        BY <1>1, <1>2, <1>3, <1>4, <1>5 DEF TalliedThread
    <1>6. ASSUME NEW q \in Requests, FreshRead(q)  PROVE FreshRead(q)'
        BY <1>1, <1>6 DEF FreshRead
    <1>7. Undisturbed' <=> Undisturbed
        BY <1>1 DEF Undisturbed
    <1> QED  BY <1>1, <1>5, <1>6, <1>7 DEF MessageInv

LEMMA UnseenBySends ==
    ASSUME MessageShape, NEW r \in Requests, call(r).op \in Ops["messages"], pc[r] # "done"
    PROVE  "seen" \notin DOMAIN job[r]
    BY DEF MessageShape, MessageJob

LEMMA SendTallies ==
    ASSUME Routes, MessageInv, NEW r \in Requests, Serves(r, "messages"), Send(r), MessageShape'
    PROVE  MessageInv'
    <1>1. /\ pc[r] = "idle" /\ job'[r] = job[r] /\ UNCHANGED messageVars
          /\ pc'[r] \in {"sendFind", "failed"}
        BY DEF Send, Begins, Passes, Goes, Routes
    <1>2. "seen" \notin DOMAIN job[r] /\ FreshRead(r)'
        BY <1>1, UnseenBySends DEF MessageInv, Serves, FreshRead
    <1> QED  BY <1>1, <1>2, TalliesStay

LEMMA FindTallies ==
    ASSUME Routes, MessageInv, NEW r \in Requests, Serves(r, "messages"), SendFind(r), MessageShape'
    PROVE  MessageInv'
    <1>1. /\ pc[r] \in {"sendFind", "sendWinner"} /\ UNCHANGED messageVars
          /\ MessageJob(r) /\ threads' = threads
        BY DEF SendFind, MessageInv, MessageShape, Serves, messageVars
    <1>2. "seen" \notin DOMAIN job[r]
        BY <1>1 DEF MessageJob
    <1>3. CASE threadsOf(pairOf(r)) = {}
        <2>1. pc'[r] = "sendCreate" /\ job'[r] = job[r]
            BY <1>3 DEF SendFind, Goes, Routes
        <2> QED  BY <1>1, <1>2, <2>1, TalliesStay DEF FreshRead
    <1>4. CASE threadsOf(pairOf(r)) # {}
        <2>1. PICK t \in threadsOf(pairOf(r)) : Opens(r, t, threads[t])
            BY <1>4 DEF SendFind
        <2>2. pc'[r] = "sendMessage" /\ Learns(r, [thread |-> t, doc |-> threads[t]])
            BY <2>1 DEF Opens, Goes, Routes
        <2>3. /\ "seen" \notin DOMAIN job'[r] /\ job'[r].thread = t /\ job'[r].doc = threads[t]
            BY <1>1, <2>2, ThreadLearned
        <2> QED  BY <1>1, <1>2, <2>2, <2>3, TalliesStay DEF FreshRead
    <1> QED  BY <1>3, <1>4

LEMMA ReadThreadTallies ==
    ASSUME Routes, MessageInv, NEW r \in Requests, Serves(r, "messages"), ReadThread(r), MessageShape'
    PROVE  MessageInv'
    <1>1. /\ pc[r] = "idle" /\ UNCHANGED messageVars
          /\ MessageJob(r) /\ threads' = threads
        BY DEF ReadThread, Begins, MessageInv, MessageShape, Serves, messageVars
    <1>2. "seen" \notin DOMAIN job[r]
        BY <1>1 DEF MessageJob
    <1>3. CASE pc'[r] = "done" /\ job'[r] = job[r]
        BY <1>1, <1>2, <1>3, TalliesStay DEF FreshRead
    <1>4. ASSUME NEW t \in threadsOf(pairOf(r)), Goes(r, "readSave"),
                 Learns(r, [thread |-> t, doc |-> threads[t]])
          PROVE  MessageInv'
        <2>1. pc'[r] = "readSave"
            BY <1>4 DEF Goes, Routes
        <2>2. /\ "seen" \notin DOMAIN job'[r] /\ job'[r].thread = t /\ job'[r].doc = threads[t]
            BY <1>1, <1>4, ThreadLearned
        <2> QED  BY <1>1, <1>2, <2>1, <2>2, TalliesStay DEF FreshRead
    <1> QED  BY <1>3, <1>4 DEF ReadThread, Passes, Goes, Routes

LEMMA NoticeTallies ==
    ASSUME Routes, MessageInv, NEW r \in Requests, Serves(r, "messages"), SendNotice(r), MessageShape'
    PROVE  MessageInv'
    <1>1. /\ pc[r] = "sendNotice" /\ pc'[r] = "done" /\ UNCHANGED messageVars /\ job'[r] = job[r]
        BY DEF SendNotice, Passes, Goes, Routes
    <1>2. "seen" \notin DOMAIN job[r]
        BY <1>1, UnseenBySends DEF MessageInv, Serves
    <1> QED  BY <1>1, <1>2, TalliesStay DEF FreshRead

\* Who takes a step is the only one who writes.
LEMMA WritesAlone ==
    ASSUME Patience, load.patient, NEW r \in Requests, Serves(r, "messages"),
           NEW q \in Requests, q # r
    PROVE  pc[q] \notin {"sendMessage", "sendSave", "readSave"} /\ pc'[q] = pc[q]
    <1>1. ~UnderWay(q)
        BY TakesAlone DEF Serves
    <1> QED  BY <1>1 DEF UnderWay, Over, Serves

LEMMA OwedAlone ==
    ASSUME Patience, load.patient, NEW r \in Requests, Serves(r, "messages"), NEW u, NEW t
    PROVE  /\ Unwritten(u, t) = (IF pc[r] = "sendSave" /\ job[r].thread = t /\ call(r).to = u
                            THEN 1 ELSE 0)
           /\ Unwritten(u, t)' = (IF pc'[r] = "sendSave" /\ job'[r].thread = t /\ call(r).to = u
                             THEN 1 ELSE 0)
           /\ Awaited(t) <=> pc[r] \in {"sendMessage", "sendSave"} /\ job[r].thread = t
           /\ Awaited(t)' <=> pc'[r] \in {"sendMessage", "sendSave"} /\ job'[r].thread = t
    <1>1. \A q \in Requests : q # r => pc[q] \notin {"sendMessage", "sendSave"} /\ pc'[q] = pc[q]
        BY WritesAlone
    <1>2. Requests' = Requests /\ \A q : call(q)' = call(q)
        BY DEF Serves, Requests, call
    <1> QED  BY <1>1, <1>2 DEF Unwritten, Awaited

LEMMA FreshAlone ==
    ASSUME Patience, load.patient, NEW r \in Requests, Serves(r, "messages"), FreshRead(r)'
    PROVE  \A q \in Requests' : FreshRead(q)'
    <1>1. \A q \in Requests : q # r => pc'[q] \notin {"sendMessage", "sendSave", "readSave"}
        BY WritesAlone
    <1>2. Requests' = Requests
        BY DEF Serves, Requests
    <1> QED  BY <1>1, <1>2 DEF FreshRead

LEMMA CreateTallies ==
    ASSUME Routes, Patience, MessageInv, NEW r \in Requests, Serves(r, "messages"), SendCreate(r),
           MessageShape'
    PROVE  MessageInv'
    <1>1. /\ pc[r] = "sendCreate" /\ messages' = messages /\ MessageJob(r)
          /\ "seen" \notin DOMAIN job[r] /\ call(r).op \in Ops["messages"]
        BY DEF SendCreate, MessageInv, MessageShape, MessageJob, Serves
    <1>2. CASE threadsOf(pairOf(r)) # {}
        <2>1. pc'[r] = "sendWinner" /\ job'[r] = job[r] /\ UNCHANGED messageVars
            BY <1>1, <1>2 DEF SendCreate, Goes, Routes, messageVars
        <2> QED  BY <1>1, <2>1, TalliesStay DEF FreshRead
    <1>3. CASE threadsOf(pairOf(r)) = {}
        <2> DEFINE new == Thread(pairOf(r))
        <2>1. /\ new.pair = pairOf(r) /\ \A u \in pairOf(r) : new.unread[u] = 0
            BY DEF Thread
        <2>2. threads' = Put(threads, r, new) /\ Opens(r, r, new)
            BY <1>3 DEF SendCreate
        <2> HIDE DEF new
        <2>3. r \notin DOMAIN threads
            BY <1>1 DEF MessageInv, MessageShape, ThreadOk
        <2>4. /\ DOMAIN threads' = DOMAIN threads \cup {r} /\ threads'[r] = new
              /\ \A t \in DOMAIN threads : threads'[t] = threads[t]
            BY <2>2, <2>3 DEF Put
        <2>5. pc'[r] = "sendMessage" /\ Learns(r, [thread |-> r, doc |-> new])
            BY <2>2 DEF Opens, Goes, Routes
        <2>6. /\ "seen" \notin DOMAIN job'[r] /\ job'[r].thread = r /\ job'[r].doc = new
            BY <1>1, <2>5, ThreadLearned
        <2>7. FreshRead(r)'
            BY <2>4, <2>6 DEF FreshRead
        <2>8. \A u, t : Unseen(u, t)' = Unseen(u, t)
            BY <1>1, <2>6, UnseenStays
        <2>9. \A u : Unseen(u, r) = {}
            <3>1. \A m \in DOMAIN messages : messages[m].thread # r
                BY <2>3 DEF MessageInv, MessageShape, MessageOk
            <3> QED  BY <3>1 DEF Unseen
        <2>10. ASSUME load.patient, NEW t \in DOMAIN threads', \A s \in DOMAIN threads : TalliedThread(s)
               PROVE  TalliedThread(t)'
            <3>1. \A u : Unwritten(u, t) = 0 /\ Unwritten(u, t)' = 0
                BY <1>1, <2>5, <2>10, OwedAlone
            <3>2. Awaited(t)' \/ (t # r /\ ~Awaited(t))
                BY <1>1, <2>5, <2>6, <2>10, OwedAlone
            <3>3. CASE t = r
                <4>1. Cardinality({}) = 0
                    BY FS_EmptySet
                <4> QED  BY <2>1, <2>4, <2>8, <2>9, <3>1, <3>2, <3>3, <4>1 DEF TalliedThread
            <3>4. CASE t # r
                <4>1. t \in DOMAIN threads /\ threads'[t] = threads[t] /\ TalliedThread(t)
                    BY <2>4, <2>10, <3>4
                <4> QED  BY <1>1, <2>8, <3>1, <3>2, <4>1 DEF TalliedThread
            <3> QED  BY <3>3, <3>4
        <2>11. load' = load /\ stops' = stops
            BY DEF Serves
        <2> QED  BY <2>7, <2>10, <2>11, FreshAlone DEF MessageInv, Undisturbed
    <1> QED  BY <1>2, <1>3

LEMMA MessageTallied ==
    ASSUME Routes, Patience, MessageInv, NEW r \in Requests, Serves(r, "messages"), SendMessage(r),
           MessageShape'
    PROVE  MessageInv'
    <1>1. /\ pc[r] = "sendMessage" /\ pc'[r] = "sendSave" /\ threads' = threads
          /\ job'[r] = job[r] /\ r \notin DOMAIN messages /\ MessageJob(r)
          /\ DOMAIN messages' = DOMAIN messages \cup {r}
          /\ messages'[r].thread = job[r].thread
          /\ messages'[r].from = call(r).user /\ messages'[r].to = call(r).to
          /\ \A m \in DOMAIN messages : messages'[m] = messages[m]
        BY MessageSent DEF MessageInv
    <1>2. load' = load /\ stops' = stops /\ Requests' = Requests /\ \A q : call(q)' = call(q)
        BY DEF Serves, Requests, call
    <1>3. \A q \in Requests : /\ "seen" \in DOMAIN job'[q] => "seen" \in DOMAIN job[q]
                              /\ "seen" \in DOMAIN job[q] => job'[q] = job[q]
        BY <1>1 DEF Serves
    <1>4. \A q \in Requests : "seen" \in DOMAIN job[q] => r \notin job[q].seen
        BY <1>1, SeenByReads DEF MessageInv
    <1>5. ASSUME NEW u, NEW t
          PROVE  Unseen(u, t)' = IF t = job[r].thread /\ u = call(r).to
                                 THEN Unseen(u, t) \cup {r} ELSE Unseen(u, t)
        <2>1. \A m : Unread(m, u, t)' <=> (Unread(m, u, t)
                          \/ (m = r /\ t = job[r].thread /\ u = call(r).to))
            BY <1>1, <1>2, <1>3, <1>4 DEF Unread
        <2> QED  BY <2>1, UnseenIs
    <1>6. ASSUME NEW t \in DOMAIN threads, TalliedThread(t), load.patient
          PROVE  TalliedThread(t)'
        <2>1. ASSUME NEW u \in threads[t].pair
              PROVE  threads[t].unread[u] + Unwritten(u, t)' = Cardinality(Unseen(u, t)')
            <3>1. Unwritten(u, t) = 0
                BY <1>1, <1>6, OwedAlone
            <3>2. Unwritten(u, t)' = IF job[r].thread = t /\ call(r).to = u THEN 1 ELSE 0
                BY <1>1, <1>6, OwedAlone
            <3>3. threads[t].unread[u] \in Nat
                BY DEF MessageInv, MessageShape, ThreadOk
            <3>4. Cardinality(Unseen(u, t)) = threads[t].unread[u]
                BY <1>6, <3>1, <3>3 DEF TalliedThread
            <3>5. IsFiniteSet(Unseen(u, t))
                BY UnseenFinite DEF MessageInv
            <3>6. r \notin Unseen(u, t)
                BY <1>1 DEF Unseen
            <3>7. Cardinality(Unseen(u, t) \cup {r}) = Cardinality(Unseen(u, t)) + 1
                BY <3>5, <3>6, FS_AddElement
            <3>8. CASE t = job[r].thread /\ u = call(r).to
                <4>1. Unseen(u, t)' = Unseen(u, t) \cup {r}
                    BY <1>5, <3>8
                <4> QED  BY <3>2, <3>4, <3>7, <3>8, <4>1
            <3>9. CASE ~(t = job[r].thread /\ u = call(r).to)
                <4>1. Unseen(u, t)' = Unseen(u, t)
                    BY <1>5, <3>9
                <4> QED  BY <3>2, <3>3, <3>4, <3>9, <4>1
            <3> QED  BY <3>8, <3>9
        <2>2. \/ Awaited(t)'
              \/ threads[t].last \in DOMAIN messages' /\ messages'[threads[t].last].thread = t
            <3>1. Awaited(t)' <=> Awaited(t)
                BY <1>1, <1>6, OwedAlone
            <3> QED  BY <1>1, <1>6, <3>1 DEF TalliedThread
        <2> QED  BY <1>1, <2>1, <2>2 DEF TalliedThread
    <1>7. FreshRead(r)' <=> FreshRead(r)
        BY <1>1 DEF FreshRead
    <1> QED  BY <1>1, <1>2, <1>6, <1>7, FreshAlone DEF MessageInv, Undisturbed

LEMMA SendSaveTallies ==
    ASSUME Routes, Patience, MessageInv, NEW r \in Requests, Serves(r, "messages"), SendSave(r),
           MessageShape'
    PROVE  MessageInv'
    <1> DEFINE mine == job[r].thread
    <1>1. /\ pc[r] = "sendSave" /\ pc'[r] = "sendNotice" /\ messages' = messages
          /\ job'[r] = job[r] /\ MessageJob(r) /\ mine \in DOMAIN threads
          /\ threads[mine].pair = pairOf(r)
          /\ Rewrites(mine) /\ threads'[mine].last = r
          /\ \A u \in pairOf(r) :
                threads'[mine].unread[u] =
                    IF u = call(r).to THEN job[r].doc.unread[u] + 1 ELSE threads[mine].unread[u]
        BY SendSaved DEF MessageInv
    <1>2. load' = load /\ stops' = stops /\ Requests' = Requests
        BY DEF Serves, Requests
    <1>3. "seen" \notin DOMAIN job[r]
        BY <1>1, UnseenBySends DEF MessageInv, Serves
    <1>4. \A u, t : Unseen(u, t)' = Unseen(u, t)
        BY <1>1, <1>3, UnseenStays
    <1>5. r \in DOMAIN messages /\ messages[r].thread = mine
        BY <1>1 DEF MessageJob
    <1>6. FreshRead(r)'
        BY <1>1 DEF FreshRead
    <1> HIDE DEF mine
    <1>7. ASSUME NEW t \in DOMAIN threads, TalliedThread(t), load.patient, FreshRead(r)
          PROVE  TalliedThread(t)'
        <2>1. \A u : Unwritten(u, t)' = 0
            BY <1>1, <1>7, OwedAlone
        <2>2. CASE t # mine
            <3>1. (\A u : Unwritten(u, t) = 0) /\ ~Awaited(t)
                BY <1>7, <2>2, OwedAlone DEF mine
            <3>2. threads'[t] = threads[t]
                BY <1>1, <2>2 DEF Rewrites
            <3> QED  BY <1>1, <1>4, <1>7, <2>1, <3>1, <3>2 DEF TalliedThread
        <2>3. CASE t = mine
            <3>1. job[r].doc = threads[mine]
                BY <1>1, <1>7 DEF FreshRead, mine
            <3>2. ASSUME NEW u \in threads'[t].pair
                  PROVE  threads'[t].unread[u] + Unwritten(u, t)' = Cardinality(Unseen(u, t)')
                <4>1. u \in pairOf(r) /\ u \in threads[t].pair
                    BY <1>1, <2>3, <3>2 DEF Rewrites
                <4>2. Unwritten(u, t) = IF u = call(r).to THEN 1 ELSE 0
                    BY <1>1, <1>7, <2>3, OwedAlone DEF mine
                <4>3. threads[t].unread[u] \in Nat
                    BY <4>1 DEF MessageInv, MessageShape, ThreadOk
                <4>4. threads[t].unread[u] + Unwritten(u, t) = Cardinality(Unseen(u, t))
                    BY <1>7, <4>1 DEF TalliedThread
                <4>5. threads'[t].unread[u] = threads[t].unread[u] + Unwritten(u, t)
                    BY <1>1, <2>3, <3>1, <4>1, <4>2, <4>3
                <4>6. threads[t].unread[u] + Unwritten(u, t) \in Nat
                    BY <4>2, <4>3
                <4> QED  BY <1>4, <2>1, <4>4, <4>5, <4>6
            <3> QED  BY <1>1, <1>5, <2>3, <3>2 DEF TalliedThread
        <2> QED  BY <2>2, <2>3
    <1>8. DOMAIN threads' = DOMAIN threads
        BY <1>1 DEF Rewrites
    <1> QED  BY <1>2, <1>6, <1>7, <1>8, FreshAlone DEF MessageInv, Undisturbed

LEMMA ReadSaveTallies ==
    ASSUME Routes, Patience, MessageInv, NEW r \in Requests, Serves(r, "messages"), ReadSave(r),
           MessageShape'
    PROVE  MessageInv'
    <1> DEFINE mine == job[r].thread
    <1>1. /\ pc[r] = "readSave" /\ pc'[r] = "done" /\ messages' = messages
          /\ MessageJob(r) /\ mine \in DOMAIN threads
          /\ threads[mine].pair = pairOf(r)
          /\ Rewrites(mine) /\ threads'[mine].last = threads[mine].last
          /\ \A u \in pairOf(r) :
                threads'[mine].unread[u] =
                    IF u = call(r).user /\ job[r].doc.unread[u] # 0 THEN 0
                    ELSE threads[mine].unread[u]
          /\ "seen" \in DOMAIN job'[r]
          /\ job'[r].seen = {m \in DOMAIN messages : messages[m].thread = mine}
        BY ReadSaved DEF MessageInv
    <1>2. load' = load /\ stops' = stops /\ Requests' = Requests /\ \A q : call(q)' = call(q)
        BY DEF Serves, Requests, call
    <1>3. "seen" \notin DOMAIN job[r]
        BY <1>1, UnseenBySends DEF MessageInv, Serves
    <1>4. FreshRead(r)'
        BY <1>1 DEF FreshRead
    <1> HIDE DEF mine
    <1>5. ASSUME NEW u, NEW t
          PROVE  Unseen(u, t)' = IF t = mine /\ u = call(r).user THEN {} ELSE Unseen(u, t)
        <2>1. \A m : Unread(m, u, t)' <=>
                        Unread(m, u, t) /\ ~(messages[m].thread = mine /\ u = call(r).user)
            BY <1>1, <1>2, <1>3 DEF Unread, Serves
        <2>2. CASE t = mine /\ u = call(r).user
            <3>1. \A m : ~Unread(m, u, t)'
                BY <2>1, <2>2 DEF Unread
            <3>2. \A m : m \notin Unseen(u, t)'
                BY <3>1, UnseenIs
            <3> QED  BY <2>2, <3>2
        <2>3. CASE ~(t = mine /\ u = call(r).user)
            <3>1. \A m : Unread(m, u, t)' <=> Unread(m, u, t)
                BY <2>1, <2>3 DEF Unread
            <3>2. Unseen(u, t)' = Unseen(u, t)
                BY <3>1, UnseenSame
            <3> QED  BY <2>3, <3>2
        <2> QED  BY <2>2, <2>3
    <1>6. ASSUME NEW t \in DOMAIN threads, TalliedThread(t), load.patient, FreshRead(r)
          PROVE  TalliedThread(t)'
        <2>1. \A u : Unwritten(u, t) = 0 /\ Unwritten(u, t)' = 0
            BY <1>1, <1>6, OwedAlone
        <2>2. ~Awaited(t)
            BY <1>1, <1>6, OwedAlone
        <2>3. threads[t].last \in DOMAIN messages /\ messages[threads[t].last].thread = t
            BY <1>6, <2>2 DEF TalliedThread
        <2>4. CASE t # mine
            <3>1. threads'[t] = threads[t]
                BY <1>1, <2>4 DEF Rewrites
            <3>2. \A u : Unseen(u, t)' = Unseen(u, t)
                BY <1>5, <2>4
            <3> QED  BY <1>1, <1>6, <2>1, <2>3, <3>1, <3>2 DEF TalliedThread
        <2>5. CASE t = mine
            <3>1. job[r].doc = threads[mine]
                BY <1>1, <1>6 DEF FreshRead, mine
            <3>2. ASSUME NEW u \in threads'[t].pair
                  PROVE  threads'[t].unread[u] + Unwritten(u, t)' = Cardinality(Unseen(u, t)')
                <4>1. u \in pairOf(r) /\ u \in threads[t].pair
                    BY <1>1, <2>5, <3>2 DEF Rewrites
                <4>2. threads[t].unread[u] \in Nat
                    BY <4>1 DEF MessageInv, MessageShape, ThreadOk
                <4>3. threads[t].unread[u] = Cardinality(Unseen(u, t))
                    BY <1>6, <2>1, <4>1, <4>2 DEF TalliedThread
                <4>4. threads'[t].unread[u] = IF u = call(r).user THEN 0 ELSE threads[t].unread[u]
                    BY <1>1, <2>5, <3>1, <4>1, <4>2
                <4>5. CASE u = call(r).user
                    <5>1. Unseen(u, t)' = {}
                        BY <1>5, <2>5, <4>5
                    <5> QED  BY <2>1, <4>4, <4>5, <5>1, FS_EmptySet
                <4>6. CASE u # call(r).user
                    <5>1. Unseen(u, t)' = Unseen(u, t)
                        BY <1>5, <4>6
                    <5> QED  BY <2>1, <4>2, <4>3, <4>4, <4>6, <5>1
                <4> QED  BY <4>5, <4>6
            <3> QED  BY <1>1, <2>3, <2>5, <3>2 DEF TalliedThread
        <2> QED  BY <2>4, <2>5
    <1>7. DOMAIN threads' = DOMAIN threads
        BY <1>1 DEF Rewrites
    <1> QED  BY <1>2, <1>4, <1>6, <1>7, FreshAlone DEF MessageInv, Undisturbed

LEMMA MessagesKeep ==
    ASSUME Routes, Patience, MessageInv, NEW r \in Requests, Serves(r, "messages"), MessagesStep(r),
           MessageShape'
    PROVE  MessageInv'
    BY SendTallies, FindTallies, CreateTallies, MessageTallied, SendSaveTallies, NoticeTallies,
       ReadThreadTallies, ReadSaveTallies
    DEF MessagesStep

\* A step of the other services, or of nobody.
LEMMA TallyIdles ==
    ASSUME Routes, Routes', MessageInv, MessageShape', load' = load, stops' = stops,
           UNCHANGED messageVars,
           \A q \in Requests : call(q).op \in Ops["messages"] => pc'[q] = pc[q] /\ job'[q] = job[q]
    PROVE  MessageInv'
    <1>1. /\ Requests' = Requests /\ threads' = threads /\ messages' = messages
          /\ \A q : call(q)' = call(q)
        BY DEF Requests, call, messageVars
    <1>2. ASSUME NEW q \in Requests, call(q).op \notin Ops["messages"]
          PROVE  /\ "seen" \notin DOMAIN job[q] /\ "seen" \notin DOMAIN job'[q]
                 /\ pc[q] \notin {"sendMessage", "sendSave", "readSave"}
                 /\ pc'[q] \notin {"sendMessage", "sendSave", "readSave"}
        <2>1. /\ \A x \in DOMAIN job[q] : Read(q, x)
              /\ \A x \in DOMAIN job'[q] : Read(q, x)
              /\ Routed(q, pc[q]) /\ Routed(q, pc'[q])
            BY <1>1 DEF Routes, Read, Routed
        <2>2. ~Read(q, "seen")
            BY <1>2 DEF Read, Services, Fields
        <2>3. \A p \in {"sendMessage", "sendSave", "readSave"} : p \in Places["messages"]
            BY DEF Places
        <2> QED  BY <1>2, <2>1, <2>2, <2>3 DEF Routed, Services
    <1>3. ASSUME NEW u, NEW t  PROVE Unseen(u, t)' = Unseen(u, t)
        <2>1. \A m : Unread(m, u, t)' <=> Unread(m, u, t)
            BY <1>1, <1>2 DEF Unread
        <2> QED  BY <2>1, UnseenSame
    <1>4. \A u, t : Unwritten(u, t)' = Unwritten(u, t) /\ (Awaited(t)' <=> Awaited(t))
        BY <1>1, <1>2 DEF Unwritten, Awaited
    <1>5. ASSUME NEW t \in DOMAIN threads, TalliedThread(t)  PROVE TalliedThread(t)'
        BY <1>1, <1>3, <1>4, <1>5 DEF TalliedThread
    <1>6. ASSUME NEW q \in Requests, FreshRead(q)  PROVE FreshRead(q)'
        BY <1>1, <1>2, <1>6 DEF FreshRead
    <1> QED  BY <1>1, <1>5, <1>6 DEF MessageInv, Undisturbed

LEMMA MessageStep ==
    ASSUME Routes, Patience, MessageInv, [Next]_vars
    PROVE  MessageInv'
    <1>1. Routes' /\ "messages" \in Services /\ DOMAIN inbox \subseteq DOMAIN inbox'
        BY RoutesStep, InboxGrows DEF Services
    <1>2. ASSUME NEW r \in Requests, Steps("messages", r), Serves(r, "messages")
          PROVE  MessageInv'
        <2>1. MessagesStep(r)
            BY <1>2 DEF Steps
        <2>2. MessageShape'
            BY <1>1, <1>2, <2>1, MessagesShape DEF MessageInv
        <2> QED  BY <1>2, <2>1, <2>2, MessagesKeep
    <1>3. ASSUME NEW r \in Requests, Halts(r), Untouched("messages")  PROVE MessageInv'
        <2>1. UNCHANGED messageVars /\ load' = load
            BY <1>3 DEF Untouched, Halts
        <2>2. MessageShape'
            <3>1. CASE call(r).op \in Ops["messages"]
                BY <1>1, <1>3, <2>1, <3>1, MessageHalts DEF MessageInv
            <3>2. CASE call(r).op \notin Ops["messages"]
                BY <1>1, <1>3, <2>1, <3>2, MessageIdles DEF MessageInv, Halts
            <3> QED  BY <3>1, <3>2
        <2>3. stops \in Nat /\ stops' = stops + 1
            BY <1>3 DEF MessageInv, Halts
        <2>4. stops' \in Nat /\ stops' # 0
            BY <2>3
        <2> QED  BY <2>2, <2>4 DEF MessageInv, Undisturbed
    <1>4. ASSUME Quiet("messages"), Untouched("messages")  PROVE MessageInv'
        <2>1. /\ UNCHANGED messageVars /\ load' = load /\ stops' = stops
              /\ \A q \in Requests :
                    call(q).op \in Ops["messages"] => pc'[q] = pc[q] /\ job'[q] = job[q]
            BY <1>4 DEF Untouched, Quiet
        <2>2. MessageShape'
            BY <1>1, <2>1, MessageIdles DEF MessageInv
        <2> QED  BY <1>1, <2>1, <2>2, TallyIdles
    <1> QED  BY <1>1, <1>2, <1>3, <1>4, StepsTo

\* sendMessage and markRead: the messages of two people are in one thread, however the first
\* ones overlap, an answered one has left its notice; and among users who wait for each other
\* the counters are the messages not read yet.
THEOREM ThreadsAlwaysHold == Spec => []ThreadsHold
    <1> DEFINE I == Routes /\ Patience /\ MessageInv
    <1>1. Init => I
        <2> SUFFICES ASSUME Init  PROVE I
            OBVIOUS
        <2>1. DOMAIN threads = {} /\ stops = 0 /\ \A r \in Requests : pc[r] = "idle"
            BY DEF Init, MessagesInit, ServiceInit, Requests
        <2>2. MessageInv
            BY <2>1, MessageInit DEF MessageInv, FreshRead
        <2> QED  BY <2>2, RoutesInit, PatienceInit
    <1>2. I /\ [Next]_vars => I'
        BY RoutesStep, PatienceStep, MessageStep
    <1>3. I => ThreadsHold
        <2> SUFFICES ASSUME I  PROVE ThreadsHold
            OBVIOUS
        <2>1. ASSUME NEW m \in DOMAIN messages
              PROVE  /\ threadsOf({messages[m].from, messages[m].to}) = {messages[m].thread}
                     /\ pc[m] = "done" => <<m, messages[m].to>> \in DOMAIN inbox
            <3>1. MessageOk(m) /\ OneThread
                BY DEF MessageInv, MessageShape
            <3>2. /\ messages[m].thread \in DOMAIN threads
                  /\ threads[messages[m].thread].pair = {messages[m].from, messages[m].to}
                BY <3>1 DEF MessageOk, pairOf
            <3> QED  BY <3>1, <3>2 DEF threadsOf, OneThread, MessageOk
        <2>2. ASSUME load.patient, stops = 0, \A r \in Requests : pc[r] \in Over \cup {"idle"},
                     NEW t \in DOMAIN threads
              PROVE  /\ messages[threads[t].last].thread = t
                     /\ \A u \in threads[t].pair : threads[t].unread[u] = Cardinality(Unseen(u, t))
            <3>1. TalliedThread(t)
                BY <2>2 DEF MessageInv, Undisturbed
            <3>2. ~Awaited(t) /\ \A u : Unwritten(u, t) = 0
                BY <2>2 DEF Awaited, Unwritten, Over
            <3>3. \A u \in threads[t].pair : threads[t].unread[u] \in Nat
                BY DEF MessageInv, MessageShape, ThreadOk
            <3> QED  BY <3>1, <3>2, <3>3 DEF TalliedThread
        <2> QED  BY <2>1, <2>2 DEF ThreadsHold
    <1> QED  BY <1>1, <1>2, <1>3, PTL DEF Spec

------------------------------------------------------------------------------
\* The stage: seats, their microphones and cameras.

MicFields == {"user", "muted", "by", "video", "locked"}

\* Where the calls that write to a seat are, and what a save of one writes.
StageJob(r) ==
    /\ pc[r] \in {"takeMicClaim", "takeMicVacate", "takeMicClear"} => call(r).op = "takeMic"
    /\ pc[r] = "leaveMics" => call(r).op = "leaveStage"
    /\ pc[r] = "kickMicSave" => call(r).op = "kickMic"
    /\ call(r).op = "mute" => pc[r] \in {"idle", "micSave", "done", "failed", "stopped"}
    /\ pc[r] = "micSave" =>
          /\ call(r).op \in {"mute", "video"} /\ mic(r) \in Mics
          /\ "doc" \in DOMAIN job[r] /\ "new" \in DOMAIN job[r]
          /\ job[r].new.user = job[r].doc.user /\ job[r].new.locked = job[r].doc.locked
          /\ call(r).op = "mute" => job[r].new.video = job[r].doc.video
          /\ call(r).op = "video" => /\ HasCamera(mic(r))
                                     /\ job[r].new.muted = job[r].doc.muted
                                     /\ job[r].new.by = job[r].doc.by

IsSeat(seat) == seat = [x \in MicFields |-> seat[x]]

MicOk(s) == IsSeat(mics[s]) /\ (mics[s].video => HasCamera(s))

\* Among patient users: a seat somebody left is quiet, a mute has an author.
MicQuiet(s) ==
    /\ mics[s].user = Nobody => mics[s] = Clear(mics[s])
    /\ mics[s].muted <=> mics[s].by # "none"

\* Whoever sits somewhere has taken that seat.
MicTaken(s) ==
    mics[s].user # Nobody =>
        \E q \in Requests : call(q).op = "takeMic" /\ call(q).user = mics[s].user /\ mic(q) = s

\* What a save writes is still what the call saw.
FreshMic(r) ==
    pc[r] = "micSave" =>
        /\ job[r].doc = mics[mic(r)] /\ MayTouch(r)
        /\ call(r).op = "mute" =>
              ~HostMuted(r) /\ job[r].new.muted = call(r).on /\ job[r].new.by = MutedBy(r)

\* r has muted a seat by force.
HardMute(r) == call(r).op = "mute" /\ call(r).on /\ ~call(r).soft

Silenced(r) ==
    HardMute(r) /\ pc[r] = "done" =>
        /\ mic(r) \in Mics /\ mics[mic(r)].user # Nobody
        /\ mics[mic(r)].user # call(r).by /\ Unhelped(r) =>
              mics[mic(r)].muted /\ mics[mic(r)].by = "host"

SteadyInv == (\A s \in Mics : MicTaken(s)) /\ \A r \in Requests : Silenced(r)

StageInv ==
    /\ DOMAIN mics = Mics /\ \A s \in Mics : MicOk(s)
    /\ \A r \in Requests : StageJob(r)
    /\ load.patient =>
          /\ \A s \in Mics : MicQuiet(s)
          /\ \A r \in Requests : FreshMic(r)
          /\ Steady => SteadyInv

Claimed(seat, u, on) == Override(Clear(seat), [user |-> u, video |-> on])

\* How a step leaves a seat to its holder, or empties it.
SameMic(s) ==
    /\ IsSeat(mics'[s]) /\ mics'[s].user = mics[s].user /\ mics'[s].muted = mics[s].muted
    /\ mics'[s].by = mics[s].by /\ mics'[s].video = mics[s].video

ClearedMic(s) == mics'[s] = Clear(mics[s])

\* A cleared seat.
LEMMA ClearIs ==
    ASSUME NEW seat, DOMAIN seat = MicFields
    PROVE  /\ DOMAIN Clear(seat) = MicFields /\ Clear(seat).user = Nobody
           /\ Clear(seat).muted = FALSE /\ Clear(seat).by = "none"
           /\ Clear(seat).video = FALSE /\ Clear(seat).locked = seat.locked
           /\ Clear(Clear(seat)) = Clear(seat)
    <1>1. /\ DOMAIN EmptyMic = {"user", "muted", "by", "video"}
          /\ EmptyMic.user = Nobody /\ EmptyMic.muted = FALSE
          /\ EmptyMic.by = "none" /\ EmptyMic.video = FALSE
        BY DEF EmptyMic
    <1>2. ASSUME NEW g, DOMAIN g = MicFields
          PROVE  /\ DOMAIN Clear(g) = MicFields
                 /\ \A x \in MicFields :
                       Clear(g)[x] = IF x \in DOMAIN EmptyMic THEN EmptyMic[x] ELSE g[x]
        BY <1>1, <1>2 DEF Clear, Override, MicFields
    <1>3. /\ DOMAIN Clear(seat) = MicFields /\ DOMAIN Clear(Clear(seat)) = MicFields
          /\ \A x \in MicFields : Clear(Clear(seat))[x] = Clear(seat)[x]
        BY <1>2
    <1>4. Clear(Clear(seat)) = Clear(seat)
        BY <1>1, <1>3 DEF Clear, Override
    <1> QED  BY <1>1, <1>2, <1>4 DEF MicFields

LEMMA SeatIs ==
    ASSUME NEW seat, IsSeat(seat)
    PROVE  DOMAIN seat = MicFields
    BY DEF IsSeat

\* A seat is quiet or not by its fields.
LEMMA QuietIs ==
    ASSUME NEW seat, IsSeat(seat)
    PROVE  /\ IsSeat(Clear(seat))
           /\ seat = Clear(seat) <=> /\ seat.user = Nobody /\ seat.muted = FALSE
                                     /\ seat.by = "none" /\ seat.video = FALSE
    <1>1. /\ DOMAIN EmptyMic = {"user", "muted", "by", "video"}
          /\ EmptyMic.user = Nobody /\ EmptyMic.muted = FALSE
          /\ EmptyMic.by = "none" /\ EmptyMic.video = FALSE
        BY DEF EmptyMic
    <1>2. DOMAIN seat = MicFields
        BY SeatIs
    <1>3. Clear(seat) = [x \in MicFields |-> IF x \in DOMAIN EmptyMic THEN EmptyMic[x] ELSE seat[x]]
        BY <1>1, <1>2 DEF Clear, Override, MicFields
    <1>4. IsSeat(Clear(seat))
        BY <1>3 DEF IsSeat
    <1>5. ASSUME seat.user = Nobody, seat.muted = FALSE, seat.by = "none", seat.video = FALSE
          PROVE  seat = Clear(seat)
        <2>1. \A x \in MicFields : seat[x] = Clear(seat)[x]
            BY <1>1, <1>3, <1>5 DEF MicFields
        <2> QED  BY <1>4, <2>1 DEF IsSeat
    <1>6. /\ Clear(seat).user = Nobody /\ Clear(seat).muted = FALSE
          /\ Clear(seat).by = "none" /\ Clear(seat).video = FALSE
        BY <1>2, ClearIs
    <1> QED  BY <1>4, <1>5, <1>6

\* What the steps write to a seat.
LEMMA LockedIs ==
    ASSUME NEW seat, IsSeat(seat), NEW on
    PROVE  LET new == [seat EXCEPT !.locked = on] IN
           /\ IsSeat(new) /\ new.user = seat.user /\ new.muted = seat.muted
           /\ new.by = seat.by /\ new.video = seat.video
    BY SeatIs DEF IsSeat, MicFields

LEMMA ClaimedIs ==
    ASSUME NEW seat, NEW u, NEW on, IsSeat(seat)
    PROVE  /\ IsSeat(Claimed(seat, u, on))
           /\ Claimed(seat, u, on).user = u /\ ~Claimed(seat, u, on).muted
           /\ Claimed(seat, u, on).by = "none" /\ Claimed(seat, u, on).video = on
    <1> DEFINE f == [user |-> u, video |-> on]
    <1>1. DOMAIN f = {"user", "video"} /\ f.user = u /\ f.video = on
        OBVIOUS
    <1> HIDE DEF f
    <1>2. /\ DOMAIN Clear(seat) = MicFields /\ Clear(seat).muted = FALSE /\ Clear(seat).by = "none"
        BY SeatIs, ClearIs
    <1>3. Override(Clear(seat), f) =
              [x \in MicFields |-> IF x \in DOMAIN f THEN f[x] ELSE Clear(seat)[x]]
        BY <1>1, <1>2 DEF Override, MicFields
    <1>4. IsSeat(Override(Clear(seat), f))
        BY <1>3 DEF IsSeat
    <1>5. LET new == Override(Clear(seat), f) IN
          /\ new.user = u /\ new.muted = FALSE /\ new.by = "none" /\ new.video = on
        BY <1>1, <1>2, <1>3 DEF MicFields
    <1> QED  BY <1>4, <1>5 DEF f, Claimed

LEMMA SavedIs ==
    ASSUME NEW seat, IsSeat(seat), NEW doc1, NEW new1
    PROVE  LET saved == Saves(seat, doc1, new1) IN
           /\ IsSeat(saved)
           /\ \A x \in MicFields : saved[x] = IF new1[x] # doc1[x] THEN new1[x] ELSE seat[x]
    BY SeatIs DEF Saves, IsSeat

\* Among patient users nobody else is under way.
LEMMA StageAlone ==
    ASSUME Patience, load.patient, NEW r \in Requests, Serves(r, "stage"), NEW q \in Requests, q # r
    PROVE  pc[q] # "micSave" /\ pc'[q] # "micSave"
    <1>1. ~UnderWay(q) /\ pc'[q] = pc[q]
        BY TakesAlone DEF Serves
    <1> QED  BY <1>1 DEF UnderWay, Over

LEMMA StageSame ==
    ASSUME load' = load
    PROVE  /\ Requests' = Requests /\ (Steady' <=> Steady)
           /\ \A q : call(q)' = call(q) /\ mic(q)' = mic(q) /\ (HardMute(q)' <=> HardMute(q))
    BY DEF Requests, call, mic, Steady, HardMute

LEMMA StageJobStays ==
    ASSUME load' = load, NEW q, pc'[q] = pc[q], job'[q] = job[q], StageJob(q)
    PROVE  StageJob(q)'
    <1>1. call(q)' = call(q) /\ mic(q)' = mic(q)
        BY DEF call, mic
    <1> QED  BY <1>1 DEF StageJob, HasCamera, Mics

LEMMA StageKeeps ==
    ASSUME Routes, Patience, StageInv, NEW r \in Requests, Serves(r, "stage"),
           DOMAIN mics' = Mics, \A s \in Mics : MicOk(s)', StageJob(r)',
           load.patient => (\A s \in Mics : MicQuiet(s)') /\ FreshMic(r)' /\ (Steady => SteadyInv')
    PROVE  StageInv'
    <1>1. /\ load' = load /\ Requests' = Requests /\ (Steady' <=> Steady)
          /\ \A q \in Requests : q # r => pc'[q] = pc[q] /\ job'[q] = job[q]
        BY StageSame DEF Serves
    <1>2. ASSUME NEW q \in Requests  PROVE StageJob(q)'
        <2>1. CASE q # r
            BY <1>1, <2>1, StageJobStays DEF StageInv
        <2> QED  BY <2>1
    <1>3. ASSUME load.patient, NEW q \in Requests  PROVE FreshMic(q)'
        <2>1. CASE q # r
            BY <1>3, <2>1, StageAlone DEF FreshMic
        <2> QED  BY <1>3, <2>1
    <1>4. Mics' = Mics
        BY DEF Mics
    <1> QED  BY <1>1, <1>2, <1>3, <1>4 DEF StageInv

LEMMA SameMicKeeps ==
    ASSUME NEW s, SameMic(s), MicOk(s)
    PROVE  MicOk(s)' /\ (MicQuiet(s) => MicQuiet(s)')
    <1>1. MicOk(s)'
        BY DEF SameMic, MicOk, HasCamera
    <1>2. ASSUME MicQuiet(s)  PROVE MicQuiet(s)'
        <2>1. mics'[s].user = Nobody => mics'[s] = Clear(mics'[s])
            BY <1>2, QuietIs DEF MicQuiet, MicOk, SameMic
        <2> QED  BY <1>2, <2>1 DEF MicQuiet, SameMic
    <1> QED  BY <1>1, <1>2

LEMMA ClearedMicKeeps ==
    ASSUME NEW s, ClearedMic(s), MicOk(s)
    PROVE  MicOk(s)' /\ MicQuiet(s)'
    <1>1. DOMAIN mics[s] = MicFields
        BY SeatIs DEF MicOk
    <1>2. /\ mics'[s].muted = FALSE /\ mics'[s].by = "none" /\ mics'[s].video = FALSE
          /\ mics'[s] = Clear(mics'[s]) /\ IsSeat(mics'[s])
        BY <1>1, ClearIs, QuietIs DEF ClearedMic, MicOk
    <1> QED  BY <1>2 DEF MicOk, MicQuiet

\* Steady seats keep their holders.
LEMMA SteadyKeeps ==
    ASSUME StageInv, NEW r \in Requests, Serves(r, "stage"), SteadyInv,
           \A s \in Mics : SameMic(s), pc'[r] = "done" => call(r).op # "mute"
    PROVE  SteadyInv'
    <1>1. /\ load' = load /\ Requests' = Requests /\ Mics' = Mics
          /\ \A q : call(q)' = call(q) /\ mic(q)' = mic(q) /\ (HardMute(q)' <=> HardMute(q))
          /\ \A q \in Requests : q # r => pc'[q] = pc[q]
        BY StageSame DEF Serves, Mics
    <1>2. ASSUME NEW s \in Mics  PROVE MicTaken(s)'
        BY <1>1 DEF MicTaken, SteadyInv, SameMic
    <1>3. ASSUME NEW q \in Requests  PROVE Silenced(q)'
        <2>1. CASE q = r
            BY <1>1, <2>1 DEF Silenced, HardMute
        <2>2. CASE q # r
            <3>1. mic(q) \in Mics =>
                    (SameMic(mic(q)) /\ (Unhelped(q)' <=> Unhelped(q)))
                BY <1>1 DEF Unhelped, SameMic
            <3> QED  BY <1>1, <2>2, <3>1 DEF SteadyInv, Silenced, SameMic
        <2> QED  BY <2>1, <2>2
    <1> QED  BY <1>1, <1>2, <1>3 DEF SteadyInv

LEMMA MicsKeep ==
    ASSUME Routes, Patience, StageInv, NEW r \in Requests, Serves(r, "stage"),
           DOMAIN mics' = Mics, \A s \in Mics : SameMic(s) \/ ClearedMic(s),
           load.patient /\ Steady => \A s \in Mics : SameMic(s),
           load.patient => FreshMic(r)', StageJob(r)', pc'[r] = "done" => call(r).op # "mute"
    PROVE  StageInv'
    <1>1. \A s \in Mics : MicOk(s)' /\ (load.patient => MicQuiet(s)')
        BY SameMicKeeps, ClearedMicKeeps DEF StageInv
    <1>2. load.patient /\ Steady => SteadyInv'
        BY SteadyKeeps DEF StageInv
    <1> QED  BY <1>1, <1>2, StageKeeps

\* A step that leaves the seats alone.
LEMMA StageMoves ==
    ASSUME Routes, Patience, StageInv, NEW r \in Requests, Serves(r, "stage"),
           mics' = mics, pc'[r] # "micSave", StageJob(r)', pc'[r] = "done" => call(r).op # "mute"
    PROVE  StageInv'
    <1>1. \A s \in Mics : SameMic(s)
        BY DEF SameMic, StageInv, MicOk
    <1>2. FreshMic(r)'
        BY DEF FreshMic
    <1> QED  BY <1>1, <1>2, MicsKeep DEF StageInv

\* The steps that leave the seats alone.
LEMMA LooksKeepStage ==
    ASSUME Routes, Patience, StageInv, NEW r \in Requests, Serves(r, "stage"),
           \/ EnterStage(r) \/ LeaveStage(r) \/ TakeMic(r) \/ TakeMicVacate(r)
           \/ LockMic(r) \/ KickMic(r) \/ SetPolicies(r) \/ PoliciesSave(r)
           \/ SendChat(r) \/ ChatCreate(r) \/ CleanChat(r) \/ CleanChatSave(r)
    PROVE  StageInv'
    <1> DEFINE Aside ==
            /\ mics' = mics /\ call(r).op # "mute"
            /\ pc'[r] \in {"takeMicClaim", "takeMicVacate", "takeMicClear"} => call(r).op = "takeMic"
            /\ pc'[r] = "leaveMics" => call(r).op = "leaveStage"
            /\ pc'[r] = "kickMicSave" => call(r).op = "kickMic"
            /\ pc'[r] # "micSave"
    <1>1. StageJob(r) /\ DOMAIN pc = Requests
        BY DEF StageInv, Routes
    <1> USE DEF Begins, Passes, Goes
    <1>2. ASSUME EnterStage(r) \/ LeaveStage(r)  PROVE Aside
        BY <1>1, <1>2 DEF EnterStage, LeaveStage
    <1>3. ASSUME TakeMic(r) \/ TakeMicVacate(r)  PROVE Aside
        BY <1>1, <1>3 DEF TakeMic, TakeMicVacate, StageJob
    <1>4. ASSUME LockMic(r) \/ KickMic(r)  PROVE Aside
        BY <1>1, <1>4 DEF LockMic, KickMic
    <1>5. ASSUME SetPolicies(r) \/ PoliciesSave(r)  PROVE Aside
        BY <1>1, <1>5 DEF SetPolicies, PoliciesSave, StageJob
    <1>6. ASSUME SendChat(r) \/ ChatCreate(r) \/ CleanChat(r) \/ CleanChatSave(r)  PROVE Aside
        BY <1>1, <1>6 DEF SendChat, ChatCreate, CleanChat, CleanChatSave, OnlyLines, StageJob
    <1>7. Aside
        BY <1>2, <1>3, <1>4, <1>5, <1>6
    <1>8. StageJob(r)'
        BY <1>7 DEF StageJob, Serves, call
    <1> QED  BY <1>7, <1>8, StageMoves

\* Invitations and call requests leave the seats alone.
LEMMA CallsKeepStage ==
    ASSUME Routes, Patience, StageInv, NEW r \in Requests, Serves(r, "stage"),
           \/ Invite(r) \/ InviteSeat(r) \/ InvitePresent(r)
           \/ AskCall(r) \/ AskSeated(r) \/ AskUpsert(r)
           \/ ApproveCall(r) \/ ApproveExpired(r) \/ ApproveDelete(r)
           \/ DenyCall(r) \/ DenyDelete(r) \/ CancelCall(r)
    PROVE  StageInv'
    <1> DEFINE Aside ==
            /\ mics' = mics /\ call(r).op # "mute"
            /\ pc'[r] \notin {"takeMicClaim", "takeMicVacate", "takeMicClear", "leaveMics",
                              "kickMicSave", "micSave"}
    <1>1. StageJob(r) /\ DOMAIN pc = Requests
        BY DEF StageInv, Routes
    <1> USE DEF Begins, Passes, Goes, Quietly, OnlyCalls, StageJob
    <1>2. ASSUME Invite(r) \/ InviteSeat(r)  PROVE Aside
        BY <1>1, <1>2 DEF Invite, InviteSeat
    <1>3. ASSUME InvitePresent(r)  PROVE Aside
        BY <1>1, <1>3 DEF InvitePresent
    <1>4. ASSUME AskCall(r) \/ AskSeated(r) \/ AskUpsert(r)  PROVE Aside
        BY <1>1, <1>4 DEF AskCall, AskSeated, AskUpsert
    <1>5. ASSUME ApproveCall(r)  PROVE Aside
        BY <1>1, <1>5 DEF ApproveCall
    <1>6. ASSUME ApproveExpired(r) \/ ApproveDelete(r) \/ DenyCall(r)  PROVE Aside
        BY <1>1, <1>6 DEF ApproveExpired, ApproveDelete, DenyCall
    <1>7. ASSUME DenyDelete(r) \/ CancelCall(r)  PROVE Aside
        BY <1>1, <1>7 DEF DenyDelete, CancelCall
    <1>8. Aside
        BY <1>2, <1>3, <1>4, <1>5, <1>6, <1>7
    <1>9. StageJob(r)'
        BY <1>8 DEF Serves, call
    <1> QED  BY <1>8, <1>9, StageMoves

\* The steps that empty seats, or lock one.
LEMMA VacatedIs ==
    ASSUME StageInv, NEW x, NEW u, NEW except, mics' = Vacated(x, u, except)
    PROVE  /\ DOMAIN mics' = Mics
           /\ \A s \in Mics : SameMic(s) \/ ClearedMic(s)
           /\ (\A s \in Mics : s[1] = x /\ mics[s].user = u => s = except) =>
                 \A s \in Mics : SameMic(s)
    <1>1. DOMAIN mics' = Mics
        BY DEF Vacated
    <1>2. ASSUME NEW s \in Mics
          PROVE  /\ SameMic(s) \/ ClearedMic(s)
                 /\ (s[1] = x /\ mics[s].user = u => s = except) => SameMic(s)
        <2>1. IsSeat(mics[s])
            BY DEF StageInv, MicOk
        <2>2. CASE s[1] = x /\ mics[s].user = u /\ s # except
            BY <2>2 DEF Vacated, ClearedMic
        <2>3. CASE ~(s[1] = x /\ mics[s].user = u /\ s # except)
            <3>1. mics'[s] = mics[s]
                BY <2>3 DEF Vacated
            <3> QED  BY <2>1, <3>1 DEF SameMic
        <2> QED  BY <2>2, <2>3
    <1> QED  BY <1>1, <1>2

LEMMA EmptiesKeepStage ==
    ASSUME Routes, Patience, StageInv, NEW r \in Requests, Serves(r, "stage"),
           LeaveMics(r) \/ TakeMicClear(r) \/ StandUp(r) \/ LockMicSave(r) \/ KickMicSave(r)
    PROVE  StageInv'
    <1>1. StageJob(r) /\ DOMAIN pc = Requests
        BY DEF StageInv, Routes
    <1>2. call(r).op # "mute" /\ pc'[r] \in {"done", "failed"}
        BY <1>1 DEF LeaveMics, TakeMicClear, StandUp, LockMicSave, KickMicSave, Begins, Passes, Goes,
                    StageJob
    <1>3. StageJob(r)' /\ FreshMic(r)'
        BY <1>2 DEF StageJob, FreshMic, Serves, call
    <1>4. ASSUME NEW s \in Mics  PROVE IsSeat(mics[s])
        BY DEF StageInv, MicOk
    <1>5. CASE LeaveMics(r)
        <2>1. mics' = Vacated(call(r).room, call(r).user, <<>>)
            BY <1>5 DEF LeaveMics
        <2>2. ~Steady
            BY <1>1, <1>5 DEF LeaveMics, StageJob, Steady
        <2> QED  BY <1>2, <1>3, <2>1, <2>2, VacatedIs, MicsKeep
    <1>6. CASE TakeMicClear(r)
        <2>1. mics' = Vacated(call(r).room, call(r).user, mic(r)) /\ call(r).op = "takeMic"
            BY <1>1, <1>6 DEF TakeMicClear, StageJob
        <2>2. ASSUME load.patient, Steady, NEW s \in Mics, mics[s].user = call(r).user
              PROVE  s = mic(r)
            <3>1. call(r).user # Nobody
                BY <2>1, NobodyAssumption DEF Routes, call, Requests, Range
            <3>2. PICK q \in Requests :
                        call(q).op = "takeMic" /\ call(q).user = mics[s].user /\ mic(q) = s
                BY <2>2, <3>1 DEF StageInv, SteadyInv, MicTaken
            <3> QED  BY <2>1, <2>2, <3>2 DEF Steady
        <2> QED  BY <1>2, <1>3, <2>1, <2>2, VacatedIs, MicsKeep
    <1>7. CASE StandUp(r) \/ KickMicSave(r)
        <2>1. ~Steady
            BY <1>1, <1>7 DEF StandUp, Begins, KickMicSave, StageJob, Steady
        <2>2. mics' = mics \/ mics' = [mics EXCEPT ![mic(r)] = Clear(@)]
            BY <1>7 DEF StandUp, KickMicSave
        <2>3. DOMAIN mics' = Mics /\ \A s \in Mics : SameMic(s) \/ ClearedMic(s)
            BY <1>4, <2>2 DEF StageInv, SameMic, ClearedMic
        <2> QED  BY <1>2, <1>3, <2>1, <2>3, MicsKeep
    <1>8. CASE LockMicSave(r)
        <2>1. DOMAIN mics' = Mics
            BY <1>8 DEF LockMicSave, StageInv
        <2>2. ASSUME NEW s \in Mics  PROVE SameMic(s)
            <3> DEFINE new == [mics[s] EXCEPT !.locked = call(r).on]
            <3>1. mics'[s] = mics[s] \/ mics'[s] = new
                BY <1>8 DEF LockMicSave, StageInv
            <3>2. /\ IsSeat(new) /\ new.user = mics[s].user /\ new.muted = mics[s].muted
                  /\ new.by = mics[s].by /\ new.video = mics[s].video
                BY <1>4, LockedIs
            <3> HIDE DEF new
            <3> QED  BY <1>4, <3>1, <3>2 DEF SameMic
        <2> QED  BY <1>2, <1>3, <2>1, <2>2, MicsKeep
    <1> QED  BY <1>5, <1>6, <1>7, <1>8

LEMMA ClaimKeepsStage ==
    ASSUME Routes, Patience, StageInv, NEW r \in Requests, Serves(r, "stage"), TakeMicClaim(r)
    PROVE  StageInv'
    <1> DEFINE s == mic(r)
               u == call(r).user
               on == HasCamera(s)
               seat == Claimed(mics[s], u, on)
    <1>1. StageJob(r) /\ pc[r] = "takeMicClaim" /\ call(r).op = "takeMic" /\ DOMAIN pc = Requests
        BY DEF StageInv, Routes, TakeMicClaim, StageJob
    <1>2. pc'[r] \in {"failed", "takeMicVacate"}
        BY <1>1 DEF TakeMicClaim, Passes, Goes
    <1>3. /\ load' = load /\ Requests' = Requests
          /\ \A q : call(q)' = call(q) /\ mic(q)' = mic(q) /\ (HardMute(q)' <=> HardMute(q))
          /\ \A q \in Requests : q # r => pc'[q] = pc[q]
        BY StageSame DEF Serves
    <1>4. StageJob(r)' /\ FreshMic(r)'
        BY <1>1, <1>2, <1>3 DEF StageJob, FreshMic
    <1>5. CASE mics' = mics
        BY <1>1, <1>2, <1>4, <1>5, StageMoves
    <1>6. ASSUME s \in Mics, mics[s].user = Nobody, mics' = [mics EXCEPT ![s] = seat]
          PROVE  StageInv'
        <2>1. u # Nobody
            BY <1>1, NobodyAssumption DEF Routes, call, Requests, Range
        <2>2. /\ IsSeat(seat) /\ seat.user = u /\ ~seat.muted /\ seat.by = "none"
              /\ seat.video = on
            <3>1. IsSeat(mics[s])
                BY <1>6 DEF StageInv, MicOk
            <3> HIDE DEF s, u, on
            <3> QED  BY <3>1, ClaimedIs
        <2> HIDE DEF seat
        <2>3. /\ DOMAIN mics' = Mics /\ mics'[s] = seat
              /\ \A t \in Mics : t # s => mics'[t] = mics[t]
            BY <1>6 DEF StageInv
        <2>4. ASSUME NEW t \in Mics, t = s  PROVE MicOk(t)' /\ MicQuiet(t)'
            <3>1. IsSeat(mics'[t]) /\ mics'[t].video = HasCamera(t)
                BY <2>2, <2>3, <2>4
            <3>2. mics'[t].user # Nobody /\ ~mics'[t].muted /\ mics'[t].by = "none"
                BY <2>1, <2>2, <2>3, <2>4
            <3> QED  BY <3>1, <3>2 DEF MicOk, MicQuiet, HasCamera
        <2> HIDE DEF s, u
        <2>5. \A t \in Mics : t # s => MicOk(t)' /\ (MicQuiet(t) => MicQuiet(t)')
            BY <2>3 DEF StageInv, MicOk, MicQuiet, HasCamera
        <2>6. ASSUME SteadyInv  PROVE SteadyInv'
            <3>1. ASSUME NEW t \in Mics  PROVE MicTaken(t)'
                <4>1. CASE t = s
                    BY <1>1, <1>3, <2>2, <2>3, <4>1 DEF MicTaken, s, u
                <4>2. CASE t # s
                    BY <1>3, <2>3, <2>6, <4>2 DEF MicTaken, SteadyInv
                <4> QED  BY <4>1, <4>2
            <3>2. ASSUME NEW q \in Requests  PROVE Silenced(q)'
                <4>1. CASE q = r
                    BY <1>1, <1>3, <4>1 DEF Silenced, HardMute
                <4>2. CASE q # r
                    <5>1. SUFFICES ASSUME HardMute(q), pc[q] = "done"
                                   PROVE  Silenced(q)'
                        BY <1>3, <4>2 DEF Silenced
                    <5>2. mic(q) \in Mics /\ mic(q) # s
                        BY <1>6, <2>6, <5>1 DEF SteadyInv, Silenced
                    <5>3. mics'[mic(q)] = mics[mic(q)] /\ (Unhelped(q)' <=> Unhelped(q))
                        BY <1>3, <2>3, <5>2 DEF Unhelped
                    <5> QED  BY <1>3, <2>6, <4>2, <5>1, <5>2, <5>3 DEF SteadyInv, Silenced, Mics
                <4> QED  BY <4>1, <4>2
            <3> QED  BY <1>3, <3>1, <3>2 DEF SteadyInv, Mics
        <2> QED  BY <1>4, <2>3, <2>4, <2>5, <2>6, StageKeeps DEF StageInv
    <1>7. \/ mics' = mics
          \/ mics[s].user = Nobody /\ mics' = [mics EXCEPT ![s] = seat]
        BY DEF TakeMicClaim, Claimed
    <1>8. ASSUME s \notin Mics, mics' = [mics EXCEPT ![s] = seat]  PROVE StageInv'
        <2> HIDE DEF s, seat
        <2>1. DOMAIN mics' = Mics /\ \A t \in Mics : SameMic(t)
            BY <1>8 DEF StageInv, MicOk, SameMic
        <2> QED  BY <1>1, <1>2, <1>4, <2>1, MicsKeep
    <1> QED  BY <1>5, <1>6, <1>7, <1>8

\* What a call learns before it saves a seat.
LEMMA MicLearned ==
    ASSUME Routes, NEW r \in Requests, NEW seat, NEW new, Learns(r, [doc |-> seat, new |-> new])
    PROVE  /\ "doc" \in DOMAIN job'[r] /\ "new" \in DOMAIN job'[r]
           /\ job'[r].doc = seat /\ job'[r].new = new
    <1> DEFINE f == [doc |-> seat, new |-> new]
    <1>1. DOMAIN f = {"doc", "new"} /\ f.doc = seat /\ f.new = new /\ Learns(r, f)
        OBVIOUS
    <1> HIDE DEF f
    <1> QED  BY <1>1, LearnedOne

\* What a call sees of a seat stays while the seat does.
LEMMA SeenMic ==
    ASSUME NEW r, load' = load, mics' = mics
    PROVE  /\ call(r)' = call(r) /\ mic(r)' = mic(r)
           /\ (MayTouch(r)' <=> MayTouch(r)) /\ (HostMuted(r)' <=> HostMuted(r))
           /\ MutedBy(r)' = MutedBy(r)
    BY DEF call, mic, MayTouch, HostMuted, MutedBy, Mics

LEMMA MuteKeepsStage ==
    ASSUME Routes, Patience, StageInv, NEW r \in Requests, Serves(r, "stage"), SetMuted(r)
    PROVE  StageInv'
    <1> DEFINE seat == mics[mic(r)]
               new == [seat EXCEPT !.muted = call(r).on, !.by = MutedBy(r)]
    <1>1. /\ mics' = mics /\ call(r).op = "mute" /\ DOMAIN pc = Requests /\ load' = load
          /\ \A q \in Requests : q # r => pc'[q] = pc[q]
        BY DEF SetMuted, Begins, Routes, Serves
    <1>2. call(r)' = call(r) /\ mic(r)' = mic(r)
        BY <1>1, SeenMic
    <1>3. CASE pc'[r] = "failed"
        <2>1. StageJob(r)'
            BY <1>1, <1>2, <1>3 DEF StageJob
        <2> QED  BY <1>1, <1>3, <2>1, StageMoves
    <1>4. ASSUME MayTouch(r), ~HostMuted(r), pc'[r] \in {"micSave", "done"},
                 pc'[r] = "done" => seat = new,
                 pc'[r] = "micSave" => Learns(r, [doc |-> seat, new |-> new])
          PROVE  StageInv'
        <2>1. mic(r) \in Mics /\ seat.user # Nobody /\ DOMAIN seat = MicFields
            BY <1>4, SeatIs DEF MayTouch, StageInv, MicOk
        <2>2. /\ new.user = seat.user /\ new.locked = seat.locked /\ new.video = seat.video
              /\ new.muted = call(r).on /\ new.by = MutedBy(r)
            BY <2>1 DEF MicFields
        <2> HIDE DEF new
        <2>3. pc'[r] = "micSave" => /\ "doc" \in DOMAIN job'[r] /\ "new" \in DOMAIN job'[r]
                                    /\ job'[r].doc = seat /\ job'[r].new = new
            BY <1>4, MicLearned
        <2>4. StageJob(r)'
            BY <1>1, <1>2, <1>4, <2>1, <2>2, <2>3 DEF StageJob, Mics
        <2>5. FreshMic(r)'
            BY <1>1, <1>2, <1>4, <2>2, <2>3, SeenMic DEF FreshMic
        <2>6. \A t \in Mics : MicOk(t)' /\ (MicQuiet(t) => MicQuiet(t)')
            BY <1>1 DEF StageInv, MicOk, MicQuiet, HasCamera
        <2>7. ASSUME SteadyInv  PROVE SteadyInv'
            <3>1. /\ Requests' = Requests /\ Mics' = Mics
                  /\ \A q : call(q)' = call(q) /\ mic(q)' = mic(q) /\ (HardMute(q)' <=> HardMute(q))
                BY <1>1, StageSame DEF Mics
            <3>2. ASSUME NEW q \in Requests  PROVE Silenced(q)'
                <4>1. CASE q # r
                    BY <1>1, <2>7, <3>1, <4>1 DEF SteadyInv, Silenced, Unhelped
                <4>2. CASE q = r
                    <5>1. SUFFICES ASSUME HardMute(r), pc'[r] = "done", seat.user # call(r).by
                                   PROVE  seat.muted /\ seat.by = "host"
                        BY <1>1, <2>1, <3>1, <4>2 DEF Silenced
                    <5>2. seat.muted = call(r).on /\ seat.by = MutedBy(r)
                        BY <1>4, <2>2, <5>1
                    <5> QED  BY <5>1, <5>2 DEF HardMute, MutedBy
                <4> QED  BY <4>1, <4>2
            <3>3. \A t \in Mics : MicTaken(t)'
                BY <1>1, <2>7, <3>1 DEF SteadyInv, MicTaken
            <3> QED  BY <3>1, <3>2, <3>3 DEF SteadyInv
        <2> QED  BY <1>1, <2>4, <2>5, <2>6, <2>7, StageKeeps DEF StageInv
    <1> QED  BY <1>1, <1>3, <1>4 DEF SetMuted, Passes, Changes, Goes

LEMMA VideoKeepsStage ==
    ASSUME Routes, Patience, StageInv, NEW r \in Requests, Serves(r, "stage"), SetVideo(r)
    PROVE  StageInv'
    <1> DEFINE seat == mics[mic(r)]
               new == [seat EXCEPT !.video = call(r).on]
    <1>1. /\ mics' = mics /\ call(r).op = "video" /\ DOMAIN pc = Requests /\ load' = load
        BY DEF SetVideo, Begins, Routes, Serves
    <1>2. call(r)' = call(r) /\ mic(r)' = mic(r)
        BY <1>1, SeenMic
    <1>3. CASE pc'[r] \in {"failed", "done"}
        <2>1. StageJob(r)'
            BY <1>1, <1>2, <1>3 DEF StageJob
        <2> QED  BY <1>1, <1>3, <2>1, StageMoves
    <1>4. ASSUME HasCamera(mic(r)), MayTouch(r), pc'[r] = "micSave",
                 Learns(r, [doc |-> seat, new |-> new])
          PROVE  StageInv'
        <2>1. mic(r) \in Mics /\ DOMAIN seat = MicFields
            BY <1>4, SeatIs DEF MayTouch, StageInv, MicOk
        <2>2. /\ new.user = seat.user /\ new.locked = seat.locked
              /\ new.muted = seat.muted /\ new.by = seat.by
            BY <2>1 DEF MicFields
        <2> HIDE DEF new
        <2>3. /\ "doc" \in DOMAIN job'[r] /\ "new" \in DOMAIN job'[r]
              /\ job'[r].doc = seat /\ job'[r].new = new
            BY <1>4, MicLearned
        <2>4. StageJob(r)'
            BY <1>1, <1>2, <1>4, <2>1, <2>2, <2>3 DEF StageJob, Mics, HasCamera
        <2>5. FreshMic(r)'
            BY <1>1, <1>2, <1>4, <2>3, SeenMic DEF FreshMic
        <2>6. \A t \in Mics : SameMic(t)
            BY <1>1 DEF SameMic, StageInv, MicOk
        <2> QED  BY <1>1, <2>4, <2>5, <2>6, MicsKeep DEF StageInv
    <1> QED  BY <1>1, <1>3, <1>4 DEF SetVideo, Passes, Changes, Goes

\* What setSeatMuted and setSeatVideo write to the seat they read.
LEMMA MicSaved ==
    ASSUME StageInv, NEW r \in Requests, MicSave(r)
    PROVE  LET t == mic(r) IN
           /\ t \in Mics /\ DOMAIN mics' = Mics /\ \A s \in Mics : s # t => mics'[s] = mics[s]
           /\ IsSeat(mics'[t]) /\ mics'[t].user = mics[t].user
           /\ mics'[t].video => HasCamera(t)
           /\ call(r).op = "video" => /\ mics'[t].muted = mics[t].muted
                                      /\ mics'[t].by = mics[t].by
           /\ load.patient /\ call(r).op = "mute" => /\ mics'[t].muted = call(r).on
                                                     /\ mics'[t].by = MutedBy(r)
    <1> DEFINE t == mic(r)
               seat == mics[t]
               old == job[r].doc
               new == job[r].new
               saved == Saves(seat, old, new)
    <1>1. /\ StageJob(r) /\ pc[r] = "micSave" /\ t \in Mics /\ DOMAIN mics = Mics
          /\ MicOk(t) /\ IsSeat(seat)
          /\ load.patient => FreshMic(r)
        BY DEF StageInv, MicSave, StageJob, MicOk
    <1>2. /\ new.user = old.user /\ call(r).op \in {"mute", "video"}
          /\ call(r).op = "mute" => new.video = old.video
          /\ call(r).op = "video" => HasCamera(t) /\ new.muted = old.muted /\ new.by = old.by
        BY <1>1 DEF StageJob
    <1>3. DOMAIN mics' = Mics /\ mics'[t] = saved /\ \A s \in Mics : s # t => mics'[s] = mics[s]
        BY <1>1 DEF MicSave
    <1>4. load.patient => /\ old = seat
                          /\ call(r).op = "mute" => new.muted = call(r).on /\ new.by = MutedBy(r)
        BY <1>1 DEF FreshMic
    <1>5. seat.video => HasCamera(t)
        BY <1>1 DEF MicOk
    <1>6. /\ IsSeat(saved)
          /\ \A x \in MicFields : saved[x] = IF new[x] # old[x] THEN new[x] ELSE seat[x]
        <2> HIDE DEF seat, old, new
        <2> QED  BY <1>1, SavedIs
    <1> HIDE DEF t, seat, old, new, saved
    <1>7. /\ saved.user = IF new.user # old.user THEN new.user ELSE seat.user
          /\ saved.muted = IF new.muted # old.muted THEN new.muted ELSE seat.muted
          /\ saved.by = IF new.by # old.by THEN new.by ELSE seat.by
          /\ saved.video = IF new.video # old.video THEN new.video ELSE seat.video
        BY <1>6 DEF MicFields
    <1>8. /\ saved.user = seat.user
          /\ saved.video => HasCamera(t)
          /\ call(r).op = "video" => saved.muted = seat.muted /\ saved.by = seat.by
          /\ load.patient /\ call(r).op = "mute" => saved.muted = call(r).on /\ saved.by = MutedBy(r)
        BY <1>2, <1>4, <1>5, <1>7
    <1> QED  BY <1>1, <1>3, <1>6, <1>8 DEF t, seat

LEMMA SavesKeepSteady ==
    ASSUME StageInv, NEW r \in Requests, Serves(r, "stage"), MicSave(r), load.patient, Steady
    PROVE  SteadyInv'
    <1> DEFINE t == mic(r)
    <1>1. /\ StageJob(r) /\ pc[r] = "micSave" /\ FreshMic(r) /\ MayTouch(r) /\ SteadyInv
          /\ call(r).op = "mute" => ~HostMuted(r)
          /\ call(r).op \in {"mute", "video"}
        BY DEF StageInv, MicSave, FreshMic, StageJob
    <1>2. /\ Requests' = Requests /\ Mics' = Mics
          /\ \A q : call(q)' = call(q) /\ mic(q)' = mic(q) /\ (HardMute(q)' <=> HardMute(q))
          /\ \A q \in Requests : q # r => pc'[q] = pc[q]
        BY StageSame DEF Serves, Mics
    <1>3. /\ t \in Mics /\ \A s \in Mics : s # t => mics'[s] = mics[s]
          /\ mics'[t].user = mics[t].user
          /\ call(r).op = "video" => mics'[t].muted = mics[t].muted /\ mics'[t].by = mics[t].by
          /\ call(r).op = "mute" => mics'[t].muted = call(r).on /\ mics'[t].by = MutedBy(r)
        BY MicSaved
    <1>4. \A s \in Mics : mics'[s].user = mics[s].user
        BY <1>3
    <1>5. mics[t].user # Nobody /\ (Moderates(call(r).by) \/ mics[t].user = call(r).by)
        BY <1>1 DEF MayTouch
    <1>6. call(r).op = "mute" => (call(r).on /\ ~call(r).soft) \/ ~Moderates(call(r).by)
        BY DEF Steady
    <1>7. ASSUME NEW q \in Requests, HardMute(q), pc'[q] = "done"
          PROVE  /\ mic(q) \in Mics /\ mics'[mic(q)].user # Nobody
                 /\ mics'[mic(q)].user # call(q).by /\ Unhelped(q)' =>
                       mics'[mic(q)].muted /\ mics'[mic(q)].by = "host"
        <2>1. q # r => /\ mic(q) \in Mics /\ mics[mic(q)].user # Nobody
                       /\ mics[mic(q)].user # call(q).by /\ Unhelped(q) =>
                              mics[mic(q)].muted /\ mics[mic(q)].by = "host"
            BY <1>1, <1>2, <1>7 DEF SteadyInv, Silenced
        <2>2. mic(q) \in Mics /\ mics[mic(q)].user # Nobody
            BY <1>3, <1>5, <2>1
        <2>3. Unhelped(q)' <=> Unhelped(q)
            BY <1>2, <1>4, <2>2 DEF Unhelped
        <2>4. CASE mic(q) # t
            BY <1>3, <2>1, <2>3, <2>4
        <2>5. CASE mic(q) = t /\ call(r).op = "video"
            BY <1>3, <1>7, <2>1, <2>3, <2>5 DEF HardMute
        <2>6. CASE mic(q) = t /\ call(r).op = "mute" /\ call(r).on
            <3>1. SUFFICES ASSUME mics[t].user # call(q).by, Unhelped(q)
                           PROVE  mics'[t].muted /\ mics'[t].by = "host"
                BY <1>4, <1>5, <2>2, <2>3, <2>6
            <3>2. mics[t].user # call(r).by
                BY <2>6, <3>1 DEF Unhelped
            <3> QED  BY <1>3, <1>5, <1>6, <2>6, <3>2 DEF MutedBy
        <2>7. CASE mic(q) = t /\ call(r).op = "mute" /\ ~call(r).on
            <3>1. q # r
                BY <1>7, <2>7 DEF HardMute
            <3>2. ~(mics[t].muted /\ mics[t].by = "host")
                BY <1>1, <1>5, <1>6, <2>7 DEF HostMuted
            <3> QED  BY <1>4, <2>1, <2>2, <2>3, <2>7, <3>1, <3>2
        <2> QED  BY <1>1, <2>4, <2>5, <2>6, <2>7
    <1>8. \A q \in Requests : Silenced(q)'
        BY <1>2, <1>7 DEF Silenced
    <1>9. \A s \in Mics : MicTaken(s)'
        BY <1>1, <1>2, <1>4 DEF MicTaken, SteadyInv
    <1> QED  BY <1>2, <1>8, <1>9 DEF SteadyInv

LEMMA SaveKeepsStage ==
    ASSUME Routes, Patience, StageInv, NEW r \in Requests, Serves(r, "stage"), MicSave(r)
    PROVE  StageInv'
    <1> DEFINE t == mic(r)
    <1>1. /\ StageJob(r) /\ pc[r] = "micSave" /\ pc'[r] = "done"
          /\ load.patient => MayTouch(r) /\ MicQuiet(t)
        BY DEF StageInv, MicSave, FreshMic, StageJob, Routes, Passes, Goes
    <1>2. StageJob(r)' /\ FreshMic(r)'
        BY <1>1 DEF StageJob, FreshMic, Serves, call
    <1>3. /\ t \in Mics /\ DOMAIN mics' = Mics /\ \A s \in Mics : s # t => mics'[s] = mics[s]
          /\ IsSeat(mics'[t]) /\ mics'[t].user = mics[t].user
          /\ mics'[t].video => HasCamera(t)
        BY MicSaved
    <1>4. ASSUME load.patient  PROVE mics'[t].muted <=> mics'[t].by # "none"
        <2>1. mics[t].muted <=> mics[t].by # "none"
            BY <1>1, <1>4 DEF MicQuiet
        <2>2. CASE call(r).op = "video"
            <3>1. mics'[t].muted = mics[t].muted /\ mics'[t].by = mics[t].by
                BY <2>2, MicSaved
            <3> QED  BY <2>1, <3>1
        <2>3. CASE call(r).op = "mute"
            <3>1. mics'[t].muted = call(r).on /\ mics'[t].by = MutedBy(r)
                BY <1>4, <2>3, MicSaved
            <3> QED  BY <3>1 DEF MutedBy
        <2> QED  BY <1>1, <2>2, <2>3 DEF StageJob
    <1>5. load.patient => mics'[t].user # Nobody
        BY <1>1, <1>3 DEF MayTouch
    <1>6. ASSUME NEW s \in Mics  PROVE MicOk(s)' /\ (load.patient => MicQuiet(s)')
        <2>1. CASE s = t
            BY <1>3, <1>4, <1>5, <2>1 DEF MicOk, MicQuiet, HasCamera
        <2>2. CASE s # t
            BY <1>3, <2>2 DEF StageInv, MicOk, MicQuiet, HasCamera
        <2> QED  BY <2>1, <2>2
    <1> QED  BY <1>2, <1>3, <1>6, SavesKeepSteady, StageKeeps DEF StageInv

LEMMA StageStepKeeps ==
    ASSUME Routes, Patience, StageInv, NEW r \in Requests, Serves(r, "stage"), StageStep(r)
    PROVE  StageInv'
    BY LooksKeepStage, CallsKeepStage, EmptiesKeepStage, ClaimKeepsStage, MuteKeepsStage,
       VideoKeepsStage, SaveKeepsStage
    DEF StageStep

\* Whatever else happens leaves the seats and what the calls for them have read.
LEMMA StageIdles ==
    ASSUME StageInv, load' = load, mics' = mics,
           \A q \in Requests : \/ pc'[q] = pc[q] /\ job'[q] = job[q]
                               \/ pc'[q] = "stopped"
                               \/ call(q).op \notin Ops["stage"] /\ Routed(q, pc'[q]),
           \A q \in Requests : pc'[q] = "stopped" \/ pc'[q] = pc[q] \/ call(q).op # "mute"
    PROVE  StageInv'
    <1>1. /\ Requests' = Requests /\ (Steady' <=> Steady) /\ Mics' = Mics
          /\ \A q : call(q)' = call(q) /\ mic(q)' = mic(q) /\ (HardMute(q)' <=> HardMute(q))
        BY StageSame DEF Mics
    <1>2. ASSUME NEW q \in Requests  PROVE StageJob(q)' /\ (load.patient => FreshMic(q)')
        <2>1. CASE pc'[q] = pc[q] /\ job'[q] = job[q]
            <3>1. StageJob(q)'
                BY <2>1, StageJobStays DEF StageInv
            <3>2. load.patient /\ FreshMic(q) => FreshMic(q)'
                BY <1>1, <2>1, SeenMic DEF FreshMic
            <3> QED  BY <3>1, <3>2 DEF StageInv
        <2>2. CASE pc'[q] = "stopped"
            BY <2>2 DEF StageJob, FreshMic
        <2>3. CASE call(q).op \notin Ops["stage"] /\ Routed(q, pc'[q])
            <3>1. /\ pc'[q] \notin Places["stage"]
                  /\ call(q).op \notin {"takeMic", "leaveStage", "kickMic", "mute", "video"}
                BY <2>3 DEF Routed, Services, Ops
            <3>2. pc'[q] \notin {"takeMicClaim", "takeMicVacate", "takeMicClear", "leaveMics",
                                 "kickMicSave", "micSave"}
                BY <3>1 DEF Places
            <3> QED  BY <1>1, <3>1, <3>2 DEF StageJob, FreshMic
        <2> QED  BY <2>1, <2>2, <2>3
    <1>3. ASSUME NEW s \in Mics  PROVE MicOk(s)' /\ (MicQuiet(s) => MicQuiet(s)')
        BY DEF StageInv, MicOk, MicQuiet, HasCamera
    <1>4. ASSUME SteadyInv  PROVE SteadyInv'
        <2>1. \A s \in Mics : MicTaken(s)'
            BY <1>1, <1>4 DEF SteadyInv, MicTaken
        <2>2. ASSUME NEW q \in Requests, HardMute(q), pc'[q] = "done"  PROVE pc[q] = "done"
            BY <2>2 DEF HardMute
        <2>3. \A q \in Requests : Silenced(q)'
            BY <1>1, <1>4, <2>2 DEF SteadyInv, Silenced, Unhelped
        <2> QED  BY <1>1, <2>1, <2>3 DEF SteadyInv
    <1>5. DOMAIN mics' = Mics
        BY DEF StageInv
    <1> QED  BY <1>1, <1>2, <1>3, <1>4, <1>5 DEF StageInv

LEMMA StageNext ==
    ASSUME Routes, Patience, StageInv, [Next]_vars
    PROVE  StageInv'
    <1>1. Routes' /\ "stage" \in Services
        BY RoutesStep DEF Services
    <1>2. ASSUME NEW r \in Requests, Steps("stage", r), Serves(r, "stage")  PROVE StageInv'
        BY <1>2, StageStepKeeps DEF Steps
    <1>3. Untouched("stage") => mics' = mics
        BY DEF Untouched, stageVars, CallsExpire, Quietly, OnlyCalls
    <1>4. "mute" \in Ops["stage"]
        BY DEF Ops
    <1>5. ASSUME NEW r \in Requests, Halts(r), Untouched("stage")  PROVE StageInv'
        BY <1>3, <1>5, StageIdles DEF Halts
    <1>6. ASSUME Quiet("stage"), Untouched("stage")  PROVE StageInv'
        <2>1. load' = load /\ Requests' = Requests
            BY <1>6 DEF Quiet, Requests
        <2>2. \A q \in Requests : Routed(q, pc'[q])
            BY <1>1, <2>1 DEF Routes, Routed, call
        <2> QED  BY <1>3, <1>4, <1>6, <2>1, <2>2, StageIdles DEF Quiet
    <1> QED  BY <1>1, <1>2, <1>5, <1>6, StepsTo

LEMMA StageStarts == Init => StageInv
    <1> SUFFICES ASSUME Init  PROVE StageInv
        OBVIOUS
    <1>1. \A r \in Requests : pc[r] = "idle"
        BY DEF Init, ServiceInit, Requests
    <1>2. \A r \in Requests : StageJob(r) /\ FreshMic(r) /\ Silenced(r)
        BY <1>1 DEF StageJob, FreshMic, Silenced
    <1> DEFINE f == [locked |-> FALSE]
               seat == Override(EmptyMic, f)
    <1>3. /\ DOMAIN EmptyMic = {"user", "muted", "by", "video"}
          /\ EmptyMic.user = Nobody /\ EmptyMic.muted = FALSE
          /\ EmptyMic.by = "none" /\ EmptyMic.video = FALSE
        BY DEF EmptyMic
    <1>4. DOMAIN f = {"locked"}
        OBVIOUS
    <1>5. mics = [s \in Mics |-> seat]
        BY DEF Init, StageInit
    <1> HIDE DEF f
    <1>6. seat = [x \in MicFields |-> IF x \in {"locked"} THEN f[x] ELSE EmptyMic[x]]
        BY <1>3, <1>4 DEF Override, MicFields
    <1>7. /\ IsSeat(seat) /\ seat.user = Nobody /\ seat.muted = FALSE
          /\ seat.by = "none" /\ seat.video = FALSE
        BY <1>3, <1>6 DEF IsSeat, MicFields
    <1>8. seat = Clear(seat)
        BY <1>7, QuietIs
    <1> HIDE DEF seat
    <1>9. ASSUME NEW s \in Mics  PROVE MicOk(s) /\ MicQuiet(s) /\ MicTaken(s)
        BY <1>5, <1>7, <1>8 DEF MicOk, MicQuiet, MicTaken
    <1> QED  BY <1>2, <1>5, <1>9 DEF StageInv, SteadyInv

\* setSeatMuted, setSeatVideo and takeSeat: no camera is on where the layout has none; and
\* among users who wait for each other a seat somebody left is quiet, a mute has an author,
\* and its holder does not speak again after a host's mute by asking for his voice back.
THEOREM StageAlwaysHolds == Spec => []StageHolds
    <1> DEFINE I == Routes /\ Patience /\ StageInv
    <1>1. Init => I
        BY RoutesInit, PatienceInit, StageStarts
    <1>2. I /\ [Next]_vars => I'
        BY RoutesStep, PatienceStep, StageNext
    <1>3. StageInv => StageHolds
        <2> SUFFICES ASSUME StageInv  PROVE StageHolds
            OBVIOUS
        <2>1. ASSUME load.patient, NEW r \in Requests, Forced(r), Unhelped(r)
              PROVE  mics[mic(r)].muted
            BY <2>1 DEF StageInv, SteadyInv, Silenced, HardMute, Forced
        <2>2. \A s \in Mics : mics[s].video => HasCamera(s)
            BY DEF StageInv, MicOk
        <2>3. load.patient => \A s \in Mics : MicQuiet(s)
            BY DEF StageInv
        <2> QED  BY <2>1, <2>2, <2>3 DEF StageHolds, MicQuiet
    <1> QED  BY <1>1, <1>2, <1>3, PTL DEF Spec

------------------------------------------------------------------------------
\* The stage: call requests are answered once.

\* Requests that have not written a call request yet.
Before == {"idle", "askSeated", "askUpsert"}
Made(i) == i \in Requests /\ pc[i] \notin Before

\* r has found the call request it is approving.
Approving(r) ==
    \/ pc[r] = "approveDelete"
    \/ pc[r] \in {"inviteSeat", "invitePresent"} /\ call(r).op # "invite"

\* Every id that is known is of a request that has written its row; so an id is never
\* given again, and the row is about the one who asked.
Asked ==
    /\ DOMAIN pc = Requests
    /\ \A i \in DOMAIN callRequests :
          /\ Made(i)
          /\ callRequests[i] = [room |-> call(i).room, user |-> call(i).user,
                                until |-> callRequests[i].until]
    /\ \A a \in answers : Made(a.id)
    /\ \A r \in Requests : Approving(r) => Made(call(r).id)

CallInv == Asked /\ CallsAnsweredOnce

\* The first part of CallsAnsweredOnce.
OnePending ==
    \A i \in DOMAIN callRequests :
        Waiting(callRequests[i].user, callRequests[i].room) = {i}

LEMMA InitCall == Init => CallInv
    BY DEF Init, ServiceInit, StageInit, CallInv, Asked, CallsAnsweredOnce, Approving, Requests

\* A step that leaves the rows and the answers alone, and keeps what requests know.
LEMMA MovesKeep ==
    ASSUME CallInv, load' = load, DOMAIN pc' = Requests,
           callRequests' = callRequests, answers' = answers,
           \A r \in Requests :
              \/ pc'[r] = pc[r]
              \/ /\ pc'[r] \notin Before \/ pc[r] \in Before
                 /\ Approving(r)' => Approving(r) \/ Made(call(r).id)
    PROVE  CallInv'
    <1>1. Requests' = Requests /\ \A r : call(r)' = call(r)
        BY DEF Requests, call
    <1>2. \A i : Made(i) => Made(i)'
        BY <1>1 DEF Made, CallInv, Asked
    <1>3. \A r \in Requests : Approving(r)' => Made(call(r).id)
        <2> TAKE r \in Requests
        <2>1. CASE pc'[r] = pc[r]
            BY <2>1, <1>1 DEF Approving, CallInv, Asked
        <2>2. CASE pc'[r] # pc[r]
            BY <2>2 DEF CallInv, Asked
        <2> QED  BY <2>1, <2>2
    <1>4. Asked'
        BY <1>1, <1>2, <1>3 DEF CallInv, Asked
    <1>5. CallsAnsweredOnce'
        BY DEF CallInv, CallsAnsweredOnce, Waiting
    <1> QED  BY <1>4, <1>5 DEF CallInv

\* A step that ends rows, and records answers about some of them or, as an approval that
\* was overtaken, about a row that is gone.
LEMMA AnswersKeep ==
    ASSUME CallInv, load' = load, DOMAIN pc' = Requests, NEW ids, Without(ids),
           \A r \in Requests : pc'[r] = pc[r] \/ (pc'[r] \notin Before /\ ~Approving(r)'),
           \/ answers' = answers
           \/ \E a : /\ answers' = answers \cup {a}
                     /\ a.id \in ids /\ Made(a.id)
                     /\ a.id \in DOMAIN callRequests \/ a.status = "approved"
    PROVE  CallInv'
    <1>1. Requests' = Requests /\ \A r : call(r)' = call(r)
        BY DEF Requests, call
    <1>2. \A i : Made(i) => Made(i)'
        BY <1>1 DEF Made, CallInv, Asked
    <1>3. /\ DOMAIN callRequests' = DOMAIN callRequests \ ids
          /\ \A i \in DOMAIN callRequests' : callRequests'[i] = callRequests[i]
        BY DEF Without, Restrict
    <1>4. \A r \in Requests : Approving(r)' => Made(call(r).id)
        BY <1>1 DEF Approving, CallInv, Asked
    <1>5. Asked'
        BY <1>1, <1>2, <1>3, <1>4 DEF CallInv, Asked
    <1>6. OnePending'
        BY <1>3 DEF CallInv, CallsAnsweredOnce, OnePending, Waiting
    <1>7. \A a \in answers' : a.id \notin DOMAIN callRequests'
        BY <1>3 DEF CallInv, CallsAnsweredOnce
    <1>8. \A a, b \in answers' : a.id = b.id /\ "approved" \notin {a.status, b.status} => a = b
        BY DEF CallInv, CallsAnsweredOnce
    <1>9. CallsAnsweredOnce'
        BY <1>6, <1>7, <1>8 DEF CallsAnsweredOnce, OnePending
    <1> QED  BY <1>5, <1>9 DEF CallInv

\* The upsert: his waiting row is dated anew, or he gets one whose id nobody has seen.
LEMMA AskedKeeps == ASSUME CallInv, NEW r \in Requests, AskUpsert(r) PROVE CallInv'
    <1> DEFINE mine == Waiting(call(r).user, call(r).room)
    <1>1. /\ Requests' = Requests /\ \A q : call(q)' = call(q)
          /\ answers' = answers /\ pc' = [pc EXCEPT ![r] = "done"] /\ pc[r] = "askUpsert"
        BY DEF AskUpsert, Passes, Goes, Requests, call
    <1>2. \A i : Made(i) => Made(i)'
        BY <1>1 DEF Made, CallInv, Asked, Before
    <1>3. \A q \in Requests : Approving(q)' => Made(call(q).id)
        BY <1>1 DEF Approving, CallInv, Asked
    <1>4. CASE mine # {}
        <2>1. /\ DOMAIN callRequests' = DOMAIN callRequests
              /\ \A i \in DOMAIN callRequests :
                    callRequests'[i] = [room |-> call(i).room, user |-> call(i).user,
                                        until |-> callRequests'[i].until]
            <3>1. /\ mine \subseteq DOMAIN callRequests
                  /\ \A i \in mine : call(i).room = call(r).room /\ call(i).user = call(r).user
                BY DEF Waiting, CallInv, Asked
            <3>2. callRequests' = [i \in DOMAIN callRequests |->
                      IF i \in mine
                      THEN [room |-> call(r).room, user |-> call(r).user, until |-> day + 1]
                      ELSE callRequests[i]]
                BY <1>4, <3>1 DEF AskUpsert
            <3> HIDE DEF mine
            <3>3. ASSUME NEW i \in DOMAIN callRequests
                  PROVE  callRequests'[i] = [room |-> call(i).room, user |-> call(i).user,
                                             until |-> callRequests'[i].until]
                <4>1. CASE i \in mine
                    BY <3>1, <3>2, <4>1
                <4>2. CASE i \notin mine
                    BY <3>2, <4>2 DEF CallInv, Asked
                <4> QED  BY <4>1, <4>2
            <3> QED  BY <3>2, <3>3
        <2>2. \A i \in DOMAIN callRequests : callRequests'[i].room = callRequests[i].room
                                             /\ callRequests'[i].user = callRequests[i].user
            BY <2>1 DEF CallInv, Asked
        <2>3. Asked'
            BY <1>1, <1>2, <1>3, <2>1 DEF CallInv, Asked
        <2>4. CallsAnsweredOnce'
            BY <1>1, <2>1, <2>2 DEF CallInv, CallsAnsweredOnce, Waiting
        <2> QED  BY <2>3, <2>4 DEF CallInv
    <1>5. CASE mine = {}
        <2>1. r \notin DOMAIN callRequests /\ \A a \in answers : a.id # r
            BY <1>1 DEF CallInv, Asked, Made, Before
        <2>2. /\ DOMAIN callRequests' = DOMAIN callRequests \cup {r}
              /\ callRequests'[r] = [room |-> call(r).room, user |-> call(r).user,
                                     until |-> day + 1]
              /\ \A i \in DOMAIN callRequests : callRequests'[i] = callRequests[i]
            BY <1>5, <2>1 DEF AskUpsert
        <2>3. Made(r)'
            BY <1>1 DEF Made, CallInv, Asked, Before
        <2>4. Asked'
            BY <1>1, <1>2, <1>3, <2>2, <2>3 DEF CallInv, Asked
        <2>5. OnePending'
            BY <1>5, <2>1, <2>2 DEF CallInv, CallsAnsweredOnce, OnePending, Waiting, Asked
        <2>6. CallsAnsweredOnce'
            BY <1>1, <2>1, <2>2, <2>5 DEF CallInv, CallsAnsweredOnce, OnePending
        <2> QED  BY <2>4, <2>6 DEF CallInv
    <1> QED  BY <1>4, <1>5

\* Microphones, cameras, the room's policies and its chat.
LEMMA SeatsKeep ==
    ASSUME CallInv, NEW r \in Requests, Serves(r, "stage"),
           \/ EnterStage(r) \/ LeaveStage(r) \/ LeaveMics(r)
           \/ TakeMic(r) \/ TakeMicClaim(r) \/ TakeMicVacate(r) \/ TakeMicClear(r) \/ StandUp(r)
           \/ LockMic(r) \/ LockMicSave(r) \/ KickMic(r) \/ KickMicSave(r)
           \/ SetMuted(r) \/ SetVideo(r) \/ MicSave(r)
           \/ SetPolicies(r) \/ PoliciesSave(r)
           \/ SendChat(r) \/ ChatCreate(r) \/ CleanChat(r) \/ CleanChatSave(r)
    PROVE  CallInv'
    <1> DEFINE Aside ==
            /\ callRequests' = callRequests /\ answers' = answers
            /\ pc'[r] \notin Before \cup {"approveDelete", "inviteSeat", "invitePresent"}
    <1> USE DEF Passes, Goes, Seating, OnlyMics, OnlyLines, Before, CallInv, Asked
    <1>1. ASSUME EnterStage(r) \/ LeaveStage(r) \/ LeaveMics(r)  PROVE Aside
        BY <1>1 DEF EnterStage, LeaveStage, LeaveMics
    <1>2. ASSUME TakeMic(r)  PROVE Aside
        BY <1>2 DEF TakeMic
    <1>3. ASSUME TakeMicClaim(r) \/ TakeMicVacate(r) \/ TakeMicClear(r) \/ StandUp(r)  PROVE Aside
        BY <1>3 DEF TakeMicClaim, TakeMicVacate, TakeMicClear, StandUp
    <1>4. ASSUME LockMic(r) \/ LockMicSave(r) \/ KickMic(r) \/ KickMicSave(r)  PROVE Aside
        BY <1>4 DEF LockMic, LockMicSave, KickMic, KickMicSave
    <1>5. ASSUME SetMuted(r) \/ SetVideo(r) \/ MicSave(r)  PROVE Aside
        BY <1>5 DEF SetMuted, SetVideo, MicSave, Changes
    <1>6. ASSUME SetPolicies(r) \/ PoliciesSave(r)  PROVE Aside
        BY <1>6 DEF SetPolicies, PoliciesSave
    <1>7. ASSUME SendChat(r) \/ ChatCreate(r) \/ CleanChat(r) \/ CleanChatSave(r)  PROVE Aside
        BY <1>7 DEF SendChat, ChatCreate, CleanChat, CleanChatSave
    <1>8. Aside
        BY <1>1, <1>2, <1>3, <1>4, <1>5, <1>6, <1>7
    <1>9. \A q \in Requests : pc'[q] = pc[q] \/ (pc'[q] \notin Before /\ ~Approving(q)')
        BY <1>8 DEF Serves, Approving
    <1> QED  BY <1>8, <1>9, MovesKeep DEF Serves

\* Asking, inviting, and what an approval does before it ends the row.
LEMMA InvitesKeep ==
    ASSUME CallInv, NEW r \in Requests,
           \/ AskCall(r) \/ AskSeated(r) \/ Invite(r) \/ InviteSeat(r) \/ InvitePresent(r)
           \/ ApproveCall(r) \/ DenyCall(r)
    PROVE  CallInv'
    <1> USE DEF Passes, Goes, Quietly, OnlyCalls, Before
    <1>1. /\ load' = load /\ callRequests' = callRequests /\ answers' = answers
          /\ \E to : pc' = [pc EXCEPT ![r] = to]
        BY DEF AskCall, AskSeated, Invite, InviteSeat, InvitePresent, ApproveCall, DenyCall
    <1>2. DOMAIN pc' = Requests /\ \A q \in Requests : q # r => pc'[q] = pc[q]
        BY <1>1 DEF CallInv, Asked
    <1>3. call(r)' = call(r)
        BY <1>1 DEF call
    <1>4. pc'[r] \notin Before \/ pc[r] \in Before
        BY DEF AskCall, AskSeated, Invite, InviteSeat, InvitePresent, ApproveCall, DenyCall,
               Begins, CallInv, Asked
    <1>5. Approving(r)' => Approving(r) \/ Made(call(r).id)
        <2>1. CASE AskCall(r) \/ AskSeated(r) \/ DenyCall(r)
            BY <2>1 DEF AskCall, AskSeated, DenyCall, CallInv, Asked, Approving
        <2>2. CASE Invite(r)
            BY <2>2, <1>3 DEF Invite, Begins, CallInv, Asked, Approving
        <2>3. CASE InviteSeat(r) \/ InvitePresent(r)
            BY <2>3, <1>3 DEF InviteSeat, InvitePresent, CallInv, Asked, Approving
        <2>4. CASE ApproveCall(r)
            BY <2>4, <1>3 DEF ApproveCall, Pending, CallInv, Asked, Approving
        <2> QED  BY <2>1, <2>2, <2>3, <2>4
    <1> QED  BY <1>1, <1>2, <1>4, <1>5, MovesKeep

\* The four ways in which a request ends a row.
LEMMA EndsKeep ==
    ASSUME CallInv, NEW r \in Requests,
           ApproveExpired(r) \/ ApproveDelete(r) \/ DenyDelete(r) \/ CancelCall(r)
    PROVE  CallInv'
    <1> DEFINE Answer(i, s) == [id |-> i, by |-> r, status |-> s]
    <1> USE DEF Passes, Goes, Quietly, OnlyCalls, Before
    <1>1. load' = load /\ \E to \in {"done", "failed"} : pc' = [pc EXCEPT ![r] = to]
        BY DEF ApproveExpired, ApproveDelete, DenyDelete, CancelCall
    <1>2. /\ DOMAIN pc' = Requests
          /\ \A q \in Requests : pc'[q] = pc[q] \/ (pc'[q] \notin Before /\ ~Approving(q)')
        BY <1>1 DEF CallInv, Asked, Approving
    <1>3. CASE callRequests' = callRequests /\ answers' = answers
        BY <1>1, <1>2, <1>3, MovesKeep
    <1>4. CASE ApproveExpired(r)
        BY <1>1, <1>2, <1>4, AnswersKeep DEF ApproveExpired
    <1>5. CASE ApproveDelete(r)
        <2>1. Made(call(r).id)
            BY <1>5 DEF ApproveDelete, Approving, CallInv, Asked
        <2>2. /\ Without({call(r).id})
              /\ answers' = answers \cup {Answer(call(r).id, "approved")}
            BY <1>5 DEF ApproveDelete, Resolves
        <2> HIDE DEF Answer
        <2>3. /\ Answer(call(r).id, "approved").id = call(r).id
              /\ Answer(call(r).id, "approved").status = "approved"
            BY DEF Answer
        <2> QED  BY <1>1, <1>2, <2>1, <2>2, <2>3, AnswersKeep
    <1>6. ASSUME NEW i \in DOMAIN callRequests, NEW s, Without({i}),
                 answers' = answers \cup {Answer(i, s)}
          PROVE  CallInv'
        <2>1. Made(i) /\ Answer(i, s).id = i
            BY DEF CallInv, Asked
        <2> HIDE DEF Answer
        <2> QED  BY <1>1, <1>2, <1>6, <2>1, AnswersKeep
    <1>7. CASE DenyDelete(r)
        BY <1>3, <1>6, <1>7 DEF DenyDelete, Pending, Resolves
    <1>8. CASE CancelCall(r)
        BY <1>3, <1>6, <1>8 DEF CancelCall, Waiting, Resolves
    <1> QED  BY <1>4, <1>5, <1>7, <1>8

\* No request begins twice.
LEMMA IdleOnce ==
    ASSUME Routes, [Next]_vars, NEW q \in Requests, pc'[q] = "idle"
    PROVE  pc[q] = "idle"
    <1>1. ASSUME NEW r \in Requests, NEW s \in Services, Serves(r, s)  PROVE pc[q] = "idle"
        BY <1>1, EndsApart DEF Serves
    <1>2. ASSUME NEW r \in Requests, Halts(r)  PROVE pc[q] = "idle"
        BY <1>2 DEF Halts
    <1> QED  BY <1>1, <1>2, StepKinds DEF Idles

LEMMA NextCall ==
    ASSUME Routes, CallInv, [Next]_vars
    PROVE  CallInv'
    <1>1. Routes' /\ "stage" \in Services
        BY RoutesStep DEF Services
    <1>2. ASSUME NEW r \in Requests, Steps("stage", r), Serves(r, "stage")  PROVE CallInv'
        BY <1>2, SeatsKeep, InvitesKeep, EndsKeep, AskedKeeps DEF Steps, StageStep
    <1>3. ASSUME load' = load, DOMAIN pc' = Requests, callRequests' = callRequests, answers' = answers,
                 \A q \in Requests : \/ pc'[q] = pc[q] \/ pc'[q] = "stopped"
                                     \/ call(q).op \notin Ops["stage"] /\ Routed(q, pc'[q])
          PROVE  CallInv'
        <2>1. ASSUME NEW q \in Requests, call(q).op \notin Ops["stage"], Routed(q, pc'[q])
              PROVE  /\ pc'[q] = "idle" => pc[q] = "idle"
                     /\ pc'[q] \notin {"askSeated", "askUpsert", "approveDelete", "inviteSeat",
                                      "invitePresent"}
            <3>1. pc'[q] \notin Places["stage"]
                BY <2>1 DEF Routed, Services
            <3> QED  BY <3>1, IdleOnce DEF Places
        <2>2. \A q \in Requests :
                 \/ pc'[q] = pc[q]
                 \/ (pc'[q] \notin Before \/ pc[q] \in Before) /\ ~Approving(q)'
            BY <1>3, <2>1 DEF Before, Approving
        <2> QED  BY <1>3, <2>2, MovesKeep
    <1>4. CASE CallsExpire
        <2>1. PICK late : Without(late)
            BY <1>4 DEF CallsExpire
        <2>2. load' = load /\ pc' = pc /\ answers' = answers
            BY <1>4 DEF CallsExpire, serviceVars
        <2> QED  BY <2>1, <2>2, AnswersKeep DEF CallInv, Asked
    <1>5. Untouched("stage") => CallsExpire \/ (callRequests' = callRequests /\ answers' = answers)
        BY DEF Untouched, stageVars
    <1>6. ASSUME NEW r \in Requests, Halts(r), Untouched("stage")  PROVE CallInv'
        <2>1. /\ load' = load /\ DOMAIN pc' = Requests
              /\ \A q \in Requests : pc'[q] = pc[q] \/ pc'[q] = "stopped"
            BY <1>6 DEF Halts
        <2> QED  BY <1>3, <1>4, <1>5, <1>6, <2>1
    <1>7. ASSUME Quiet("stage"), Untouched("stage")  PROVE CallInv'
        <2>1. load' = load /\ Requests' = Requests
            BY <1>7 DEF Quiet, Requests
        <2>2. DOMAIN pc' = Requests /\ \A q \in Requests : Routed(q, pc'[q])
            BY <1>1, <2>1 DEF Routes, Routed, call
        <2> QED  BY <1>3, <1>4, <1>5, <1>7, <2>1, <2>2 DEF Quiet
    <1> QED  BY <1>1, <1>2, <1>6, <1>7, StepsTo

\* However approvals, denials, withdrawals, new taps and the TTL monitor overlap, a viewer
\* has one pending request in a room, and it is denied or withdrawn once.
THEOREM AnsweredOnce == Spec => []CallsAnsweredOnce
    <1> DEFINE I == Routes /\ CallInv
    <1>1. Init => I
        BY RoutesInit, InitCall
    <1>2. I /\ [Next]_vars => I'
        BY RoutesStep, NextCall
    <1>3. I => CallsAnsweredOnce
        BY DEF CallInv
    <1> QED  BY <1>1, <1>2, <1>3, PTL DEF Spec
==============================================================================
