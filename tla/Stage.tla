--------------------------------- MODULE Stage ---------------------------------
(***************************************************************************)
(* What happens on the seats of a room once somebody sits there            *)
(* (modules/rooms/rooms.service.ts): microphones and cameras, invitations, *)
(* the call requests of a host's broadcast, and the room's chat.  Entering, *)
(* closing, resizing and the sweeper are in Rooms; here the seats of a room *)
(* stay, and its document has the two policies.                            *)
(***************************************************************************)
EXTENDS Notices

CONSTANTS
    Host,       \* the owner of the rooms
    Admins,     \* their admins
    Banned,     \* the users blocked from them
    Layout,     \* room -> "audio", "hostBroadcast" or "multiSeat"
    Seats       \* the indices of the seats of a room; 0 is the owner's

ASSUME SeatsAssumption == 0 \in Seats /\ Host \notin Banned

Nobody == "nobody"

ASSUME NobodyAssumption ==
    \A w \in Workloads : \A c \in Range(w.calls) : c.op = "takeMic" => c.user # Nobody

VARIABLES
    mics,           \* <<room, index>> -> [user, muted, by, video, locked]
    policies,       \* room -> [chat, mic], each "all" or "admins"
    audience,       \* the presence rows: <<room, user>>
    callRequests,   \* id -> [room, user, until]; its id is the request that made it
    invitations,    \* SEAT_INVITED: [by, room, seat, to]
    answers,        \* CALL_REQUEST_RESOLVED: [id, by, status]
    lines           \* the chat: message -> [room, author, shown]

stageVars == <<mics, policies, audience, callRequests, invitations, answers, lines>>

EmptyMic == [user |-> Nobody, muted |-> FALSE, by |-> "none", video |-> FALSE]
Clear(seat) == Override(seat, EmptyMic)

Mics == (DOMAIN Layout) \X Seats
mic(r) == <<call(r).room, call(r).seat>>

StageInit ==
    /\ mics = [s \in Mics |-> Override(EmptyMic, [locked |-> FALSE])]
    /\ policies = [x \in DOMAIN Layout |-> [chat |-> "all", mic |-> "all"]]
    /\ audience = {} /\ callRequests = <<>>
    /\ invitations = {} /\ answers = {} /\ lines = <<>>

\* The owner and the admins.
Moderates(u) == u = Host \/ u \in Admins

\* Only the owner's camera is on in a broadcast; every seat's in a multi-seat room.
HasCamera(s) ==
    Layout[s[1]] = "multiSeat" \/ (Layout[s[1]] = "hostBroadcast" /\ s[2] = 0)

OnlyMics == UNCHANGED <<policies, audience, callRequests, invitations, answers, lines>>
Seating == OnlyMics /\ UNCHANGED noticeVars

\* pushToUser: a push that leaves nothing in the inbox.
Rings(u) ==
    /\ pushes' = pushes \cup {[user |-> u, tokens |-> {}, read |-> FALSE]}
    /\ UNCHANGED <<inbox, devices>>

------------------------------------------------------------------------------
\* enter and leave, as far as they concern the presence row and the seats.

EnterStage(r) ==
    /\ Begins(r, "enterStage")
    /\ IF call(r).user \in Banned THEN Passes(r, "failed") /\ UNCHANGED audience
       ELSE Passes(r, "done") /\ audience' = audience \cup {<<call(r).room, call(r).user>>}
    /\ UNCHANGED <<mics, policies, callRequests, invitations, answers, lines, noticeVars>>

LeaveStage(r) ==
    /\ Begins(r, "leaveStage")
    /\ audience' = audience \ {<<call(r).room, call(r).user>>}
    /\ Passes(r, "leaveMics")
    /\ UNCHANGED <<mics, policies, callRequests, invitations, answers, lines, noticeVars>>

\* The seats of room x that u holds are emptied.
Vacated(x, u, except) ==
    [s \in Mics |-> IF s[1] = x /\ mics[s].user = u /\ s # except THEN Clear(mics[s]) ELSE mics[s]]

LeaveMics(r) ==
    /\ pc[r] = "leaveMics"
    /\ mics' = Vacated(call(r).room, call(r).user, <<>>)
    /\ Passes(r, "done") /\ Seating

\* takeSeat: the room's document, the claim of an empty unlocked seat, the user's other seats.
TakeMic(r) ==
    LET u == call(r).user IN
    /\ Begins(r, "takeMic")
    /\ Passes(r, IF u \in Banned \/ (call(r).seat = 0 /\ u # Host)
                    \/ (~Moderates(u) /\ policies[call(r).room].mic = "admins")
                 THEN "failed" ELSE "takeMicClaim")
    /\ UNCHANGED mics /\ Seating

TakeMicClaim(r) ==
    LET s == mic(r) IN
    /\ pc[r] = "takeMicClaim"
    /\ IF mics[s].user # Nobody \/ mics[s].locked THEN Passes(r, "failed") /\ UNCHANGED mics
       ELSE /\ mics' = [mics EXCEPT ![s] =
                          Override(Clear(@), [user |-> call(r).user, video |-> HasCamera(s)])]
            /\ Passes(r, "takeMicVacate")
    /\ Seating

\* Has he other seats in the room?
TakeMicVacate(r) ==
    /\ pc[r] = "takeMicVacate"
    /\ Passes(r, IF \E s \in Mics : s[1] = call(r).room /\ mics[s].user = call(r).user /\ s # mic(r)
                 THEN "takeMicClear" ELSE "done")
    /\ UNCHANGED mics /\ Seating

TakeMicClear(r) ==
    /\ pc[r] = "takeMicClear"
    /\ mics' = Vacated(call(r).room, call(r).user, mic(r))
    /\ Passes(r, "done") /\ Seating

StandUp(r) ==
    /\ Begins(r, "standUp")
    /\ IF mics[mic(r)].user # call(r).user THEN Passes(r, "failed") /\ UNCHANGED mics
       ELSE Passes(r, "done") /\ mics' = [mics EXCEPT ![mic(r)] = Clear(@)]
    /\ Seating

LockMic(r) ==
    /\ Begins(r, "lockMic")
    /\ Passes(r, IF Moderates(call(r).by) /\ call(r).seat # 0 THEN "lockMicSave" ELSE "failed")
    /\ UNCHANGED mics /\ Seating

LockMicSave(r) ==
    /\ pc[r] = "lockMicSave"
    /\ mics' = [mics EXCEPT ![mic(r)].locked = call(r).on]
    /\ Passes(r, "done") /\ Seating

\* kickFromSeat: the push goes to the one who sat there at the first look.
KickMic(r) ==
    /\ Begins(r, "kickMic")
    /\ IF Moderates(call(r).by) /\ call(r).seat # 0
       THEN Learns(r, [held |-> mics[mic(r)].user]) /\ Goes(r, "kickMicSave")
       ELSE Goes(r, "failed") /\ UNCHANGED job
    /\ UNCHANGED <<ledger, mics>> /\ Seating

KickMicSave(r) ==
    /\ pc[r] = "kickMicSave"
    /\ IF mics[mic(r)].user = Nobody
       THEN Passes(r, "failed") /\ UNCHANGED <<mics, noticeVars>>
       ELSE /\ mics' = [mics EXCEPT ![mic(r)] = Clear(@)]
            /\ Passes(r, "done")
            /\ IF job[r].held = Nobody THEN UNCHANGED noticeVars ELSE Rings(job[r].held)
    /\ OnlyMics

------------------------------------------------------------------------------
\* setSeatMuted and setSeatVideo: the seat is read, and what changed of it is saved.

\* Who may touch the seat as r read it: its holder, the owner, an admin.
MayTouch(r) ==
    /\ mic(r) \in Mics /\ mics[mic(r)].user # Nobody
    /\ Moderates(call(r).by) \/ mics[mic(r)].user = call(r).by

\* decided before the no-op check, so that a moderator's mute takes over the holder's own.
MutedBy(r) ==
    IF ~call(r).on THEN "none"
    ELSE IF mics[mic(r)].user = call(r).by THEN "self"
    ELSE IF call(r).soft THEN "host_soft" ELSE "host"

\* A host's mute is not lifted by the holder.
HostMuted(r) ==
    ~call(r).on /\ mics[mic(r)].muted /\ mics[mic(r)].by = "host" /\ ~Moderates(call(r).by)

Changes(r, doc, new, to) ==
    /\ IF doc = new THEN Goes(r, "done") /\ UNCHANGED job
       ELSE Learns(r, [doc |-> doc, new |-> new]) /\ Goes(r, to)
    /\ UNCHANGED ledger

MutantSetMuted(r) ==
    LET doc == mics[mic(r)] IN
    /\ Begins(r, "mute")
    /\ IF ~MayTouch(r) THEN Passes(r, "failed")
       ELSE Changes(r, doc, [doc EXCEPT !.muted = call(r).on, !.by = MutedBy(r)], "micSave")
    /\ UNCHANGED mics /\ Seating

SetMuted(r) ==
    LET doc == mics[mic(r)] IN
    /\ Begins(r, "mute")
    /\ IF ~MayTouch(r) \/ HostMuted(r) THEN Passes(r, "failed")
       ELSE Changes(r, doc, [doc EXCEPT !.muted = call(r).on, !.by = MutedBy(r)], "micSave")
    /\ UNCHANGED mics /\ Seating

SetVideo(r) ==
    LET doc == mics[mic(r)] IN
    /\ Begins(r, "video")
    /\ IF ~HasCamera(mic(r)) \/ ~MayTouch(r) THEN Passes(r, "failed")
       ELSE Changes(r, doc, [doc EXCEPT !.video = call(r).on], "micSave")
    /\ UNCHANGED mics /\ Seating

MicSave(r) ==
    /\ pc[r] = "micSave"
    /\ mics' = [mics EXCEPT ![mic(r)] = Saves(@, job[r].doc, job[r].new)]
    /\ Passes(r, "done") /\ Seating

------------------------------------------------------------------------------
\* inviteToSeat, for the host's own invitation and for an approved call request.

OnlyCalls == UNCHANGED <<mics, policies, audience, lines>>
Quietly == OnlyCalls /\ UNCHANGED noticeVars

Invite(r) ==
    /\ Begins(r, "invite")
    /\ Passes(r, IF Moderates(call(r).by) /\ call(r).seat # 0 /\ call(r).to # Host
                 THEN "inviteSeat" ELSE "failed")
    /\ Quietly /\ UNCHANGED <<callRequests, invitations, answers>>

\* Whom r invites.
Invitee(r) == IF call(r).op = "invite" THEN call(r).to ELSE job[r].user

InviteSeat(r) ==
    /\ pc[r] = "inviteSeat"
    /\ Passes(r, IF mics[mic(r)].user = Nobody /\ ~mics[mic(r)].locked
                 THEN "invitePresent" ELSE "failed")
    /\ Quietly /\ UNCHANGED <<callRequests, invitations, answers>>

InvitePresent(r) ==
    LET u == Invitee(r) IN
    /\ pc[r] = "invitePresent"
    /\ IF <<call(r).room, u>> \notin audience
       THEN Passes(r, "failed") /\ UNCHANGED <<invitations, noticeVars>>
       ELSE /\ invitations' = invitations \cup
                 {[by |-> r, room |-> call(r).room, seat |-> call(r).seat, to |-> u]}
            /\ Rings(u)
            /\ Passes(r, IF call(r).op = "invite" THEN "done" ELSE "approveDelete")
    /\ OnlyCalls /\ UNCHANGED <<callRequests, answers>>

------------------------------------------------------------------------------
\* Call requests: `until` is a day here, five minutes there.

Waiting(u, x) == {i \in DOMAIN callRequests : callRequests[i].user = u /\ callRequests[i].room = x}

\* createCallRequest: the room, whether he is seated, the upsert.
AskCall(r) ==
    /\ Begins(r, "askCall")
    /\ Passes(r, IF Layout[call(r).room] = "hostBroadcast" /\ call(r).user # Host
                 THEN "askSeated" ELSE "failed")
    /\ Quietly /\ UNCHANGED <<callRequests, invitations, answers>>

AskSeated(r) ==
    /\ pc[r] = "askSeated"
    /\ Passes(r, IF \E i \in Seats : mics[<<call(r).room, i>>].user = call(r).user
                 THEN "failed" ELSE "askUpsert")
    /\ Quietly /\ UNCHANGED <<callRequests, invitations, answers>>

AskUpsert(r) ==
    LET mine == Waiting(call(r).user, call(r).room)
        dated == IF mine = {} THEN {r} ELSE mine
    IN
    /\ pc[r] = "askUpsert"
    /\ callRequests' =
          [i \in DOMAIN callRequests \cup dated |->
              IF i \in dated
              THEN [room |-> call(r).room, user |-> call(r).user, until |-> day + 1]
              ELSE callRequests[i]]
    /\ Passes(r, "done") /\ Quietly /\ UNCHANGED <<invitations, answers>>

Without(ids) == callRequests' = Restrict(callRequests, DOMAIN callRequests \ ids)
Resolves(i, r, status) == answers' = answers \cup {[id |-> i, by |-> r, status |-> status]}
Pending(r) == call(r).id \in DOMAIN callRequests /\ callRequests[call(r).id].room = call(r).room

\* approveCallRequest: the row, its date, the invitation, the row's end.
ApproveCall(r) ==
    /\ Begins(r, "approveCall")
    /\ IF ~Moderates(call(r).by) \/ ~Pending(r) THEN Goes(r, "failed") /\ UNCHANGED job
       ELSE /\ Learns(r, [user |-> callRequests[call(r).id].user])
            /\ Goes(r, IF callRequests[call(r).id].until <= day THEN "approveExpired"
                       ELSE IF call(r).seat = 0 THEN "failed" ELSE "inviteSeat")
    /\ UNCHANGED <<ledger, callRequests, invitations, answers>> /\ Quietly

ApproveExpired(r) ==
    /\ pc[r] = "approveExpired"
    /\ Without({call(r).id}) /\ Passes(r, "failed")
    /\ Quietly /\ UNCHANGED <<invitations, answers>>

ApproveDelete(r) ==
    /\ pc[r] = "approveDelete"
    /\ Without({call(r).id}) /\ Resolves(call(r).id, r, "approved")
    /\ Passes(r, "done") /\ Quietly /\ UNCHANGED invitations

DenyCall(r) ==
    /\ Begins(r, "denyCall")
    /\ Passes(r, IF Moderates(call(r).by) THEN "denyDelete" ELSE "failed")
    /\ Quietly /\ UNCHANGED <<callRequests, invitations, answers>>

MutantDenyDelete(r) ==
    /\ pc[r] = "denyDelete"
    /\ Without({call(r).id}) /\ Resolves(call(r).id, r, "denied")
    /\ Passes(r, "done") /\ Quietly /\ UNCHANGED invitations

\* findOneAndDelete: the one who deleted the row tells the room.
DenyDelete(r) ==
    /\ pc[r] = "denyDelete"
    /\ IF Pending(r) THEN Without({call(r).id}) /\ Resolves(call(r).id, r, "denied")
       ELSE UNCHANGED <<callRequests, answers>>
    /\ Passes(r, "done") /\ Quietly /\ UNCHANGED invitations

CancelCall(r) ==
    /\ Begins(r, "cancelCall")
    /\ IF Waiting(call(r).user, call(r).room) = {} THEN UNCHANGED <<callRequests, answers>>
       ELSE \E i \in Waiting(call(r).user, call(r).room) : Without({i}) /\ Resolves(i, r, "canceled")
    /\ Passes(r, "done") /\ Quietly /\ UNCHANGED invitations

\* MongoDB's TTL monitor.
CallsExpire ==
    LET late == {i \in DOMAIN callRequests : callRequests[i].until < day} IN
    /\ late # {} /\ Without(late)
    /\ Quietly /\ UNCHANGED <<invitations, answers, serviceVars>>

------------------------------------------------------------------------------
\* updateSettings, as far as the policies go, and the chat.

SetPolicies(r) ==
    /\ Begins(r, "policies")
    /\ IF call(r).by = Host
       THEN Learns(r, [doc |-> policies[call(r).room]]) /\ Goes(r, "policiesSave")
       ELSE Goes(r, "failed") /\ UNCHANGED job
    /\ UNCHANGED <<ledger, mics>> /\ Seating

PoliciesSave(r) ==
    /\ pc[r] = "policiesSave"
    /\ policies' = [policies EXCEPT ![call(r).room] =
                       Saves(@, job[r].doc, Override(job[r].doc, call(r).fields))]
    /\ Passes(r, "done")
    /\ UNCHANGED <<mics, audience, callRequests, invitations, answers, lines, noticeVars>>

OnlyLines == UNCHANGED <<mics, policies, audience, callRequests, invitations, answers, noticeVars>>

SendChat(r) ==
    LET u == call(r).user IN
    /\ Begins(r, "chat")
    /\ Passes(r, IF u \in Banned \/ (~Moderates(u) /\ policies[call(r).room].chat = "admins")
                 THEN "failed" ELSE "chatCreate")
    /\ OnlyLines /\ UNCHANGED lines

ChatCreate(r) ==
    /\ pc[r] = "chatCreate"
    /\ lines' = Put(lines, r, [room |-> call(r).room, author |-> call(r).user, shown |-> TRUE])
    /\ Passes(r, "done") /\ OnlyLines

CleanChat(r) ==
    /\ Begins(r, "cleanChat")
    /\ Passes(r, IF Moderates(call(r).by) THEN "cleanChatSave" ELSE "failed")
    /\ OnlyLines /\ UNCHANGED lines

CleanChatSave(r) ==
    /\ pc[r] = "cleanChatSave"
    /\ lines' = [l \in DOMAIN lines |->
                    [lines[l] EXCEPT !.shown = @ /\ lines[l].room # call(r).room]]
    /\ Passes(r, "done") /\ OnlyLines

StageStep(r) ==
    \/ EnterStage(r) \/ LeaveStage(r) \/ LeaveMics(r)
    \/ TakeMic(r) \/ TakeMicClaim(r) \/ TakeMicVacate(r) \/ TakeMicClear(r) \/ StandUp(r)
    \/ LockMic(r) \/ LockMicSave(r) \/ KickMic(r) \/ KickMicSave(r)
    \/ SetMuted(r) \/ SetVideo(r) \/ MicSave(r)
    \/ Invite(r) \/ InviteSeat(r) \/ InvitePresent(r)
    \/ AskCall(r) \/ AskSeated(r) \/ AskUpsert(r)
    \/ ApproveCall(r) \/ ApproveExpired(r) \/ ApproveDelete(r)
    \/ DenyCall(r) \/ DenyDelete(r) \/ CancelCall(r)
    \/ SetPolicies(r) \/ PoliciesSave(r)
    \/ SendChat(r) \/ ChatCreate(r) \/ CleanChat(r) \/ CleanChatSave(r)

------------------------------------------------------------------------------
\* The properties.

\* approveCallRequest, denyCallRequest and cancelCallRequest, however they and the TTL
\* monitor overlap: a viewer has one pending request in a room, one that was answered is not
\* pending any more, and it is denied or withdrawn once.
CallsAnsweredOnce ==
    /\ \A i \in DOMAIN callRequests :
          Waiting(callRequests[i].user, callRequests[i].room) = {i}
    /\ \A a \in answers : a.id \notin DOMAIN callRequests
    /\ \A a, b \in answers : a.id = b.id /\ "approved" \notin {a.status, b.status} => a = b

\* Nobody is called to leave a seat or takes a second one, and no moderator lifts a mute
\* or softens it.
Steady ==
    \A q \in Requests :
        /\ call(q).op \notin {"standUp", "leaveStage", "kickMic"}
        /\ call(q).op = "mute" => (call(q).on /\ ~call(q).soft) \/ ~Moderates(call(q).by)
        /\ \A p \in Requests : {call(p).op, call(q).op} = {"takeMic"} /\ call(p).user = call(q).user
                                  => mic(p) = mic(q)

\* r muted by force somebody else's seat.
Forced(r) ==
    /\ call(r).op = "mute" /\ pc[r] = "done" /\ call(r).on /\ ~call(r).soft
    /\ mics[mic(r)].user \notin {Nobody, call(r).by}
    /\ Steady

\* The holder of the seat r muted never mutes himself.
Unhelped(r) ==
    \A q \in Requests : call(q).op = "mute" /\ call(q).on => call(q).by # mics[mic(r)].user

\* setSeatMuted, setSeatVideo and takeSeat: no camera is on where the layout has none; and
\* when calls wait for each other, a seat somebody left is quiet, a mute has an author, and
\* the holder does not lift a host's mute by asking for his voice back.
StageHolds ==
    /\ \A s \in Mics : mics[s].video => HasCamera(s)
    /\ load.patient =>
          /\ \A s \in Mics : mics[s].user = Nobody => mics[s] = Clear(mics[s])
          /\ \A s \in Mics : mics[s].muted <=> mics[s].by # "none"
          /\ \A r \in Requests : Forced(r) /\ Unhelped(r) => mics[mic(r)].muted

\* setSeatMuted: a host's mute is lifted by a host only, its comment and the schema say;
\* here of calls that wait for each other.
OnlyHostsLift == load.patient => \A r \in Requests : Forced(r) => mics[mic(r)].muted
==============================================================================
