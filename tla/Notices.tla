-------------------------------- MODULE Notices --------------------------------
(***************************************************************************)
(* The inbox (modules/notifications) and the push tokens of the devices    *)
(* (modules/fcm).  A notice is written to the inbox; the push that follows *)
(* it is not awaited: it reads the tokens of the user, hands them to       *)
(* Firebase, and deletes those that Firebase does not know any more.       *)
(***************************************************************************)
EXTENDS Service

CONSTANTS
    DeadTokens  \* the tokens Firebase rejects

VARIABLES
    inbox,      \* <<request, user>> -> whether that notice was read
    devices,    \* token -> the user it pushes to
    pushes      \* the pushes under way: [user, tokens, read]

noticeVars == <<inbox, devices, pushes>>

NoticesInit == inbox = <<>> /\ devices = <<>> /\ pushes = {}

\* NotificationsService.create.
Notify(r, u) ==
    /\ inbox' = Put(inbox, <<r, u>>, FALSE)
    /\ pushes' = pushes \cup {[user |-> u, tokens |-> {}, read |-> FALSE]}
    /\ UNCHANGED devices

TokensOf(u) == {t \in DOMAIN devices : devices[t] = u}

\* sendToUser, sendToTokens.
PushFind(p) ==
    /\ ~p.read
    /\ pushes' = (pushes \ {p}) \cup {[p EXCEPT !.tokens = TokensOf(p.user), !.read = TRUE]}
    /\ UNCHANGED <<inbox, devices>>

PushSend(p) ==
    /\ p.read
    /\ pushes' = pushes \ {p}
    /\ devices' = Restrict(devices, DOMAIN devices \ (p.tokens \cap DeadTokens))
    /\ UNCHANGED inbox

Pushing == \E p \in pushes : PushFind(p) \/ PushSend(p)

------------------------------------------------------------------------------
\* The panel's push: the users of a batch are served together, each on his own.

Broadcast(r) ==
    /\ Begins(r, "broadcast")
    /\ Learns(r, [todo |-> call(r).users])
    /\ Goes(r, IF call(r).users = {} THEN "failed" ELSE "broadcast")
    /\ UNCHANGED <<ledger, noticeVars>>

BroadcastTo(r) ==
    /\ pc[r] = "broadcast"
    /\ \E u \in job[r].todo :
          /\ Notify(r, u)
          /\ Learns(r, [todo |-> job[r].todo \ {u}])
          /\ Goes(r, IF job[r].todo = {u} THEN "done" ELSE "broadcast")
    /\ UNCHANGED ledger

------------------------------------------------------------------------------
\* markRead and markAllRead of a user's own notices.

MarkNotice(r) ==
    LET k == <<call(r).notice, call(r).user>> IN
    /\ Begins(r, "markNotice")
    /\ inbox' = IF k \in DOMAIN inbox THEN [inbox EXCEPT ![k] = TRUE] ELSE inbox
    /\ Passes(r, "done") /\ UNCHANGED <<devices, pushes>>

MarkAll(r) ==
    /\ Begins(r, "markAll")
    /\ inbox' = [k \in DOMAIN inbox |-> inbox[k] \/ k[2] = call(r).user]
    /\ Passes(r, "done") /\ UNCHANGED <<devices, pushes>>

\* registerToken: a token belongs to the user who registered it last.
RegisterDevice(r) ==
    /\ Begins(r, "register")
    /\ devices' = Put(devices, call(r).token, call(r).user)
    /\ Passes(r, "done") /\ UNCHANGED <<inbox, pushes>>

UnregisterDevice(r) ==
    /\ Begins(r, "unregister")
    /\ devices' = Restrict(devices, DOMAIN devices \ {call(r).token})
    /\ Passes(r, "done") /\ UNCHANGED <<inbox, pushes>>

NoticesStep(r) ==
    \/ Broadcast(r) \/ BroadcastTo(r) \/ MarkNotice(r) \/ MarkAll(r)
    \/ RegisterDevice(r) \/ UnregisterDevice(r)
==============================================================================
