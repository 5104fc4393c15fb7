-------------------------------- MODULE MCRooms --------------------------------
(***************************************************************************)
(* Small instances of Rooms: a video room that is live, with its host and  *)
(* a guest inside, and the guest's own audio room, not created yet.        *)
(***************************************************************************)
EXTENDS Rooms, TLC

CONSTANTS video, audio, host, guest, other

Owner == video :> host @@ audio :> guest
Kind == video :> "video" @@ audio :> "audio"
Guests == video :> {host, guest} @@ audio :> {}

Ask(op, r, u, t, n) == [op |-> op, room |-> r, by |-> u, target |-> t, n |-> n]
Simple(op, r, u) == Ask(op, r, u, u, 0)

Seating ==
    {Ask("take", video, guest, guest, i) : i \in {1, 2}}
        \cup {Ask("take", video, host, host, i) : i \in {0, 1}}
        \cup {Ask("stand", video, guest, guest, 1), Ask("kick", video, host, guest, 1),
              Ask("lock", video, host, host, 1), Ask("unlock", video, host, host, 1)}

Presence == {Simple(op, video, u) : op \in {"enter", "leave"}, u \in {host, guest}}
Elsewhere == {Ask("open", audio, guest, guest, 1), Simple("enter", audio, guest),
              Simple("leave", audio, guest)}
Lists == {Ask(op, video, host, u, 0) :
              op \in {"promote", "demote", "block", "unblock"}, u \in {guest, other}}
Resize == {Ask("resize", video, host, host, i) : i \in {1, 2}}
Reopen == {Ask("open", video, host, host, 1)}
Admin == {Simple("remove", video, host), Simple("restore", video, host)}

Load(C, n, k) == [calls |-> C, requests |-> n, crashes |-> k]

GuestLists == {c \in Lists : c.target = guest}
Takes == {c \in Seating : c.op = "take" /\ c.n # 0}

\* Any two calls that meet on the seats, and any two that meet on the presence
\* rows, the lists or the status; then three that share the seats, the list of
\* admins, or a presence row; then the host coming and going across a restart.
AllLoads ==
    {Load(Seating \cup Resize \cup Reopen \cup Admin
             \cup {c \in GuestLists : c.op = "block"}
             \cup {c \in Presence : c.op = "leave"}, 2, 0),
     Load(Presence \cup Elsewhere \cup GuestLists \cup Reopen \cup Admin, 2, 0),
     Load(Takes \cup {c \in Resize : c.n = 1}, 3, 0),
     Load({c \in Lists : c.op = "promote" \/ (c.op = "demote" /\ c.target = guest)}, 3, 0),
     Load({c \in Presence : c.by = guest}, 3, 0),
     Load({Simple("enter", video, guest)} \cup Elsewhere, 3, 0),
     Load({c \in Presence : c.by = host}, 2, 1)}
==============================================================================
