-------------------------------- MODULE Social --------------------------------
(***************************************************************************)
(* Follows, blocks and profile visits (modules/social/social.service.ts).  *)
(* An edge is written first; the counters on the two profiles follow it,   *)
(* each by an update of its own, sent together and done in any order.      *)
(***************************************************************************)
EXTENDS Service

CONSTANTS
    People      \* the users

VARIABLES
    follows,    \* the edges: <<follower, followee>>
    blocks,     \* <<blocker, blocked>>
    visits,     \* <<visitor, visited>> -> the last day
    profile     \* user -> [following, followers], the counters he is shown

socialVars == <<follows, blocks, visits, profile>>

SocialInit ==
    /\ follows = {} /\ blocks = {} /\ visits = <<>>
    /\ profile = [u \in People |-> [following |-> 0, followers |-> 0]]

\* The edge that a call is about.
edge(r) == <<call(r).user, call(r).to>>

\* A call about somebody else, who exists.
Meets(r, op, to) ==
    /\ Begins(r, op)
    /\ Passes(r, IF call(r).user # call(r).to /\ call(r).to \in People THEN to ELSE "failed")
    /\ UNCHANGED socialVars

\* The two updates for an edge that was made (1) or deleted (-1).
Counting(e, delta) ==
    {[user |-> e[1], field |-> "following", by |-> delta],
     [user |-> e[2], field |-> "followers", by |-> delta]}

\* The updates are sent together: r goes on when the last is done.
Counts(r, updates) ==
    /\ Learns(r, [todo |-> updates]) /\ Goes(r, IF updates = {} THEN "done" ELSE "count")
    /\ UNCHANGED ledger

Count(r) ==
    /\ pc[r] = "count"
    /\ \E x \in job[r].todo :
          /\ profile' = [profile EXCEPT ![x.user][x.field] = @ + x.by]
          /\ Counts(r, job[r].todo \ {x})
    /\ UNCHANGED <<follows, blocks, visits>>

------------------------------------------------------------------------------
\* follow and unfollow.

Follow(r) == Meets(r, "follow", "followInsert")

\* One edge for a pair: a second one is refused by the index, and not counted.
FollowInsert(r) ==
    /\ pc[r] = "followInsert"
    /\ follows' = follows \cup {edge(r)}
    /\ Counts(r, IF edge(r) \in follows THEN {} ELSE Counting(edge(r), 1))
    /\ UNCHANGED <<blocks, visits, profile>>

Unfollow(r) ==
    /\ Begins(r, "unfollow")
    /\ follows' = follows \ {edge(r)}
    /\ Counts(r, IF edge(r) \in follows THEN Counting(edge(r), -1) ELSE {})
    /\ UNCHANGED <<blocks, visits, profile>>

------------------------------------------------------------------------------
\* blockUser and unblockUser.

Block(r) == Meets(r, "block", "blockInsert")

BlockInsert(r) ==
    /\ pc[r] = "blockInsert"
    /\ blocks' = blocks \cup {edge(r)}
    /\ IF edge(r) \in blocks THEN Passes(r, "done")
       ELSE /\ Learns(r, [cut |-> {edge(r), Reverse(edge(r))}, gone |-> {}])
            /\ Goes(r, "blockCut") /\ UNCHANGED ledger
    /\ UNCHANGED <<follows, visits, profile>>

MutantBlockCut(r) ==
    /\ pc[r] = "blockCut"
    /\ \E e \in job[r].cut :
          /\ follows' = follows \ {e}
          /\ Learns(r, [cut |-> job[r].cut \ {e}, gone |-> job[r].gone \cup {e}])
          /\ Goes(r, IF job[r].cut = {e} THEN "blockCount" ELSE "blockCut")
    /\ UNCHANGED <<ledger, blocks, visits, profile>>

\* Both edges are deleted, in either order.
BlockCut(r) ==
    /\ pc[r] = "blockCut"
    /\ \E e \in job[r].cut :
          /\ follows' = follows \ {e}
          /\ Learns(r, [cut |-> job[r].cut \ {e}, gone |-> job[r].gone \cup ({e} \cap follows)])
          /\ Goes(r, IF job[r].cut = {e} THEN "blockCount" ELSE "blockCut")
    /\ UNCHANGED <<ledger, blocks, visits, profile>>

\* The counters of the edges that this call deleted.
BlockCount(r) ==
    /\ pc[r] = "blockCount"
    /\ Counts(r, UNION {Counting(e, -1) : e \in job[r].gone})
    /\ UNCHANGED socialVars

Unblock(r) ==
    /\ Begins(r, "unblock")
    /\ blocks' = blocks \ {edge(r)}
    /\ Passes(r, "done") /\ UNCHANGED <<follows, visits, profile>>

\* hiddenUserIdsFor: whoever blocked u, or is blocked by u.
Hidden(u) == {v \in People : <<u, v>> \in blocks \/ <<v, u>> \in blocks}

------------------------------------------------------------------------------
\* recordVisit, and the lists.

Visit(r) ==
    /\ Begins(r, "visit")
    /\ visits' = IF call(r).user = call(r).to THEN visits ELSE Put(visits, edge(r), day)
    /\ Passes(r, "done") /\ UNCHANGED <<follows, blocks, profile>>

\* The lists of somebody's people: `before` is whom the caller hid when he asked.
Lists(r, people, sides, to) ==
    /\ Learns(r, [people |-> people, sides |-> sides, before |-> Hidden(call(r).user)])
    /\ Goes(r, to) /\ UNCHANGED <<ledger, socialVars>>

Side(u, side) == IF side = "following" THEN {e[2] : e \in {d \in follows : d[1] = u}}
                 ELSE {e[1] : e \in {d \in follows : d[2] = u}}

\* listFollowers and listFollowing, listVisitors, listBlocked.
Listing(r) ==
    LET u == call(r).to IN
    \/ /\ Begins(r, "following") \/ Begins(r, "followers")
       /\ Lists(r, Side(u, call(r).op), {}, "hydrate")
    \/ /\ Begins(r, "visitors")
       /\ Lists(r, {v[1] : v \in {w \in DOMAIN visits : w[2] = u}}, {}, "hydrate")
    \/ Begins(r, "blocked") /\ Lists(r, {b[2] : b \in {d \in blocks : d[1] = u}}, {}, "done")
    \/ Begins(r, "friends") /\ Lists(r, People, {"following", "followers"}, "friends")

\* listFriends: the two sides are read apart, and a friend is in both.
FriendsSide(r) ==
    /\ pc[r] = "friends"
    /\ \E side \in job[r].sides :
          /\ Learns(r, [sides |-> job[r].sides \ {side},
                        people |-> job[r].people \cap Side(call(r).to, side)])
          /\ Goes(r, IF job[r].sides = {side} THEN "hydrate" ELSE "friends")
    /\ UNCHANGED <<ledger, socialVars>>

MutantHydrate(r) == pc[r] = "hydrate" /\ Passes(r, "done") /\ UNCHANGED socialVars

\* hydrateUsers: those whom the caller hides are left out.
Hydrate(r) ==
    /\ pc[r] = "hydrate"
    /\ Learns(r, [people |-> job[r].people \ Hidden(call(r).user)])
    /\ Goes(r, "done") /\ UNCHANGED <<ledger, socialVars>>

SocialStep(r) ==
    \/ Follow(r) \/ FollowInsert(r) \/ Unfollow(r) \/ Count(r)
    \/ Block(r) \/ BlockInsert(r) \/ BlockCut(r) \/ BlockCount(r) \/ Unblock(r)
    \/ Visit(r) \/ Listing(r) \/ FriendsSide(r) \/ Hydrate(r)

------------------------------------------------------------------------------
\* The properties.

Edges(u, field) == {e \in follows : u = IF field = "following" THEN e[1] ELSE e[2]}

\* Every service of social.service.ts: however follows, unfollows and blocks of the same
\* people overlap, once all have been answered each counter is the number of edges; a call
\* that died half way is missed in a counter at most once, and in no other way.
FollowsCounted ==
    (\A r \in Requests : pc[r] \in Over \cup {"idle"}) =>
        \A u \in People, field \in {"following", "followers"} :
            LET error == profile[u][field] - Cardinality(Edges(u, field))
            IN  error \in (0 - stops) .. stops

\* The lists that were answered, but for those of whom one has blocked oneself.
Answered == {r \in Requests : pc[r] = "done" /\ call(r).op # "blocked" /\ "before" \in DOMAIN job[r]}

\* "A blocked user does NOT appear in the blocker's lists.  The blocker does NOT appear in
\* the blocked user's lists either" (user-block.schema.ts): whatever blocks, follows and
\* unfollows come between the reads of a list, it shows nobody who was hidden when it was
\* asked for and has not been unblocked.
ListsHideBlocked ==
    (\A r \in Requests : call(r).op # "unblock") =>
        \A r \in Answered : job[r].people \cap job[r].before = {}

\* social.service.ts as a whole: its counters are those of its edges, its lists keep the blocks.
FollowsHold == FollowsCounted /\ ListsHideBlocked
==============================================================================
