-------------------------------- MODULE Moments --------------------------------
(***************************************************************************)
(* Moments, their reactions and comments                                   *)
(* (modules/moments/moments.service.ts).  The rows are the truth; a moment *)
(* carries a counter of each, changed by an update after the row was.  An  *)
(* update that would count below zero is skipped.                          *)
(***************************************************************************)
EXTENDS Social

VARIABLES
    moments,    \* moment -> [author, status, likes, comments]; its id is its request's
    reactions,  \* <<moment, user>> -> the kind of reaction
    comments    \* comment -> [moment, author, status]

momentVars == <<moments, reactions, comments>>

MomentsInit == moments = <<>> /\ reactions = <<>> /\ comments = <<>>

momentOf(r) == call(r).moment
Exists(r) == momentOf(r) \in DOMAIN moments
Active(r) == Exists(r) /\ moments[momentOf(r)].status = "active"

\* A round trip that reads, and the condition to go on.
Looks(r, ok, to) == Passes(r, IF ok THEN to ELSE "failed") /\ UNCHANGED momentVars

\* $inc of a counter of a moment; a decrement asks for a positive counter.
Tallied(m, field, by) ==
    [moments EXCEPT ![m][field] = IF by < 0 /\ @ = 0 THEN @ ELSE @ + by]

Tally(r, m, field, by) ==
    /\ moments' = Tallied(m, field, by)
    /\ Passes(r, "done") /\ UNCHANGED <<reactions, comments>>

------------------------------------------------------------------------------
\* create; deleteOwn by the author; adminRemove and adminRestore by the panel.

CreateMoment(r) ==
    /\ Begins(r, "moment")
    /\ moments' = Put(moments, r, [author |-> call(r).user, status |-> "active", likes |-> 0,
                                 comments |-> 0])
    /\ Passes(r, "done") /\ UNCHANGED <<reactions, comments>>

NewStatus(r) == CASE call(r).op = "deleteMoment" -> "deleted"
                  [] call(r).op = "removeMoment" -> "removed"
                  [] OTHER -> "active"

\* The save has nothing to write when the status is the new one already.
Moderate(r) ==
    LET m == momentOf(r) IN
    /\ Begins(r, "deleteMoment") \/ Begins(r, "removeMoment") \/ Begins(r, "restoreMoment")
    /\ Looks(r, /\ Exists(r)
                /\ call(r).op = "deleteMoment" => moments[m].author = call(r).user,
             IF Exists(r) /\ moments[m].status = NewStatus(r) THEN "done" ELSE "momentSave")

\* save() of a status that was another: it is overwritten, whatever it has become.
MomentSave(r) ==
    /\ pc[r] = "momentSave"
    /\ moments' = [moments EXCEPT ![momentOf(r)].status = NewStatus(r)]
    /\ Passes(r, "done") /\ UNCHANGED <<reactions, comments>>

------------------------------------------------------------------------------
\* react and unlike.

React(r) == Begins(r, "react") /\ Looks(r, Active(r), "reactUpsert")

\* One reaction of a user to a moment; another kind replaces it and is not counted.
ReactUpsert(r) ==
    LET k == <<momentOf(r), call(r).user>> IN
    /\ pc[r] = "reactUpsert"
    /\ reactions' = Put(reactions, k, call(r).kind)
    /\ Passes(r, IF k \in DOMAIN reactions THEN "done" ELSE "reactCount")
    /\ UNCHANGED <<moments, comments>>

ReactCount(r) == pc[r] = "reactCount" /\ Tally(r, momentOf(r), "likes", 1)

Unlike(r) == Begins(r, "unlike") /\ Looks(r, Exists(r), "unlikeDelete")

MutantUnlikeDelete(r) ==
    LET k == <<momentOf(r), call(r).user>> IN
    /\ pc[r] = "unlikeDelete"
    /\ reactions' = Restrict(reactions, DOMAIN reactions \ {k})
    /\ Passes(r, "unlikeCount") /\ UNCHANGED <<moments, comments>>

UnlikeDelete(r) ==
    LET k == <<momentOf(r), call(r).user>> IN
    /\ pc[r] = "unlikeDelete"
    /\ reactions' = Restrict(reactions, DOMAIN reactions \ {k})
    /\ Passes(r, IF k \in DOMAIN reactions THEN "unlikeCount" ELSE "done")
    /\ UNCHANGED <<moments, comments>>

UnlikeCount(r) == pc[r] = "unlikeCount" /\ Tally(r, momentOf(r), "likes", -1)

------------------------------------------------------------------------------
\* createComment, deleteOwnComment, adminRemoveComment.

CreateComment(r) ==
    /\ Begins(r, "comment")
    /\ Looks(r, Active(r), IF call(r).parent = 0 THEN "commentCreate" ELSE "commentParent")

\* A reply is to a comment of the same moment, whatever its status.
CommentParent(r) ==
    LET p == call(r).parent IN
    /\ pc[r] = "commentParent"
    /\ Looks(r, p \in DOMAIN comments /\ comments[p].moment = momentOf(r), "commentCreate")

CommentCreate(r) ==
    /\ pc[r] = "commentCreate"
    /\ comments' = Put(comments, r,
                         [moment |-> momentOf(r), author |-> call(r).user, status |-> "active"])
    /\ Passes(r, "commentCount") /\ UNCHANGED <<moments, reactions>>

CommentCount(r) == pc[r] = "commentCount" /\ Tally(r, momentOf(r), "comments", 1)

\* What is read of the comment decides whether it will be counted out.
FindsComment(r, ok(_), to) ==
    LET c == call(r).comment IN
    IF c \in DOMAIN comments /\ ok(comments[c])
    THEN Learns(r, [doc |-> comments[c]]) /\ Goes(r, to) /\ UNCHANGED <<ledger, momentVars>>
    ELSE Looks(r, FALSE, to)

DeleteComment(r) ==
    /\ Begins(r, "deleteComment")
    /\ FindsComment(r, LAMBDA c : c.status # "deleted" /\ c.author = call(r).user, "commentDelete")

\* The save has no status to write for a comment that was removed before.
RemoveComment(r) ==
    LET c == call(r).comment
        removed == c \in DOMAIN comments /\ comments[c].status = "removed"
    IN  /\ Begins(r, "removeComment")
        /\ FindsComment(r, LAMBDA x : TRUE, IF removed THEN "done" ELSE "commentRemove")

SaveComment(r, status, to) ==
    /\ comments' = [comments EXCEPT ![call(r).comment].status = status]
    /\ Passes(r, to) /\ UNCHANGED <<moments, reactions>>

CommentDelete(r) == pc[r] = "commentDelete" /\ SaveComment(r, "deleted", "commentDown")

CommentRemove(r) ==
    /\ pc[r] = "commentRemove"
    /\ SaveComment(r, "removed", IF job[r].doc.status = "active" THEN "commentDown" ELSE "done")

CommentDown(r) == pc[r] = "commentDown" /\ Tally(r, job[r].doc.moment, "comments", -1)

------------------------------------------------------------------------------
\* listFeed: whom the viewer does not see is read first, then the moments.

Feed(r) ==
    /\ Begins(r, "feed")
    /\ Learns(r, [hidden |-> IF call(r).author = "all" THEN Hidden(call(r).user) ELSE {}])
    /\ Goes(r, "feedFind") /\ UNCHANGED <<ledger, momentVars>>

FeedFind(r) ==
    LET by == call(r).author
        listed == {m \in DOMAIN moments : /\ moments[m].status = "active"
                                          /\ moments[m].author \notin job[r].hidden
                                          /\ by \in {"all", moments[m].author}}
    IN  /\ pc[r] = "feedFind"
        /\ Learns(r, [feed |-> listed]) /\ Goes(r, "done") /\ UNCHANGED <<ledger, momentVars>>

MomentsStep(r) ==
    \/ CreateMoment(r) \/ Moderate(r) \/ MomentSave(r)
    \/ React(r) \/ ReactUpsert(r) \/ ReactCount(r) \/ Unlike(r) \/ UnlikeDelete(r) \/ UnlikeCount(r)
    \/ CreateComment(r) \/ CommentParent(r) \/ CommentCreate(r) \/ CommentCount(r)
    \/ DeleteComment(r) \/ RemoveComment(r) \/ CommentDelete(r) \/ CommentRemove(r)
    \/ CommentDown(r) \/ Feed(r) \/ FeedFind(r)

------------------------------------------------------------------------------
\* The property.

Likes(m) == {k \in DOMAIN reactions : k[1] = m}
Shown(m) == {c \in DOMAIN comments : comments[c].moment = m /\ comments[c].status = "active"}

\* An author deletes his comment after the panel removed it: it is counted out twice.
CountedOutTwice ==
    \E r \in Requests : "doc" \in DOMAIN job[r] /\ call(r).op = "deleteComment"
                        /\ job[r].doc.status = "removed"

\* react, unlike and the comments: once all calls are answered and none died, a moment
\* never shows fewer likes than it has reactions, whoever reacted and took back at the same
\* time; and when calls wait for each other both counters are exact, but for a removed
\* comment that its author deletes as well.
MomentsCounted ==
    stops = 0 /\ (\A r \in Requests : pc[r] \in {"idle", "done", "failed"}) =>
        \A m \in DOMAIN moments :
            /\ moments[m].likes >= Cardinality(Likes(m))
            /\ load.patient => moments[m].likes = Cardinality(Likes(m))
            /\ load.patient /\ ~CountedOutTwice =>
                  moments[m].comments = Cardinality(Shown(m))
==============================================================================
