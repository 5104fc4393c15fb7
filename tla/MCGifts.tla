-------------------------------- MODULE MCGifts --------------------------------
(***************************************************************************)
(* Small instances of Gifts: one gift in one room, a rocket of two levels, *)
(* two senders.                                                            *)
(***************************************************************************)
EXTENDS Gifts, TLC

CONSTANTS u1, u2

Send(k, u, n) == [key |-> k, user |-> u, coins |-> n]
Load(C, n, e, k, d, f) == [calls |-> C, requests |-> n, edits |-> e, crashes |-> k,
                           purges |-> d, refusals |-> f]

AllCalls == {Send(1, u1, 2), Send(2, u2, 1), Send(3, u1, 1), Send(4, u1, 3)}
One(k) == {c \in AllCalls : c.key = k}

\* Two senders across a restart; one sender who retries or sends twice; an admin
\* who deletes the gift, or edits the levels, meanwhile.
AllLoads ==
    {Load(One(1) \cup One(2), 2, 0, 1, 0, 1), Load(One(2), 2, 0, 0, 1, 0),
     Load(One(1) \cup One(3), 2, 0, 0, 0, 1), Load(One(4), 1, 1, 0, 0, 0),
     Load(One(4), 1, 0, 1, 0, 1), Load(One(2), 2, 1, 0, 0, 1)}

LevelCost == [l \in {1, 2} |-> l]
==============================================================================
