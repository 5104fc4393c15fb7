------------------------------- MODULE Community -------------------------------
(***************************************************************************)
(* The social side together: who follows and blocks whom, moments,         *)
(* messages and notices, accounts, the stage of a room, families, agencies *)
(* and the boards.  The workload of a behaviour decides which of them are  *)
(* called.                                                                 *)
(***************************************************************************)
EXTENDS Moments, Messages, Accounts, Stage, Agencies, Rankings

peopleVars == <<socialVars, momentVars, messageVars, noticeVars, accountVars, stageVars>>
groupVars == <<familyVars, agencyVars, boardVars>>
vars == <<serviceVars, peopleVars, groupVars>>

Init ==
    /\ ServiceInit
    /\ SocialInit /\ MomentsInit /\ MessagesInit /\ NoticesInit /\ AccountsInit /\ StageInit
    /\ FamiliesInit /\ AgenciesInit /\ BoardsInit

PeopleStep(r) ==
    \/ SocialStep(r) /\ UNCHANGED <<momentVars, messageVars, noticeVars, accountVars, stageVars>>
    \/ MomentsStep(r) /\ UNCHANGED <<socialVars, messageVars, noticeVars, accountVars, stageVars>>
    \/ MessagesStep(r) /\ UNCHANGED <<socialVars, momentVars, accountVars, stageVars>>
    \/ NoticesStep(r) /\ UNCHANGED <<socialVars, momentVars, messageVars, accountVars, stageVars>>
    \/ AccountsStep(r) /\ UNCHANGED <<socialVars, momentVars, messageVars, stageVars>>
    \/ StageStep(r) /\ UNCHANGED <<socialVars, momentVars, messageVars, accountVars>>

GroupsStep(r) ==
    \/ FamiliesStep(r) /\ UNCHANGED <<agencyVars, boardVars>>
    \/ AgenciesStep(r) /\ UNCHANGED <<familyVars, boardVars>>
    \/ RankingsStep(r) /\ UNCHANGED <<familyVars, agencyVars>>

Next ==
    \/ \E r \in Requests :
          \/ PeopleStep(r) /\ UNCHANGED groupVars
          \/ GroupsStep(r) /\ UNCHANGED peopleVars
    \/ /\ Pushing
       /\ UNCHANGED <<serviceVars, socialVars, momentVars, messageVars, accountVars, stageVars>>
       /\ UNCHANGED groupVars
    \/ CallsExpire /\ UNCHANGED <<socialVars, momentVars, messageVars, accountVars, groupVars>>
    \/ Environment /\ UNCHANGED <<peopleVars, groupVars>>

Spec == Init /\ [][Next]_vars
==============================================================================
