-------------------------------- MODULE Economy --------------------------------
(***************************************************************************)
(* The services around the wallet together.  What pays into it: resellers, *)
(* the webhook of the app stores, daily rewards, daily tasks, live         *)
(* records.  What users pay for, earn, own and wear: the store, SVIP       *)
(* tiers, cosmetics and medals.  The workload of a behaviour decides which *)
(* of them are called.                                                     *)
(***************************************************************************)
EXTENDS Resellers, RevenueCat, DailyReward, MagicBall, LiveRecord, Store, Svip, Honors

rewardVars == <<poolVars, package, dailyVars, ballVars, recordVars>>
shopVars == <<cosmeticVars, listings, svipVars, honorVars>>
vars == <<serviceVars, rewardVars, shopVars>>

Init ==
    /\ ServiceInit
    /\ ResellersInit /\ RevenueCatInit /\ DailyRewardInit /\ MagicBallInit /\ LiveRecordInit
    /\ CosmeticsInit /\ StoreInit /\ SvipInit /\ HonorsInit

RewardsStep(r) ==
    \/ ResellersStep(r) /\ UNCHANGED <<package, dailyVars, ballVars, recordVars>>
    \/ RevenueCatStep(r) /\ UNCHANGED <<poolVars, dailyVars, ballVars, recordVars>>
    \/ DailyRewardStep(r) /\ UNCHANGED <<poolVars, package, ballVars, recordVars>>
    \/ MagicBallStep(r) /\ UNCHANGED <<poolVars, package, dailyVars, recordVars>>
    \/ LiveRecordStep(r) /\ UNCHANGED <<poolVars, package, dailyVars, ballVars>>

ShopStep(r) ==
    \/ CosmeticsStep(r) /\ UNCHANGED <<listings, svipVars, honorVars>>
    \/ StoreStep(r) /\ UNCHANGED <<svipVars, honorVars>>
    \/ SvipStep(r) /\ UNCHANGED <<listings, honorVars>>
    \/ HonorsStep(r) /\ UNCHANGED <<cosmeticVars, listings, svipVars>>

Next ==
    \/ \E r \in Requests :
          \/ RewardsStep(r) /\ UNCHANGED shopVars
          \/ ShopStep(r) /\ UNCHANGED rewardVars
    \/ Environment /\ UNCHANGED <<rewardVars, shopVars>>

Spec == Init /\ [][Next]_vars

\* The store sends an event, and sends it again, until it is answered.
FairSpec ==
    /\ Spec
    /\ WF_vars(\E r \in Requests : WebhookStep(r)
                  /\ UNCHANGED <<poolVars, dailyVars, ballVars, recordVars, shopVars>>)

------------------------------------------------------------------------------
\* Properties that several services share.

\* daily-reward, magic-ball and live-record: what is earned is paid once, and only when
\* it was earned, however taps, days and the nightly jobs overlap.
EarnedIsPaidOnce == StreakIsEarned /\ TaskPaidOnce /\ RewardsAreEarned

\* store and svip: what a user paid for is delivered; a paid tier is owned and its days are
\* added up, but for a purchase that was cut off or overtaken between debit and save.
BoughtIsKept == PurchasesDelivered /\ TiersKept

\* cosmetics and honors: the user wears one item of a type, and one medal in a place.
OneOfEachSlot == OneItemPerSlot /\ OneMedalPerSlot
==============================================================================
