------------------------- MODULE PlanningCycleProofs -------------------------
(***************************************************************************)
(* The safety of PlanningCycle for any number of plans and leases, and the *)
(* proof that it implements ExecutionAuthority.                            *)
(***************************************************************************)
EXTENDS PlanningCycle, TLAPS

\* The exposed authorization can no longer be executed.
Spent == current = None \/ current.lease \in revoked

\* The publisher's history: numbers are used once, the exposed one is
\* the last, and only leases that were exposed are revoked.
PublisherInv ==
  /\ current # None => current \in published /\ current.lease = lastLease
  /\ \A a \in published : a.lease <= lastLease
  /\ \A a, b \in published : a.lease = b.lease => a = b
  /\ revoked \cup ({target} \ {0}) \subseteq LeasesOf(published)

\* A commitment that the cycle still follows is the exposed authorization, until
\* the cycle gets to replace or drop it.
UsesCommitment ==
  Stages \cup {"decision", "lease", "revoke_previous", "override_revoke",
               "override_stop", "override_clear"}

CommitmentInv ==
  /\ committed # 0 => committed \in LeasesOf(published)
  /\ (pc \in UsesCommitment \ {"capture"} /\ committed # 0)
       => current # None /\ current.lease = committed
  /\ pc \in {"override_revoke", "override_stop", "override_clear"} => committed # 0

\* What is exposed between the start of a cycle and its publication is older.
BeforeInv ==
  /\ pc \notin {"idle", "after_publish", "clear"} => current = None \/ current \in before
  /\ pc = "after_publish" => current # None /\ current \notin before /\ selected # None

\* The steps of the loop that rely on an exposed authorization or on a decision.
ProgressInv ==
  /\ pc \in {"recapture_current", "revalidate_current", "revoke_renewed", "reauthorize"}
       => current # None
  /\ pc \in {"lease", "revoke_previous", "publish"} =>
       /\ selected # None
       /\ ~selected.switching => current # None /\ selected.plan = current.plan
  /\ pc \in {"revoke_renewed", "reauthorize"} =>
       selected # None /\ selected.plan = current.plan

\* Nothing is published, cleared or stopped over an authorization still alive.
RevocationInv ==
  /\ pc \in {"publish", "reauthorize", "clear", "override_stop", "override_clear"} => Spent
  /\ revokedHere # 0 /\ pc \notin {"idle", "after_publish"} => Spent
  /\ stopped => pc \in {"idle", "override_clear"}
  /\ pc = "idle" /\ stopped => current = None

IInv ==
  /\ TypeOK
  /\ LiveLeaseIsCurrent
  /\ PublisherInv
  /\ CommitmentInv
  /\ BeforeInv
  /\ ProgressInv
  /\ RevocationInv
  /\ EveryCycleDecides
  /\ LatePlanWithdrawn

-----------------------------------------------------------------------------
(* Lemmas about the stages                                                 *)

\* A stage leads to a step of the loop, and fails in one of the known ways.
LEMMA StagesTyped ==
  /\ \A s \in Stages : FollowedBy[s] \in Steps
  /\ \A s \in Stages : StageFailures[s] \subseteq Failures
  /\ DecisionFailures \subseteq Failures
  /\ \A s \in Statuses : Fatal(s) \in Failures /\ Recoverable(s) \in Failures
  /\ \A f \in Failures : f.status \in Statuses
<1>1. \A s \in Stages : FollowedBy[s] \in Steps
      BY DEF Stages, FollowedBy, Steps
<1>2. \A s \in Statuses : Fatal(s) \in Failures /\ Recoverable(s) \in Failures
      BY DEF Fatal, Recoverable, Failures
<1>3. \A s \in Stages : StageFailures[s] \subseteq Failures
      BY <1>2 DEF Stages, FollowedBy, StageFailures, Statuses
<1>4. DecisionFailures \subseteq Failures
      BY <1>2 DEF DecisionFailures, Statuses
<1>5. \A f \in Failures : f.status \in Statuses
      BY DEF Failures
<1>6. QED
      BY <1>1, <1>2, <1>3, <1>4, <1>5

\* Literal steps and statuses of the loop.
LEMMA NamesTyped ==
  /\ {"idle", "capture", "choose_start", "actual_start", "committed_start",
      "decision", "lease", "revoke_previous", "publish", "after_publish",
      "failing", "recapture_current", "revalidate_current", "revoke_renewed",
      "reauthorize", "give_up", "clear", "override_revoke", "override_stop",
      "override_clear"} \subseteq Steps
  /\ {"none", "success", "current_plan_reused", "commitment_overridden",
      "lease_invalid", "publication_failed", "cycle_timeout",
      "covariance_envelope_breached"} \subseteq Statuses
BY DEF Stages, FollowedBy, Steps, Statuses

\* 0 is the number of no lease and of no plan.
LEMMA NumbersTyped ==
  /\ 0 \in LeaseOrUnset /\ 0 \in 0..MaxPlan /\ 0 \notin Leases
  /\ Leases \subseteq LeaseOrUnset
<1>1. MaxPlan \in Nat /\ MaxLease \in Nat
      BY BoundsAssumption
<1>2. QED
      BY <1>1 DEF LeaseOrUnset, Leases

\* The records the loop builds.
LEMMA RecordsTyped ==
  ASSUME NEW p \in Plans, NEW l \in Leases
  PROVE  /\ \A c \in LeaseOrUnset :
              [plan |-> p, lease |-> l, continues |-> c] \in Authorization
         /\ [plan |-> p, lease |-> l, switching |-> FALSE] \in Choice
BY DEF Authorization, Choice

\* The fields of what is exposed and of what was selected.
LEMMA Typing ==
  ASSUME TypeOK
  PROVE  /\ current # None =>
              current.plan \in Plans /\ current.lease \in Leases
         /\ selected # None =>
              selected.plan \in Plans /\ selected.lease \in Leases
BY DEF TypeOK, Authorization, Choice

\* A revocation stays among the leases and adds the one revoked.
LEMMA RevokeTyped ==
  ASSUME TypeOK, NEW l \in LeaseOrUnset, l # 0
  PROVE  WithRevoked(l) \subseteq Leases /\ revoked \subseteq WithRevoked(l)
         /\ l \in WithRevoked(l)
BY DEF TypeOK, WithRevoked, Leases, LeaseOrUnset

-----------------------------------------------------------------------------
(* Type correctness                                                        *)

\* The loop starts well typed.
LEMMA InitTypeOK == Init => TypeOK
<1>1. Fatal("none") \in Failures
      BY StagesTyped, NamesTyped
<1>2. QED
      BY <1>1, NamesTyped, NumbersTyped DEF Init, TypeOK

\* Every step of the loop and of the writers beside it keeps the types.
LEMMA StepTypeOK ==
  TypeOK /\ CommitmentInv /\ ProgressInv /\ BeforeInv /\ [Next]_vars => TypeOK'
<1> SUFFICES ASSUME TypeOK, CommitmentInv, ProgressInv, BeforeInv, [Next]_vars
             PROVE  TypeOK'
    OBVIOUS
<1> USE NamesTyped, NumbersTyped DEF TypeOK, publisherVars, supervisorVars, cycleVars
<1>1. CASE ChooseStart
      BY <1>1
         DEF ChooseStart
<1>2. CASE StagePasses
      BY <1>2, StagesTyped
         DEF StagePasses
<1>3. CASE StageFails
      BY <1>3, StagesTyped
         DEF StageFails, Fail
<1>4. CASE Decide
      BY <1>4
         DEF Decide
<1>5. CASE DecisionFails
      BY <1>5, StagesTyped
         DEF DecisionFails, Fail
<1>6. CASE LeaseHolds
      BY <1>6
         DEF LeaseHolds
<1>7. CASE LeaseFails
      BY <1>7, StagesTyped
         DEF LeaseFails, Fail
<1>8. CASE RevokePrevious
      BY <1>8, Typing, RevokeTyped
         DEF RevokePrevious
<1>9. CASE Publish
  <2>1. current' \in Authorization /\ current'.lease = selected.lease
    <3>1. CASE selected.switching
      <4>1. current' = [plan |-> selected.plan, lease |-> selected.lease,
                        continues |-> committed]
            BY <1>9, <3>1 DEF Publish, Expose
      <4>2. selected.plan \in Plans /\ selected.lease \in Leases
            BY <1>9, Typing DEF Publish, ProgressInv
      <4>3. QED
            BY <4>1, <4>2, RecordsTyped
    <3>2. CASE ~selected.switching
          BY <1>9, <3>2, Typing, RecordsTyped DEF Publish, Expose, ProgressInv
    <3>3. QED
          BY <3>1, <3>2
  <2>2. selected.lease \in Leases /\ lastPlan' \in 0..MaxPlan
        BY <1>9, Typing DEF Publish, ProgressInv, Plans
  <2>3. QED
        BY <1>9, <2>1, <2>2 DEF Publish, Expose
<1>10. CASE PublishRefused
      BY <1>10, StagesTyped
         DEF PublishRefused, Fail
<1>11. CASE PublishedInTime
      BY <1>11
         DEF PublishedInTime
<1>12. CASE PublishedLate
      BY <1>12, Typing, RevokeTyped
         DEF PublishedLate, BeforeInv
<1>13. CASE FinishFailure
      BY <1>13, StagesTyped
         DEF FinishFailure
<1>14. CASE RecaptureCurrent
      BY <1>14
         DEF RecaptureCurrent
<1>15. CASE RevalidateCurrent
      BY <1>15, Typing, RecordsTyped
         DEF RevalidateCurrent, ProgressInv
<1>16. CASE RevokeRenewed
      BY <1>16, Typing, RevokeTyped
         DEF RevokeRenewed, ProgressInv
<1>17. CASE Reauthorize
      BY <1>17, Typing, RecordsTyped
         DEF Reauthorize, Expose, ProgressInv
<1>18. CASE ReauthorizeRefused
      BY <1>18
         DEF ReauthorizeRefused
<1>19. CASE GiveUp
      BY <1>19, Typing, RevokeTyped
         DEF GiveUp
<1>20. CASE Clear
      BY <1>20
         DEF Clear, Cleared
<1>21. CASE Override
      BY <1>21
         DEF Override
<1>22. CASE OverrideRevokes
      BY <1>22, Typing, RevokeTyped
         DEF OverrideRevokes, CommitmentInv
<1>23. CASE OverrideStops
      BY <1>23
         DEF OverrideStops
<1>24. CASE OverrideClears
      BY <1>24
         DEF OverrideClears, ClearedFor
<1>25. CASE DeadlinePasses
      BY <1>25
         DEF DeadlinePasses
<1>26. CASE HandleEvent
      BY <1>26, Typing
         DEF HandleEvent
<1>27. CASE Enforce
      BY <1>27, Typing, RevokeTyped
         DEF Enforce
<1>28. ASSUME NEW c \in LeaseOrUnset, StartCycle(c) PROVE TypeOK'
      BY <1>28, StagesTyped DEF StartCycle
<1>29. ASSUME NEW l \in Leases, FeedbackRejects(l) PROVE TypeOK'
      BY <1>29, Typing, RevokeTyped DEF FeedbackRejects, Leases
<1>30. CASE UNCHANGED vars
      BY <1>30 DEF vars
<1>31. QED
      BY <1>1, <1>2, <1>3, <1>4, <1>5, <1>6, <1>7, <1>8, <1>9, <1>10, <1>11, <1>12, <1>13, <1>14, <1>15, <1>16, <1>17, <1>18, <1>19, <1>20, <1>21, <1>22, <1>23, <1>24, <1>25, <1>26, <1>27, <1>28, <1>29, <1>30
         DEF Next, Loop, CycleStep, Environment

-----------------------------------------------------------------------------
(* The inductive invariant                                                 *)

\* The loop starts within the invariant.
LEMMA InitIInv == Init => IInv
<1> SUFFICES ASSUME Init PROVE IInv
    OBVIOUS
<1>1. TypeOK
      BY InitTypeOK
<1>2. PublisherInv /\ CommitmentInv /\ LiveLeaseIsCurrent
      BY DEF Init, PublisherInv, CommitmentInv, LiveLeaseIsCurrent, Live
<1>3. BeforeInv /\ ProgressInv /\ RevocationInv
      BY DEF Init, BeforeInv, ProgressInv, RevocationInv
<1>4. EveryCycleDecides /\ LatePlanWithdrawn
      BY DEF Init, EveryCycleDecides, LatePlanWithdrawn
<1>5. QED
      BY <1>1, <1>2, <1>3, <1>4 DEF IInv

\* The stages, spelled out.
LEMMA StageNames ==
  Stages = {"capture", "actual_start", "committed_start", "terrain", "commitment",
            "search", "smoothing", "parameterization", "merge", "robot", "cable",
            "assembly", "recapture"}
BY DEF Stages, FollowedBy

\* An exposed authorization is not None, nor is a decision.
LEMMA NotNone ==
  ASSUME TypeOK
  PROVE  (\A a \in published : a # None) /\ (\A c \in Choice : c # None)
BY NoneAssumption DEF TypeOK

\* When the exposed authorization is revoked, none is live.
LEMMA SpentNotLive ==
  ASSUME TypeOK, LiveLeaseIsCurrent, Spent
  PROVE  Live = {}
BY NotNone DEF LiveLeaseIsCurrent, Live, Spent

\* Exposing an authorization with a fresh lease number when none is live.
LEMMA ExposeFresh ==
  ASSUME TypeOK, PublisherInv, Live = {}, UNCHANGED <<revoked, target>>,
         NEW n \in Authorization, n.lease > lastLease, Expose(n)
  PROVE  /\ PublisherInv' /\ LiveLeaseIsCurrent'
         /\ n \notin published /\ n # None
<1>1. /\ current' = n /\ lastLease' = n.lease /\ published' = published \cup {n}
      BY DEF Expose
<1>2. /\ lastLease \in Nat
      /\ \A a \in published \cup {n} : a.lease \in Nat
      BY BoundsAssumption DEF TypeOK, Authorization, LeaseOrUnset, Leases
<1>3. \A a \in published : a.lease < n.lease
      BY <1>2 DEF PublisherInv
<1>4. n \notin published
      BY <1>2, <1>3
<1>5. PublisherInv'
      BY <1>1, <1>2, <1>3 DEF PublisherInv, LeasesOf
<1>6. LiveLeaseIsCurrent'
      BY <1>1 DEF LiveLeaseIsCurrent, Live
<1>7. QED
      BY <1>4, <1>5, <1>6, NoneAssumption

\* Every step of the loop and of the writers beside it keeps the invariant.
LEMMA StepIInv == IInv /\ [Next]_vars => IInv'
<1> SUFFICES ASSUME IInv, [Next]_vars PROVE IInv'
    OBVIOUS
<1>t. TypeOK /\ TypeOK'
      BY StepTypeOK DEF IInv
<1> USE DEF IInv, PublisherInv, CommitmentInv, LiveLeaseIsCurrent, Live, BeforeInv,
            ProgressInv, RevocationInv, EveryCycleDecides, LatePlanWithdrawn,
            UsesCommitment, Spent, LeasesOf, publisherVars, supervisorVars, cycleVars
<1>1. CASE ChooseStart
  <2>1. CommitmentInv'
    <3>1. CASE committed' = 0
          BY <1>1, <3>1, <1>t, StageNames DEF ChooseStart
    <3>2. CASE committed' # 0
      <4>1. /\ committed' = committed /\ committed # 0 /\ committed \notin revoked
            /\ current' = current /\ published' = published
            /\ pc' = "committed_start"
            BY <1>1, <3>2 DEF ChooseStart
      <4>2. PICK a \in published : a.lease = committed
            BY <4>1
      <4>3. a = current /\ a # None
            BY <4>1, <4>2, <1>t, NotNone
      <4>4. QED
            BY <4>1, <4>2, <4>3
    <3>3. QED
          BY <3>1, <3>2
  <2>2. QED
        BY <1>1, <1>t, <2>1, StageNames DEF ChooseStart
<1>2. CASE StagePasses
      BY <1>2, <1>t, StageNames
         DEF StagePasses, FollowedBy
<1>3. CASE StageFails
      BY <1>3, <1>t, StageNames
         DEF StageFails, Fail
<1>4. CASE Decide
  <2>1. PICK c \in Choice :
          /\ c.switching \/ (current # None /\ c.plan = current.plan)
          /\ selected' = c
        BY <1>4 DEF Decide
  <2>2. c # None
        BY <1>t, NotNone
  <2>3. QED
        BY <1>4, <1>t, <2>1, <2>2, StageNames DEF Decide
<1>5. CASE DecisionFails
      BY <1>5, <1>t, StageNames
         DEF DecisionFails, Fail
<1>6. CASE LeaseHolds
      BY <1>6, <1>t, StageNames
         DEF LeaseHolds
<1>7. CASE LeaseFails
      BY <1>7, <1>t, StageNames
         DEF LeaseFails, Fail
<1>8. CASE RevokePrevious
      BY <1>8, <1>t, StageNames
         DEF RevokePrevious, WithRevoked
<1>9. CASE Publish
  <2> DEFINE n == current'
  <2>1. Live = {}
        BY <1>9, SpentNotLive DEF Publish
  <2>2. n \in Authorization /\ n.lease = selected.lease
    <3>1. CASE selected.switching
          BY <1>9, <3>1, <1>t, NoneAssumption DEF Publish, Expose, TypeOK
    <3>2. CASE ~selected.switching
          BY <1>9, <3>2, <1>t, NoneAssumption DEF Publish, Expose, TypeOK
    <3>3. QED
          BY <3>1, <3>2
  <2>3. Expose(n) /\ UNCHANGED <<revoked, target>> /\ n.lease > lastLease
        BY <1>9, <2>2 DEF Publish, Expose, FreshLease, supervisorVars
  <2>4. PublisherInv' /\ LiveLeaseIsCurrent' /\ n \notin published /\ n # None
        BY <1>t, <2>1, <2>2, <2>3, ExposeFresh
  <2>5. n \notin before'
        BY <1>9, <1>t, <2>4 DEF Publish, TypeOK
  <2>6. BeforeInv'
        BY <1>9, <2>4, <2>5 DEF Publish
  <2>7. QED
        BY <1>9, <1>t, <2>3, <2>4, <2>6, StageNames DEF Publish, Expose
<1>10. CASE PublishRefused
      BY <1>10, <1>t, StageNames
         DEF PublishRefused, Fail
<1>11. CASE PublishedInTime
      BY <1>11, <1>t, StageNames
         DEF PublishedInTime
<1>12. CASE PublishedLate
      BY <1>12, <1>t, StageNames
         DEF PublishedLate, WithRevoked
<1>13. CASE FinishFailure
      BY <1>13, <1>t, StageNames
         DEF FinishFailure
<1>14. CASE RecaptureCurrent
      BY <1>14, <1>t, StageNames
         DEF RecaptureCurrent
<1>15. CASE RevalidateCurrent
  <2>1. selected' \in Choice \cup {None} /\ current' = current
        BY <1>15, <1>t DEF RevalidateCurrent, TypeOK
  <2>2. ProgressInv'
    <3>1. CASE pc' = "give_up"
          BY <1>15, <3>1 DEF RevalidateCurrent
    <3>2. CASE pc' = "revoke_renewed"
      <4>1. PICK l \in Leases :
              selected' = [plan |-> current.plan, lease |-> l, switching |-> FALSE]
            BY <1>15, <3>2 DEF RevalidateCurrent
      <4>2. current.plan \in Plans
            BY <1>15, <1>t, Typing DEF RevalidateCurrent
      <4>3. selected' \in Choice
            BY <4>1, <4>2, RecordsTyped
      <4>4. QED
            BY <1>15, <3>2, <4>1, <4>3, <2>1, NoneAssumption DEF RevalidateCurrent
    <3>3. QED
          BY <1>15, <3>1, <3>2 DEF RevalidateCurrent
  <2>3. QED
        BY <1>15, <1>t, <2>2, StageNames DEF RevalidateCurrent
<1>16. CASE RevokeRenewed
      BY <1>16, <1>t, StageNames
         DEF RevokeRenewed, WithRevoked
<1>17. CASE Reauthorize
  <2> DEFINE n == current'
  <2>1. Live = {}
        BY <1>17, SpentNotLive DEF Reauthorize
  <2>2. n \in Authorization /\ n.lease = selected.lease /\ n.plan = current.plan
        BY <1>17, <1>t, NoneAssumption DEF Reauthorize, Expose, TypeOK
  <2>3. Expose(n) /\ UNCHANGED <<revoked, target>> /\ n.lease > lastLease
        BY <1>17, <2>2 DEF Reauthorize, Expose, FreshLease, supervisorVars
  <2>4. PublisherInv' /\ LiveLeaseIsCurrent' /\ n \notin published /\ n # None
        BY <1>t, <2>1, <2>2, <2>3, ExposeFresh
  <2>5. EveryCycleDecides'
        BY <1>17, <1>t, <2>4 DEF Reauthorize, TypeOK
  <2>6. LatePlanWithdrawn'
        BY <1>17, <2>2 DEF Reauthorize
  <2>7. QED
        BY <1>17, <1>t, <2>3, <2>4, <2>5, <2>6, StageNames DEF Reauthorize, Expose
<1>18. CASE ReauthorizeRefused
      BY <1>18, <1>t, StageNames
         DEF ReauthorizeRefused
<1>19. CASE GiveUp
      BY <1>19, <1>t, StageNames
         DEF GiveUp, WithRevoked
<1>20. CASE Clear
      BY <1>20, <1>t, StageNames
         DEF Clear, Cleared
<1>21. CASE Override
      BY <1>21, <1>t, StageNames
         DEF Override
<1>22. CASE OverrideRevokes
      BY <1>22, <1>t, StageNames
         DEF OverrideRevokes, WithRevoked
<1>23. CASE OverrideStops
      BY <1>23, <1>t, StageNames
         DEF OverrideStops
<1>24. CASE OverrideClears
      BY <1>24, <1>t, StageNames
         DEF OverrideClears, ClearedFor
<1>25. CASE DeadlinePasses
      BY <1>25, <1>t, StageNames
         DEF DeadlinePasses
<1>26. CASE HandleEvent
      BY <1>26, <1>t, StageNames
         DEF HandleEvent
<1>27. CASE Enforce
      BY <1>27, <1>t, StageNames
         DEF Enforce, WithRevoked, TypeOK
<1>28. ASSUME NEW c \in LeaseOrUnset, StartCycle(c) PROVE IInv'
      BY <1>28, <1>t, StageNames DEF StartCycle
<1>29. ASSUME NEW l \in Leases, FeedbackRejects(l) PROVE IInv'
      BY <1>29, <1>t DEF FeedbackRejects, WithRevoked
<1>30. CASE UNCHANGED vars
      BY <1>30, <1>t DEF vars
<1>31. QED
      BY <1>1, <1>2, <1>3, <1>4, <1>5, <1>6, <1>7, <1>8, <1>9, <1>10, <1>11, <1>12, <1>13, <1>14, <1>15, <1>16, <1>17, <1>18, <1>19, <1>20, <1>21, <1>22, <1>23, <1>24, <1>25, <1>26, <1>27, <1>28, <1>29, <1>30
         DEF Next, Loop, CycleStep, Environment

\* Every reachable state satisfies the inductive invariant.
THEOREM Invariance == Spec => []IInv
BY InitIInv, StepIInv, PTL DEF Spec

-----------------------------------------------------------------------------
(* The properties of PlanningCycle                                         *)

\* Every variable stays in its domain.
THEOREM TypeCorrect == Spec => []TypeOK
<1>1. IInv => TypeOK
      BY DEF IInv
<1>2. QED
      BY <1>1, Invariance, PTL

\* No authorization that is not exposed can still be executed.
THEOREM LiveLease == Spec => []LiveLeaseIsCurrent
<1>1. IInv => LiveLeaseIsCurrent
      BY DEF IInv
<1>2. QED
      BY <1>1, Invariance, PTL

\* A cycle that ends with a stop leaves nothing to execute.
THEOREM StopIsFinal == Spec => []StopLeavesNoAuthority
<1>1. ASSUME IInv PROVE StopLeavesNoAuthority
  <2> SUFFICES ASSUME pc = "idle", stopped PROVE current = None /\ Live = {}
      BY DEF StopLeavesNoAuthority
  <2>1. current = None
        BY <1>1 DEF IInv, RevocationInv
  <2>2. QED
        BY <1>1, <2>1, SpentNotLive DEF IInv, Spent
<1>2. QED
      BY <1>1, Invariance, PTL

\* An authorization never outlives the cycle after it.
THEOREM CyclesDecide == Spec => []EveryCycleDecides
<1>1. IInv => EveryCycleDecides
      BY DEF IInv
<1>2. QED
      BY <1>1, Invariance, PTL

\* A cycle that missed its deadline leaves no plan it computed in place.
THEOREM LatePlans == Spec => []LatePlanWithdrawn
<1>1. IInv => LatePlanWithdrawn
      BY DEF IInv
<1>2. QED
      BY <1>1, Invariance, PTL

-----------------------------------------------------------------------------
(* Refinement                                                              *)

\* A step either exposes an authorization with a fresh lease while none is live,
\* or touches neither the history nor the watermark and only adds revocations.
LEMMA StepKinds ==
  ASSUME IInv, IInv', Next
  PROVE  \/ /\ Live = {} /\ revoked' = revoked
            /\ \E n \in Authorization : n.lease > lastLease /\ Expose(n)
         \/ UNCHANGED <<published, lastLease>> /\ revoked \subseteq revoked'
<1> USE DEF publisherVars, supervisorVars, cycleVars, IInv
<1>1. CASE Publish
  <2>1. Live = {}
        BY <1>1, SpentNotLive DEF Publish, RevocationInv
  <2>2. current' \in Authorization /\ current' # None
        BY <1>1 DEF Publish, Expose, TypeOK, BeforeInv
  <2>3. current'.lease = selected.lease /\ Expose(current') /\ revoked' = revoked
        BY <1>1 DEF Publish, Expose
  <2>4. QED
        BY <1>1, <2>1, <2>2, <2>3 DEF Publish, FreshLease
<1>2. CASE Reauthorize
  <2>1. Live = {}
        BY <1>2, SpentNotLive DEF Reauthorize, RevocationInv
  <2>2. current' \in published' /\ published' \subseteq Authorization
        BY <1>2 DEF Reauthorize, Expose, TypeOK
  <2>3. current'.lease = selected.lease /\ Expose(current') /\ revoked' = revoked
        BY <1>2 DEF Reauthorize, Expose
  <2>4. QED
        BY <1>2, <2>1, <2>2, <2>3 DEF Reauthorize, FreshLease
<1>3. CASE RevokePrevious
      BY <1>3 DEF RevokePrevious, WithRevoked
<1>4. CASE PublishedLate \/ RevokeRenewed \/ GiveUp \/ OverrideRevokes
      BY <1>4 DEF PublishedLate, RevokeRenewed, GiveUp, OverrideRevokes, WithRevoked
<1>5. CASE Enforce \/ \E l \in Leases : FeedbackRejects(l)
      BY <1>5 DEF Enforce, FeedbackRejects, WithRevoked
<1>6. CASE \/ ChooseStart \/ StagePasses \/ StageFails \/ Decide \/ DecisionFails
           \/ LeaseHolds \/ LeaseFails \/ PublishRefused \/ PublishedInTime
      BY <1>6 DEF ChooseStart, StagePasses, StageFails, Decide, DecisionFails,
                  LeaseHolds, LeaseFails, PublishRefused, PublishedInTime, Fail
<1>7. CASE \/ FinishFailure \/ RecaptureCurrent \/ RevalidateCurrent
           \/ ReauthorizeRefused \/ Clear \/ Override \/ OverrideStops
           \/ OverrideClears
      BY <1>7 DEF FinishFailure, RecaptureCurrent, RevalidateCurrent,
                  ReauthorizeRefused, Clear, Override, OverrideStops,
                  OverrideClears
<1>8. CASE \/ DeadlinePasses \/ HandleEvent \/ \E c \in LeaseOrUnset : StartCycle(c)
      BY <1>8 DEF DeadlinePasses, HandleEvent, StartCycle
<1>9. QED
      BY <1>1, <1>2, <1>3, <1>4, <1>5, <1>6, <1>7, <1>8
         DEF Next, Loop, CycleStep, Environment

\* Every step grants, revokes or leaves alone what is authorized.
LEMMA StepRefines ==
  IInv /\ IInv' /\ [Next]_vars => [Authority!Next]_<<AuthorityNow, lastLease>>
<1> SUFFICES ASSUME IInv, IInv', [Next]_vars
             PROVE  [Authority!Next]_<<AuthorityNow, lastLease>>
    OBVIOUS
<1>1. CASE UNCHANGED vars
      BY <1>1 DEF vars, AuthorityNow, Live
<1>2. ASSUME Live = {}, revoked' = revoked,
             NEW n \in Authorization, n.lease > lastLease, Expose(n)
      PROVE  Authority!Next
  <2>1. n.lease \in 1..MaxLease
        BY DEF Authorization, Leases
  <2>2. n \in published' /\ lastLease' = n.lease
        BY <1>2 DEF Expose
  <2>3. n.lease \notin revoked
    <3>1. \A a \in published : a.lease # n.lease
          BY <1>2, <2>1, BoundsAssumption
             DEF IInv, PublisherInv, TypeOK, Authorization, LeaseOrUnset, Leases
    <3>2. QED
          BY <3>1 DEF IInv, PublisherInv, LeasesOf
  <2>4. Live' # {}
        BY <1>2, <2>2, <2>3 DEF Live
  <2>5. AuthorityNow # "authorized" /\ AuthorityNow' = "authorized"
        BY <1>2, <2>4 DEF AuthorityNow
  <2>6. Authority!Grant(n.lease)
        BY <1>2, <2>2, <2>5 DEF Authority!Grant
  <2>7. QED
        BY <2>1, <2>6 DEF Authority!Next
<1>3. CASE UNCHANGED <<published, lastLease>> /\ revoked \subseteq revoked'
  <2>1. Live' \subseteq Live
        BY <1>3 DEF Live
  <2>2. CASE Live # {} /\ Live' = {}
    <3>1. published' # {}
          BY <1>3, <2>2 DEF Live
    <3>2. AuthorityNow = "authorized" /\ AuthorityNow' = "revoked"
          BY <2>2, <3>1 DEF AuthorityNow
    <3>3. QED
          BY <1>3, <3>2 DEF Authority!Next, Authority!Revoke
  <2>3. CASE (Live = {}) <=> (Live' = {})
        BY <1>3, <2>3 DEF AuthorityNow
  <2>4. QED
        BY <2>1, <2>2, <2>3
<1>4. QED
      BY <1>1, <1>2, <1>3, StepKinds

\* The planning loop implements ExecutionAuthority.
THEOREM Refinement == Spec => ImplementsAuthority
<1>1. Init => Authority!Init
      BY DEF Init, Authority!Init, AuthorityNow, Live
<1>2. QED
      BY <1>1, StepRefines, Invariance, PTL
         DEF Spec, ImplementsAuthority, Authority!Spec
=============================================================================
