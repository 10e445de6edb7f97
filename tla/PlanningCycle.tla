---------------------------- MODULE PlanningCycle ----------------------------
(***************************************************************************)
(* MainPlanningLoop::run_cycle_impl (main_planning_loop.cpp) with what it  *)
(* writes: the AuthorizedPlanningResultPublisher and the revoked set of    *)
(* the ExecutionLeaseMonitor.  A cycle runs its stages in order; each one  *)
(* may fail, which leads to finish_failure (perhaps reauthorizing the old  *)
(* plan) or to finish_commitment_override.  The monitor is shared with the *)
(* feedback path and with CommitmentSafetySupervisor::handle_event, which  *)
(* revoke leases at any point of a cycle.                                  *)
(*                                                                         *)
(* The stages are an interface (MainPlanningLoopStages): of their results  *)
(* only success, the failure class and the numbers of the leases and plans *)
(* they return reach the publisher, and those are chosen freely.           *)
(***************************************************************************)
EXTENDS Integers, FiniteSets

CONSTANTS
  MaxPlan,   \* plan sequence numbers are 1..MaxPlan
  MaxLease,  \* lease sequence numbers are 1..MaxLease, 0 is "unset"
  None       \* std::nullopt

ASSUME BoundsAssumption ==
  /\ MaxPlan \in Nat
  /\ MaxLease \in Nat

VARIABLES
  current,      \* publisher current_: the exposed authorization
  lastPlan,     \* plan_publisher_.last_sequence_
  lastLease,    \* last_lease_sequence_
  revoked,      \* the monitor's revoked_ set
  pc,           \* where run_cycle_impl is
  committed,    \* lease of request.committed_start still followed, 0 if none
  late,         \* the clock is beyond the cycle deadline
  failure,      \* result.status and current_plan_reuse_allowed of a failure
  selected,     \* the plan and lease of decide_candidate, or of the renewal
  revokedHere,  \* result.revoked_lease_sequence, 0 if not set
  status,       \* result.status of the last finished cycle
  stopped,      \* result.controlled_stop_required of the last cycle
  supervisor,   \* "ready", or "enforcing" inside handle_event
  target,       \* active_lease_sequence passed to handle_event
  published,    \* history: every authorization ever exposed
  before,       \* history: published, when the cycle started
  barred        \* history: leases the supervisor revoked since the cycle started

publisherVars == <<current, lastPlan, lastLease, published>>
cycleVars == <<pc, committed, late, failure, selected, revokedHere, status,
               stopped, before>>
supervisorVars == <<supervisor, target, barred>>
vars == <<current, lastPlan, lastLease, revoked, pc, committed, late, failure,
          selected, revokedHere, status, stopped, supervisor, target, published,
          before, barred>>

Plans == 1..MaxPlan
Leases == 1..MaxLease
LeaseOrUnset == 0..MaxLease

\* An authorization: the plan, its lease, and the earlier lease whose motion it
\* continues (the committed prefix of a new plan, the old lease of a renewed one).
Authorization == [plan : Plans, lease : Leases, continues : LeaseOrUnset]

LeasesOf(as) == {a.lease : a \in as}
Live == {a \in published : a.lease \notin revoked}

-----------------------------------------------------------------------------
(* The stages and how they fail                                            *)

\* PlanningCycleStatus, and "none" before the first cycle returned.
Statuses ==
  {"none", "success", "current_plan_reused", "commitment_overridden",
   "covariance_envelope_breached", "input_invalid", "commitment_invalid",
   "terrain_analysis_failed", "robot_path_validation_failed", "search_failed",
   "smoothing_failed", "parameterization_failed", "cable_validation_failed",
   "candidate_invalid", "candidate_invalidated", "decision_rejected",
   "lease_invalid", "publication_failed", "cycle_timeout"}

\* A call of finish_failure: its status, and current_plan_reuse_allowed.
Failures == [status : Statuses, reuse : BOOLEAN]

Fatal(s) == [status |-> s, reuse |-> FALSE]
Recoverable(s) == [status |-> s, reuse |-> TRUE]

\* The stages in order; commitment and merge do nothing without a committed start.
FollowedBy ==
  [capture          |-> "choose_start",
   actual_start     |-> "terrain",
   committed_start  |-> "terrain",
   terrain          |-> "commitment",
   commitment       |-> "search",
   search           |-> "smoothing",
   smoothing        |-> "parameterization",
   parameterization |-> "merge",
   merge            |-> "robot",
   robot            |-> "cable",
   cable            |-> "assembly",
   assembly         |-> "recapture",
   recapture        |-> "decision"]

Stages == DOMAIN FollowedBy

\* What each stage hands to finish_failure.
StageFailures ==
  [capture          |-> {Fatal("input_invalid")},
   actual_start     |-> {Fatal("input_invalid")},
   committed_start  |-> {Fatal("commitment_invalid")},
   terrain          |-> {Fatal("terrain_analysis_failed")},
   commitment       |-> {Fatal("commitment_invalid")},
   search           |-> {Fatal("search_failed"), Recoverable("search_failed")},
   smoothing        |-> {Fatal("smoothing_failed"), Recoverable("smoothing_failed")},
   parameterization |-> {Fatal("parameterization_failed"),
                         Recoverable("parameterization_failed")},
   merge            |-> {Fatal("commitment_invalid")},
   robot            |-> {Fatal("robot_path_validation_failed"),
                         Recoverable("robot_path_validation_failed")},
   cable            |-> {Fatal("covariance_envelope_breached"),
                         Fatal("cable_validation_failed"),
                         Recoverable("cable_validation_failed")},
   assembly         |-> {Fatal("candidate_invalid")},
   recapture        |-> {Fatal("candidate_invalidated"),
                         Recoverable("candidate_invalidated")}]

\* What the candidate and current plan's revalidation and decide_candidate hand to it.
DecisionFailures ==
  {Fatal("covariance_envelope_breached"), Fatal("candidate_invalidated"),
   Fatal("decision_rejected")}

Steps ==
  Stages \cup
  {"idle", "choose_start", "decision", "lease", "revoke_previous", "publish",
   "after_publish", "failing", "recapture_current", "revalidate_current",
   "revoke_renewed", "reauthorize", "give_up", "clear", "override_revoke",
   "override_stop", "override_clear"}

\* A decision for the candidate (switching), or for a renewed lease of a plan.
Choice == [plan : Plans, lease : Leases, switching : BOOLEAN]

ASSUME NoneAssumption == None \notin Authorization \cup Choice

Init ==
  /\ current = None
  /\ lastPlan = 0
  /\ lastLease = 0
  /\ revoked = {}
  /\ pc = "idle"
  /\ committed = 0
  /\ late = FALSE
  /\ failure = Fatal("none")
  /\ selected = None
  /\ revokedHere = 0
  /\ status = "none"
  /\ stopped = FALSE
  /\ supervisor = "ready"
  /\ target = 0
  /\ published = {}
  /\ before = {}
  /\ barred = {}

-----------------------------------------------------------------------------
(* Operations of the monitor and of the publisher                          *)

\* Faults the runs must notice: a revocation that is lost or hits the wrong
\* lease, an authorization that stays exposed, a lease number that is not checked.
RevokedNothing(l) == revoked
RevokedCommitted(l) == revoked \cup {committed}
StillExposed == current
StillExposedFor(l) == current
AnyLease(c) == TRUE

\* revokeLease: the revoked set afterwards.
WithRevoked(l) == revoked \cup {l}

\* revoke_current
Cleared == None

\* finish_commitment_override clears the publisher if it exposes the lease.
ClearedFor(l) == IF current # None /\ current.lease = l THEN None ELSE current

\* Both publisher operations want a lease number above all earlier ones, publish
\* also a plan number above all earlier ones.
FreshLease(c) == c.lease > lastLease
FreshPlan(c) == c.plan > lastPlan

Expose(a) ==
  /\ current' = a
  /\ lastLease' = a.lease
  /\ published' = published \cup {a}

-----------------------------------------------------------------------------
(* The cycle up to the decision                                            *)

\* run_cycle is called, with a committed start under some published lease, or
\* with none.
StartCycle(c) ==
  /\ pc = "idle"
  /\ c \in {0} \cup LeasesOf(published)
  /\ pc' = "capture"
  /\ committed' = c
  /\ late' = FALSE
  /\ failure' = Fatal("none")
  /\ selected' = None
  /\ revokedHere' = 0
  /\ status' = "none"
  /\ stopped' = FALSE
  /\ before' = published
  /\ barred' = {}
  /\ UNCHANGED <<publisherVars, revoked, supervisor, target>>

\* The deadline passes; the loop notices where it reads the clock.
DeadlinePasses ==
  /\ pc # "idle"
  /\ ~late
  /\ late' = TRUE
  /\ UNCHANGED <<publisherVars, supervisorVars, revoked, pc, committed, failure,
                 selected, revokedHere, status, stopped, before>>

\* isRevoked on the committed lease: a revoked commitment is ignored and the
\* cycle plans from the measured state.
ChooseStart ==
  /\ pc = "choose_start"
  /\ \/ /\ committed \in revoked \cup {0}
        /\ committed' = 0
        /\ pc' = "actual_start"
     \/ /\ committed \notin revoked \cup {0}
        /\ committed' = committed
        /\ pc' = "committed_start"
  /\ UNCHANGED <<publisherVars, supervisorVars, revoked, late, failure, selected,
                 revokedHere, status, stopped, before>>

StagePasses ==
  /\ pc \in Stages
  /\ pc' = FollowedBy[pc]
  /\ UNCHANGED <<publisherVars, supervisorVars, revoked, committed, late, failure,
                 selected, revokedHere, status, stopped, before>>

Fail(f) ==
  /\ failure' = f
  /\ pc' = "failing"
  /\ UNCHANGED <<publisherVars, supervisorVars, revoked, committed, late, selected,
                 revokedHere, status, stopped, before>>

StageFails ==
  /\ pc \in Stages
  /\ pc \in {"commitment", "merge"} => committed # 0
  /\ \E f \in StageFailures[pc] : Fail(f)

\* Revalidation and decide_candidate pick the candidate, or the current plan
\* under a new lease.
Decide ==
  /\ pc = "decision"
  /\ \E c \in Choice :
       /\ c.switching \/ (current # None /\ c.plan = current.plan)
       /\ selected' = c
  /\ pc' = "lease"
  /\ UNCHANGED <<publisherVars, supervisorVars, revoked, committed, late, failure,
                 revokedHere, status, stopped, before>>

DecisionFails ==
  /\ pc = "decision"
  /\ \E f \in DecisionFailures : Fail(f)

-----------------------------------------------------------------------------
(* Publication                                                             *)

LeaseHolds ==
  /\ pc = "lease"
  /\ ~late
  /\ pc' = "revoke_previous"
  /\ UNCHANGED <<publisherVars, supervisorVars, revoked, committed, late, failure,
                 selected, revokedHere, status, stopped, before>>

\* The lease does not hold, or it does and the deadline is already over.
LeaseFails ==
  /\ pc = "lease"
  /\ \/ Fail(Fatal("lease_invalid"))
     \/ late /\ Fail(Recoverable("cycle_timeout"))

RevokePrevious ==
  /\ pc = "revoke_previous"
  /\ \/ /\ current # None
        /\ revoked' = WithRevoked(current.lease)
        /\ revokedHere' = current.lease
     \/ /\ current = None
        /\ UNCHANGED <<revoked, revokedHere>>
  /\ pc' = "publish"
  /\ UNCHANGED <<publisherVars, supervisorVars, committed, late, failure, selected,
                 status, stopped, before>>

\* publish for the candidate, reauthorize_current for a kept plan.
Publish ==
  /\ pc = "publish"
  /\ FreshLease(selected)
  /\ \/ /\ selected.switching
        /\ FreshPlan(selected)
        /\ lastPlan' = selected.plan
        /\ Expose([plan |-> selected.plan, lease |-> selected.lease,
                   continues |-> committed])
     \/ /\ ~selected.switching
        /\ UNCHANGED lastPlan
        /\ Expose([plan |-> current.plan, lease |-> selected.lease,
                   continues |-> current.lease])
  /\ pc' = "after_publish"
  /\ UNCHANGED <<supervisorVars, revoked, committed, late, failure, selected,
                 revokedHere, status, stopped, before>>

\* The publisher refuses: a number is not fresh, or the content does not match.
PublishRefused ==
  /\ pc = "publish"
  /\ Fail(Fatal("publication_failed"))

PublishedInTime ==
  /\ pc = "after_publish"
  /\ ~late
  /\ status' = IF selected.switching THEN "success" ELSE "current_plan_reused"
  /\ pc' = "idle"
  /\ UNCHANGED <<publisherVars, supervisorVars, revoked, committed, late, failure,
                 selected, revokedHere, stopped, before>>

\* The deadline passed during the publication: the new lease is withdrawn.
PublishedLate ==
  /\ pc = "after_publish"
  /\ late
  /\ revoked' = WithRevoked(current.lease)
  /\ revokedHere' = current.lease
  /\ status' = "cycle_timeout"
  /\ pc' = "clear"
  /\ UNCHANGED <<publisherVars, supervisorVars, committed, late, failure, selected,
                 stopped, before>>

-----------------------------------------------------------------------------
(* finish_failure                                                          *)

FinishFailure ==
  /\ pc = "failing"
  /\ status' = IF late THEN "cycle_timeout" ELSE failure.status
  /\ pc' = IF failure.reuse /\ current # None THEN "recapture_current" ELSE "give_up"
  /\ UNCHANGED <<publisherVars, supervisorVars, revoked, committed, late, failure,
                 selected, revokedHere, stopped, before>>

RecaptureCurrent ==
  /\ pc = "recapture_current"
  /\ pc' \in {"revalidate_current", "give_up"}
  /\ UNCHANGED <<publisherVars, supervisorVars, revoked, committed, late, failure,
                 selected, revokedHere, status, stopped, before>>

\* revalidate_plan on the exposed plan grants another lease, or finds it invalid,
\* or in breach of the covariance envelope, which becomes the status.
RevalidateCurrent ==
  /\ pc = "revalidate_current"
  /\ \/ /\ \E l \in Leases \ {current.lease} :
             selected' = [plan |-> current.plan, lease |-> l, switching |-> FALSE]
        /\ pc' = "revoke_renewed"
        /\ UNCHANGED status
     \/ /\ status' \in {status, "covariance_envelope_breached"}
        /\ pc' = "give_up"
        /\ UNCHANGED selected
  /\ UNCHANGED <<publisherVars, supervisorVars, revoked, committed, late, failure,
                 revokedHere, stopped, before>>

RevokeRenewed ==
  /\ pc = "revoke_renewed"
  /\ revoked' = WithRevoked(current.lease)
  /\ revokedHere' = current.lease
  /\ pc' = "reauthorize"
  /\ UNCHANGED <<publisherVars, supervisorVars, committed, late, failure, selected,
                 status, stopped, before>>

\* reauthorize_current succeeds; a timeout stays the status of the cycle.
Reauthorize ==
  /\ pc = "reauthorize"
  /\ FreshLease(selected)
  /\ Expose([plan |-> current.plan, lease |-> selected.lease,
             continues |-> current.lease])
  /\ status' = IF late \/ status = "cycle_timeout" THEN "cycle_timeout"
               ELSE "current_plan_reused"
  /\ pc' = "idle"
  /\ UNCHANGED <<supervisorVars, lastPlan, revoked, committed, late, failure,
                 selected, revokedHere, stopped, before>>

ReauthorizeRefused ==
  /\ pc = "reauthorize"
  /\ pc' = "give_up"
  /\ UNCHANGED <<publisherVars, supervisorVars, revoked, committed, late, failure,
                 selected, revokedHere, status, stopped, before>>

\* The exposed lease is revoked, unless this cycle revoked a lease already.
GiveUp ==
  /\ pc = "give_up"
  /\ \/ /\ current # None /\ revokedHere = 0
        /\ revoked' = WithRevoked(current.lease)
        /\ revokedHere' = current.lease
     \/ /\ current = None \/ revokedHere # 0
        /\ UNCHANGED <<revoked, revokedHere>>
  /\ pc' = "clear"
  /\ UNCHANGED <<publisherVars, supervisorVars, committed, late, failure, selected,
                 status, stopped, before>>

\* revoke_current, then request_controlled_stop.
Clear ==
  /\ pc = "clear"
  /\ current' = Cleared
  /\ stopped' = TRUE
  /\ pc' = "idle"
  /\ UNCHANGED <<supervisorVars, lastPlan, lastLease, published, revoked, committed,
                 late, failure, selected, revokedHere, status, before>>

-----------------------------------------------------------------------------
(* finish_commitment_override                                              *)

\* A changed dependency, or a commitment check that is not safe.
Override ==
  /\ pc \in {"committed_start", "commitment"}
  /\ committed # 0
  /\ status' = "commitment_overridden"
  /\ pc' = "override_revoke"
  /\ UNCHANGED <<publisherVars, supervisorVars, revoked, committed, late, failure,
                 selected, revokedHere, stopped, before>>

OverrideRevokes ==
  /\ pc = "override_revoke"
  /\ revoked' = WithRevoked(committed)
  /\ revokedHere' = committed
  /\ pc' = "override_stop"
  /\ UNCHANGED <<publisherVars, supervisorVars, committed, late, failure, selected,
                 status, stopped, before>>

\* The stop channel is called before the publisher is cleared.
OverrideStops ==
  /\ pc = "override_stop"
  /\ stopped' = TRUE
  /\ pc' = "override_clear"
  /\ UNCHANGED <<publisherVars, supervisorVars, revoked, committed, late, failure,
                 selected, revokedHere, status, before>>

OverrideClears ==
  /\ pc = "override_clear"
  /\ current' = ClearedFor(committed)
  /\ pc' = "idle"
  /\ UNCHANGED <<supervisorVars, lastPlan, lastLease, published, revoked, committed,
                 late, failure, selected, revokedHere, status, stopped, before>>

-----------------------------------------------------------------------------
(* The other users of the monitor                                          *)

\* An event adapter calls handle_event for the lease it takes to be active.
HandleEvent ==
  /\ supervisor = "ready"
  /\ current # None
  /\ target' = current.lease
  /\ supervisor' = "enforcing"
  /\ UNCHANGED <<publisherVars, cycleVars, revoked, barred>>

\* enforce: revoke the lease, then call the stop channel.
Enforce ==
  /\ supervisor = "enforcing"
  /\ revoked' = WithRevoked(target)
  /\ barred' = barred \cup {target}
  /\ supervisor' = "ready"
  /\ target' = 0
  /\ UNCHANGED <<publisherVars, cycleVars>>

\* A feedback sample is refused: evaluate revokes its lease.
FeedbackRejects(l) ==
  /\ l \in LeasesOf(published)
  /\ revoked' = WithRevoked(l)
  /\ UNCHANGED <<publisherVars, cycleVars, supervisorVars>>

-----------------------------------------------------------------------------

CycleStep ==
  \/ ChooseStart \/ StagePasses \/ StageFails \/ Decide \/ DecisionFails
  \/ LeaseHolds \/ LeaseFails \/ RevokePrevious \/ Publish \/ PublishRefused
  \/ PublishedInTime \/ PublishedLate
  \/ FinishFailure \/ RecaptureCurrent \/ RevalidateCurrent \/ RevokeRenewed
  \/ Reauthorize \/ ReauthorizeRefused \/ GiveUp \/ Clear
  \/ Override \/ OverrideRevokes \/ OverrideStops \/ OverrideClears

Loop == CycleStep \/ \E c \in LeaseOrUnset : StartCycle(c)

Environment ==
  DeadlinePasses \/ HandleEvent \/ Enforce \/ \E l \in Leases : FeedbackRejects(l)

Next == Loop \/ Environment

Spec == Init /\ [][Next]_vars

\* The loop is triggered periodically and every stage returns.
FairSpec == Spec /\ WF_vars(Loop)

-----------------------------------------------------------------------------
(* Properties                                                              *)

\* Every variable stays in its domain, and each step of the loop that uses the
\* exposed authorization or the decision finds one.
TypeOK ==
  /\ current \in Authorization \cup {None}
  /\ lastPlan \in 0..MaxPlan
  /\ lastLease \in LeaseOrUnset
  /\ revoked \subseteq Leases
  /\ pc \in Steps
  /\ committed \in LeaseOrUnset
  /\ late \in BOOLEAN
  /\ failure \in Failures
  /\ selected \in Choice \cup {None}
  /\ revokedHere \in LeaseOrUnset
  /\ status \in Statuses
  /\ stopped \in BOOLEAN
  /\ supervisor \in {"ready", "enforcing"}
  /\ target \in LeaseOrUnset
  /\ supervisor = "enforcing" => target # 0
  /\ published \subseteq Authorization
  /\ before \subseteq published
  /\ barred \subseteq revoked

\* Whatever the executor could still act on is what the publisher exposes: an
\* authorization that is neither exposed nor revoked cannot exist, however the
\* cycle ended and whoever revoked leases meanwhile.
LiveLeaseIsCurrent ==
  \A a \in Live : a = current

\* A cycle that ends with a stop, ordinary or by commitment override, leaves
\* nothing to execute: no authorization is exposed and none is live.
StopLeavesNoAuthority ==
  pc = "idle" /\ stopped => current = None /\ Live = {}

\* No cycle is neutral: when it returns, either a lease issued by this cycle is
\* exposed or none is; an authorization never outlives the cycle after it.
EveryCycleDecides ==
  pc = "idle" /\ current # None => current \notin before

\* A cycle that missed its deadline may keep the old plan under a newly validated
\* lease, but it never leaves the plan it computed too late in place.
LatePlanWithdrawn ==
  pc = "idle" /\ status = "cycle_timeout" /\ current # None =>
    \E a \in before : a.plan = current.plan

\* What the executor can act on, as ExecutionAuthority sees it.
AuthorityNow ==
  IF Live # {} THEN "authorized" ELSE IF published = {} THEN "none" ELSE "revoked"

Authority == INSTANCE ExecutionAuthority WITH
  authority <- AuthorityNow,
  watermark <- lastLease

\* The loop, with the feedback path and the supervisor revoking leases at any
\* time, offers the executor no more than ExecutionAuthority allows.
ImplementsAuthority == Authority!Spec

\* An authorization revoked behind the loop's back does not stay exposed: the
\* cycles that follow clear it or replace it.
StaleAuthorizationCleared ==
  (current # None /\ current.lease \in revoked)
    ~> (current = None \/ current.lease \notin revoked)

\* "STOP and REPLAN_URGENT must not enter the search or continue the old
\* commitment in this cycle": after the supervisor revoked a lease, no live
\* authorization of the same cycle continues the motion of that lease.
EventBarsCommitment ==
  \A a \in Live : a.continues \notin barred

\* "If the deadline is crossed during failure handling or the old plan's
\* revalidation, the status always keeps the root cause cycle_timeout".
TimeoutIsKept ==
  [][status = "cycle_timeout" /\ pc # "idle" => status' = "cycle_timeout"]_vars
=============================================================================
