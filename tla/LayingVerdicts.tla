--------------------------- MODULE LayingVerdicts ---------------------------
(***************************************************************************)
(* The verdicts the laying planner reaches on a candidate: the geometry    *)
(* audit and the complete recheck of a robot path                          *)
(* (path_candidate_verifier.cpp), the cable corridor                       *)
(* (cable_corridor_evaluator.cpp), and what the committed path calls for   *)
(* when they fail (commitment_safety.cpp).  They keep no state.            *)
(*                                                                         *)
(* Abstracted: a path point is what the audit computes of it, a residual   *)
(* or a curvature; the corridor's arc lengths are scaled so that a bound   *)
(* crosses its thresholds on a whole unit.                                 *)
(***************************************************************************)
EXTENDS Integers, Sequences, FiniteSetsExt, SequencesExt

CONSTANTS
  Missing,    \* std::nullopt
  NotFinite,  \* a value that is not a number
  AuditLimit  \* limits: heading, curvature, maximum, rate, length

-----------------------------------------------------------------------------
(* Commitment safety                                                       *)

\* kEventPolicies: action and priority.
Policy ==
  [none |-> <<"continue", 0>>, emergency_stop |-> <<"stop", 9>>, new_obstacle |-> <<"replan", 4>>,
   terrain_constraint_change |-> <<"replan", 3>>, localization_jump |-> <<"stop", 8>>,
   cable_state_anomaly |-> <<"stop", 7>>, execution_deviation |-> <<"replan", 2>>,
   dependency_version_change |-> <<"replan", 1>>, robot_constraint_violation |-> <<"stop", 5>>,
   validation_unavailable |-> <<"stop", 6>>]
Events == DOMAIN Policy

ActionPriority == [continue |-> 0, replan |-> 1, stop |-> 2]

\* obstacle_action: an obstacle within the certified stopping distance, or at
\* a distance nobody certified, stops the robot.
ObstacleAction(stopping) ==
  IF stopping # Missing /\ NotFinite \notin {stopping.distance, stopping.certified}
       /\ stopping.distance >= 0 /\ stopping.certified >= 0
       /\ stopping.certified < stopping.distance
  THEN "replan" ELSE "stop"

ActionFor(event, stopping) ==
  IF event = "new_obstacle" THEN ObstacleAction(stopping) ELSE Policy[event][1]

\* The fault the runs must notice: the last problem considered wins.
ConsiderLast(result, event, stopping) ==
  IF event = "none" THEN result
  ELSE [safe |-> FALSE, event |-> event, action |-> ActionFor(event, stopping)]

\* consider
Consider(result, event, stopping) ==
  LET action == ActionFor(event, stopping)
      gain == ActionPriority[action] - ActionPriority[result.action]
  IN IF event # "none" /\ (result.safe \/ gain > 0
                             \/ (gain = 0 /\ Policy[event][2] > Policy[result.event][2]))
     THEN [safe |-> FALSE, event |-> event, action |-> action]
     ELSE result

RobotEvent(status) ==
  CASE status = Missing \/ status = "valid" -> "none"
    [] status = "collision_violation" -> "new_obstacle"
    [] status = "traversability_violation" -> "terrain_constraint_change"
    [] OTHER -> "robot_constraint_violation"

CableEvent(status) == IF status \in {Missing, "valid"} THEN "none" ELSE "cable_state_anomaly"

\* A missing validation counts only when nothing was observed.
AvailabilityEvent(o) ==
  IF Missing \in {o.robot, o.cable} /\ o.observed = "none" THEN "validation_unavailable" ELSE "none"

\* CommitmentSafetyEvaluator::evaluate
EvaluateCommitment(o) ==
  FoldLeft(LAMBDA result, event : Consider(result, event, o.stopping),
           [safe |-> TRUE, event |-> "none", action |-> "continue"],
           <<o.observed, RobotEvent(o.robot), CableEvent(o.cable), AvailabilityEvent(o)>>)

(* Whatever is wrong at once, and in whatever order it is considered, the   *)
(* commitment does what the gravest of it calls for; it goes on exactly     *)
(* when both validations are there and pass and nothing was observed        *)
(* (commitment_safety.cpp:88, 111).                                         *)
CommitmentSound(o) ==
  LET result == EvaluateCommitment(o)
      wrong == {o.observed, RobotEvent(o.robot), CableEvent(o.cable), AvailabilityEvent(o)} \ {"none"}
  IN /\ result.safe <=> (o.observed = "none" /\ o.robot = "valid" /\ o.cable = "valid")
     /\ \A e \in wrong : ActionPriority[result.action] >= ActionPriority[ActionFor(e, o.stopping)]
     /\ result.safe <=> result.action = "continue"
     /\ (o.robot = "collision_violation" /\ ObstacleAction(o.stopping) = "stop") => result.action = "stop"

-----------------------------------------------------------------------------
(* The recheck of a robot path                                             *)

Gap(a, b) == IF a < b THEN b - a ELSE a - b

\* auditPathGeometry: a point carries its heading residual, the curvature it
\* claims and, between its neighbours, the one its position gives.
AuditGeometry(path) ==
  LET inner == 2..Len(path.points) - 1
      Claimed(i) == path.points[i].curvature
      Given(i) == path.points[i].geometric
      residual == Max({path.points[i].heading : i \in DOMAIN path.points})
      mismatch == Max({0} \cup {Gap(Claimed(i), Given(i)) : i \in inner})
      bend == Max({Gap(0, Claimed(i)) : i \in DOMAIN path.points} \cup {Gap(0, Given(i)) : i \in inner})
  IN IF ~path.sound THEN "path_geometry_or_boundary_invalid"
     ELSE IF path.source \notin {"synchronized_actual_state", "committed_segment_terminal"} THEN "start_boundary_provenance_invalid"
     ELSE IF path.skewed THEN "boundary_timestamp_skew_exceeded"
     ELSE IF \E p \in Range(path.points) : p.heading = NotFinite THEN "degenerate_path_tangent"
     ELSE IF \E i \in inner : Given(i) = NotFinite THEN "degenerate_geometric_curvature"
     ELSE IF \E i \in DOMAIN path.segments : path.segments[i] < AuditLimit.length THEN "path_segment_too_short"
     ELSE IF residual > AuditLimit.heading THEN "geometric_heading_residual_exceeded"
     ELSE IF mismatch > AuditLimit.curvature THEN "geometric_curvature_residual_exceeded"
     ELSE IF bend > AuditLimit.maximum + AuditLimit.curvature THEN "curvature_limit_exceeded"
     ELSE IF \E i \in DOMAIN path.segments :
            Gap(Claimed(i), Claimed(i + 1)) > AuditLimit.rate * path.segments[i] THEN "curvature_rate_exceeded"
     ELSE "valid"

GeometryStatus(reason) ==
  CASE reason \in {"path_geometry_or_boundary_invalid", "start_boundary_provenance_invalid",
                   "boundary_timestamp_skew_exceeded"} -> "input_invalid"
    [] reason = "curvature_rate_exceeded" -> "curvature_rate_limit_exceeded"
    [] reason = "curvature_limit_exceeded" -> "curvature_limit_exceeded"
    [] OTHER -> "geometry_invalid"

\* The sample a failed sweep is located at: the first that fails by itself,
\* the last when the sweep failed between samples.
Located(failing, samples) == IF failing = {} THEN samples ELSE Min(failing)

Rejected(status, index) == [status |-> status, index |-> index]

\* PathCandidateVerifier::verify over the samples of the path (make_motion_segment):
\* outside, blocked and steep are the samples that leave the operating area,
\* collide or cannot be traversed; a sweep also sees what lies between them.
VerifyPath(path, c) ==
  LET reason == AuditGeometry(path)
  IN IF reason # "valid" THEN Rejected(GeometryStatus(reason), Missing)
     ELSE IF path.boundary > 0 THEN Rejected("boundary_residual_exceeded", Missing)
     ELSE IF ~c.sound THEN Rejected("input_invalid", Missing)
     ELSE IF c.outside # {} THEN Rejected("operating_area_violation", Min(c.outside))
     ELSE IF c.blocked # {} \/ c.blockedBetween THEN Rejected("collision_violation", Located(c.blocked, c.samples))
     ELSE IF c.steep # {} \/ c.steepBetween THEN Rejected("traversability_violation", Located(c.steep, c.samples))
     ELSE Rejected("valid", Missing)

(* An obstacle the recheck finds is what the commitment answers to, also    *)
(* when it lies between two samples, unless the robot would already leave   *)
(* its operating area, which stops it (path_candidate_verifier.cpp:383,     *)
(* commitment_safety.cpp:124).                                              *)
RecheckSound(path, c, stopping) ==
  LET result == VerifyPath(path, c)
      after == EvaluateCommitment([observed |-> "none", stopping |-> stopping,
                                   robot |-> result.status, cable |-> "valid"])
      harmed == c.outside # {} \/ c.blocked # {} \/ c.blockedBetween \/ c.steep # {} \/ c.steepBetween
      failing == CASE result.status = "operating_area_violation" -> c.outside
                   [] result.status = "collision_violation" -> c.blocked
                   [] OTHER -> c.steep
  IN /\ harmed => ~after.safe
     /\ (c.blocked # {} \/ c.blockedBetween) /\ after.action # "stop" =>
          stopping # Missing /\ stopping.certified < stopping.distance
     /\ result.index # Missing /\ failing # {} =>
          result.index \in failing /\ \A i \in failing : i >= result.index

-----------------------------------------------------------------------------
(* The corridor                                                            *)

\* classify_bound for a bound given as a fraction.
Classify(bound, scale, policy) ==
  IF bound < scale * policy.nominal THEN "pass"
  ELSE IF bound < scale * policy.absolute THEN "marginal"
  ELSE "violation"

\* Twice the span times the conservative bound in the middle of the unit that
\* starts at offset o of the interval.
MiddleBound(left, right, span, o) == left * (2 * (span - o) - 1) + right * (2 * o + 1)

\* accumulate_classified_intervals: the units of the given class, in order.
Classified(corridor, policy, class) ==
  {<<k, o>> \in (1..Len(corridor.bounds) - 1) \X (0..corridor.span - 1) :
     Classify(MiddleBound(corridor.bounds[k] + corridor.errors[k],
                          corridor.bounds[k + 1] + corridor.errors[k], corridor.span, o),
              2 * corridor.span, policy) = class}

\* expanded_intervals, clipped to the path.
ExpandedUnits(corridor, policy, units) ==
  LET arcs == {(u[1] - 1) * corridor.span + u[2] : u \in units}
      all == 0..(Len(corridor.bounds) - 1) * corridor.span - 1
  IN {a \in all : \E b \in arcs : a - b <= policy.margin /\ b - a <= policy.margin}

ViolatingPoints(corridor, policy) ==
  {i \in DOMAIN corridor.bounds : Classify(corridor.bounds[i], 1, policy) = "violation"}

\* evaluate_pointwise
CorridorFeasible(corridor, policy) ==
  /\ ViolatingPoints(corridor, policy) = {}
  /\ Classified(corridor, policy, "violation") = {}
  /\ Cardinality(ExpandedUnits(corridor, policy, Classified(corridor, policy, "marginal")))
       <= policy.maximum

\* |r - l| times the length of an interval on which a linear bound is marginal.
MarginalSpan(l, r, span, policy) ==
  LET low == Min({l, r})
      high == Max({l, r})
  IN span * Max({0, Min({high, policy.absolute}) - Max({low, policy.nominal})})

(* The lengths found piece by piece are those of the linear bound itself,   *)
(* and a feasible cable stays inside the absolute corridor everywhere, not  *)
(* only at the evaluated points (cable_corridor_evaluator.cpp:103).         *)
CorridorSound(corridor, policy) ==
  /\ \A k \in 1..Len(corridor.bounds) - 1 :
       LET l == corridor.bounds[k] + corridor.errors[k]
           r == corridor.bounds[k + 1] + corridor.errors[k]
       IN l # r =>
            Gap(l, r) * Cardinality({u \in Classified(corridor, policy, "marginal") : u[1] = k})
              = MarginalSpan(l, r, corridor.span, policy)
  /\ CorridorFeasible(corridor, policy) =>
       \A k \in 1..Len(corridor.bounds) - 1 :
         corridor.bounds[k] + corridor.errors[k] <= policy.absolute
=============================================================================
