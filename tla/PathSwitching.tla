--------------------------- MODULE PathSwitching ----------------------------
(***************************************************************************)
(* StabilityManager (stability_manager.cpp) and the versioning of          *)
(* execution profiles (data_contract.cpp): the robot drives along the      *)
(* authorized trajectory while a tail is planned behind the committed      *)
(* segment, joined to it and preferred, or not, to what is authorized.     *)
(*                                                                         *)
(* Abstracted: a trajectory is the lane at each unit of arc length, which  *)
(* stands for the geometry and the execution profile together.             *)
(***************************************************************************)
EXTENDS Integers, Sequences, FiniteSetsExt

CONSTANTS
  Lanes,
  LaneCost,        \* cost of a point, by lane
  Horizon,         \* arc length of the longest trajectory
  Reach,           \* distance driven in the commitment time
  StoppingMargin,  \* certified stopping distance and safety margin
  Threshold,       \* relative_cost_threshold, in tenths
  Topology,        \* topology_distance_threshold_m, or NoPath
  MaxProfile,      \* bound on profile versions
  NoPath           \* std::nullopt

ASSUME PathAssumption ==
  /\ Lanes \subseteq Nat /\ LaneCost \in [Lanes -> Nat]
  /\ {Horizon, Reach, StoppingMargin, Threshold, MaxProfile} \subseteq Nat /\ Threshold < 10

VARIABLES
  authorized,  \* the trajectory being executed
  position,    \* arc length the robot has reached
  segment,     \* the committed segment a tail is planned for, or NoPath
  candidate,   \* the joined trajectory, or NoPath
  versioner,   \* last_issued_version_ and last_profile_
  left         \* history: what was left for something cheaper and still lies ahead

pathVars == <<authorized, position, segment, candidate, versioner, left>>

\* The lane at each arc length from path.from on.
Paths == [from : 0..Horizon, lane : UNION {[1..n -> Lanes] : n \in 2..Horizon + 1}, version : 1..MaxProfile]

Through(path) == path.from + Len(path.lane) - 1
LaneAt(path, arc) == path.lane[arc - path.from + 1]
Slice(path, a, b) ==
  [from |-> a, lane |-> SubSeq(path.lane, a - path.from + 1, b - path.from + 1), version |-> path.version]
Points(path) == {<<a, LaneAt(path, a)>> : a \in path.from..Through(path)}

PathInit ==
  /\ authorized \in {[from |-> 0, lane |-> l, version |-> 1] : l \in [1..Horizon + 1 -> Lanes]}
  /\ position = 0
  /\ segment = NoPath /\ candidate = NoPath
  /\ versioner = [last |-> 1, profile |-> NoPath]
  /\ left = {}

-----------------------------------------------------------------------------
(* Faults the runs must notice                                             *)

AnyImprovement(old, new, oldCost, newCost) == newCost <= oldCost

-----------------------------------------------------------------------------
(* Executing and committing                                                *)

Move ==
  /\ position < Through(authorized)
  /\ position' = position + 1
  /\ left' = {Tail(x) : x \in {y \in left : Len(y) > 1 /\ y[2] = LaneAt(authorized, position + 1)}}
  /\ UNCHANGED <<authorized, segment, candidate, versioner>>

\* required_length_m
Required == Max({Reach, StoppingMargin})

\* extract_commitment_segment
ExtractSegment ==
  /\ segment = NoPath
  /\ Through(authorized) - position >= Required /\ Required > 0
  /\ segment' = Slice(authorized, position, position + Required)
  /\ UNCHANGED <<authorized, position, candidate, versioner, left>>

-----------------------------------------------------------------------------
(* Joining a tail                                                          *)

\* assign_version: content seen before keeps its version.
Assign(lane) ==
  IF versioner.profile = lane THEN versioner
  ELSE [last |-> versioner.last + 1, profile |-> lane]

\* merge_timed_paths and mergePathsG2: the junction agrees, the tail's first
\* point is the segment's last, the rest is moved behind it.
Join(prefix, lane, version) ==
  [from |-> prefix.from, lane |-> prefix.lane \o Tail(lane), version |-> Max({prefix.version, version}) + 1]

MergeTail(lane) ==
  /\ segment # NoPath /\ candidate = NoPath
  /\ Max({segment.version, Assign(lane).last}) < MaxProfile
  /\ versioner' = Assign(lane)
  /\ candidate' = IF LaneAt(segment, Through(segment)) = lane[1]
                  THEN Join(segment, lane, versioner'.last) ELSE NoPath
  /\ segment' = IF candidate' = NoPath THEN NoPath ELSE segment
  /\ UNCHANGED <<authorized, position, left>>

-----------------------------------------------------------------------------
(* Keeping or switching                                                    *)

\* The robot is on the path (state_matches); the path starts behind it.
OnPath(path) ==
  /\ path.from <= position /\ position < Through(path)
  /\ LaneAt(path, position) = LaneAt(authorized, position)

Remaining(path) == Slice(path, position, Through(path))

\* The cost of the lanes of a path.
Cost(lanes) ==
  LET upTo[n \in 0..Len(lanes)] == IF n = 0 THEN 0 ELSE upTo[n - 1] + LaneCost[lanes[n]]
  IN  upTo[Len(lanes)]

SquaredDistance(p, q) == (p[1] - q[1]) * (p[1] - q[1]) + (p[2] - q[2]) * (p[2] - q[2])
Directed(p, q) == Max({Min({SquaredDistance(x, y) : y \in Points(q)}) : x \in Points(p)})
TopologyDistance(p, q) == Max({Directed(p, q), Directed(q, p)})

\* should_switch_path
ShouldSwitch(old, new, oldCost, newCost) ==
  \/ 10 * newCost < (10 - Threshold) * oldCost
  \/ Topology # NoPath /\ TopologyDistance(old, new) > Topology * Topology

\* decide_path_switch, for evaluations that are valid or not (expired ones are
\* captured again), of one context or not, with costs that are numbers or not.
Decision(currentValid, candidateValid, sameContext, currentCostSound, candidateCostSound) ==
  IF ~candidateValid \/ ~candidateCostSound THEN IF currentValid THEN "keep" ELSE "stop"
  ELSE IF ~currentValid THEN "switch"
  ELSE IF ~sameContext THEN "stop"
  ELSE IF ~currentCostSound THEN "keep"
  ELSE IF ShouldSwitch(Remaining(authorized), Remaining(candidate),
                       Cost(Remaining(authorized).lane), Cost(Remaining(candidate).lane))
       THEN "switch" ELSE "keep"

Decide(currentChecks, candidateChecks, sameContext, currentCostSound, candidateCostSound) ==
  /\ candidate # NoPath
  /\ LET currentValid == currentChecks /\ OnPath(authorized)
         candidateValid == candidateChecks /\ OnPath(candidate)
         decision == Decision(currentValid, candidateValid, sameContext, currentCostSound, candidateCostSound)
     IN IF decision = "switch"
        THEN /\ authorized' = candidate
             /\ left' = IF currentValid THEN left \cup {Remaining(authorized).lane} ELSE {}
        ELSE UNCHANGED <<authorized, left>>
  /\ segment' = NoPath /\ candidate' = NoPath
  /\ UNCHANGED <<position, versioner>>

PathNext ==
  \/ Move
  \/ ExtractSegment
  \/ \E n \in 2..Horizon + 1 : \E lane \in [1..n -> Lanes] :
       segment # NoPath /\ Through(segment) + n - 1 <= Horizon /\ MergeTail(lane)
  \/ \E a, b, c, d, e \in BOOLEAN : Decide(a, b, c, d, e)

PathSpec == PathInit /\ [][PathNext]_pathVars

-----------------------------------------------------------------------------

PathTypeOK ==
  /\ authorized \in Paths /\ position \in authorized.from..Through(authorized)
  /\ {segment, candidate} \subseteq Paths \cup {NoPath}
  /\ versioner.last \in 1..MaxProfile

(* While the current plan stays valid, a switch never goes back to what was  *)
(* left, however often the robot moves and replans in between; what is      *)
(* committed stays as it is, the robot is on the new path and the profile   *)
(* gets a version of its own (stability_manager.cpp:342, 530).              *)
SwitchesOnlyImprove ==
  [][authorized' # authorized =>
       /\ authorized'.version > authorized.version
       /\ \A a \in position..Min({Through(segment), Through(authorized)}) :
            LaneAt(authorized', a) = LaneAt(authorized, a)
       /\ Slice(authorized', position, Through(authorized')).lane \notin left']_pathVars
=============================================================================
