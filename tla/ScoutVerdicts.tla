--------------------------- MODULE ScoutVerdicts ----------------------------
(* The verdicts on a scout's motion against the main robot's prediction      *)
(* (coordination_evaluator.cpp), its capability and energy                   *)
(* (capability_energy_gate.cpp), and its survey: the action planned for it   *)
(* (survey_action.cpp) and the evidence computed from the smoothed           *)
(* trajectory (survey_plan_evidence.cpp).  Positions are on one axis.        *)
EXTENDS Integers, Sequences, FiniteSets

CONSTANTS
  Fine       \* parts of a unit of length or time that keep quotients whole

Low(S) == CHOOSE x \in S : \A y \in S : x <= y
High(S) == CHOOSE x \in S : \A y \in S : x >= y
SizeOf(x) == IF x < 0 THEN -x ELSE x

(***************************************************************************)
(* Coordination.  A motion is a sequence of [time, at]; the prediction one *)
(* of [start, end, from, to, radius].                                      *)
(***************************************************************************)

\* Where linear motion from a at s to b at e is at time t, in Fine parts.
Between(a, b, s, e, t) == Fine * a + (Fine * (b - a) * (t - s)) \div (e - s)

Contiguous(main) ==
  /\ main # << >>
  /\ main[1].start = 0
  /\ \A i \in DOMAIN main : main[i].end > main[i].start
  /\ \A i \in 1..(Len(main) - 1) :
       main[i + 1].start = main[i].end /\ main[i + 1].from = main[i].to

Overlaps(motion, main) ==
  {<<k, j>> \in (1..(Len(motion) - 1)) \X DOMAIN main :
     motion[k].time <= main[j].end /\ main[j].start <= motion[k + 1].time}

\* One overlap: its times and the scout's position relative to the main robot.
Overlap(motion, main, k, j) ==
  LET from == High({motion[k].time, main[j].start})
      till == Low({motion[k + 1].time, main[j].end})
      Relative(t) ==
        Between(motion[k].at, motion[k + 1].at, motion[k].time, motion[k + 1].time, t)
          - Between(main[j].from, main[j].to, main[j].start, main[j].end, t)
  IN  [from |-> from, till |-> till, first |-> Relative(from), last |-> Relative(till),
       radius |-> main[j].radius]

\* The relative motion is straight: nearest where it crosses zero or at an end.
Nearest(o) ==
  IF (o.first < 0) # (o.last < 0) THEN 0 ELSE Low({SizeOf(o.first), SizeOf(o.last)})
Farthest(o) == High({SizeOf(o.first), SizeOf(o.last)})

SeparationMargin(o, limits) == Nearest(o) - Fine * (o.radius + limits.separation)
ReachMargin(o, limits) == Fine * limits.reach - Farthest(o)

\* Whole time units into the overlap at which the distance first falls below,
\* or rises above, a limit; in between ends it does so on the way.
FirstBelow(o, limit) ==
  IF SizeOf(o.first) < limit THEN o.from
  ELSE o.from + ((o.till - o.from) * (SizeOf(o.first) - limit)) \div SizeOf(o.last - o.first)

\* An overlap that begins exactly at the limit answers its start, even if the
\* robots first approach each other.
FirstAbove(o, limit) ==
  IF SizeOf(o.first) >= limit THEN o.from
  ELSE o.from +
    LET away == IF o.last > o.first THEN limit - o.first ELSE limit + o.first
    IN  ((o.till - o.from) * away) \div SizeOf(o.last - o.first)

Ages(c) ==
  /\ c.predictionReceived <= c.now /\ c.now - c.predictionReceived <= c.rejectAge
  /\ c.constraintReceived <= c.now /\ c.now - c.constraintReceived <= c.rejectAge

Coordination(c) ==
  LET all == {Overlap(c.motion, c.main, p[1], p[2]) : p \in Overlaps(c.motion, c.main)}
      near == {o \in all : SeparationMargin(o, c.limits) < 0}
      far == {o \in all : ReachMargin(o, c.limits) < 0}
      failures == {FirstBelow(o, Fine * (o.radius + c.limits.separation)) : o \in near}
                    \cup {FirstAbove(o, Fine * c.limits.reach) : o \in far}
  IN  IF ~c.sameBinding THEN [verdict |-> "mismatch"]
      ELSE IF c.limits.separation <= 0 \/ c.limits.reach <= c.limits.separation
        THEN [verdict |-> "coordination_infeasible"]
      ELSE IF ~Ages(c) THEN [verdict |-> "dependency_stale"]
      ELSE IF ~Contiguous(c.main) THEN [verdict |-> "prediction_gap"]
      ELSE IF c.motion[Len(c.motion)].time > c.main[Len(c.main)].end
        THEN [verdict |-> "prediction_horizon_exceeded"]
      ELSE IF near # {} THEN [verdict |-> "separation_violation", time |-> Low(failures)]
      ELSE IF far # {}
        THEN [verdict |-> "communication_distance_violation", time |-> Low(failures)]
      ELSE [verdict |-> "passed"]

(***************************************************************************)
(* Capability and energy.  A sample is [velocity, at, climb, turn,         *)
(* duration]; the current is [speed, gradient, reference, low, high].      *)
(***************************************************************************)

CurrentAt(current, at) == current.speed + current.gradient * (at - current.reference)

CapabilityMargin(sample, current, profile) ==
  Low({ profile.waterSpeed - SizeOf(sample.velocity - CurrentAt(current, sample.at)) - current.error,
        (IF sample.climb >= 0 THEN profile.ascent ELSE profile.descent) - SizeOf(sample.climb),
        profile.yawRate - SizeOf(sample.turn) })

Power(sample, current, energy) ==
  LET speed == SizeOf(sample.velocity - CurrentAt(current, sample.at))
  IN  energy.hotel + energy.speed * speed + energy.cubic * speed * speed * speed
        + energy.yaw * SizeOf(sample.turn)

EnergyOf(samples, current, energy) ==
  LET used[i \in 0..Len(samples)] ==
        IF i = 0 THEN 0 ELSE used[i - 1] + Power(samples[i], current, energy) * samples[i].duration
  IN  used[Len(samples)]

Contingency(energy) ==
  IF energy.contingency = "return" THEN energy.return
  ELSE IF energy.contingency = "risk" THEN energy.risk ELSE 0

SampleVerdict(sample, current, profile) ==
  IF sample.duration <= 0 THEN "invalid_trajectory"
  ELSE IF sample.at \notin current.low..current.high THEN "current_outside_region"
  ELSE IF CapabilityMargin(sample, current, profile) < 0 THEN "capability_infeasible"
  ELSE "passed"

CapabilityEnergy(samples, current, profile, energy) ==
  LET bad == {i \in DOMAIN samples : SampleVerdict(samples[i], current, profile) # "passed"}
  IN  IF samples = << >> THEN "invalid_trajectory"
      ELSE IF bad # {} THEN SampleVerdict(samples[Low(bad)], current, profile)
      ELSE IF energy.available <
                EnergyOf(samples, current, energy) + Contingency(energy) + energy.reserve
        THEN "energy_insufficient"
      ELSE "passed"

(***************************************************************************)
(* Survey.  The world is a row of cells, free or not; a region is          *)
(* [low, high].  Positions are in Fine parts of a cell.                    *)
(***************************************************************************)

CellOf(x) == x \div Fine

\* The ray is known free: every cell it touches, both sides of a boundary.
KnownFree(free, x, y) ==
  \A c \in CellOf(Low({x, y}) - 1)..CellOf(High({x, y})) :
    (Fine * c <= High({x, y}) /\ Low({x, y}) <= Fine * (c + 1)) => c \in free

InRegion(x, region) == Fine * region.low <= x /\ x <= Fine * region.high
Clamp(x, region) == High({Fine * region.low, Low({Fine * region.high, x})})

\* Evenly spread sample points, at most spacing apart.
SampleRegion(region, spacing) ==
  LET width == region.high - region.low
      n == High({1, (width + spacing - 1) \div spacing})
  IN  {Fine * region.low + (Fine * width * (2 * i + 1)) \div (2 * n) : i \in 0..(n - 1)}

Visible(free, sensor, pose, x) ==
  LET distance == SizeOf(x - pose)
  IN  /\ distance >= sensor.nearest + sensor.rangeError
      /\ distance <= sensor.farthest - sensor.positionError - sensor.rangeError
      /\ KnownFree(free, pose, x)

\* How many of the sample points are seen, and the compulsory ones all of them.
Enough(seen, samples, ratio) == 100 * Cardinality(seen) >= ratio * Cardinality(samples)
Compulsory(samples, mandatory) ==
  IF mandatory = << >> THEN {} ELSE {x \in samples : InRegion(x, mandatory[1])}

PlanSurvey(s) ==
  LET target == Clamp((Fine * (s.required.low + s.required.high)) \div 2, s.allowed)
      exit == Clamp(s.start, s.allowed)
      samples == SampleRegion(s.required, IF s.resolution > 0 THEN s.resolution ELSE s.spacing)
      seen == {x \in samples : Visible(s.free, s.sensor, target, x)}
  IN  IF ~s.sensor.nominal THEN [verdict |-> "sensor_not_nominal"]
      ELSE IF ~KnownFree(s.free, s.start, target) THEN [verdict |-> "approach_infeasible"]
      ELSE IF ~KnownFree(s.free, target, exit) THEN [verdict |-> "exit_infeasible"]
      ELSE IF ~Enough(seen, samples, IF s.missionRatio >= 0 THEN s.missionRatio ELSE s.ratio)
        THEN [verdict |-> "insufficient_coverage"]
      ELSE IF ~(Compulsory(samples, s.mandatory) \subseteq seen)
        THEN [verdict |-> "mandatory_coverage_missing"]
      ELSE [verdict |-> "planned", waypoints |-> <<s.start, target, target, exit>>]

\* What the samples of a flown trajectory have seen.
Evidence(s, poses, dwell) ==
  LET samples == SampleRegion(s.required, s.spacing)
      seen == {x \in samples :
                 \E i \in DOMAIN poses : Visible(s.free, s.sensor, poses[i], x)}
  IN  IF ~s.sensor.nominal THEN "invalid_input"
      ELSE IF dwell < s.dwell THEN "observe_invalid"
      ELSE IF ~InRegion(poses[1], s.allowed) \/ ~InRegion(poses[Len(poses)], s.allowed)
        THEN "approach_invalid"
      ELSE IF \/ \E i \in DOMAIN poses : ~InRegion(poses[i], s.allowed)
              \/ \E i \in 1..(Len(poses) - 1) : ~KnownFree(s.free, poses[i], poses[i + 1])
        THEN "observe_invalid"
      ELSE IF ~Enough(seen, samples, High({s.ratio, s.missionRatio})) THEN "insufficient_coverage"
      ELSE IF ~(Compulsory(samples, s.mandatory) \subseteq seen)
        THEN "mandatory_coverage_missing"
      ELSE "evident"

(***************************************************************************)
(* Properties.                                                             *)
(***************************************************************************)

\* The two robots' distance at a time in Fine parts, by the definition.
DistanceAt(c, u) ==
  LET k == Low({i \in 1..(Len(c.motion) - 1) : u <= Fine * c.motion[i + 1].time})
      j == Low({i \in DOMAIN c.main : u <= Fine * c.main[i].end})
      Place(a, b, s, e) == Fine * a + ((b - a) * (u - Fine * s)) \div (e - s)
  IN  [gap |-> SizeOf(Place(c.motion[k].at, c.motion[k + 1].at, c.motion[k].time, c.motion[k + 1].time)
                      - Place(c.main[j].from, c.main[j].to, c.main[j].start, c.main[j].end)),
       radius |-> c.main[j].radius]

Apart(c, u) == DistanceAt(c, u).gap >= Fine * (DistanceAt(c, u).radius + c.limits.separation)
InReach(c, u) == DistanceAt(c, u).gap <= Fine * c.limits.reach

\* A motion passes only if the robots keep apart and in reach of each other at
\* every moment of it, and a violation is reported at the moment it begins,
\* whichever scout segment and prediction interval it begins in: never later, and
\* earlier only by naming a moment at which they were exactly at the limit of reach.
CoordinationSound(c) ==
  LET result == Coordination(c)
      moments == 0..(Fine * c.motion[Len(c.motion)].time)
      bad == {u \in moments : ~Apart(c, u) \/ ~InReach(c, u)}
  IN  /\ result.verdict = "passed" => bad = {}
      /\ result.verdict \in {"separation_violation", "communication_distance_violation"} =>
           /\ bad # {}
           /\ Fine * result.time <= Low(bad)
           /\ \/ Low(bad) <= Fine * (result.time + 1)
              \/ DistanceAt(c, Fine * result.time).gap = Fine * c.limits.reach

\* A motion that passes can be cut anywhere: what was flown would have passed
\* alone, and what is left passes with the energy the first part leaves.
EnergySound(samples, current, profile, energy) ==
  CapabilityEnergy(samples, current, profile, energy) = "passed" =>
    \A i \in 1..(Len(samples) - 1) :
      LET flown == SubSeq(samples, 1, i)
          left == SubSeq(samples, i + 1, Len(samples))
      IN  /\ CapabilityEnergy(flown, current, profile, energy) = "passed"
          /\ CapabilityEnergy(left, current, profile,
               [energy EXCEPT !.available = @ - EnergyOf(flown, current, energy)]) = "passed"

\* A planned survey is one its evidence bears out: a trajectory through the
\* waypoints sees what the planner counted, unless the scout starts outside the
\* allowed region or the two are configured with other ratios or spacings.
SurveySound(s) ==
  LET plan == PlanSurvey(s)
  IN  ( /\ plan.verdict = "planned"
        /\ InRegion(s.start, s.allowed)
        /\ s.ratio <= s.missionRatio
        /\ s.resolution \in {0, s.spacing} )
      => Evidence(s, plan.waypoints, s.dwell) = "evident"

=============================================================================
