--------------------------- MODULE Traversability ---------------------------
(* What the robot may drive over (traversability_evaluator.cpp): the poses a *)
(* motion is sampled at, the steps it crosses, the slopes, roughness and     *)
(* support under it, and the cells its footprint may not touch.  Lengths are *)
(* whole units; a cell is SweepCell wide.  The footprint and its two tracks  *)
(* are rectangles, headings are quarter turns, a motion keeps its heading    *)
(* and goes along an axis or across in the ratio three to four, so that all  *)
(* lengths are whole; angles are kept as gradients.                          *)
EXTENDS Integers, Sequences, FiniteSetsExt, SequencesExt

CONSTANTS SweepCell   \* a multiple of four

ASSUME SweepCellAssumption == SweepCell \in {4 * n : n \in 1..100}

AbsoluteValue(x) == IF x < 0 THEN -x ELSE x
AxisOf(heading) == 1 + (heading % 2)
Ahead(heading) == <<<<1, 0>>, <<0, 1>>, <<-1, 0>>, <<0, -1>>>>[heading + 1]
Leftward(heading) == <<-Ahead(heading)[2], Ahead(heading)[1]>>

(***************************************************************************)
(* Poses of the sweep, and what lies under the footprint at one            *)
(***************************************************************************)

Corner(pose, v) ==
  [d \in 1..2 |-> pose.at[d] + Ahead(pose.heading)[d] * v[1] + Leftward(pose.heading)[d] * v[2]]

Placed(shape, pose) ==
  LET a == Corner(pose, shape.low) b == Corner(pose, shape.high)
  IN  [low |-> [d \in 1..2 |-> Min({a[d], b[d]})], high |-> [d \in 1..2 |-> Max({a[d], b[d]})]]

\* How far the footprint moves, and into how many parts between whole coordinates that divides.
Shift(p, q) ==
  LET d == [k \in 1..2 |-> AbsoluteValue(q.at[k] - p.at[k])]
  IN  IF 0 \in {d[1], d[2]} THEN d[1] + d[2] ELSE (5 * Max({d[1], d[2]})) \div 4
WholeParts(p, q) ==
  Max({1, IF 0 \in {q.at[1] - p.at[1], q.at[2] - p.at[2]} THEN Shift(p, q) ELSE Shift(p, q) \div 5})

Part(p, q, i, n) == [p EXCEPT !.at = [d \in 1..2 |-> p.at[d] + ((q.at[d] - p.at[d]) * i) \div n]]

\* Poses no farther apart than the spacing, between consecutive samples.
SweepPoses(samples, spacing) ==
  LET Intervals(k) == Max({1, (Shift(samples[k], samples[k + 1]) + spacing - 1) \div spacing})
      Leg(k) == [i \in 1..Intervals(k) |-> Part(samples[k], samples[k + 1], i, Intervals(k))]
  IN  <<samples[1]>> \o FlattenSeq([k \in 1..Len(samples) - 1 |-> Leg(k)])

SlopeMargin(sweep) == Max({0} \cup {Shift(sweep[i], sweep[i + 1]) : i \in 1..Len(sweep) - 1}) \div 2

\* Cells count from <<0, 0>>; those the widened rectangle only touches with its low sides are not examined.
Examined(shape, margin, size) ==
  LET Indices(d) == {i \in 0..size[d] - 1 : /\ i >= (shape.low[d] - margin) \div SweepCell
                                           /\ i <= (shape.high[d] + margin) \div SweepCell}
  IN  Indices(1) \X Indices(2)

Outside(shape, margin, size) ==
  \E d \in 1..2 : shape.low[d] - margin < 0 \/ shape.high[d] + margin > size[d] * SweepCell

(***************************************************************************)
(* Steps: an edge across one axis at a coordinate, over a stretch of the   *)
(* other, with the direction in which it rises                             *)
(***************************************************************************)

EdgeShape(edge) ==
  LET Put(along) == IF edge.axis = 1 THEN <<edge.coordinate, along>> ELSE <<along, edge.coordinate>>
  IN  [low |-> Put(edge.from), high |-> Put(edge.to)]

GapSquared(a, b) ==
  LET Gap(d) == Max({0, a.low[d] - b.high[d], b.low[d] - a.high[d]}) IN Gap(1) * Gap(1) + Gap(2) * Gap(2)

\* Contact somewhere between two poses, by halving; a stretch too far from the edge at both ends is given up.
ContactBetween(edge, p, q, body) ==
  LET n == WholeParts(p, q)
      Away(i) == GapSquared(EdgeShape(edge), Placed(body, IF i = 0 THEN p ELSE Part(p, q, i, n)))
      Displacement(parts) == parts * (Shift(p, q) \div n)
      meets[i \in 0..n, j \in 0..n] ==
        \/ 0 \in {Away(i), Away(j)}
        \/ /\ Min({Away(i), Away(j)}) <= Displacement(j - i) * Displacement(j - i)
           /\ j - i > 1
           /\ LET m == (i + j) \div 2 IN Away(m) = 0 \/ meets[i, m] \/ meets[m, j]
  IN  meets[0, n]

ContactFrom(edge, sweep, first, last, body) ==
  IF first = last THEN GapSquared(EdgeShape(edge), Placed(body, sweep[first])) = 0
  ELSE \E i \in first..last - 1 : ContactBetween(edge, sweep[i], sweep[i + 1], body)

StepSide(shape, edge) ==
  LET ends == {(x - edge.coordinate) * edge.rises : x \in {shape.low[edge.axis], shape.high[edge.axis]}}
  IN  IF Max(ends) < -edge.halfWidth THEN "low"
      ELSE IF Min(ends) > edge.halfWidth THEN "high" ELSE "spanning"

\* The stretches of the sweep between poses wholly on one side that touch the edge: the sides before and after.
StepContacts(edge, sweep, body) ==
  LET side == [i \in 1..Len(sweep) |-> StepSide(Placed(body, sweep[i]), edge)]
      bounds == {1, Len(sweep)} \cup {i \in 1..Len(sweep) : side[i] # "spanning"}
      stretches == {s \in bounds \X bounds : /\ s[1] < s[2] \/ bounds = {1}
                                             /\ \A i \in bounds : i <= s[1] \/ i >= s[2]}
  IN  {<<side[s[1]], side[s[2]]>> : s \in {t \in stretches : ContactFrom(edge, sweep, t[1], t[2], body)}}

HeightAllowed(robot, sides) ==
  IF sides = <<"low", "high">> THEN robot.climb
  ELSE IF sides = <<"high", "low">> THEN robot.drop
  ELSE Min({robot.climb, robot.drop})

StepFactors(robot, sweep, edges) ==
  {edge \in edges : edge.valid /\ \E sides \in StepContacts(edge, sweep, robot.body) :
                                    edge.height > HeightAllowed(robot, sides)}

CellCentre(c) == [d \in 1..2 |-> c[d] * SweepCell + SweepCell \div 2]

NearEdge(cell, edge, terrain) ==
  GapSquared(EdgeShape(edge), [low |-> CellCentre(cell), high |-> CellCentre(cell)]) <= terrain.windowSquared

\* The steps of which the sweep touches the edge; a discontinuity beside one of them is explained by it.
CrossedEdges(robot, sweep, edges) ==
  {edge \in edges : edge.valid /\ ContactFrom(edge, sweep, 1, Len(sweep), robot.body)}
Explained(cell, crossed, terrain) == \E edge \in crossed : NearEdge(cell, edge, terrain)

(***************************************************************************)
(* What the two tracks rest on at a pose: cells with an elevation, each    *)
(* weighing as much as it is supported, in percent                         *)
(***************************************************************************)

Under(track, pose, terrain) == Examined(Placed(track, pose), 0, terrain.size)

Supporting(track, pose, terrain) ==
  {c \in Under(track, pose, terrain) : /\ terrain.cells[c].status \in {"valid", "discontinuous"}
                                       /\ terrain.cells[c].finite
                                       /\ terrain.cells[c].support > 0}

Weight(S, terrain) == MapThenSumSet(LAMBDA c : Min({100, terrain.cells[c].support}), S)
Heights(S, terrain) == {terrain.cells[c].elevation : c \in S}

\* The lowest elevation below or at which so many quarters of the weight lie.
Quantile(S, quarters, terrain) ==
  Min({e \in Heights(S, terrain) :
         4 * Weight({c \in S : terrain.cells[c].elevation <= e}, terrain) >= quarters * Weight(S, terrain)})

Outlying(S, terrain) ==
  LET low == Quantile(S, 1, terrain) high == Quantile(S, 3, terrain)
  IN  \E e \in Heights(S, terrain) : \/ 2 * e < 2 * low - 3 * (high - low)
                                        \/ 2 * e > 2 * high + 3 * (high - low)

PoorTrack(track, pose, robot, terrain) ==
  LET S == Supporting(track, pose, terrain)
  IN  \/ Weight(S, terrain) < robot.support * Cardinality(Under(track, pose, terrain))
      \/ Under(track, pose, terrain) = {}
      \/ S # {} /\ \/ Max(Heights(S, terrain)) - Min(Heights(S, terrain)) > robot.drop
                   \/ Outlying(S, terrain)

Rolls(pose, robot, terrain) ==
  LET left == Supporting(robot.left, pose, terrain) right == Supporting(robot.right, pose, terrain)
  IN  /\ left # {} /\ right # {}
      /\ AbsoluteValue(Quantile(left, 2, terrain) - Quantile(right, 2, terrain)) > robot.roll

(***************************************************************************)
(* The verdict on a motion over the terrain                                *)
(***************************************************************************)

\* What ends the evaluation at a cell.
CellFault(cell) ==
  IF cell.status # "valid" \/ ~cell.finite \/ cell.roughness < 0 THEN "terrain_invalid"
  ELSE IF \E d \in 1..2 : cell.spread[d] < 0 THEN "covariance_invalid" ELSE "none"

\* The gradient with the spread its covariance covers, ahead and across.
Exceeds(robot, heading, cell) ==
  LET Dot(v) == cell.gradient[1] * v[1] + cell.gradient[2] * v[2]
      ahead == Dot(Ahead(heading))
      spread == cell.spread[AxisOf(heading)]
  IN  \/ cell.roughness > robot.roughness
      \/ ahead + spread > robot.up
      \/ ahead - spread < -robot.down
      \/ AbsoluteValue(Dot(Leftward(heading))) + cell.spread[3 - AxisOf(heading)] > robot.lateral

\* Cells row by row; the first that cannot be judged ends the evaluation.
RowMajor(cells) == SetToSortSeq(cells, LAMBDA a, b : a[2] < b[2] \/ (a[2] = b[2] /\ a[1] < b[1]))

EvaluatePose(robot, pose, margin, crossed, terrain) ==
  LET shape == Placed(robot.body, pose)
      judged == {c \in Examined(shape, margin, terrain.size) :
                   ~(terrain.cells[c].status = "discontinuous" /\ terrain.cells[c].finite
                       /\ Explained(c, crossed, terrain))}
      faulty == {c \in judged : CellFault(terrain.cells[c]) # "none"}
  IN  [fault |-> IF Outside(shape, margin, terrain.size) THEN "terrain_invalid"
                 ELSE IF faulty # {} THEN CellFault(terrain.cells[Head(RowMajor(faulty))]) ELSE "none",
       sampled |-> judged # {},
       limited |-> \/ \E c \in judged : Exceeds(robot, pose.heading, terrain.cells[c])
                   \/ PoorTrack(robot.left, pose, robot, terrain)
                   \/ PoorTrack(robot.right, pose, robot, terrain)
                   \/ Rolls(pose, robot, terrain)]

RequestVerdict(failed) ==
  IF "policy" \in failed THEN "risk_policy_invalid"
  ELSE IF "versions" \in failed THEN "version_mismatch"
  ELSE IF "inputs" \in failed THEN "input_invalid" ELSE "valid"

\* The first pose that cannot be judged ends the evaluation.
MotionVerdict(at, tooHigh, failed) ==
  LET fault == SelectInSeq(at, LAMBDA pose : pose.fault # "none")
  IN  IF RequestVerdict(failed) # "valid" THEN [validity |-> RequestVerdict(failed), traversable |-> FALSE]
      ELSE IF fault > 0 THEN [validity |-> at[fault].fault, traversable |-> FALSE]
      ELSE IF \A i \in 1..Len(at) : ~at[i].sampled THEN [validity |-> "terrain_invalid", traversable |-> FALSE]
      ELSE [validity |-> "valid", traversable |-> tooHigh = {} /\ \A i \in 1..Len(at) : ~at[i].limited]

EvaluateMotion(robot, samples, terrain, failed) ==
  LET sweep == SweepPoses(samples, SweepCell \div 2)
      margin == SlopeMargin(sweep)
      crossed == CrossedEdges(robot, sweep, terrain.edges)
  IN  MotionVerdict([i \in 1..Len(sweep) |-> EvaluatePose(robot, sweep[i], margin, crossed, terrain)],
                    StepFactors(robot, sweep, terrain.edges), failed)

(***************************************************************************)
(* Cells the footprint may not touch, and the sweep over them              *)
(***************************************************************************)

CentresSquared(a, b) == SweepCell * SweepCell * ((a[1] - b[1]) * (a[1] - b[1]) + (a[2] - b[2]) * (a[2] - b[2]))

ToBoundary(cell, size) ==
  Min(UNION {{CellCentre(cell)[d], size[d] * SweepCell - CellCentre(cell)[d]} : d \in 1..2})

\* The uncertainty along the obstacle's normal where that is known, otherwise the largest.
Inflation(policy, cell) ==
  policy.safeDistance + (IF cell.normal = 0 THEN Max({policy.margin[1], policy.margin[2]}) ELSE policy.margin[cell.normal])

\* What is said of a cell later replaces what was said earlier.
Classification(c, terrain, obstacles, policy) ==
  LET cell == terrain.cells[c]
  IN  IF cell.obstacle THEN "obstacle"
      ELSE IF \E o \in obstacles : CentresSquared(c, o) <= Inflation(policy, terrain.cells[o]) * Inflation(policy, terrain.cells[o])
        THEN "inflated_obstacle"
      ELSE IF ToBoundary(c, terrain.size) <= policy.safeDistance + Max({policy.margin[1], policy.margin[2]})
        THEN "map_boundary"
      ELSE IF ~cell.known THEN "unknown"
      ELSE IF cell.confidence < policy.confidence THEN "low_confidence"
      ELSE IF cell.status = "discontinuous" THEN "step_discontinuity_requires_validation"
      ELSE IF cell.status # "valid" THEN "invalid_terrain" ELSE "traversable"

CollisionCandidate(classification) ==
  classification \in {"traversable", "step_discontinuity_requires_validation"}

\* The margin is half the spacing asked for, whatever the sweep's own spacing came to.
CollisionFree(robot, samples, terrain, policy, spacing, failed) ==
  LET margin == spacing \div 2
      obstacles == {o \in DOMAIN terrain.cells : terrain.cells[o].obstacle}
      FreeAt(shape) ==
        /\ ~Outside(shape, margin, terrain.size)
        /\ \A d \in 1..2 : shape.high[d] + margin # terrain.size[d] * SweepCell
        /\ \A c \in Examined(shape, margin, terrain.size) :
          CollisionCandidate(Classification(c, terrain, obstacles, policy))
  IN  failed = {} /\ \A pose \in Range(SweepPoses(samples, spacing)) : FreeAt(Placed(robot.body, pose))

(***************************************************************************)
(* Sound: at every moment of the motion, not only at the poses sampled     *)
(***************************************************************************)

\* Every whole coordinate on the way, and the samples.
Moments(samples) ==
  <<samples[1]>> \o FlattenSeq([k \in 1..Len(samples) - 1 |->
    LET n == WholeParts(samples[k], samples[k + 1]) IN [i \in 1..n |-> Part(samples[k], samples[k + 1], i, n)]])

\* Cells of which the footprint covers an area.
CellsCovered(shape, size) ==
  LET On(d) == {i \in 0..size[d] - 1 : shape.low[d] < (i + 1) * SweepCell /\ shape.high[d] > i * SweepCell}
  IN  On(1) \X On(2)

\* The sides on which the footprint last was and next is, at a moment it touches the edge.
SidesAround(edge, way, body, i) ==
  LET side == [k \in 1..Len(way) |-> StepSide(Placed(body, way[k]), edge)]
      before == {k \in 1..i - 1 : side[k] # "spanning"}
      after == {k \in i + 1..Len(way) : side[k] # "spanning"}
  IN  <<IF before = {} THEN "none" ELSE side[Max(before)], IF after = {} THEN "none" ELSE side[Min(after)]>>

TouchesEdge(edge, pose, body) == GapSquared(EdgeShape(edge), Placed(body, pose)) = 0

\* Every gradient the covariance allows, for a robot facing this way.
WithinLimits(robot, heading, cell) ==
  /\ cell.roughness <= robot.roughness
  /\ \A e \in [1..2 -> {-1, 0, 1}] :
       LET g == [d \in 1..2 |-> cell.gradient[d] + e[d] * cell.spread[d]]
           On(v) == g[1] * v[1] + g[2] * v[2]
       IN  On(Ahead(heading)) \in -robot.down..robot.up /\ On(Leftward(heading)) \in -robot.lateral..robot.lateral

(* A motion found traversable crosses no step higher than the robot may     *)
(* climb or drop in the direction it crosses, touches none it does not      *)
(* cross that is too high for either, and covers only cells within the      *)
(* limits of slope and roughness for its heading, or beside a step it       *)
(* touches; where the motion starts, turns or ends both tracks rest on      *)
(* seabed, and no deeper than a drop below another part of it.                                                           *)
TraversableThroughout(robot, samples, terrain) ==
  LET way == Moments(samples)
      touched == {edge \in terrain.edges : edge.valid /\ \E pose \in Range(way) : TouchesEdge(edge, pose, robot.body)}
  IN  /\ \A edge \in touched, i \in 1..Len(way) :
           TouchesEdge(edge, way[i], robot.body) =>
             LET sides == SidesAround(edge, way, robot.body, i)
             IN  /\ sides # <<"high", "low">> => edge.height <= robot.climb
                 /\ sides # <<"low", "high">> => edge.height <= robot.drop
      /\ \A c \in UNION {CellsCovered(Placed(robot.body, pose), terrain.size) : pose \in Range(way)} :
           \/ terrain.cells[c].status = "valid" /\ WithinLimits(robot, samples[1].heading, terrain.cells[c])
           \/ /\ terrain.cells[c].status = "discontinuous"
              /\ \E edge \in touched : NearEdge(c, edge, terrain)
      /\ \A pose \in Range(samples), track \in {robot.left, robot.right} :
           /\ Supporting(track, pose, terrain) # {}
           /\ \A a, b \in Supporting(track, pose, terrain) :
                terrain.cells[a].elevation - terrain.cells[b].elevation <= robot.drop

(* A motion found free of collisions covers at no moment a cell that is     *)
(* unknown, not trusted or an obstacle, or whose centre is nearer to an     *)
(* obstacle than the safe distance with the uncertainty towards it, or to   *)
(* the edge of the map than the safe distance.                              *)
FreeThroughout(robot, samples, terrain, policy) ==
  LET shapes == {Placed(robot.body, pose) : pose \in Range(Moments(samples))}
      obstacles == {o \in DOMAIN terrain.cells : terrain.cells[o].obstacle}
  IN  /\ \A shape \in shapes : ~Outside(shape, 0, terrain.size)
      /\ \A c \in UNION {CellsCovered(shape, terrain.size) : shape \in shapes} :
           /\ terrain.cells[c].known /\ terrain.cells[c].confidence >= policy.confidence
           /\ ToBoundary(c, terrain.size) > policy.safeDistance
           /\ \A o \in obstacles :
                CentresSquared(c, o) > Inflation(policy, terrain.cells[o]) * Inflation(policy, terrain.cells[o])

MotionSound(m) ==
  /\ \A verdict \in {EvaluateMotion(m.robot, m.samples, m.terrain, m.failed)} :
       verdict.traversable => /\ m.failed = {} /\ verdict.validity = "valid"
                              /\ TraversableThroughout(m.robot, m.samples, m.terrain)
  /\ CollisionFree(m.robot, m.samples, m.terrain, m.policy, m.spacing, m.failed)
       => FreeThroughout(m.robot, m.samples, m.terrain, m.policy)
=============================================================================
