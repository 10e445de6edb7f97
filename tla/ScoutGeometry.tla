--------------------------- MODULE ScoutGeometry ----------------------------
(* The scout's map query (hybrid_map_query.cpp), the proof that a smoothed   *)
(* segment keeps clear along all of its length                               *)
(* (continuous_geometry_validator.cpp) and the attempts by which a searched  *)
(* path becomes a trajectory (trajectory_smoother.cpp).  The map is a grid   *)
(* of cells in the plane; a cell is two half units wide and points have      *)
(* whole numbers of half units.                                              *)
EXTENDS Integers, Sequences, FiniteSets

CONSTANTS
  Columns, Rows,  \* the grid has cells <<1, 1>> to <<Columns, Rows>>
  SafetyMargin   \* the sum of the safety margins, in half units

MapCells == (1..Columns) \X (1..Rows)
Least(S) == CHOOSE x \in S : \A y \in S : x <= y
Span(x) == IF x < 0 THEN -x ELSE x
Signum(x) == IF x < 0 THEN -1 ELSE IF x > 0 THEN 1 ELSE 0

(***************************************************************************)
(* The map: a world gives the state and the distance field of every cell,  *)
(* the cells not allowed as water and those of no-entry regions.           *)
(***************************************************************************)

CellStates == <<"free", "occupied", "unknown", "stale", "conflicted">>
Rank(state) == CHOOSE i \in DOMAIN CellStates : CellStates[i] = state
Worse(s, t) == IF Rank(s) >= Rank(t) THEN s ELSE t
Worst(S) == CellStates[CHOOSE i \in {Rank(s) : s \in S} : \A s \in S : Rank(s) <= i]

\* The half-open cell a coordinate lies in.
CellOn(x) == x \div 2 + 1
VoxelAt(p) == <<CellOn(p[1]), CellOn(p[2])>>
OnMap(p) == VoxelAt(p) \in MapCells

\* Distance from a point to the box of a cell, along the worse axis.
AxisGap(x, c) ==
  IF x < 2 * (c - 1) THEN 2 * (c - 1) - x ELSE IF x > 2 * c THEN x - 2 * c ELSE 0
GapTo(p, cell) ==
  LET g == AxisGap(p[1], cell[1]) h == AxisGap(p[2], cell[2]) IN IF g > h THEN g ELSE h
InBox(p, cell, margin) == GapTo(p, cell) <= margin
Centre(cell) == <<2 * cell[1] - 1, 2 * cell[2] - 1>>

\* The distance field, one value per cell: to the nearest cell not known free.
Esdf(state) ==
  [cell \in MapCells |->
     Least({2 * (Columns + Rows)} \cup
           {GapTo(Centre(cell), c) : c \in {d \in MapCells : state[d] # "free"}})]

BoundaryDistance(p) == Least({p[1], p[2], 2 * Columns - p[1], 2 * Rows - p[2]})

QueryPoint(world, p, margin) ==
  IF ~OnMap(p) THEN [state |-> "unknown", clearance |-> -margin, allowed |-> FALSE, entry |-> TRUE]
  ELSE
    LET clearance == Least({world.esdf[VoxelAt(p)], BoundaryDistance(p)}) - margin
        allowed == \A c \in world.forbidden : ~InBox(p, c, margin)
        entry == \A c \in world.noEntry : ~InBox(p, c, margin)
        bounded == IF BoundaryDistance(p) < margin
                     THEN Worse(world.state[VoxelAt(p)], "unknown") ELSE world.state[VoxelAt(p)]
    IN  [state |-> IF ~entry \/ ~allowed \/ clearance < 0 THEN Worse(bounded, "occupied") ELSE bounded,
         clearance |-> clearance, allowed |-> allowed, entry |-> entry]

(***************************************************************************)
(* The cells a segment touches: at the instants it crosses a plane of the  *)
(* grid, and between two such instants.                                    *)
(***************************************************************************)

\* The segment's time runs from 0 to SegmentTime(a, b), so that crossings are whole.
SegmentTime(a, b) ==
  2 * (IF a[1] = b[1] THEN 1 ELSE Span(b[1] - a[1]))
    * (IF a[2] = b[2] THEN 1 ELSE Span(b[2] - a[2]))

\* A coordinate at a time, in parts of SegmentTime.
Along(a, b, k, t) == a[k] * SegmentTime(a, b) + (b[k] - a[k]) * t

\* Times at which a coordinate crosses one of the planes 1..n between cells.
Crossings(a, b, k, n) ==
  IF a[k] = b[k] THEN {}
  ELSE LET w == SegmentTime(a, b)
           low == Least({a[k], b[k]})
           first == IF low < 0 THEN 1 ELSE low \div 2 + 1
           last == Least({n - 1, (a[k] + b[k] - low + 1) \div 2})
       IN  {t \in 1..(w - 1) : \E plane \in first..last : Along(a, b, k, t) = 2 * plane * w}

EventTimes(a, b) == {0, SegmentTime(a, b)} \cup Crossings(a, b, 1, Columns) \cup Crossings(a, b, 2, Rows)

\* On a plane inside the grid the cells of both sides count.
IndicesAt(a, b, k, t, n) ==
  LET w == SegmentTime(a, b)
      x == Along(a, b, k, t)
  IN  IF x % (2 * w) = 0 /\ x > 0 /\ x < 2 * n * w
        THEN {x \div (2 * w), x \div (2 * w) + 1}
        ELSE {x \div (2 * w) + 1}

CellsAt(a, b, t) == IndicesAt(a, b, 1, t, Columns) \X IndicesAt(a, b, 2, t, Rows)

\* Crossings are at even times, so the middle of two events is whole.
Visited(a, b) ==
  LET events == EventTimes(a, b)
      between == {(t + Least({u \in events : u > t})) \div 2 : t \in events \ {SegmentTime(a, b)}}
  IN  UNION {CellsAt(a, b, t) : t \in events \cup between}

\* The segment enters the box of a cell grown by the margins.
Enters(a, b, cell, margin) ==
  LET w == SegmentTime(a, b)
      Inside(k, t) == /\ Along(a, b, k, t) >= (2 * (cell[k] - 1) - margin) * w
                      /\ Along(a, b, k, t) <= (2 * cell[k] + margin) * w
  IN  \E t \in 0..w : Inside(1, t) /\ Inside(2, t)

QuerySupercover(world, a, b) ==
  LET start == QueryPoint(world, a, SafetyMargin)
      end == QueryPoint(world, b, SafetyMargin)
      cells == Visited(a, b)
      clearance == Least({world.esdf[c] - SafetyMargin : c \in cells}
                           \cup {start.clearance, end.clearance})
      allowed == \A c \in world.forbidden : ~Enters(a, b, c, SafetyMargin)
      entry == \A c \in world.noEntry : ~Enters(a, b, c, SafetyMargin)
      state == Worst({QueryPoint(world, Centre(c), 0).state : c \in cells}
                       \cup {start.state, end.state})
  IN  IF ~OnMap(a) \/ ~OnMap(b)
        THEN [start EXCEPT !.state = Worse(start.state, end.state)]
      ELSE [state |-> IF ~entry \/ ~allowed \/ clearance < 0 THEN Worse(state, "occupied") ELSE state,
            clearance |-> clearance, allowed |-> allowed, entry |-> entry]

(***************************************************************************)
(* The validator.  A curve gives the points of one segment at times        *)
(* 0..Len(curve) - 1; bend bounds its second differences.                  *)
(***************************************************************************)

Bend(curve) ==
  LET second == {Span(curve[i - 1][k] - 2 * curve[i][k] + curve[i + 1][k]) :
                   i \in 2..(Len(curve) - 1), k \in {1, 2}}
  IN  CHOOSE x \in second : \A y \in second : y <= x

Clear(q) == q.state = "free" /\ q.allowed /\ q.entry /\ q.clearance >= 0

\* The clearance exceeds what the curve can leave the chord by, (dt)^2 a / 8.
Covers(clearance, bend, duration) == 8 * clearance > duration * duration * bend

EndRejected(q) == q.state = "occupied" \/ ~q.allowed \/ ~q.entry \/ q.clearance < 0

\* Halving of an interval of times until its chord proves it or it is a leaf.
Checked(world, curve, bend, leaf) ==
  LET Point(i) == QueryPoint(world, curve[i], SafetyMargin)
      check[i \in DOMAIN curve, j \in DOMAIN curve] ==
        LET chord == QuerySupercover(world, curve[i], curve[j])
            middle == (i + j) \div 2
        IN  IF EndRejected(Point(i)) \/ EndRejected(Point(j)) THEN "rejected"
            ELSE IF Clear(chord) /\ Covers(chord.clearance, bend, j - i) THEN "safe"
            ELSE IF j - i <= leaf
              THEN IF Point(middle).state = "occupied" \/ ~Point(middle).allowed
                        \/ Point(middle).clearance < 0
                     THEN "rejected" ELSE "inconclusive"
            ELSE IF "rejected" \in {check[i, middle], check[middle, j]} THEN "rejected"
            ELSE IF "inconclusive" \in {check[i, middle], check[middle, j]} THEN "inconclusive"
            ELSE "safe"
  IN  check[1, Len(curve)]

\* The fast path: the control polygon is clear by more than the whole
\* segment's deviation.
PolygonSafe(world, polygon, bend, duration) ==
  LET points == {QueryPoint(world, polygon[i], SafetyMargin) : i \in DOMAIN polygon}
      edges == {QuerySupercover(world, polygon[i], polygon[i + 1]) : i \in 1..(Len(polygon) - 1)}
  IN  /\ \A q \in points : q.state = "free" /\ q.allowed
      /\ \A q \in edges : Clear(q)
      /\ Covers(Least({q.clearance : q \in points \cup edges}), bend, duration)

Validate(world, curve, polygon, leaf) ==
  IF PolygonSafe(world, polygon, Bend(curve), Len(curve) - 1) THEN "safe"
  ELSE Checked(world, curve, Bend(curve), leaf)

(***************************************************************************)
(* The tube of balls around a path, and the smoothing attempts.            *)
(***************************************************************************)

Spread(p, q) ==
  LET g == Span(p[1] - q[1]) h == Span(p[2] - q[2]) IN IF g > h THEN g ELSE h

\* Radii are the clearance in hundredths times the percentage kept of it.
Radius(world, p, percent) == QueryPoint(world, p, SafetyMargin).clearance * percent

Tube(world, points, percent) ==
  /\ \A i \in DOMAIN points :
       LET q == QueryPoint(world, points[i], SafetyMargin)
       IN  q.state = "free" /\ q.allowed /\ q.clearance > 0
  /\ \A i \in 1..(Len(points) - 1) :
       100 * Spread(points[i], points[i + 1])
         <= Radius(world, points[i], percent) + Radius(world, points[i + 1], percent)

\* A try: the points it smooths, whether the tube is shrunk, and the timing.
Try(points, shrunk, timing) == [points |-> points, shrunk |-> shrunk, timing |-> timing]

\* The try of attempt k, counted from 0.
TryOf(k, s) ==
  Try(IF k >= 4 /\ s.alternative THEN "alternative"
      ELSE IF k >= 2 /\ s.room THEN "dense" ELSE "input",
      k \in {1, 3}, IF k = 3 THEN "long" ELSE "paced")

\* Without a seed: the first try that passes before the deadline.
SmoothPoints(s) ==
  LET Passes(k) == s.verdicts[TryOf(k, s)] = "passed"
      attempts == 0..(s.maxAttempts - 1)
      first == {k \in attempts : Passes(k) /\ \A j \in 0..(k - 1) : ~Passes(j)}
      last == TryOf(s.maxAttempts - 1, s)
      Tried(k) == TryOf(k, s)
  IN  IF \E k \in attempts : k >= s.deadline /\ \A j \in 0..(k - 1) : ~Passes(j)
        THEN [status |-> "timeout"]
      ELSE IF first # {}
        THEN [status |-> "success", tube |-> Tried(Least(first)), used |-> Tried(Least(first))]
      ELSE [status |-> IF s.verdicts[last] = "no_tube" THEN "tube_infeasible" ELSE "smoothing_failed"]

\* With a searched path its arrival times replace the pacing of the result.
SmoothPath(s) ==
  LET result == SmoothPoints(s)
      timed == Try("input", FALSE, "searched")
  IN  IF result.status # "success" \/ ~s.seeded THEN result
      ELSE IF s.verdicts[timed] = "passed" THEN [result EXCEPT !.used = timed]
      ELSE [status |-> IF s.verdicts[timed] = "no_tube" THEN "tube_infeasible" ELSE "smoothing_failed"]

(***************************************************************************)
(* Properties.                                                             *)
(***************************************************************************)

\* The segment and the closed box of the cell have a point in common.
Touched(a, b) == {c \in MapCells : Enters(a, b, c, 0)}

\* The cells a segment query visits are those the segment touches: none that
\* it only grazes at an edge or a corner is left out.
VisitsAll(a, b) == (OnMap(a) /\ OnMap(b)) => Visited(a, b) = Touched(a, b)

\* A segment declared safe is in cells known free at every moment, however far
\* it bows out between the chords that were looked at.
ValidatorSound(world, curve, polygon, leaf) ==
  Validate(world, curve, polygon, leaf) = "safe" =>
    \A i \in DOMAIN curve : OnMap(curve[i]) /\ world.state[VoxelAt(curve[i])] = "free"

\* What a tube's balls hold is free, so what stays in it meets nothing.
TubeSound(world, points, percent) ==
  Tube(world, points, percent) =>
    \A i \in DOMAIN points : \A x \in 0..(2 * Columns), y \in 0..(2 * Rows) :
      100 * Spread(<<x, y>>, points[i]) <= Radius(world, points[i], percent) =>
        OnMap(<<x, y>>) /\ world.state[VoxelAt(<<x, y>>)] = "free"

\* A trajectory that is handed out passed its checks as it stands, and within
\* the tube reported with it unless its timing was replaced after a retry.
SmoothingSound(s) ==
  LET result == SmoothPath(s) IN
    result.status = "success" =>
      /\ s.verdicts[result.used] = "passed"
      /\ (~s.seeded \/ result.tube = TryOf(0, s)) =>
           /\ result.tube.points = result.used.points
           /\ result.tube.shrunk = result.used.shrunk

=============================================================================
