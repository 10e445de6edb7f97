--------------------------- MODULE CableMechanics ---------------------------
(***************************************************************************)
(* CableLayingEvaluator (cable_laying_evaluator.cpp): bending, seabed and  *)
(* support of a cable, evaluated segment by segment with the memory of     *)
(* what the next segment still depends on, or all at once.                 *)
(*                                                                         *)
(* Abstracted: a cable is a sequence of neighbouring points of a grid, one *)
(* length unit apart, and the seabed is known at these points; costs are   *)
(* counts of the places that cost.                                         *)
(***************************************************************************)
EXTENDS Integers, Sequences, FiniteSetsExt, SequencesExt

CONSTANTS
  Spacing,         \* curvature_evaluation_spacing_m
  Support,         \* support_evaluation_length_m
  SharpestBend,    \* maximum_curvature_per_m, squared: numerator and denominator
  PreferredBend,   \* preferred_curvature_per_m, likewise
  SupportRange,    \* medium and maximum_support_proxy_range_m
  Elevation(_),    \* the seabed's elevation at a point
  BadSeabed        \* points that are unknown, forbidden or an obstacle

\* The length of cable the memory keeps (normalize_memory).
Retained == Max({Support, 2 * Spacing})

-----------------------------------------------------------------------------
(* Bending                                                                 *)

Squared(p, q) == (p[1] - q[1]) * (p[1] - q[1]) + (p[2] - q[2]) * (p[2] - q[2])
Cross(p, q, r) == (q[1] - p[1]) * (r[2] - p[2]) - (q[2] - p[2]) * (r[1] - p[1])

\* remove_redundant_collinear_points keeps what is not straight on.
Bends(line, i) ==
  \E d \in 1..2 : line[i + 1][d] - line[i][d] # line[i][d] - line[i - 1][d]

LeftOf(line, i) == line[Max({1, i - Spacing})]
RightOf(line, i) == line[Min({Len(line), i + Spacing})]

\* The cable doubles back: no curvature can be given (signed_curvature).
Degenerate(line, i) ==
  \/ Squared(LeftOf(line, i), line[i]) = 0 \/ Squared(line[i], RightOf(line, i)) = 0
  \/ Squared(LeftOf(line, i), RightOf(line, i)) = 0

BendExceeds(line, i, limit) ==
  LET a == LeftOf(line, i)
      b == line[i]
      c == RightOf(line, i)
  IN 4 * Cross(a, b, c) * Cross(a, b, c) * limit[2] > limit[1] * Squared(a, b) * Squared(b, c) * Squared(a, c)

\* The bends evaluate_curvature looks at when the candidate starts at point
\* start: those whose window reaches into it and, segment by segment, is there.
EvaluatedBends(line, start, incremental) ==
  {i \in 2..Len(line) - 1 : Bends(line, i) /\ i + Spacing > start
                             /\ (incremental => i + Spacing <= Len(line))}

\* curvature_coverage_m: a bend costs as long as the window it was measured in.
SoftBends(line, bends) ==
  MapThenSumSet(LAMBDA i : Min({Len(line), i + Spacing}) - Max({1, i - Spacing}), bends)

-----------------------------------------------------------------------------
(* Seabed and support                                                      *)

\* evaluate_support_proxy: the range of elevations behind a point.
RangeBehind(line, i) ==
  LET heights == {Elevation(line[j]) : j \in Max({1, i - Support})..i}
  IN Max(heights) - Min(heights)

\* What is swept: the candidate and the support length before it.
Swept(line, start) == Max({1, start - Support})..Len(line)

-----------------------------------------------------------------------------
(* A segment                                                               *)

Shares(memory, segment) == memory # <<>> /\ Last(memory) = segment[1]
Whole(memory, segment) == memory \o (IF Shares(memory, segment) THEN Tail(segment) ELSE segment)
StartOf(memory, segment) == IF Shares(memory, segment) THEN Len(memory) ELSE Len(memory) + 1

\* The fault the runs must notice: keeping what one evaluation looks back on.
TrimShort(line) == SubSeq(line, Max({1, Len(line) - Spacing}), Len(line))

\* advance_memory and normalize_memory
Trim(line) == SubSeq(line, Max({1, Len(line) - Retained}), Len(line))

\* evaluate_impl, from an explicit task start on.
EvaluateSegment(memory, segment, incremental) ==
  LET line == Whole(memory, segment)
      start == StartOf(memory, segment)
      bends == EvaluatedBends(line, start, incremental)
      valid == \A i \in bends : ~Degenerate(line, i)
      feasible == /\ valid
                  /\ \A i \in bends : ~BendExceeds(line, i, SharpestBend)
                  /\ \A j \in Swept(line, start) : line[j] \notin BadSeabed
                  /\ \A i \in start..Len(line) : RangeBehind(line, i) <= SupportRange[2]
  IN [valid |-> valid, feasible |-> feasible,
      cost |-> IF feasible
               THEN SoftBends(line, {i \in bends : BendExceeds(line, i, PreferredBend)})
                    + Cardinality({i \in start + 1..Len(line) : RangeBehind(line, i) > SupportRange[1]})
               ELSE 0,
      memory |-> IF feasible THEN Trim(line) ELSE memory]

\* The search evaluates one segment after the other, each from the memory the
\* one before it left, and drops what is not feasible.
EvaluatePieces(pieces) ==
  FoldLeft(LAMBDA done, piece :
             LET step == EvaluateSegment(done.memory, piece, TRUE)
             IN [feasible |-> done.feasible /\ step.feasible, cost |-> done.cost + step.cost,
                 memory |-> step.memory],
           [feasible |-> TRUE, cost |-> 0, memory |-> <<>>], pieces)

\* A cable cut behind the given points; neighbouring pieces share the cut.
Pieces(line, cuts) ==
  LET ends == SetToSortSeq(cuts \cup {1, Len(line)}, <)
  IN [k \in 1..Len(ends) - 1 |-> SubSeq(line, ends[k], ends[k + 1])]

(* Wherever it is cut, a cable evaluated piece by piece is accepted exactly *)
(* when it is accepted at once, at the same cost and leaving the same       *)
(* memory: nothing a later piece depends on has been forgotten, and no bend *)
(* falls between two pieces or counts twice (cable_laying_evaluator.cpp:283,*)
(* 736).                                                                    *)
PiecesSound(line, cuts) ==
  LET whole == EvaluateSegment(<<>>, line, TRUE)
      pieces == EvaluatePieces(Pieces(line, cuts))
  IN /\ pieces.feasible = whole.feasible
     /\ whole.feasible => pieces.cost = whole.cost /\ pieces.memory = whole.memory

-----------------------------------------------------------------------------
(* The cells a cable crosses                                               *)

\* The walk of grid_supercover, coordinates in half cells: the cell it is in,
\* how far it is to the next column and row, and the cells so far.
Sign(n) == IF n > 0 THEN 1 ELSE IF n < 0 THEN -1 ELSE 0
Size(n) == IF n < 0 THEN -n ELSE n

Around(x, y) ==
  {<<y \div 2, x \div 2>>} \cup (IF x % 2 = 0 THEN {<<y \div 2, x \div 2 - 1>>} ELSE {})
    \cup (IF y % 2 = 0 THEN {<<y \div 2 - 1, x \div 2>>} ELSE {})
    \cup (IF x % 2 = 0 /\ y % 2 = 0 THEN {<<y \div 2 - 1, x \div 2 - 1>>} ELSE {})

\* To the next whole coordinate in the direction of travel.
ToNext(from, step) == IF step > 0 THEN 2 - (from % 2) ELSE IF from % 2 = 1 THEN 1 ELSE 2

\* Both neighbours of a grid line the cable follows.
Beside(row, column, a, b) ==
  {<<r, c>> \in {row, row - 1} \X {column, column - 1} :
     /\ c # column => a[1] = b[1] /\ a[1] % 2 = 0
     /\ r # row => a[2] = b[2] /\ a[2] % 2 = 0}

SupercoverStep(walk, a, b) ==
  LET stepX == Sign(b[1] - a[1])
      stepY == Sign(b[2] - a[2])
      spanX == Size(b[1] - a[1])
      spanY == Size(b[2] - a[2])
      \* t_max_x and t_max_y over a common denominator, beyond the end if never crossed.
      end == Max({1, spanX}) * Max({1, spanY})
      timeX == IF stepX = 0 THEN end + 1 ELSE walk.x * Max({1, spanY})
      timeY == IF stepY = 0 THEN end + 1 ELSE walk.y * Max({1, spanX})
      both == timeX = timeY
      column == IF timeX <= timeY THEN walk.column + stepX ELSE walk.column
      row == IF timeY <= timeX THEN walk.row + stepY ELSE walk.row
  IN IF Min({timeX, timeY}) > end THEN walk
     ELSE [row |-> row, column |-> column,
           x |-> IF timeX <= timeY THEN walk.x + 2 ELSE walk.x,
           y |-> IF timeY <= timeX THEN walk.y + 2 ELSE walk.y,
           cells |-> walk.cells \cup Beside(row, column, a, b)
                       \cup (IF both THEN {<<walk.row, walk.column + stepX>>, <<walk.row + stepY, walk.column>>}
                             ELSE {})]

\* grid_supercover on a grid of the given size.
Supercover(a, b, size) ==
  LET start == [row |-> a[2] \div 2, column |-> a[1] \div 2,
                x |-> ToNext(a[1], Sign(b[1] - a[1])), y |-> ToNext(a[2], Sign(b[2] - a[2])),
                cells |-> Around(a[1], a[2]) \cup Around(b[1], b[2])
                            \cup Beside(a[2] \div 2, a[1] \div 2, a, b)]
      walk == FoldLeft(LAMBDA w, n : SupercoverStep(w, a, b), start, [n \in 1..2 * size + 4 |-> n])
  IN {c \in walk.cells : c[1] \in 0..size - 1 /\ c[2] \in 0..size - 1}

\* sample_terrain: the cells of points at most half a cell apart, on both ends too.
Sampled(a, b) ==
  LET parts == CHOOSE n \in 1..2 * Squared(a, b) + 1 :
                 n * n >= Squared(a, b) /\ \A m \in 1..n - 1 : m * m < Squared(a, b)
      CellAt(d, k) == (a[d] * (parts - k) + b[d] * k) \div (2 * parts)
  IN {<<CellAt(2, k), CellAt(1, k)>> : k \in 0..parts}

\* The cells the segment from a to b has a point in common with, borders included.
Touches(cell, a, b) ==
  LET corners == {2 * cell[2], 2 * cell[2] + 2} \X {2 * cell[1], 2 * cell[1] + 2}
      sides == {Sign(Cross(a, b, p)) : p \in corners}
  IN /\ Max({a[1], b[1]}) >= 2 * cell[2] /\ Min({a[1], b[1]}) <= 2 * cell[2] + 2
     /\ Max({a[2], b[2]}) >= 2 * cell[1] /\ Min({a[2], b[2]}) <= 2 * cell[1] + 2
     /\ sides # {1} /\ sides # {-1}

TouchedCells(a, b, size) == {c \in (0..size - 1) \X (0..size - 1) : Touches(c, a, b)}

\* Those it runs through the inside of.
Crosses(cell, a, b) ==
  LET corners == {2 * cell[2], 2 * cell[2] + 2} \X {2 * cell[1], 2 * cell[1] + 2}
  IN /\ Max({a[1], b[1]}) > 2 * cell[2] /\ Min({a[1], b[1]}) < 2 * cell[2] + 2
     /\ Max({a[2], b[2]}) > 2 * cell[1] /\ Min({a[2], b[2]}) < 2 * cell[1] + 2
     /\ {-1, 1} \subseteq {Sign(Cross(a, b, p)) : p \in corners}

CrossedCells(a, b, size) == {c \in (0..size - 1) \X (0..size - 1) : Crosses(c, a, b)}

\* A walk that leaves a grid line towards smaller coordinates while it also
\* moves across: it believes itself one cell behind where it is.
StartsBehind(a, b) ==
  \E d \in 1..2 : b[d] < a[d] /\ a[d] % 2 = 0 /\ b[3 - d] # a[3 - d]

(* Except where the walk starts behind, every cell the cable so much as     *)
(* touches is examined (cable_laying_evaluator.cpp:384).                    *)
SupercoverSound(a, b, size) ==
  ~StartsBehind(a, b) => TouchedCells(a, b, size) \subseteq Supercover(a, b, size)
=============================================================================
