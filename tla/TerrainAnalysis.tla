---------------------------- MODULE TerrainAnalysis ----------------------------
(***************************************************************************)
(* TerrainAnalyzer and IncrementalTerrainAnalyzer (terrain_analyzer.cpp)   *)
(* with the steps they look for (step_geometry.cpp): a surface estimate    *)
(* per cell, the steps of the seabed, and the cache that recomputes only   *)
(* what the declared update regions of a newer map can have changed.       *)
(*                                                                         *)
(* Lengths are in half cells.  What is fitted by least squares is kept as  *)
(* the samples it is fitted to, with their weights: the fit is a function  *)
(* of them.  A step's height is taken between the mean elevations of its   *)
(* sides and its confidence is that of their samples; the test against     *)
(* noise and the shares of support and normal in it are left out.          *)
(***************************************************************************)
EXTENDS Integers, Sequences, FiniteSetsExt, SequencesExt

CONSTANTS
  Seabed,       \* the extent of the grid: [columns, rows]
  Terrain,      \* the configuration: [radius, support, step, band, sides, extent, confidence, consistency]
  NoLayers      \* nothing is cached

Grid == (0..Seabed.columns - 1) \X (0..Seabed.rows - 1)
At(c) == <<2 * c[1], 2 * c[2]>>
SquareApart(p, q) == (p[1] - q[1]) * (p[1] - q[1]) + (p[2] - q[2]) * (p[2] - q[2])

-----------------------------------------------------------------------------
(* Cells                                                                   *)

\* A cell: [known, elevation, quality, time, mark]; quality stands for variance and
\* confidence, mark for the obstacle, its normal and the cable restriction.
Measured(map, c) == map.cells[c].known /\ map.cells[c].quality > 0 /\ map.cells[c].time <= map.time

WithinRegion(region, p, margin) ==
  \A d \in 1..2 : region.low[d] - margin <= p[d] /\ p[d] <= region.high[d] + margin
InRegions(regions, p, margin) == \E r \in regions : WithinRegion(r, p, margin)

-----------------------------------------------------------------------------
(* The surface                                                             *)

\* The window of a cell, as offsets from it.
FitWindow ==
  LET reach == (Terrain.radius + 1) \div 2
  IN {o \in (-reach..reach) \X (-reach..reach) : 4 * (o[1] * o[1] + o[2] * o[2]) <= Terrain.radius * Terrain.radius}

\* The samples weigh less the older they are than the newest of them.
FittedSamples(map, c) ==
  LET used == {d \in Grid : <<d[1] - c[1], d[2] - c[2]>> \in FitWindow /\ Measured(map, d)}
      newest == Max({map.cells[d].time : d \in used})
  IN  {[at |-> d, elevation |-> map.cells[d].elevation, quality |-> map.cells[d].quality,
        age |-> newest - map.cells[d].time] : d \in used}

\* solve_3x3_linear_system fails for samples on one line.
OnOneLine(cells) ==
  \A a, b, c \in cells : (b[1] - a[1]) * (c[2] - a[2]) = (b[2] - a[2]) * (c[1] - a[1])

\* The elevation of an estimate: what was fitted, or the measurement put in its place.
Fitted == -1
NotFitted(status) == [status |-> status, fit |-> {}, elevation |-> Fitted]

FitSurface(map, c) ==
  LET s == FittedSamples(map, c)
  IN IF \/ ~Measured(map, c) \/ Cardinality(s) < 3
        \/ 100 * Cardinality(s) < Terrain.support * Cardinality(FitWindow)
     THEN NotFitted("insufficient_support")
     ELSE IF OnOneLine({x.at : x \in s}) THEN NotFitted("ill_conditioned")
     ELSE [status |-> "valid", fit |-> s, elevation |-> Fitted]

-----------------------------------------------------------------------------
(* Where the seabed may have a step                                        *)

Unseen == -1

\* median_filtered_elevation
Nearby == [c \in Grid |-> {d \in Grid : SquareApart(c, d) <= 2}]
Filtered(map, c) ==
  LET near == {d \in Nearby[c] : Measured(map, d)}
      Below(h) == Cardinality({d \in near : map.cells[d].elevation <= h})
  IN IF ~Measured(map, c) THEN Unseen
     ELSE Min({h \in {map.cells[d].elevation : d \in near} : Below(h) > Cardinality(near) \div 2})

Neighbours == {pair \in Grid \X Grid : pair[2] \in {<<pair[1][1] + 1, pair[1][2]>>, <<pair[1][1], pair[1][2] + 1>>}}
Middle(pair) == <<pair[1][1] + pair[2][1], pair[1][2] + pair[2][2]>>
Uphill(a, b) == <<b[1] - a[1], b[2] - a[2]>>

\* find_candidates between two neighbouring cells.
CandidatesOf(filtered, pair) ==
  LET a == filtered[pair[1]]
      b == filtered[pair[2]]
      Candidate(kind) == {[at |-> Middle(pair), kind |-> kind,
                           uphill |-> IF a = Unseen \/ (b # Unseen /\ b < a) THEN Uphill(pair[2], pair[1])
                                      ELSE Uphill(pair[1], pair[2])]}
  IN IF a = Unseen /\ b = Unseen THEN {}
     ELSE IF a = Unseen \/ b = Unseen THEN Candidate("unknown_boundary")
     ELSE IF 2 * (IF a < b THEN b - a ELSE a - b) < Terrain.step THEN {}
     ELSE Candidate("observed_jump")

CandidatesAmong(map, pairs) ==
  LET filtered == [c \in UNION {{pair[1], pair[2]} : pair \in pairs} |-> Filtered(map, c)]
  IN UNION {CandidatesOf(filtered, pair) : pair \in pairs}
FindCandidates(map) == CandidatesAmong(map, Neighbours)
FindCandidatesIn(map, regions) == CandidatesAmong(map, {p \in Neighbours : InRegions(regions, Middle(p), 4)})

\* Candidates of one kind at most 1.6 cells apart belong together.
Adjoins(a, b) == a.kind = b.kind /\ SquareApart(a.at, b.at) <= 10
Together(candidates) ==
  LET Grown[n \in 0..Cardinality(candidates), seed \in candidates] ==
        IF n = 0 THEN {seed}
        ELSE LET found == Grown[n - 1, seed]
             IN {b \in candidates : \E a \in found : a = b \/ Adjoins(a, b)}
  IN {Grown[Cardinality(candidates), seed] : seed \in candidates}

-----------------------------------------------------------------------------
(* Steps                                                                   *)

SumOf(component, Part(_)) == MapThenSumSet(Part, component)

\* The axes of a component: coordinates across and along it are measured from its
\* middle, in units of 1 / (size * length of the normal).
AxesOf(component) ==
  [size |-> Cardinality(component),
   centre |-> <<SumOf(component, LAMBDA k : k.at[1]), SumOf(component, LAMBDA k : k.at[2])>>,
   normal |-> <<SumOf(component, LAMBDA k : k.uphill[1]), SumOf(component, LAMBDA k : k.uphill[2])>>]

SquareLength(axes) == axes.normal[1] * axes.normal[1] + axes.normal[2] * axes.normal[2]
SquareUnit(axes) == axes.size * axes.size * SquareLength(axes)
FromMiddle(axes, p, d) == axes.size * p[d] - axes.centre[d]
Across(axes, p) == FromMiddle(axes, p, 1) * axes.normal[1] + FromMiddle(axes, p, 2) * axes.normal[2]
AlongStep(axes, p) == FromMiddle(axes, p, 2) * axes.normal[1] - FromMiddle(axes, p, 1) * axes.normal[2]

\* A coordinate is at most that many half cells, or at least.
AtMost(axes, coordinate, distance) ==
  coordinate <= 0 \/ coordinate * coordinate <= distance * distance * SquareUnit(axes)

RangeOf(component, axes) ==
  LET across == {Across(axes, k.at) : k \in component}
      along == {AlongStep(axes, k.at) : k \in component}
  IN [low |-> Min(across), high |-> Max(across), from |-> Min(along), to |-> Max(along)]

\* The cells beside the step whose elevations tell how high it is.
BesideStep(axes, range) ==
  {c \in Grid : LET n == Across(axes, At(c))
                    t == AlongStep(axes, At(c))
                IN /\ AtMost(axes, n, Terrain.band) /\ AtMost(axes, -n, Terrain.band)
                   /\ AtMost(axes, range.from - t, 2) /\ AtMost(axes, t - range.to, 2)
                   /\ n < range.low \/ n > range.high}
Upper(axes, range, cells) == {c \in cells : Across(axes, At(c)) > range.high}

Supported(seen, cells) == cells # {} /\ 100 * Cardinality(seen) >= Terrain.sides * Cardinality(cells)
PlaneFits(seen) == Cardinality(seen) >= 3 /\ ~OnOneLine(seen)

Confident(map, seen) ==
  SumOf(seen, LAMBDA c : map.cells[c].quality) >= Terrain.confidence * Cardinality(seen)
\* The height of the step, times the samples of both sides.
Rise(map, low, high) ==
  LET difference == SumOf(high, LAMBDA c : map.cells[c].elevation) * Cardinality(low)
                      - SumOf(low, LAMBDA c : map.cells[c].elevation) * Cardinality(high)
  IN IF difference < 0 THEN -difference ELSE difference

\* estimate_component: the checks in their order, and what each one answers.
StepStatus(map, component, axes, range, beside) ==
  LET high == Upper(axes, range, beside)
      low == beside \ high
      highSeen == {c \in high : Measured(map, c)}
      lowSeen == {c \in low : Measured(map, c)}
  IN IF \/ SquareLength(axes) = 0
        \/ 10000 * SquareLength(axes) < Terrain.consistency * Terrain.consistency * axes.size * axes.size
     THEN "unstable_normal"
     ELSE IF axes.size < 2 \/ range.from = range.to THEN "duplicate_extent_point"
     ELSE IF (range.to - range.from) * (range.to - range.from) < Terrain.extent * Terrain.extent * SquareUnit(axes)
     THEN "insufficient_extent"
     ELSE IF \/ \E k \in component : k.kind = "unknown_boundary"
             \/ ~Supported(lowSeen, low) \/ ~Supported(highSeen, high) \/ ~PlaneFits(lowSeen) \/ ~PlaneFits(highSeen)
     THEN "insufficient_side_support"
     ELSE IF Rise(map, lowSeen, highSeen) < Terrain.step * Cardinality(lowSeen) * Cardinality(highSeen)
     THEN "below_minimum_height"
     ELSE IF ~Confident(map, lowSeen) \/ ~Confident(map, highSeen) THEN "low_confidence"
     ELSE "valid"

\* A component with its axes, its extent along them and the cells beside it.
Oriented(component) == [points |-> component, axes |-> AxesOf(component)]
WithRange(m) == [points |-> m.points, axes |-> m.axes, range |-> RangeOf(m.points, m.axes)]

\* sides is what height and confidence were computed from.
StepOf(map, m, beside) ==
  LET status == StepStatus(map, m.points, m.axes, m.range, beside)
  IN [status |-> status, axes |-> m.axes, range |-> m.range,
      sides |-> IF status \in {"below_minimum_height", "low_confidence", "valid"}
                THEN {[at |-> c, elevation |-> map.cells[c].elevation, quality |-> map.cells[c].quality] :
                        c \in {b \in beside : Measured(map, b)}}
                ELSE {}]

Components(map) == {Oriented(component) : component \in Together(FindCandidates(map))}
FindSteps(map) ==
  {StepOf(map, m, BesideStep(m.axes, m.range)) : m \in {WithRange(c) : c \in Components(map)}}

\* distance_to_segment: how far a point is from the extent of a step.
NearStep(step, p) ==
  LET across == Across(step.axes, p)
      beyond == Max({0, step.range.from - AlongStep(step.axes, p), AlongStep(step.axes, p) - step.range.to})
  IN across * across + beyond * beyond <= Terrain.radius * Terrain.radius * SquareUnit(step.axes)

\* mark_step_discontinuities: across a step the measurement stands instead of the fit.
Marked(map, steps, c, surface) ==
  IF Measured(map, c) /\ \E s \in steps : s.status = "valid" /\ NearStep(s, At(c))
  THEN [surface EXCEPT !.status = "discontinuous", !.elevation = map.cells[c].elevation]
  ELSE surface

\* A cell of the surface layer and of the cable's, which takes the roughness from the fit.
LayerCell(map, steps, c) ==
  LET surface == FitSurface(map, c)
  IN [surface |-> Marked(map, steps, c, surface),
      cable |-> [cell |-> [map.cells[c] EXCEPT !.time = 0], roughness |-> surface.fit]]

-----------------------------------------------------------------------------
(* The whole analysis                                                      *)

\* A map: [sound, id, number, time, derived, regions, cells]; a request for its
\* analysis: [map, config], the configuration being [version, body].
VersionOf(map) == [id |-> map.id, number |-> map.number, time |-> map.time]

ValidRequest(request) == request.map.sound /\ request.map.derived = request.config.version

Analyze(request) ==
  LET map == request.map
      steps == FindSteps(map)
  IN [version |-> VersionOf(map), config |-> request.config, steps |-> steps,
      cells |-> [c \in Grid |-> LayerCell(map, steps, c)]]

-----------------------------------------------------------------------------
(* The analysis of what changed                                            *)

Changed(old, new) == {c \in Grid : old.cells[c] # new.cells[c]}
Undeclared(old, new) == \E c \in Changed(old, new) : ~InRegions(new.regions, At(c), 0)

AvailabilityChanges(old, new) == \E c \in Grid : Measured(old, c) # Measured(new, c)
FitValuesChange(old, new) ==
  \E c \in Changed(old, new) :
    /\ Measured(old, c) \/ Measured(new, c)
    /\ \/ old.cells[c].elevation # new.cells[c].elevation
       \/ old.cells[c].quality # new.cells[c].quality
CandidatesChange(old, new) == FindCandidatesIn(old, new.regions) # FindCandidatesIn(new, new.regions)

\* step_support_intersects_regions: a box around the two ends of an extent.
EndOf(axes, along, d) ==
  axes.centre[d] * SquareLength(axes) + (IF d = 1 THEN -axes.normal[2] ELSE axes.normal[1]) * along
SupportMeets(step, regions) ==
  /\ step.status \notin {"unstable_normal", "duplicate_extent_point"}
  /\ LET scale == step.axes.size * SquareLength(step.axes)
         margin == Terrain.band + 2
         Ends(d) == {EndOf(step.axes, step.range.from, d), EndOf(step.axes, step.range.to, d)}
     IN \E r \in regions : \A d \in 1..2 : /\ scale * (r.high[d] + margin) >= Min(Ends(d))
                                         /\ scale * (r.low[d] - margin) <= Max(Ends(d))

StepsMayChange(old, new, steps) ==
  \/ AvailabilityChanges(old, new)
  \/ CandidatesChange(old, new)
  \/ FitValuesChange(old, new) /\ \E s \in steps : SupportMeets(s, new.regions)

RolledBack(old, new) == new.id = old.id /\ (new.number <= old.number \/ new.time < old.time)

\* A region that meets the grid nowhere, even with the window around it.
OffGrid(region) ==
  \E d \in 1..2 : \/ region.low[d] - Terrain.radius > 2 * (IF d = 1 THEN Seabed.columns ELSE Seabed.rows) - 2
                  \/ region.high[d] + Terrain.radius < 0

\* What is computed again: the declared regions and the window around them.
Recomputed(map) == {c \in Grid : InRegions(map.regions, At(c), Terrain.radius)}

UpdateLayers(layers, map) ==
  LET again == Recomputed(map)
  IN [layers EXCEPT !.version = VersionOf(map),
                    !.cells = [c \in Grid |-> IF c \in again THEN LayerCell(map, layers.steps, c) ELSE layers.cells[c]]]

\* What IncrementalTerrainAnalyzer does with a request: the mode it answers with, or a refusal.
ModeFor(cache, request) ==
  IF ~ValidRequest(request) THEN "refused"
  ELSE IF cache = NoLayers THEN "full_rebuild"
  ELSE LET old == cache.map
           new == request.map
           layers == cache.layers
       IN IF VersionOf(new) = VersionOf(old)
          THEN IF new = old /\ request.config = layers.config THEN "cache_hit" ELSE "refused"
          ELSE IF RolledBack(old, new) THEN "refused"
          ELSE IF new.id # old.id \/ request.config # layers.config \/ new.regions = {} THEN "full_rebuild"
          ELSE IF Undeclared(old, new) THEN "refused"
          ELSE IF StepsMayChange(old, new, layers.steps) THEN "full_rebuild"
          ELSE IF \E r \in new.regions : OffGrid(r) THEN "refused"
          ELSE "incremental_update"

\* A refusal leaves the cache as it was.
CacheAfter(cache, request) ==
  LET mode == ModeFor(cache, request)
  IN IF mode \in {"refused", "cache_hit"} THEN cache
     ELSE [map |-> request.map,
           layers |-> IF mode = "full_rebuild" THEN Analyze(request) ELSE UpdateLayers(cache.layers, request.map)]

-----------------------------------------------------------------------------
(* Sound                                                                   *)

\* Every answer is what analysing the requested map from nothing gives: no cell and
\* no step is left from an earlier map that the newer one changed.  And the maps
\* answered for never go back.
TerrainSound(requests) ==
  LET Cache[n \in 0..Len(requests)] == IF n = 0 THEN NoLayers ELSE CacheAfter(Cache[n - 1], requests[n])
  IN \A n \in DOMAIN requests : \E caches \in {<<Cache[n - 1], Cache[n]>>} :
       ModeFor(caches[1], requests[n]) # "refused" =>
         /\ caches[2].layers = Analyze(requests[n])
         /\ caches[1] # NoLayers => ~ RolledBack(caches[1].map, requests[n].map)
                                      \/ VersionOf(caches[1].map) = VersionOf(requests[n].map)
=============================================================================
