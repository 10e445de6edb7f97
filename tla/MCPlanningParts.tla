--------------------------- MODULE MCPlanningParts ---------------------------
(***************************************************************************)
(* The parts that plan and validate, each in a scenario of its own: they   *)
(* share no state, so a state of one scenario keeps the rest as it began.  *)
(* In the scenarios "verdicts" and "scout_verdicts" the only step gives    *)
(* the evaluators an input; what they answer for it is checked there.      *)
(***************************************************************************)
EXTENDS PlanValidation, PathSwitching, ReferenceProgress, CableTracking,
        LayingVerdicts, Traversability, CableMechanics, TerrainAnalysis, HybridSearch, ScoutSearch, ScoutContext,
        ScoutVerdicts, ScoutGeometry, EnvelopeBuilder, SpeedProfile, PathSmoothing, TLC

CONSTANTS
  Scenarios,   \* the scenarios of this run
  NoInput

VARIABLES scenario, input

-----------------------------------------------------------------------------
(* Validation, switching, progress, tracking                               *)

MCBounds == <<1, 2, 1>>
MCProgresses == <<1, 2>>
MCLaneCost == <<1, 2>>

\* A line that goes east and comes back west one lane up; touchdowns lie on it or between the legs.
MCLine == LET S(x, y, h) == [x |-> x, y |-> y, heading |-> h]
          IN <<S(0, 0, "e"), S(1, 0, "e"), S(2, 0, "e"), S(2, 1, "w"), S(1, 1, "w"), S(0, 1, "w")>>
MCOffsets == {o \in [Stations -> Offsets] : o[0] = 0 /\ o[5] = 0}
ASSUME MCLegs == LegsApart

MCResiduals == {-2, -1, 1, 3}

-----------------------------------------------------------------------------
(* Search                                                                  *)

\* Two ways round, a shortcut by an analytic curve and a way back.
MCPosition == <<0, 1, 1, 2, 3>>
MCMotions == LET M(f, t, l, a) == [from |-> f, to |-> t, length |-> l, analytic |-> a]
             IN <<M(1, 2, 1, FALSE), M(1, 3, 1, FALSE), M(2, 4, 1, FALSE), M(3, 4, 1, FALSE),
                  M(4, 5, 1, FALSE), M(4, 2, 1, FALSE), M(2, 5, 2, TRUE)>>
AllFine == [m \in 1..7 |-> "ok"]
OwnLabel == [p \in 1..5 |-> p]
Rejections == {[AllFine EXCEPT ![k] = v] : k \in {1, 3, 5}, v \in {"ok", "envelope", "laying"}}
   \cup {[AllFine EXCEPT ![1] = v, ![2] = v] : v \in {"envelope", "corridor"}}
   \cup {[AllFine EXCEPT ![1] = "envelope", ![2] = "collision"]}
Refusals == {{c} : c \in {"request", "envelope", "corridor", "sweep", "area", "history", "touchdown", "layer"}}
   \cup {{"area", "history"}, {"envelope", "area"}}
MCWorlds ==
  [failed : {{}}, soft : {s \in [1..7 -> 0..2] : s[2] = 0 /\ \A m \in 5..7 : s[m] = 0},
   verdict : Rejections, label : {OwnLabel, [OwnLabel EXCEPT ![3] = 2]}, tolerance : {0, 1}]
  \cup [failed : Refusals, soft : {[m \in 1..7 |-> 0]}, verdict : {AllFine}, label : {OwnLabel}, tolerance : {0}]

\* A strip with one cell missing, so that both diagonals beside it are barred.
MCCells == ({0, 1, 2, 3} \X {0, 1}) \ {<<1, 0>>}
\* The main robot waits where the scout wants to go and leaves; dashes past the scout between
\* two instants of an edge, or at one; crosses beside the start; is predicted for a while only;
\* is at the start, or out of reach of it.
Alone == [main |-> << >>, separation |-> 0, reach |-> 0]
Leg(from, until, start, end) == [from |-> from, until |-> until, start |-> start, end |-> end, radius |-> 0]
MainStays(cell, until, reach) == [main |-> <<Leg(0, until, cell, cell)>>, separation |-> 1, reach |-> reach]
MainDrives(start, leaves, end, arrives, reach) ==
  [main |-> <<Leg(0, leaves, start, start), Leg(leaves, arrives, start, end), Leg(arrives, 22, end, end)>>,
   separation |-> 1, reach |-> reach]
MainCrosses ==
  [main |-> <<Leg(0, 4, <<1, 3>>, <<0, 1>>), Leg(4, 5, <<0, 1>>, <<0, 9>>), Leg(5, 22, <<0, 9>>, <<0, 9>>)>>,
   separation |-> 1, reach |-> 12]
MCPredictions ==
  {MainDrives(<<2, 0>>, 7, <<2, -6>>, 9, 8), MainDrives(<<2, 0>>, 7, <<2, -6>>, 9, 5),
   MainDrives(<<2, 8>>, 6, <<2, -10>>, 7, 12), MainDrives(<<2, 5>>, 6, <<2, -11>>, 7, 13), MainStays(<<2, 5>>, 7, 9)}
MCTasks ==
  LET T(goals, exits, modes, waits, rates, energies, kept, quantum, predictions) ==
        {[start |-> <<0, 0>>, heading |-> 1, goal |-> g, exit |-> e, mode |-> m, waits |-> w, rate |-> r, energy |-> n,
          labels |-> kept, quantum |-> quantum,
          main |-> p.main, separation |-> p.separation, reach |-> p.reach] :
            g \in goals, e \in exits, m \in modes, w \in waits, r \in rates, n \in energies, p \in predictions}
      Modes3 == {"cruise", "observe", "wait"}
  IN T({{<<2, 0>>}, {<<3, 0>>}}, {{}, {<<3, 0>>}}, Modes3, BOOLEAN, {0, 1}, {8, 20}, 3, 0, {Alone})
     \cup T({{<<2, 0>>, <<2, 1>>}}, {{}, {<<0, 1>>}}, Modes3, BOOLEAN, {0, 1}, {8, 20}, 3, 4, {Alone})
     \cup T({{<<2, 0>>}}, {{}, {<<0, 1>>}}, Modes3, BOOLEAN, {1}, {8, 20}, 3, 4, MCPredictions)
     \cup T({{<<2, 0>>}}, {{}}, {"cruise"}, {FALSE}, {0}, {8}, 3, 0, {MainStays(<<0, 0>>, 22, 9), MainStays(<<9, 0>>, 22, 8)})
     \* Beyond what the limits hold; and a wait is pushed, then beaten by an earlier one.
     \cup T({{<<3, 0>>}, {<<3, 1>>}, {<<2, 1>>}}, {{}, {<<5, 5>>}}, {"wait"}, {TRUE}, {2}, {13}, 2, 3, {Alone, MainCrosses})

-----------------------------------------------------------------------------
(* The context of a scout plan                                             *)

MCStream(o) == CASE o = "map" -> NoStream
                 [] o = "prediction" -> "p"
                 [] o = "coordination" -> "c"
                 [] o \in {"geometry", "health"} -> "sensors"
MCNames(o) == IF o = "coordination" THEN {"prediction"} ELSE {}
MCFirst(o) == [producer |-> 1, session |-> 1, sequence |-> IF o = "health" THEN 2 ELSE 1, version |-> 1,
  body |-> 1, names |-> IF o = "coordination" THEN 1 ELSE 0, received |-> 1, observed |-> 1, until |-> 2,
  ours |-> TRUE, synced |-> 1]
Restarted(o) == [MCFirst(o) EXCEPT !.session = 2]
MCMessages(o) ==
  LET b == MCFirst(o)
  IN CASE o = "map" -> {[b EXCEPT !.body = 2]}
       [] o = "prediction" -> {Restarted(o)}
       [] o = "coordination" -> {Restarted(o), [b EXCEPT !.names = 2]}
       [] o = "geometry" -> {b, Restarted(o), [b EXCEPT !.producer = 2], [b EXCEPT !.sequence = 3, !.version = 2]}
       [] o = "health" -> {Restarted(o), [Restarted(o) EXCEPT !.version = 2], [b EXCEPT !.sequence = 4],
                           [b EXCEPT !.version = 3, !.synced = 3, !.until = 1]}
Symmetry == Permutations(Planners)

-----------------------------------------------------------------------------
(* Envelopes and smooth curves                                             *)

MCVariance == [n \in 0..4 |-> 1 + n]
MCDecay == [n \in 0..4 |-> 2^n]
MCMotion(length, turn, time, advance) ==
  [length |-> length, turn |-> turn, time |-> time, advance |-> advance, speed |-> <<1, 2>>, lateral |-> 4]
MCMotionLists ==
  LET ahead == MCMotion(1, 0, <<1, 1>>, <<0, 1>>)
      turnLeft == MCMotion(1, 1, <<1, 1>>, <<0, 2>>)
      turnRight == MCMotion(1, -1, <<1, 1>>, <<1, 1>>)
      long == MCMotion(2, 0, <<1, 2>>, <<1, 2>>)
      straight == MCMotion(1, 0, <<1, 1>>, <<2, 3>>)   \* along the reference, twice as fast as ahead
  IN  {<<straight, ahead>>, <<ahead, turnLeft>>, <<turnLeft, turnRight>>, <<ahead, turnRight, long>>, <<long, turnLeft>>}
FineBins == [length |-> 1, heading |-> 1, lag |-> 1, progress |-> 1, time |-> 1]
WideBins == [length |-> 4, heading |-> 4, lag |-> 4, progress |-> 3, time |-> 4]
MCDomains ==
  [failed : {{}}, motions : MCMotionLists, approved : {[speed |-> <<1, 2>>, lateral |-> 4]}, lag : {<<0, 1>>, <<-1, 1>>},
   maxLength : {3, 4}, maxTime : {3, 4}, end : {2, 5}, bins : {FineBins, WideBins}, maxSets : {4, 60}]
  \cup [failed : {{c} : c \in {"operating_domain", "sensor", "input"}}, motions : {<<MCMotion(1, 0, <<1, 1>>, <<0, 1>>)>>},
        approved : {[speed |-> <<1, 2>>, lateral |-> 4], [speed |-> <<1, 1>>, lateral |-> 4]}, lag : {<<0, 0>>},
        maxLength : {2}, maxTime : {2}, end : {1}, bins : {FineBins}, maxSets : {4}]
MCCurves == [error : 0..2, objective : 1..3, tube : BOOLEAN, residuals : BOOLEAN]

-----------------------------------------------------------------------------
(* Inputs of the laying planner's evaluators                               *)

MCAuditLimit == [heading |-> 1, curvature |-> 1, maximum |-> 1, rate |-> 1, length |-> 1]
Stoppings == {Missing} \cup [distance : {1, 2}, certified : {1, 2, NotFinite}]
Commitments ==
  [kind : {"commitment"}, observed : Events, stopping : Stoppings,
   robot : {Missing, "valid", "collision_violation", "traversability_violation", "geometry_invalid"},
   cable : {Missing, "valid", "invalid"}]

GoodPoint == [heading |-> 0, curvature |-> 1, geometric |-> 1]
AnyPoint == [heading : {0, 2, NotFinite}, curvature : {-1, 0, 2}, geometric : {0, 1, 2, NotFinite}]
LayingPath(p, l, boundary) ==
  [sound |-> TRUE, source |-> "committed_segment_terminal", skewed |-> FALSE, boundary |-> boundary,
   points |-> <<GoodPoint, p, GoodPoint>>, segments |-> <<1, l>>]
SoundPath == LayingPath(GoodPoint, 1, 0)
LayingPaths ==
  {LayingPath(p, l, b) : p \in AnyPoint, l \in {0, 1}, b \in {0, 1}}
    \cup {[SoundPath EXCEPT !.sound = FALSE], [SoundPath EXCEPT !.skewed = TRUE], [SoundPath EXCEPT !.source = "other"]}
Surroundings ==
  [sound : BOOLEAN, samples : {3}, outside : {{}, {2}}, blocked : SUBSET {1, 3}, blockedBetween : BOOLEAN,
   steep : {{}, {2}}, steepBetween : BOOLEAN]
OpenWater == [sound |-> TRUE, samples |-> 3, outside |-> {}, blocked |-> {2}, blockedBetween |-> FALSE,
              steep |-> {}, steepBetween |-> FALSE]
Rechecks ==
  [kind : {"recheck"}, path : LayingPaths, around : {OpenWater}, stopping : {Missing}]
  \cup [kind : {"recheck"}, path : {SoundPath}, around : Surroundings, stopping : Stoppings]

Corridors ==
  [kind : {"corridor"}, bounds : [1..3 -> 0..4], errors : [1..2 -> 0..1], span : {12},
   policy : {[nominal |-> 2, absolute |-> 4, maximum |-> 12, margin |-> 1]}]

\* The cable on the seabed: lines of unit steps, cut anywhere, over a step and a rock.
MCSharpestBend == <<1, 2>>
MCPreferredBend == <<1, 9>>
MCSupportRange == <<0, 1>>
MCElevation(p) == IF p = <<2, 0>> THEN 2 ELSE IF p[1] > 1 THEN 1 ELSE 0
MCBadSeabed == {<<2, 2>>}
Walk[n \in 1..6] ==
  IF n = 1 THEN {<< <<0, 0>> >>}
  ELSE UNION {{Append(w, <<Last(w)[1] + d[1], Last(w)[2] + d[2]>>) : d \in {<<1, 0>>, <<0, 1>>, <<0, -1>>}} : w \in Walk[n - 1]}
LaidLines == [kind : {"line"}, line : UNION {Walk[n] : n \in 3..6}]
GridSide == 3
OnGrid == (0..2 * GridSide) \X (0..2 * GridSide)
GridSegments == [kind : {"grid"}, from : OnGrid, to : OnGrid]

GoalTries == [kind : {"goals"}, tries : UNION {[1..n -> [verdict : {"feasible", "terrain_invalid", "no_solution"}, cost : 1..2]] : n \in 0..3},
              limit : 0..3]

\* Squared speeds, and bends that divide the lateral limit.
MCPayout == [now |-> 1, low |-> 0, high |-> 2, error |-> 1, jerk |-> 0]
ProfileRequest(length, bend, start, stop) ==
  [length |-> length, bend |-> bend, start |-> start, top |-> 4, speedUp |-> 1, brake |-> 1, lateral |-> 4,
   margin |-> 0, maxStop |-> 9, stop |-> stop, last |-> 0, payout |-> MCPayout, unsound |-> "none", late |-> "never"]
Profiled == {ProfileRequest(l, b, v, s) : l \in [1..3 -> 1..2], b \in [1..4 -> {0, 1, 4}], v \in {0, 1, 2, 4}, s \in {TRUE}}
  \cup {[r EXCEPT !.unsound = u, !.late = t, !.margin = m, !.last = e, !.payout.jerk = j, !.stop = s] :
          r \in {ProfileRequest(<<1, 2, 1>>, <<0, 1, 2, 0>>, v, TRUE) : v \in 0..2}, u \in {"none", "limits", "initial"},
          t \in {"never", "speeds", "braking", "end"}, m \in 0..1, e \in 0..1, j \in {0, 2}, s \in BOOLEAN}
Profiles == [kind : {"profile"}, request : Profiled]

MCBends == {0, 1, -1, 2}
Admissions ==
  [kind : {"admission"}, failed : {{}}, limits : {[speed |-> 4, lateral |-> most, payout |-> 4, error |-> 1,
                                                  tension |-> 3, tensionError |-> 1] : most \in {4, 8, 16}},
   ownError : {1}, telemetry : {[payout |-> 1, tension |-> 1]},
   geometry : {<<[arc |-> 0, bend |-> a], [arc |-> 3, bend |-> b], [arc |-> 6, bend |-> c]>> : a \in MCBends, b \in MCBends, c \in MCBends},
   samples : {<<[arc |-> 0, speed |-> v, payout |-> v, tension |-> 1], [arc |-> 6, speed |-> w, payout |-> w, tension |-> 1]>> :
                v \in {0, 2}, w \in {0, 2, 4}}]
  \cup [kind : {"admission"}, failed : {{}} \cup {{c} : c \in {"mode", "domain", "version", "contract"}},
        limits : {[speed |-> 3, lateral |-> 99, payout |-> 3, error |-> 1, tension |-> 3, tensionError |-> 1]},
        ownError : {0, 1}, telemetry : [payout : {1, 3}, tension : {1, 3}],
        geometry : {<<[arc |-> 0, bend |-> 0], [arc |-> 6, bend |-> 1]>>},
        samples : {<<[arc |-> 0, speed |-> 1, payout |-> p, tension |-> t], [arc |-> a, speed |-> 1, payout |-> 1, tension |-> 1]>> :
                     p \in 1..3, t \in 0..2, a \in {0, 6}}]

\* Maps of a strip of seabed, and what a second and a third one change.
MCSeabed == [columns |-> 6, rows |-> 2]
MCTerrain == [radius |-> 4, support |-> 30, step |-> 2, band |-> 3, sides |-> 50, extent |-> 2, confidence |-> 2, consistency |-> 50]
FirstMap(Elevations(_)) ==
  LET configuration == [version |-> 1, body |-> 1]
  IN [config |-> configuration,
      map |-> [sound |-> TRUE, id |-> 1, number |-> 1, time |-> 2, derived |-> 1, regions |-> {},
               cells |-> [c \in Grid |-> [known |-> TRUE, elevation |-> Elevations(c), quality |-> 2, time |-> 1, mark |-> FALSE]]]]
Level == FirstMap(LAMBDA c : 0)
Stepped == FirstMap(LAMBDA c : IF c[1] > 2 THEN 2 ELSE 0)
FirstMaps == {Level, Stepped, [Level EXCEPT !.map.cells[<<3, 0>>].known = FALSE],
              [Stepped EXCEPT !.map.cells[<<5, 0>>].time = 3]}
CellChanges(cell) ==
  {[cell EXCEPT !.elevation = 2], [cell EXCEPT !.elevation = 1], [cell EXCEPT !.known = FALSE], [cell EXCEPT !.quality = 1],
   [cell EXCEPT !.time = 2], [cell EXCEPT !.mark = TRUE], cell}
RegionsAt(c) == {{}, {[low |-> At(c), high |-> At(c)]}}
Newer(r, c, cell, regions) ==
  [r EXCEPT !.map.number = @ + 1, !.map.cells[c] = cell, !.map.regions = regions]
Nexts(r, cells) ==
  UNION {UNION {{Newer(r, c, new, g) : g \in RegionsAt(c)} : new \in CellChanges(r.map.cells[c])} : c \in cells}
Misfits(r) ==
  {r, [r EXCEPT !.map.cells[<<0, 0>>].elevation = 1], [r EXCEPT !.map.number = 0], [r EXCEPT !.map.id = 2],
   [r EXCEPT !.map.time = 3, !.map.number = 3, !.map.regions = {[low |-> <<20, 0>>, high |-> <<20, 0>>]}],
   [r EXCEPT !.map.number = 3, !.map.time = 3, !.map.regions = {[low |-> <<0, 0>>, high |-> <<0, 0>>]}],
   [r EXCEPT !.map.number = 3, !.config.body = 2, !.map.regions = {[low |-> <<0, 0>>, high |-> <<0, 0>>]}], [r EXCEPT !.config.version = 2], [r EXCEPT !.map.sound = FALSE]}
Seconds(r) == Nexts(r, {<<0, 0>>, <<2, 1>>, <<5, 1>>}) \cup Misfits(r)
Thirds(r, s) == {Newer(s, <<4, 0>>, [s.map.cells[<<4, 0>>] EXCEPT !.elevation = 1], g) : g \in RegionsAt(<<4, 0>>)}
TerrainRequests ==
  [kind : {"terrain"},
   requests : UNION {UNION {{<<r, s, t>> : t \in Thirds(r, s)} : s \in Seconds(r)} : r \in FirstMaps}]

\* A strip of seabed one cell of which differs, a step across it, and motions along and across the strip.
MCStrip == <<6, 5>>
MCRobot(body) ==
  [body |-> body, left |-> [body EXCEPT !.low[2] = 6], right |-> [body EXCEPT !.high[2] = -6],
   climb |-> 2, drop |-> 1, up |-> 1, down |-> 1, lateral |-> 1, roughness |-> 1, support |-> 50, roll |-> 1]
MCSquare == MCRobot([low |-> <<-10, -10>>, high |-> <<10, 10>>])
MCShort == MCRobot([low |-> <<0, -10>>, high |-> <<4, 10>>])
MCFloor == [status |-> "valid", finite |-> TRUE, elevation |-> 0, support |-> 100, gradient |-> <<0, 0>>, spread |-> <<0, 0>>,
            roughness |-> 0, known |-> TRUE, confidence |-> 2, obstacle |-> FALSE, normal |-> 0]
MCFloors ==
  {[MCFloor EXCEPT !.status = "discontinuous"], [MCFloor EXCEPT !.finite = FALSE], [MCFloor EXCEPT !.elevation = 2],
   [MCFloor EXCEPT !.support = 0], [MCFloor EXCEPT !.gradient = <<1, 0>>, !.spread = <<1, 0>>], [MCFloor EXCEPT !.gradient = <<0, -1>>, !.spread = <<0, 1>>],
   [MCFloor EXCEPT !.spread = <<-1, 0>>], [MCFloor EXCEPT !.roughness = 2], [MCFloor EXCEPT !.known = FALSE],
   [MCFloor EXCEPT !.confidence = 1], [MCFloor EXCEPT !.obstacle = TRUE], [MCFloor EXCEPT !.obstacle = TRUE, !.normal = 2]}
MCFlat == [size |-> MCStrip, cells |-> [c \in (0..5) \X (0..4) |-> MCFloor], edges |-> {}, windowSquared |-> 400]
MCPatches == {[MCFlat EXCEPT !.cells[c] = f] : c \in {<<2, 0>>, <<3, 1>>, <<4, 3>>}, f \in MCFloors}
MCSpots == {[MCFlat EXCEPT !.cells[c] = f] : c \in (1..4) \X (1..3), f \in {[MCFloor EXCEPT !.known = FALSE, !.roughness = 2]}}
MCEdges == [axis : {1}, coordinate : {60, 77}, from : {0, 55}, to : {100}, rises : {1}, height : 1..3, halfWidth : {2}, valid : {TRUE}]
MCSteps == {[MCFlat EXCEPT !.edges = {e}, !.cells[<<2, 2>>].status = st] : e \in MCEdges, st \in {"valid", "discontinuous"}}
MCWays(headings) ==
  LET P(x, y, h) == [at |-> <<x, y>>, heading |-> h]
      Ways(h) == {<<P(45, 45, h)>>, <<P(40, 45, h), P(80, 45, h)>>, <<P(40, 45, h), P(46, 45, h)>>,
                  <<P(75, 45, h), P(35, 45, h)>>, <<P(80, 45, h), P(80, 50, h), P(40, 50, h)>>}
  IN  UNION {Ways(h) : h \in headings}
\* From places on the map, across it.
MCSlanting == {<<[at |-> <<x, y>>, heading |-> 0], [at |-> <<x + d[1], y + d[2]>>, heading |-> 0]>> :
                 x \in {35, 38}, y \in {36, 40}, d \in {<<12, 16>>, <<32, 24>>}}
MotionsOver(robots, ways, terrains, refusals, spacings) ==
  [kind : {"motion"}, robot : robots, samples : ways, terrain : terrains, failed : refusals,
   policy : {[safeDistance |-> 8, margin |-> <<20, 2>>, confidence |-> 2]}, spacing : spacings]
TerrainMotions ==
  MotionsOver({MCSquare}, MCWays({0, 1}), MCPatches \cup {MCFlat}, {{}}, {10})
    \cup MotionsOver({MCSquare}, MCSlanting, MCSpots, {{}}, {10})
    \cup MotionsOver({MCSquare, MCShort}, MCWays({0}), MCSteps, {{}}, {10})
    \cup MotionsOver({MCSquare}, MCWays({2, 3}), {MCFlat}, {{}, {"policy"}, {"versions"}, {"inputs"}}, {2})

-----------------------------------------------------------------------------
(* Inputs of the scout's evaluators                                        *)

Tracks(n) == {m \in [1..n -> [time : 0..4, at : 0..3]] : m[1].time = 0 /\ \A i \in 1..n - 1 : m[i].time < m[i + 1].time}
Mains == {<<[start |-> 0, end |-> 2, from |-> a, to |-> b, radius |-> r],
            [start |-> 2 + g, end |-> 4, from |-> b, to |-> d, radius |-> 0]>> :
              a \in {-1, 2}, b \in {-2, 0, 2}, d \in {0, 3}, r \in 0..1, g \in 0..1}
         \cup {<<[start |-> 0, end |-> 4, from |-> a, to |-> b, radius |-> 0]>> : a \in {2, 3}, b \in {-1, 0}}
Encounters ==
  [kind : {"encounter"}, motion : Tracks(2), main : Mains, limits : [separation : {1}, reach : {1, 2, 3}],
   sameBinding : {TRUE}, now : {2}, predictionReceived : {1}, constraintReceived : {1}, rejectAge : {1}]
Manoeuvres(n) == [1..n -> [velocity : {-1, 1, 2}, at : {0, 2}, climb : {-1, 1}, turn : {1}, duration : {1}]]
Efforts ==
  [kind : {"effort"}, samples : Manoeuvres(1) \cup Manoeuvres(2),
   current : [speed : {0, 1}, gradient : {0, 1}, reference : {1}, low : {0}, high : {2}, error : {0}],
   profile : [waterSpeed : {1, 2, 3}, ascent : {2}, descent : {1}, yawRate : {1}],
   energy : [hotel : {1}, speed : {1}, cubic : {1}, yaw : {1}, available : {10, 20}, reserve : {2}, return : {3},
             risk : {1}, contingency : {"none", "return"}]]
Surveys ==
  LET R(a, b) == [low |-> a, high |-> b]
  IN [kind : {"survey"}, free : {-1..4, 0..2, {0, 1, 3, 4}}, required : {R(0, 2), R(1, 4), R(2, 3)},
      allowed : {R(0, 4), R(1, 4)}, start : {0, 12, 30}, spacing : {1, 2}, resolution : {0, 1}, ratio : {0, 50},
      missionRatio : {-1, 50, 100}, mandatory : {<<>>, <<R(1, 2)>>}, dwell : {1},
      sensor : [nearest : {0, 6}, farthest : {20, 40}, rangeError : {0, 2}, positionError : {2}, nominal : {TRUE}]]

\* Half units: cells are two wide.
OnMapPoints == (0..2 * Columns) \X (0..2 * Rows)
Map(bad, with, water, entry) ==
  LET st == [c \in MapCells |-> IF c \in bad THEN with ELSE "free"]
  IN [state |-> st, esdf |-> Esdf(st), forbidden |-> water, noEntry |-> entry]
Maps == {Map({c}, "occupied", {}, {}) : c \in MapCells}
  \cup {Map({<<3, 1>>}, "unknown", {}, {}), Map({}, "free", {}, {<<3, 1>>}), Map({}, "free", {<<4, 2>>}, {})}
Visits == [kind : {"visit"}, from : {<<0, 2>>, <<3, 3>>, <<4, 4>>, <<9, 1>>, <<7, 2>>}, to : OnMapPoints]
Arcs == {f \in {[i \in 1..5 |-> <<a + b * (i - 1) + (c * (i - 1) * (5 - i)) \div 2, 3>>] :
                  a \in 1..8, b \in {-1, 0, 1, 2}, c \in {-1, 0, 1}} : \A i \in 1..5 : f[i] \in OnMapPoints}
HullOf(f) == LET xs == {f[i][1] : i \in 1..5}
             IN <<f[1], <<Least(xs), 3>>, <<CHOOSE x \in xs : \A y \in xs : y <= x, 3>>, f[5]>>
Flights == {[kind |-> "flight", world |-> w, curve |-> f, hull |-> HullOf(f), leaf |-> 2] : w \in Maps, f \in Arcs}
Tubes == [kind : {"tube"}, world : Maps, points : {<<2, 3>>, <<4, 3>>} \X ((3..8) \X (2..4)), percent : {50}]
Ladder == {TryOf(k, [alternative |-> a, room |-> r]) : k \in 0..5, a \in BOOLEAN, r \in BOOLEAN}
            \cup {Try("input", FALSE, "searched")}
Smoothings == [kind : {"smoothing"}, verdicts : [Ladder -> {"passed", "no_tube", "controls"}], alternative : {TRUE},
               room : {TRUE}, maxAttempts : {1, 3, 6}, deadline : {2, 9}, seeded : BOOLEAN]

-----------------------------------------------------------------------------

LayingInputs == Commitments \cup Rechecks \cup Corridors \cup LaidLines \cup GridSegments \cup GoalTries
                  \cup Profiles \cup Admissions \cup TerrainRequests \cup TerrainMotions
ScoutInputs == Encounters \cup Efforts \cup Surveys \cup Visits \cup Flights \cup Tubes \cup Smoothings

FirstWorld == [failed |-> {}, soft |-> [m \in 1..7 |-> 0], verdict |-> AllFine, label |-> OwnLabel, tolerance |-> 0]
FirstTask == CHOOSE t \in Tasks : TRUE
FirstDomain == CHOOSE d \in Domains : TRUE

MCInit ==
  /\ scenario \in Scenarios
  /\ input = NoInput
  /\ EnvelopeInit /\ ValidationInit
  /\ authorized \in [from : {0}, version : {1},
                     lane : IF scenario = "switching" THEN [1..Horizon + 1 -> Lanes] ELSE {[a \in 1..Horizon + 1 |-> 1]}]
  /\ PathInit
  /\ offset \in IF scenario = "progress" THEN MCOffsets ELSE {[a \in Stations |-> 0]}
  /\ ProgressInit
  /\ CableInit
  /\ world \in IF scenario = "search" THEN Worlds ELSE {FirstWorld}
  /\ SearchInit
  /\ task \in IF scenario = "scout_search" THEN Tasks ELSE {FirstTask}
  /\ ScoutSearchInit
  /\ ContextInit
  /\ domain \in IF scenario = "builder" THEN Domains ELSE {FirstDomain}
  /\ BuilderInit
  /\ SmoothingInit

\* One input for the evaluators.
Evaluate(inputs) == input = NoInput /\ input' \in inputs

MCNext ==
  /\ UNCHANGED scenario
  /\ CASE scenario = "verdicts" -> Evaluate(LayingInputs)
       [] scenario = "scout_verdicts" -> Evaluate(ScoutInputs)
       [] OTHER -> UNCHANGED input
  /\ IF scenario = "validation" THEN EnvelopeNext ELSE UNCHANGED <<envelopeVars, validationVars>>
  /\ IF scenario = "switching" THEN PathNext ELSE UNCHANGED pathVars
  /\ IF scenario = "progress" THEN ProgressNext ELSE UNCHANGED progressVars
  /\ IF scenario = "tracking" THEN CableNext ELSE UNCHANGED trackingVars
  /\ IF scenario = "search" THEN SearchNext ELSE UNCHANGED searchVars
  /\ IF scenario = "scout_search" THEN ScoutSearchNext ELSE UNCHANGED scoutSearchVars
  /\ IF scenario = "context" THEN ContextNext ELSE UNCHANGED scoutContextVars
  /\ IF scenario = "builder" THEN BuilderNext ELSE UNCHANGED builderVars
  /\ IF scenario = "smoothing" THEN SmoothingNext ELSE UNCHANGED smoothingVars

mcVars == <<envelopeVars, validationVars, pathVars, progressVars, trackingVars, searchVars, scoutSearchVars,
            scoutContextVars, builderVars, smoothingVars, scenario, input>>

MCSpec == MCInit /\ [][MCNext]_mcVars

TypeOK ==
  /\ ValidationTypeOK /\ PathTypeOK /\ ProgressTypeOK /\ CableTypeOK
  /\ SearchTypeOK /\ ScoutSearchTypeOK /\ ContextTypeOK
  /\ BuilderTypeOK /\ SmoothingTypeOK


(* Every cell the cable's line crosses the inside of is examined for        *)
(* obstacles, restrictions and unknown seabed, by the walk over the grid or *)
(* by one of the points sampled along the line: grazed cells are not        *)
(* skipped (ALGORITHM_DESIGN_REVISED.md:808).                               *)
CrossedCellsExamined ==
  IF input = NoInput THEN TRUE
  ELSE IF input.kind # "grid" THEN TRUE
  ELSE \/ \E d \in 1..2 : 2 * GridSide \in {input.from[d], input.to[d]}
       \/ CrossedCells(input.from, input.to, GridSide)
            \subseteq Supercover(input.from, input.to, GridSide) \cup Sampled(input.from, input.to)
=============================================================================
