----------------------------- MODULE ScoutSearch -----------------------------
(***************************************************************************)
(* The scout's time-aware state-lattice A*: cells, a heading, an action    *)
(* mode (cruise, observe, wait) and a bounded arrival-time label, with the *)
(* map, yaw rate, energy and cooperative checks on every edge.  Lengths    *)
(* are 2 along an axis and 3 across; the speed and the lower-bound power   *)
(* are one, so that a length is also a duration and an energy.  Positions  *)
(* are centres of cells, in widths of a cell; along an edge in eighths.    *)
(***************************************************************************)
EXTENDS Integers, SequencesExt, FiniteSetsExt

CONSTANTS
    Cells,           \* the cells of the grid known free, allowed and clear, pairs <<x, y>>
    Tasks,           \* the requests with their configuration
    MaxExpanded,     \* also the records reserved: the lattice has no fewer states
    MaxQueue, WaitTime, ObserveTime

VARIABLES
    task,            \* [start, heading, goal, exit, mode, waits, rate, energy, labels, quantum,
                     \*  main, separation, reach], main being the main robot's predicted
                     \* intervals [from, until, start, end, radius], or << >> without
    outcome,         \* "searching" or the StateLatticeSearchStatus
    records,         \* every record: [at, heading, mode, time, cost, parent]
    frontier,        \* the queue: [record, total]
    bestOf,          \* the best record of each key reached
    terminal,        \* the record the search ended on, or 0
    expansions

scoutSearchVars == <<task, outcome, records, frontier, bestOf, terminal, expansions>>

\* valid_cooperative: the prediction starts at once and has no gap in time or space.
ValidCooperative(t) ==
    /\ t.separation \in Nat /\ t.reach \in Nat /\ t.separation <= t.reach
    /\ t.main[1].from = 0
    /\ \A i \in DOMAIN t.main :
         /\ t.main[i].from <= t.main[i].until /\ t.main[i].radius \in Nat
         /\ i > 1 => t.main[i].from = t.main[i - 1].until /\ t.main[i].start = t.main[i - 1].end

\* Every action takes time; the request and its limits have passed the first checks.
ASSUME LatticeAssumption ==
    /\ ObserveTime \in Nat \ {0} /\ WaitTime \in Nat \ {0}
    /\ MaxExpanded \in Nat \ {0} /\ MaxQueue \in Nat \ {0}
    /\ Cells \subseteq Int \X Int
    /\ \A t \in Tasks : /\ t.start \in Int \X Int /\ t.heading \in 1..8 /\ t.energy \in Nat
                         /\ t.mode \in {"cruise", "observe", "wait"} /\ t.waits \in BOOLEAN
    /\ \A t \in Tasks : t.main # << >> => ValidCooperative(t)

Headings == <<<<1, 0>>, <<1, 1>>, <<0, 1>>, <<-1, 1>>, <<-1, 0>>, <<-1, -1>>, <<0, -1>>, <<1, -1>>>>
\* The order in which the neighbours of a cell are tried: row by row.
NeighbourOrder == <<6, 7, 8, 5, 1, 4, 3, 2>>
Length(h) == IF h % 2 = 1 THEN 2 ELSE 3

Abs(a) == IF a < 0 THEN -a ELSE a
HeadingDelta(a, b) == Min({Abs(a - b), 8 - Abs(a - b)})

\* distance_to_goal: to the nearest cell of a box.
DistanceTo(cell, box) ==
    LET Octile(c) == LET dx == Abs(c[1] - cell[1])
                         dy == Abs(c[2] - cell[2])
                     IN  2 * Max({dx, dy}) + Min({dx, dy})
    IN  Min({Octile(c) : c \in box})

\* key_for: all arrival times after the last label share it.
TimeLabel(t, r) ==
    IF t.quantum = 0 THEN 0 ELSE Min({t.labels - 1, r.time \div t.quantum})

\* A fault: the mode is left out of the key.
KeyWithoutMode(t, r) == <<r.at, r.heading, TimeLabel(t, r)>>

KeyOf(t, r) == <<r.at, r.heading, r.mode, TimeLabel(t, r)>>

\* Where the scout is, and when, after k eighths of an edge; both in eighths.
PlaceAt(a, b, k) == <<8 * a[1] + k * (b[1] - a[1]), 8 * a[2] + k * (b[2] - a[2])>>
TickAt(from, until, k) == 8 * from + k * (until - from)

\* An interval of the prediction holds a tick; its ends belong to it.
Predicts(o, tick) == 8 * o.from <= tick /\ tick <= 8 * o.until

\* How far a place is along x from the main robot at a tick of its interval o,
\* which it drives evenly; in parts of 1 / PartsOf(o) of a cell.
TicksOf(o) == IF o.from = o.until THEN 1 ELSE 8 * (o.until - o.from)
PartsOf(o) == 8 * TicksOf(o)
AwayAlong(o, place, tick, x) ==
    TicksOf(o) * (place[x] - 8 * o.start[x]) - 8 * (o.end[x] - o.start[x]) * (tick - 8 * o.from)

\* The distance is at least the separation and the robot's radius, and at most the reach.
FarEnough(t, o, place, tick) ==
    LET square == AwayAlong(o, place, tick, 1) ^ 2 + AwayAlong(o, place, tick, 2) ^ 2
    IN  (PartsOf(o) * (o.radius + t.separation)) ^ 2 <= square /\ square <= (PartsOf(o) * t.reach) ^ 2

\* After k eighths of an edge the main robot, where the first interval that holds
\* the instant has it, is in range; what is beyond the prediction is refused.
InRange(t, a, b, from, until, k) ==
    LET tick == TickAt(from, until, k)
    IN  \E i \in DOMAIN t.main :
          /\ Predicts(t.main[i], tick) /\ \A j \in 1..(i - 1) : ~Predicts(t.main[j], tick)
          /\ FarEnough(t, t.main[i], PlaceAt(a, b, k), tick)

\* A fault: the start, the middle and the end of an edge are looked at.
ThriceInRange(t, a, b, from, until) ==
    t.main # << >> => \A k \in {0, 4, 8} : InRange(t, a, b, from, until, k)

\* cooperative_edge_valid: nine instants of an edge are looked at.
CooperativeEdgeValid(t, a, b, from, until) ==
    t.main # << >> => \A k \in 0..8 : InRange(t, a, b, from, until, k)

\* A fault: only the cell entered is asked about.
CellEntered(a, b) == {b}

\* The cells query_supercover visits between the centres of two neighbours: a
\* diagonal passes the corner of the two cells beside it.
CellsOnTheWay(a, b) == {a[1], b[1]} \X {a[2], b[2]}

WithinEnergy(t, time) == time <= t.energy

\* The main robot is neither too close nor too far and the energy suffices.
Bearable(t, a, b) == CooperativeEdgeValid(t, a.at, b.at, a.time, b.time) /\ WithinEnergy(t, b.time)

\* Reading one edge: every cell on the way is free and the turn is within the yaw rate.
EdgeAllowed(t, a, b) ==
    /\ CellsOnTheWay(a.at, b.at) \subseteq Cells
    /\ HeadingDelta(a.heading, b.heading) <= t.rate * Length(b.heading)
    /\ Bearable(t, a, b)

TerminalMode(t) == IF t.exit # {} THEN "wait" ELSE t.mode
AtTerminal(t, r) ==
    /\ r.mode = TerminalMode(t)
    /\ r.at \in (IF t.exit # {} THEN t.exit ELSE t.goal)

\* The mode change that a goal cell demands excludes every other edge.
DemandsMode(t, r) ==
    /\ r.at \in t.goal /\ r.mode # "wait"
    /\ r.mode # t.mode \/ t.exit # {}

Stay(r, mode, for, parent) ==
    [at |-> r.at, heading |-> r.heading, mode |-> mode,
     time |-> r.time + for, cost |-> r.cost + for, parent |-> parent]

Wait(r, parent) == Stay(r, "wait", WaitTime, parent)

Change(r, parent) ==
    IF r.mode = "cruise" THEN Stay(r, "observe", ObserveTime, parent) ELSE Wait(r, parent)

MoveOn(t, r, h, parent) ==
    [at |-> <<r.at[1] + Headings[h][1], r.at[2] + Headings[h][2]>>, heading |-> h,
     mode |-> IF r.mode = "wait" /\ t.exit = {} THEN "cruise" ELSE r.mode,
     time |-> r.time + Length(h), cost |-> r.cost + 2 * Length(h), parent |-> parent]

\* What a record tries, in this order: one step in place, then its neighbours.
Step(t, r, k, parent) ==
    IF k > 0 THEN MoveOn(t, r, NeighbourOrder[k], parent)
    ELSE IF DemandsMode(t, r) THEN Change(r, parent) ELSE Wait(r, parent)

Offers(t, r, k) ==
    LET next == Step(t, r, k, 0)
    IN  IF k > 0 THEN ~DemandsMode(t, r) /\ EdgeAllowed(t, r, next)
        ELSE /\ DemandsMode(t, r) \/ (t.waits /\ r.mode # "observe")
             /\ Bearable(t, r, next)

\* The remaining distance counts except for a mode change at the goal.
Total(t, r, demanded) == IF demanded THEN r.cost ELSE r.cost + DistanceTo(r.at, t.goal)

Full(s) == Cardinality(s.frontier) >= MaxQueue \/ Len(s.records) >= MaxExpanded

\* The best record of its key is no dearer.
Beaten(t, s, r) ==
    LET key == KeyOf(t, r)
    IN  key \in DOMAIN s.bestOf /\ s.records[s.bestOf[key]].cost <= r.cost

Entered(t, s, r, total) ==
    LET new == Len(s.records) + 1
    IN  [records |-> Append(s.records, r),
         frontier |-> s.frontier \cup {[record |-> new, total |-> total]},
         bestOf |-> [k \in DOMAIN s.bestOf \cup {KeyOf(t, r)} |->
                        IF k = KeyOf(t, r) THEN new ELSE s.bestOf[k]],
         failed |-> FALSE]

\* Without room the search fails, except that a wait is only forgone.
Push(t, s, r, total, optional) ==
    IF Beaten(t, s, r) THEN s
    ELSE IF Full(s) THEN [s EXCEPT !.failed = ~optional]
    ELSE Entered(t, s, r, total)

\* All that the record i offers, one after the other.
PushAll(i, rest) ==
    LET r == records[i]
        demanded == DemandsMode(task, r)
        after[k \in 0..9] ==
            IF k = 0 THEN [records |-> records, frontier |-> rest, bestOf |-> bestOf, failed |-> FALSE]
            ELSE LET s == after[k - 1]
                     next == Step(task, r, k - 1, i)
                 IN  IF s.failed \/ ~Offers(task, r, k - 1) THEN s
                     ELSE Push(task, s, next, Total(task, next, demanded), k = 1 /\ ~demanded)
    IN  after[9]

-----------------------------------------------------------------------------
ScoutSearchInit ==
    /\ task \in Tasks
    /\ outcome = "searching"
    /\ records = <<[at |-> task.start, heading |-> task.heading, mode |-> "cruise",
                    time |-> 0, cost |-> 0, parent |-> 0]>>
    /\ frontier = {[record |-> 1, total |-> DistanceTo(task.start, task.goal)]}
    /\ bestOf = [k \in {KeyOf(task, records[1])} |-> 1]
    /\ terminal = 0 /\ expansions = 0

\* The start must itself be free and apart from the main robot, but in its reach.
RefuseStart ==
    /\ outcome = "searching" /\ expansions = 0
    /\ task.start \notin Cells \/ ~CooperativeEdgeValid(task, task.start, task.start, 0, 0)
    /\ outcome' = "no_path"
    /\ UNCHANGED <<task, records, frontier, bestOf, terminal, expansions>>

Admitted == task.start \in Cells /\ CooperativeEdgeValid(task, task.start, task.start, 0, 0)

\* QueueCompare: the least total, then the least cost, then the oldest.
Top(q) ==
    LET Rank(p) == <<p.total, records[p.record].cost, p.record>>
    IN  \A p \in frontier \ {q} :
          \E i \in 1..3 : /\ Rank(q)[i] < Rank(p)[i]
                         /\ \A j \in 1..(i - 1) : Rank(p)[j] = Rank(q)[j]

\* Cancelled, late, or without a node left to expand; checked before each pop.
Interrupt ==
    /\ outcome = "searching" /\ Admitted /\ frontier # {}
    /\ outcome' \in {"cancelled", "timeout"}
                      \cup (IF expansions >= MaxExpanded THEN {"budget_exhausted"} ELSE {})
    /\ UNCHANGED <<task, records, frontier, bestOf, terminal, expansions>>

Popping == outcome = "searching" /\ Admitted /\ frontier # {} /\ expansions < MaxExpanded

Superseded(q) == bestOf[KeyOf(task, records[q.record])] # q.record

DropSuperseded(q) ==
    /\ Popping /\ Top(q) /\ Superseded(q)
    /\ frontier' = frontier \ {q}
    /\ UNCHANGED <<task, outcome, records, bestOf, terminal, expansions>>

\* The records from the start to i.
Trail(i) ==
    LET back[k \in DOMAIN records] ==
            IF records[k].parent = 0 THEN <<k>> ELSE Append(back[records[k].parent], k)
    IN  back[i]

\* The three parts of a survey: before the first observation, the
\* observations, and what follows; a missing part gets an end point.
Approach(trail) ==
    {k \in Range(trail) : \A j \in Range(trail) : records[j].mode = "observe" => j > k}
Exit(trail) ==
    {k \in Range(trail) : /\ records[k].mode # "observe"
                         /\ \E j \in Range(trail) : j < k /\ records[j].mode = "observe"}
Moves(part) == \E i, j \in part : records[i].at # records[j].at

\* Popping a terminal record ends the search whatever its survey parts are.
Arrive(q) ==
    /\ Popping /\ Top(q) /\ ~Superseded(q)
    /\ AtTerminal(task, records[q.record])
    /\ LET trail == Trail(q.record)
       IN  outcome' = IF records[q.record].mode = "cruise" THEN "found_path"
                      ELSE IF ~Moves(Approach(trail)) \/ (task.exit # {} /\ ~Moves(Exit(trail)))
                      THEN "no_path" ELSE "found_survey_path"
    /\ expansions' = expansions + 1
    /\ frontier' = frontier \ {q}
    /\ terminal' = q.record
    /\ UNCHANGED <<task, records, bestOf>>

ExpandLattice(q) ==
    /\ Popping /\ Top(q) /\ ~Superseded(q)
    /\ ~AtTerminal(task, records[q.record])
    /\ LET s == PushAll(q.record, frontier \ {q})
       IN  /\ records' = s.records /\ frontier' = s.frontier /\ bestOf' = s.bestOf
           /\ outcome' = IF s.failed THEN "budget_exhausted" ELSE outcome
    /\ expansions' = expansions + 1
    /\ UNCHANGED <<task, terminal>>

NothingLeft ==
    /\ outcome = "searching" /\ Admitted /\ frontier = {}
    /\ outcome' = "no_path"
    /\ UNCHANGED <<task, records, frontier, bestOf, terminal, expansions>>

ScoutSearchNext ==
    \/ RefuseStart \/ Interrupt \/ NothingLeft
    \/ \E q \in frontier : DropSuperseded(q) \/ Arrive(q) \/ ExpandLattice(q)

ScoutSearchSpec == ScoutSearchInit /\ [][ScoutSearchNext]_scoutSearchVars

-----------------------------------------------------------------------------
(* The reference: everything the energy lets the scout reach from a set of  *)
(* records when it does not wait on the way, whatever the labels keep; a    *)
(* move takes at least two units of energy.                                 *)

\* A cell's closed square holds a place; of those around a cell on the way, all are free.
Holds(cell, place) == \A x \in 1..2 : -4 <= place[x] - 8 * cell[x] /\ place[x] - 8 * cell[x] <= 4
SquaresNear(cell) == ((cell[1] - 1)..(cell[1] + 1)) \X ((cell[2] - 1)..(cell[2] + 1))
WayIsFree(a, b) ==
    \A k \in 0..8 : \A c \in SquaresNear(a) : Holds(c, PlaceAt(a, b, k)) => c \in Cells

MoveIsLegal(a, b) ==
    /\ WayIsFree(a.at, b.at)
    /\ HeadingDelta(a.heading, b.heading) <= task.rate * Length(b.heading)
    /\ b.time <= task.energy

MovesFrom(r) == {n \in {MoveOn(task, r, h, 0) : h \in 1..8} : MoveIsLegal(r, n)}

ReachableFrom(R) ==
    LET grow[k \in 0..task.energy \div 2] ==
            IF k = 0 THEN R ELSE grow[k - 1] \cup UNION {MovesFrom(r) : r \in grow[k - 1]}
    IN  grow[task.energy \div 2]

Changes(R) == {Change(r, 0) : r \in {x \in R : Change(x, 0).time <= task.energy}}

\* A mission the request asks for exists.
Possible ==
    LET atGoal == {r \in ReachableFrom({records[1]}) : r.at \in task.goal}
        observed == Changes(atGoal)
        waited == Changes(observed)
    IN  IF task.exit # {} THEN \E r \in ReachableFrom(waited) : r.at \in task.exit
        ELSE CASE task.mode = "cruise"  -> atGoal # {}
               [] task.mode = "observe" -> observed # {}
               [] task.mode = "wait"    -> waited # {}

\* At every eighth of an edge the main robot is predicted, away from the scout
\* and in reach of it.
InStep(a, b) ==
    \A k \in 0..8 :
        LET tick == TickAt(a.time, b.time, k)
        IN  \E i \in DOMAIN task.main :
              Predicts(task.main[i], tick) /\ FarEnough(task, task.main[i], PlaceAt(a.at, b.at, k), tick)

\* Every edge of a trail is one the map, the yaw rate, the main robot and the
\* energy allow, and costs are those of the edges.
TrailIsLegal(trail) ==
    \A k \in 2..Len(trail) :
        LET a == records[trail[k - 1]]
            b == records[trail[k]]
        IN  /\ b.time <= task.energy /\ b.cost > a.cost
            /\ task.main # << >> => InStep(a, b)
            /\ \/ a.at = b.at /\ b.mode # "cruise"
               \/ /\ MoveIsLegal(a, b)
                  /\ Headings[b.heading] = <<b.at[1] - a.at[1], b.at[2] - a.at[2]>>
                  /\ a.mode = b.mode \/ (a.mode = "wait" /\ b.mode = "cruise")

\* A survey found was observed inside the region and left by its exit.
SurveyIsComplete(trail) ==
    /\ \E k \in Range(trail) : records[k].mode = "observe" /\ records[k].at \in task.goal
    /\ task.exit # {} => records[Last(trail)].at \in task.exit
\* Waiting on the way and regions that overlap are outside the claim on
\* "no_path": a scout that waits keeps the wait mode on its way to the exit and
\* is then refused for the survey it has not made.
Straightforward ==
    /\ ~task.waits /\ task.main = << >>
    /\ task.start \notin task.goal /\ task.goal \cap task.exit = {}

(* ScoutSearchSound: a path found is legal edge by edge at the times it is   *)
(* driven, within the energy, and a survey found was observed in the region  *)
(* and left by the exit; "no_path" is answered only if there is none         *)
(* (state_lattice_astar.cpp).                                                *)
ScoutSearchSound ==
    /\ terminal # 0 => TrailIsLegal(Trail(terminal))
    /\ outcome = "found_survey_path" => SurveyIsComplete(Trail(terminal))
    /\ (outcome = "no_path" /\ Admitted /\ Straightforward) => ~Possible

ScoutSearchTypeOK ==
    /\ outcome \in {"searching", "found_path", "found_survey_path", "no_path", "timeout",
                    "cancelled", "budget_exhausted"}
    /\ terminal \in 0..Len(records) /\ expansions <= MaxExpanded
    /\ Len(records) <= MaxExpanded /\ Cardinality(frontier) <= MaxQueue
    /\ Range(bestOf) \subseteq DOMAIN records
=============================================================================
