---------------------------- MODULE HybridSearch ----------------------------
(***************************************************************************)
(* The augmented-state hybrid A* of the laying planner: one request is     *)
(* checked, then the cheapest open entry is expanded until a merge goal is *)
(* popped, the frontier is empty, or a budget or the deadline ends the     *)
(* search; and the generator of the merge goals it is given.               *)
(*                                                                         *)
(* A place stands for a continuous state (pose, lag angle, progress, cable *)
(* memory), a motion for a primitive applied at its first place, and the   *)
(* world of a request says what the evaluators answer for each motion and  *)
(* which places share a base key and an equivalent cable memory.           *)
(***************************************************************************)
EXTENDS Integers, SequencesExt, FiniteSetsExt

CONSTANTS
    Start,           \* the place the search starts from
    Goals,           \* the places that match a merge goal
    Motions,         \* sequence of [from, to, length, analytic]
    Position,        \* where each place lies on the line
    Worlds,          \* what the evaluators may answer
    Interval,        \* analytic_expansion_interval; 0: no analytic expansion
    MaxExpansions, MaxLabels

VARIABLES
    world,           \* [failed, verdict, soft, label, tolerance], fixed by the request
    answer,          \* "searching" or the PlanningState of the result
    nodes,           \* every node made: [place, by, parent, cost, label]
    open,            \* the nodes with an entry in the queue
    labels,          \* the active node of each mechanical label
    expanded,        \* expanded_state_count
    rejected         \* the kinds of rejection counted so far

searchVars == <<world, answer, nodes, open, labels, expanded, rejected>>

Places == DOMAIN Position

\* The checks before the first node, and what each one answers.
RequestChecks == <<[check |-> "request", state |-> "input_invalid"]>>

EnvelopeChecks ==
    <<[check |-> "envelope",  state |-> "no_envelope"],
      [check |-> "touchdown", state |-> "input_invalid"],
      [check |-> "corridor",  state |-> "no_envelope"]>>

\* The robot where it stands, and the cable behind it.
SweepChecks ==
    <<[check |-> "layer",   state |-> "input_invalid"],
      [check |-> "sweep",   state |-> "input_invalid"],
      [check |-> "area",    state |-> "no_solution"],
      [check |-> "history", state |-> "input_invalid"]>>

StartChecks == RequestChecks \o EnvelopeChecks \o SweepChecks

EnvelopeKinds == {"envelope", "corridor"}
RejectionKinds ==
    EnvelopeKinds \cup {"area", "collision", "traversability", "cable", "reference", "laying"}

Straight(p, q) == IF Position[p] > Position[q] THEN Position[p] - Position[q]
                  ELSE Position[q] - Position[p]

\* The search is between places on the line, over motions of the robot: none is
\* shorter than the places it joins are apart, and the primitives come first.
ASSUME SearchAssumption ==
    /\ Position \in Seq(Int) /\ Start \in Places /\ Goals \subseteq Places /\ Goals # {}
    /\ Motions \in Seq([from : Places, to : Places, length : Nat, analytic : BOOLEAN])
    /\ \A m \in DOMAIN Motions : Motions[m].length >= Straight(Motions[m].from, Motions[m].to)
    /\ \A m, k \in DOMAIN Motions : m < k /\ Motions[m].analytic => Motions[k].analytic
    /\ Interval \in Nat /\ MaxExpansions \in Nat /\ MaxLabels \in Nat \ {0}
    /\ \A w \in Worlds : /\ w.verdict \in [DOMAIN Motions -> {"ok"} \cup RejectionKinds]
                         /\ w.soft \in [DOMAIN Motions -> Nat] /\ w.tolerance \in Nat

\* The least distance left to a goal: no path is shorter.
Heuristic(p) == Min({Straight(p, g) : g \in Goals})

\* OpenEntryLater: total, heuristic, path cost, label, node, in this order.
Sooner(ns, m, n) ==
    LET Rank(x) == <<ns[x].cost + Heuristic(ns[x].place), Heuristic(ns[x].place),
                     ns[x].cost, ns[x].label, x>>
    IN  \E i \in 1..5 : /\ Rank(m)[i] < Rank(n)[i]
                        /\ \A j \in 1..(i - 1) : Rank(m)[j] = Rank(n)[j]

Soonest(ns, queue) == CHOOSE n \in queue : \A m \in queue \ {n} : Sooner(ns, n, m)

\* The candidates of a place: its primitives and, at every Interval-th expansion,
\* the first arcs of the exact curves to the goals.
Applies(m, p, count) ==
    /\ Motions[m].from = p
    /\ Motions[m].analytic => Interval > 0 /\ count % Interval = 0

MotionCost(w, m) == Motions[m].length + w.soft[m]

\* The label whose active node has the place's base key and equivalent memory.
LabelOf(w, s, p) ==
    {l \in DOMAIN s.labels : w.label[s.nodes[s.labels[l]].place] = w.label[p]}

\* Faults: a label keeps the first node it was given; a node is not given its label.
KeepsFirst(w, kept, node) == TRUE
Unlabelled(node, l) == node

\* A label keeps its node unless the new one is cheaper by more than the tolerance.
Keeps(w, kept, node) == kept.cost <= node.cost + w.tolerance
Labelled(node, l) == [node EXCEPT !.label = l]

\* The new node is opened, and holds the label.
Given(s, node, l, holders) ==
    [nodes |-> Append(s.nodes, Labelled(node, l)), open |-> s.open \cup {Len(s.nodes) + 1},
     labels |-> holders, rejected |-> s.rejected, full |-> FALSE]

\* An equivalent label decides; a place without one needs a label of the budget.
Insert(w, s, node) ==
    LET same == LabelOf(w, s, node.place)
        fresh == Len(s.nodes) + 1
        l == CHOOSE x \in same : TRUE
    IN  IF same # {}
        THEN IF Keeps(w, s.nodes[s.labels[l]], node) THEN s
             ELSE Given(s, node, l, [s.labels EXCEPT ![l] = fresh])
        ELSE IF Len(s.labels) >= MaxLabels THEN [s EXCEPT !.full = TRUE]
             ELSE Given(s, node, Len(s.labels) + 1, Append(s.labels, fresh))

\* One candidate of the node n: rejected, or inserted with its parent n.
TryMotion(w, n, s, m) ==
    IF s.full THEN s
    ELSE IF w.verdict[m] # "ok" THEN [s EXCEPT !.rejected = @ \cup {w.verdict[m]}]
    ELSE Insert(w, s, [place |-> Motions[m].to, by |-> m, parent |-> n,
                       cost |-> s.nodes[n].cost + MotionCost(w, m), label |-> 0])

\* The candidates of the node n among the first `last` motions, in their order.
TryMotions(n, count, last) ==
    LET after[m \in 0..last] ==
            IF m = 0 THEN [nodes |-> nodes, open |-> open \ {n}, labels |-> labels,
                           rejected |-> rejected, full |-> FALSE]
            ELSE IF Applies(m, nodes[n].place, count) THEN TryMotion(world, n, after[m - 1], m)
            ELSE after[m - 1]
    IN  after[last]

-----------------------------------------------------------------------------
SearchInit ==
    /\ world \in Worlds
    /\ answer = "requested"
    /\ nodes = <<>> /\ open = {} /\ labels = <<>>
    /\ expanded = 0 /\ rejected = {}

\* plan: the first failed check answers at once, otherwise the start is opened.
Begin ==
    /\ answer = "requested"
    /\ LET Fails(i) == StartChecks[i].check \in world.failed
       IN  \/ \E i \in DOMAIN StartChecks :
                /\ Fails(i) /\ \A j \in 1..(i - 1) : ~Fails(j)
                /\ answer' = StartChecks[i].state
                /\ UNCHANGED <<nodes, open, labels>>
           \/ /\ \A i \in DOMAIN StartChecks : ~Fails(i)
              /\ answer' = "searching"
              /\ nodes' = <<[place |-> Start, by |-> 0, parent |-> 1,
                             cost |-> 0, label |-> 1]>>
              /\ open' = {1} /\ labels' = <<1>>
    /\ UNCHANGED <<world, expanded, rejected>>

Looping == answer = "searching" /\ open # {} /\ expanded < MaxExpansions

Popped == Soonest(nodes, open)

\* An entry whose node its label has given up is dropped uncounted.
SkipStale ==
    /\ Looping
    /\ labels[nodes[Popped].label] # Popped
    /\ open' = open \ {Popped}
    /\ UNCHANGED <<world, answer, nodes, labels, expanded, rejected>>

ReachGoal ==
    /\ Looping
    /\ labels[nodes[Popped].label] = Popped
    /\ nodes[Popped].place \in Goals
    /\ expanded' = expanded + 1
    /\ open' = open \ {Popped}
    /\ answer' = "success"
    /\ UNCHANGED <<world, nodes, labels, rejected>>

\* The candidates are tried in order; the deadline may pass before any of them.
Expand ==
    /\ Looping
    /\ labels[nodes[Popped].label] = Popped
    /\ nodes[Popped].place \notin Goals
    /\ LET n == Popped
           all == Len(Motions)
       IN  \E last \in 0..all :
             /\ last # all => Applies(last + 1, nodes[n].place, expanded + 1)
             /\ LET s == TryMotions(n, expanded + 1, last)
                IN  /\ nodes' = s.nodes /\ open' = s.open /\ labels' = s.labels
                    /\ rejected' = s.rejected
                    /\ answer' = IF s.full \/ last # all THEN "timeout" ELSE "searching"
    /\ expanded' = expanded + 1
    /\ UNCHANGED world

\* deadline_exceeded() before an entry is popped.
OutOfTime ==
    /\ Looping
    /\ answer' = "timeout"
    /\ UNCHANGED <<world, nodes, open, labels, expanded, rejected>>

\* The loop has ended: a frontier that is left over is an expansion budget
\* spent, stale entries included; an empty one has no solution.
Finish ==
    /\ answer = "searching" /\ ~Looping
    /\ answer' = IF open # {} THEN "timeout"
                 ELSE IF rejected # {} /\ rejected \subseteq EnvelopeKinds
                      THEN "no_envelope" ELSE "no_solution"
    /\ UNCHANGED <<world, nodes, open, labels, expanded, rejected>>

SearchNext == Begin \/ SkipStale \/ ReachGoal \/ Expand \/ OutOfTime \/ Finish

SearchSpec == SearchInit /\ [][SearchNext]_searchVars

\* reconstruct_result: the nodes from the start to n, by their parents.
Chain(n) ==
    LET back[i \in DOMAIN nodes] ==
            IF nodes[i].parent = i THEN <<i>> ELSE Append(back[nodes[i].parent], i)
    IN  back[n]

-----------------------------------------------------------------------------
(* The reference: what the paths over the primitives cost.                  *)

Usable(m) == world.verdict[m] = "ok"
Primitives == {m \in DOMAIN Motions : ~Motions[m].analytic}

\* The costs of the paths to each place, of at most a motion per place.
PathCosts ==
    LET costs[k \in 0..Cardinality(Places)] ==
            IF k = 0 THEN [p \in Places |-> IF p = Start THEN {0} ELSE {}]
            ELSE LET shorter == costs[k - 1]
                 IN  [p \in Places |->
                        shorter[p] \cup
                        UNION {{c + MotionCost(world, m) : c \in shorter[Motions[m].from]} :
                                 m \in {x \in Primitives : Usable(x) /\ Motions[x].to = p}}]
    IN  costs[Cardinality(Places)]

\* No two places share a label: the discretization loses nothing.
Faithful == \A p, q \in Places : p # q => world.label[p] # world.label[q]

\* The path to n is a chain of accepted motions from the start, each applied where
\* the one before it ended, and costs what they cost.
PathIsReal(n) ==
    LET path == Chain(n)
    IN  /\ nodes[path[1]].place = Start /\ path[Len(path)] = n
        /\ \A i \in 2..Len(path) :
             LET m == nodes[path[i]].by
             IN  /\ Usable(m)
                 /\ Motions[m].from = nodes[path[i - 1]].place
                 /\ Motions[m].to = nodes[path[i]].place
                 /\ nodes[path[i]].cost = nodes[path[i - 1]].cost + MotionCost(world, m)

(* SearchSound: whatever order entries are popped, replaced and dropped in, *)
(* a success is a path whose every motion was accepted from the state it    *)
(* starts in and, where the discretization loses nothing, within one        *)
(* tolerance per place of the cheapest; "no solution" means that no goal    *)
(* can be reached, and blaming the covariance envelope that nothing but the *)
(* envelope stood in the way (hybrid_astar_planner.cpp).                    *)
SearchSound ==
    /\ answer = "success" =>
         \E n \in DOMAIN nodes :
            /\ labels[nodes[n].label] = n /\ nodes[n].place \in Goals
            /\ PathIsReal(n)
            /\ Faithful => \A g \in Goals : \A c \in PathCosts[g] :
                             nodes[n].cost <= c + world.tolerance * Cardinality(Places)
    /\ (answer \in {"no_solution", "no_envelope"} /\ nodes # <<>> /\ Faithful)
         => \A g \in Goals : PathCosts[g] = {}
    /\ (answer = "no_envelope" /\ nodes # <<>> /\ Faithful)
         => \A m \in Primitives :
              PathCosts[Motions[m].from] # {} => Usable(m) \/ world.verdict[m] \in EnvelopeKinds

SearchTypeOK ==
    /\ answer \in {"requested", "searching", "success", "no_solution", "no_envelope",
                   "timeout", "input_invalid"}
    /\ open \subseteq DOMAIN nodes
    /\ Len(labels) <= MaxLabels /\ expanded <= MaxExpansions
    /\ rejected \subseteq RejectionKinds
    /\ \A l \in DOMAIN labels : nodes[labels[l]].label = l
-----------------------------------------------------------------------------
(* The merge goals: distances, headings and lags are tried in this order,   *)
(* `tries` says what became of each one and what it costs.                  *)

\* MergeGoalGenerator::generate: nothing when a terrain input is invalid,
\* otherwise the feasible goals by cost, equal ones in their order, cut off.
MergeGoals(tries, limit) ==
    LET feasible == {i \in DOMAIN tries : tries[i].verdict = "feasible"}
        Before(i, j) == \/ tries[i].cost < tries[j].cost
                        \/ tries[i].cost = tries[j].cost /\ i < j
        sorted == SetToSortSeq(feasible, Before)
    IN  IF \E i \in DOMAIN tries : tries[i].verdict = "terrain_invalid" THEN <<>>
        ELSE SubSeq(sorted, 1, Min({limit, Len(sorted)}))

\* No goal is left out for one that costs more, and the limit is not
\* exceeded (the search is given the cheapest merges there are).
GoalsSound(tries, limit) ==
    LET goals == MergeGoals(tries, limit)
    IN  /\ Len(goals) <= limit /\ IsInjective(goals)
        /\ \A k \in DOMAIN goals : tries[goals[k]].verdict = "feasible"
        /\ goals # <<>> =>
             \A i \in DOMAIN tries \ Range(goals) :
               tries[i].verdict = "feasible"
                 => /\ Len(goals) = limit
                    /\ \A k \in DOMAIN goals : tries[goals[k]].cost <= tries[i].cost
=============================================================================
