-------------------------- MODULE ScoutCoordination --------------------------
(***************************************************************************)
(* ScoutCoordinator (scout_coordinator.cpp) of the laying planner: it      *)
(* finds the gaps of the map along the reference line, grades them with    *)
(* hysteresis, keeps the scout at a distance and follows the requests for  *)
(* new maps until a map resolves them or they time out.                    *)
(*                                                                         *)
(* Abstracted: lengths and times are small integers; a request that is not *)
(* valid, and a map of another frame or reference line, are refused        *)
(* without effect; target scores are left out.                             *)
(***************************************************************************)
EXTENDS PlanningSnapshots, Sequences

CONSTANTS
  Gaps,            \* GapKey: the map a gap was seen on, and its place
  Timeout,         \* request_timeout
  MaxRequests,     \* bound on the number of requests
  MinimumSafe, HysteresisDistance,     \* lengths
  LeadTime, HorizonTime, HysteresisTime,
  Desired, Continue, Stop, Furthest,   \* separations, in this order
  MergeDistance, Interval, Unit        \* of the gap scan; lengths are in Unit-ths

ASSUME ScoutAssumption ==
  /\ {Timeout, MaxRequests, MinimumSafe, HysteresisDistance, LeadTime, HorizonTime,
      HysteresisTime, Desired, Continue, Stop, Furthest, MergeDistance, Interval}
       \subseteq Nat
  /\ HysteresisDistance = 0 \/ HysteresisDistance < MinimumSafe
  /\ HysteresisTime = 0 \/ HysteresisTime < LeadTime
  /\ Desired < Continue /\ Continue < Stop /\ Stop < Furthest
  /\ Timeout > 0 /\ Unit \in Nat

VARIABLES
  requests,   \* requests_, by request_sequence
  active,     \* active_request_by_gap_
  told,       \* history: requests some caller was told have ended
  previous,   \* previous_urgencies_
  switch,     \* history: per gap, the last change of its urgency and its inputs
  hold,       \* distance_hold_active_
  directive,  \* of the last assess_distance_constraint
  far,        \* history: out of bounds, and not back below Continue since
  ground,     \* the cells along the line and beside it that a scan looks at
  gaps        \* result of the last scan

requestVars == <<requests, active, told>>
urgencyVars == <<previous, switch>>
distanceVars == <<hold, directive, far>>
scanVars == <<ground, gaps>>
scoutVars == <<requestVars, urgencyVars, distanceVars, scanVars>>

GapKeys == [map : [id : MapIds, seq : 1..MaxMapSeq], place : Gaps]
Urgencies == {"blocking", "urgent", "scheduled", "informational"}
Rank == [blocking |-> 0, urgent |-> 1, scheduled |-> 2, informational |-> 3]
Actions == {"continue_approved_plan", "request_validated_reduced_speed_profile",
            "stop_and_wait_for_map", "trigger_replan_with_new_map"}
Requests == [gap : GapKeys, status : {"awaiting_map_update", "completed", "timed_out"},
             revision : Nat, requestedAt : Times, expiresAt : Nat,
             associated : MapVersions \cup {None}, action : Actions]
Directives == {"advance", "maintain_desired_spacing", "hold_position", "recover_communication",
               "input_invalid"}

Defects == {"unknown", "low_confidence"}
Classes == {"known"} \cup Defects
GapRecords == [start : Nat, end : Nat, x : Int, y : Int, reason : Defects]

ASSUME NoUrgencyAssumption == None \notin Urgencies /\ None \notin GapRecords

\* The line is sampled in order; a point of the detour is at the nearest arc length.
Sampled(points) ==
  /\ points.line \in Seq([progress : Nat, class : Classes])
  /\ points.detour \in Seq([progress : Nat, y : Int, class : Classes])
  /\ \A m, n \in DOMAIN points.line : m < n => points.line[m].progress <= points.line[n].progress

ScoutInit ==
  /\ requests = <<>>
  /\ active = [k \in GapKeys |-> 0]
  /\ told = {}
  /\ previous = [k \in Gaps |-> None]
  /\ switch = [k \in Gaps |-> None]
  /\ hold = FALSE
  /\ directive = None
  /\ far = FALSE
  /\ Sampled(ground) /\ gaps = None

-----------------------------------------------------------------------------
(* Faults the runs must notice                                             *)

ReopenedTimeOut(r) == [r EXCEPT !.status = "timed_out"]
KeepsIndex(index, ended) == index
EntriesOneOff(index, ended) ==
  [k \in GapKeys |-> IF \E n \in ended : requests[n].gap = k THEN index[k] + 1 ELSE index[k]]
OneThreshold(from, to, i) == TRUE
HoldOnlyWhenFar(sep) == sep <= Furthest /\ sep > Stop
LastGapLost(scan) == scan.done

-----------------------------------------------------------------------------
(* Requests                                                                *)

Awaiting(n) == requests[n].status = "awaiting_map_update"
Due(n) == Awaiting(n) /\ clock >= requests[n].expiresAt

\* mark_request_timed_out
TimeOut(r) ==
  [r EXCEPT !.status = "timed_out", !.revision = @ + 1, !.action = "stop_and_wait_for_map"]

\* The entries of the gaps of ended requests are erased, whatever they point to.
WithoutEntries(index, ended) ==
  [k \in GapKeys |-> IF \E n \in ended : requests[n].gap = k THEN 0 ELSE index[k]]

AllDue == {n \in DOMAIN requests : Due(n)}
WithTimedOut(ended) ==
  [n \in DOMAIN requests |-> IF n \in ended THEN TimeOut(requests[n]) ELSE requests[n]]

\* expire_scout_requests returns the requests it ended.
ExpireRequests ==
  /\ AllDue # {}
  /\ requests' = WithTimedOut(AllDue)
  /\ active' = WithoutEntries(active, AllDue)
  /\ told' = told \cup AllDue
  /\ UNCHANGED <<urgencyVars, distanceVars, scanVars>>

FirstAction(urgency) ==
  CASE urgency = "blocking" -> "stop_and_wait_for_map"
    [] urgency = "urgent"   -> "request_validated_reduced_speed_profile"
    [] OTHER                -> "continue_approved_plan"

\* issue_scout_request ends what is due before it looks for a request of the same gap,
\* and returns only that request or the new one.
IssueRequest(gap, urgency) ==
  LET left    == WithTimedOut(AllDue)
      index   == WithoutEntries(active, AllDue)
      running == index[gap] # 0 /\ left[index[gap]].status = "awaiting_map_update"
      request == [gap |-> gap, status |-> "awaiting_map_update", revision |-> 1,
                  requestedAt |-> clock, expiresAt |-> clock + Timeout,
                  associated |-> None, action |-> FirstAction(urgency)]
  IN  /\ urgency # "informational"
      /\ Len(requests) < MaxRequests
      /\ \/ /\ running
            /\ requests' = left
            /\ active' = index
         \/ /\ ~running
            /\ requests' = Append(left, request)
            /\ active' = [index EXCEPT ![gap] = Len(requests) + 1]
      /\ UNCHANGED <<told, urgencyVars, distanceVars, scanVars>>

\* The map is of the map id of the request, newer than any associated one, and made
\* between the request and now.
Answers(r, map) ==
  /\ map.id = r.gap.map.id
  /\ map.seq > (IF r.associated = None THEN r.gap.map.seq ELSE r.associated.seq)
  /\ r.requestedAt <= map.at /\ map.at <= clock

\* correlate_map_update: too late
CorrelateLate(n) ==
  /\ Due(n)
  /\ requests' = [requests EXCEPT ![n] = TimeOut(@)]
  /\ active' = WithoutEntries(active, {n})
  /\ told' = told \cup {n}
  /\ UNCHANGED <<urgencyVars, distanceVars, scanVars>>

\* correlate_map_update: the map shows the whole gap and its target, or not yet.
Correlate(n, map) ==
  /\ Awaiting(n) /\ ~Due(n)
  /\ Answers(requests[n], map)
  /\ \/ /\ requests' = [requests EXCEPT ![n].associated = map, ![n].revision = @ + 1]
        /\ UNCHANGED <<active, told>>
     \/ /\ requests' = [requests EXCEPT ![n].associated = map, ![n].revision = @ + 1,
                          ![n].status = "completed",
                          ![n].action = "trigger_replan_with_new_map"]
        /\ active' = WithoutEntries(active, {n})
        /\ told' = told \cup {n}
  /\ UNCHANGED <<urgencyVars, distanceVars, scanVars>>

RequestNext ==
  \/ ExpireRequests
  \/ \E gap \in GapKeys, urgency \in Urgencies : IssueRequest(gap, urgency)
  \/ \E n \in DOMAIN requests : CorrelateLate(n)
  \/ \E n \in DOMAIN requests, map \in MapVersions : Correlate(n, map)

-----------------------------------------------------------------------------
(* Urgency                                                                 *)

\* What an assessment measures of a gap.
Measures == [remaining : 0..2 * MinimumSafe, time : 0..HorizonTime + LeadTime,
             blocks : BOOLEAN]

Candidate(i) ==
  CASE i.blocks /\ i.remaining < MinimumSafe -> "blocking"
    [] i.time < LeadTime                     -> "urgent"
    [] i.time < HorizonTime                  -> "scheduled"
    [] OTHER                                 -> "informational"

\* The urgency changes only when the measure has passed the threshold of the more
\* urgent of the two levels by the hysteresis.
Crossed(from, to, i) ==
  IF Rank[to] < Rank[from]
  THEN CASE to = "blocking" ->
              i.blocks /\ i.remaining < MinimumSafe - HysteresisDistance
         [] to = "urgent" -> i.time < LeadTime - HysteresisTime
         [] OTHER         -> i.time < HorizonTime - HysteresisTime
  ELSE CASE from = "blocking" ->
              ~i.blocks \/ i.remaining > MinimumSafe + HysteresisDistance
         [] from = "urgent" -> i.time > LeadTime + HysteresisTime
         [] OTHER           -> i.time > HorizonTime + HysteresisTime

\* An assessment that falls back to blocking leaves no trace.
Assess(gap, i) ==
  LET to == Candidate(i)
      from == previous[gap]
  IN  /\ \/ /\ from = None
            /\ previous' = [previous EXCEPT ![gap] = to]
            /\ UNCHANGED switch
         \/ /\ from \notin {None, to}
            /\ Crossed(from, to, i)
            /\ previous' = [previous EXCEPT ![gap] = to]
            /\ switch' = [switch EXCEPT ![gap] = [from |-> from, inputs |-> i]]
      /\ UNCHANGED <<requestVars, distanceVars, scanVars>>

ClearHysteresis ==
  /\ previous' = [k \in Gaps |-> None]
  /\ switch' = [k \in Gaps |-> None]
  /\ hold' = FALSE
  /\ far' = FALSE
  /\ UNCHANGED <<requestVars, directive, scanVars>>

-----------------------------------------------------------------------------
(* Distance of the scout                                                   *)

\* Beyond the stop distance, or out of reach: the scout is held.
StartsHold(sep) == sep > Stop

AssessDistance(sep) ==
  /\ hold' = (StartsHold(sep) \/ (hold /\ sep >= Continue))
  /\ directive' = CASE sep > Furthest                 -> "recover_communication"
                    [] sep <= Furthest /\ hold'        -> "hold_position"
                    [] ~hold' /\ (hold \/ sep < Desired) -> "advance"
                    [] OTHER                          -> "maintain_desired_spacing"
  /\ far' = (sep > Stop \/ (far /\ sep >= Continue))
  /\ UNCHANGED <<requestVars, urgencyVars, scanVars>>

\* Without valid poses nothing is known of the distance.
AssessWithoutPose ==
  /\ hold' = TRUE
  /\ directive' = "input_invalid"
  /\ far' = TRUE
  /\ UNCHANGED <<requestVars, urgencyVars, scanVars>>

-----------------------------------------------------------------------------
(* Gaps                                                                    *)

ReasonRank == [unknown |-> 3, low_confidence |-> 1]
MoreConservative(a, b) == IF ReasonRank[a] >= ReasonRank[b] THEN a ELSE b

\* A gap of one point; lengths are in Unit-ths, so that centers can be halved.
PointGap(progress, y, class) ==
  [start |-> Unit * progress, end |-> Unit * progress, x |-> Unit * progress,
   y |-> Unit * y, reason |-> class]

Near(gap, next) ==
  LET limit == Unit * (MergeDistance + 2 * Interval)
      dx == next.x - gap.x
      dy == next.y - gap.y
  IN  /\ next.start - gap.end <= Unit * (MergeDistance + Interval)
      /\ dx * dx + dy * dy <= limit * limit

Larger(a, b) == IF a >= b THEN a ELSE b
Merge(gap, next) ==
  [start |-> gap.start, end |-> Larger(gap.end, next.end),
   x |-> (gap.x + next.x) \div 2, y |-> (gap.y + next.y) \div 2,
   reason |-> MoreConservative(gap.reason, next.reason)]

\* A sample ends, extends or starts the current gap.
AddSample(scan, sample) ==
  CASE sample.class \notin Defects ->
         [done |-> IF scan.current = None THEN scan.done ELSE Append(scan.done, scan.current),
          current |-> None]
    [] sample.class \in Defects /\ scan.current = None ->
         [scan EXCEPT !.current = PointGap(sample.progress, 0, sample.class)]
    [] OTHER ->
         LET next == PointGap(sample.progress, 0, sample.class)
         IN  IF Near(scan.current, next)
             THEN [scan EXCEPT !.current = Merge(@, next)]
             ELSE [done |-> Append(scan.done, scan.current), current |-> next]

\* The gap that is open when the samples end is one too.
Closed(scan) == IF scan.current = None THEN scan.done ELSE Append(scan.done, scan.current)

LineGaps(samples) ==
  LET scan[n \in 0..Len(samples)] ==
        IF n = 0 THEN [done |-> <<>>, current |-> None] ELSE AddSample(scan[n - 1], samples[n])
  IN  Closed(scan[Len(samples)])

DetourGaps(points) ==
  LET found[n \in 0..Len(points)] ==
        IF n = 0 THEN <<>>
        ELSE IF points[n].class \notin Defects THEN found[n - 1]
        ELSE Append(found[n - 1], PointGap(points[n].progress, points[n].y, points[n].class))
  IN  found[Len(points)]

Earlier(a, b) ==
  \/ a.start < b.start
  \/ a.start = b.start /\ a.end < b.end
  \/ a.start = b.start /\ a.end = b.end /\ a.reason = "unknown" /\ b.reason # "unknown"

\* Gaps that are equal in this order stay in theirs.
Precedes(found, i, j) == Earlier(found[i], found[j]) \/ (~Earlier(found[j], found[i]) /\ i < j)
Orders(found) ==
  {order \in [DOMAIN found -> DOMAIN found] :
     /\ \A i \in DOMAIN found : \E k \in DOMAIN found : order[k] = i
     /\ \A i, j \in DOMAIN found : i < j => Precedes(found, order[i], order[j])}

MergeInto(merged, gap) ==
  IF merged # <<>> /\ Near(merged[Len(merged)], gap)
  THEN [merged EXCEPT ![Len(merged)] = Merge(@, gap)]
  ELSE Append(merged, gap)

MergedGaps(sorted) ==
  LET merged[n \in 0..Len(sorted)] ==
        IF n = 0 THEN <<>> ELSE MergeInto(merged[n - 1], sorted[n])
  IN  merged[Len(sorted)]

\* identify_gaps_result
Scan ==
  /\ LET found == LineGaps(ground.line) \o DetourGaps(ground.detour) IN
     \E order \in Orders(found) : gaps' = MergedGaps([n \in DOMAIN found |-> found[order[n]]])
  /\ UNCHANGED <<ground, requestVars, urgencyVars, distanceVars>>

-----------------------------------------------------------------------------
(* The coordinator between other parts: calls come in any order, time passes. *)

ScoutCall ==
  \/ RequestNext
  \/ \E g \in Gaps, i \in Measures : Assess(g, i)
  \/ ClearHysteresis
  \/ \E sep \in Nat : AssessDistance(sep)
  \/ AssessWithoutPose
  \/ Scan

ScoutNext ==
  \/ ScoutCall /\ UNCHANGED clock
  \/ clock' \in {t \in Times : t > clock} /\ UNCHANGED scoutVars

ScoutSpec == clock = 0 /\ ScoutInit /\ [][ScoutNext]_<<clock, scoutVars>>

-----------------------------------------------------------------------------
(* Properties                                                              *)

\* Every variable stays in its domain.
ScoutTypeOK ==
  /\ requests \in Seq(Requests)
  /\ active \in [GapKeys -> 0..Len(requests)]
  /\ told \subseteq DOMAIN requests
  /\ previous \in [Gaps -> Urgencies \cup {None}]
  /\ hold \in BOOLEAN
  /\ directive \in Directives \cup {None}

\* The index and the requests agree whichever way requests end: a gap has at most one
\* running request, the index finds it, and finds no other.
OneRequestPerGap ==
  /\ \A k \in GapKeys : active[k] # 0 => Awaiting(active[k]) /\ requests[active[k]].gap = k
  /\ \A n \in DOMAIN requests : Awaiting(n) => active[requests[n].gap] = n

\* A request that has ended never changes, and one that changes counts it and never
\* takes an older map: answers, expiry and repeated requests meet in any order.
RequestsOnlyAdvance ==
  [][\A n \in DOMAIN requests :
       requests'[n] # requests[n] =>
         /\ Awaiting(n)
         /\ requests'[n].revision = requests[n].revision + 1
         /\ requests[n].associated # None =>
              requests'[n].associated.seq >= requests[n].associated.seq]_requests

\* "On reaching expires_at the request is atomically timed out and the old plan is
\* invalidated": whoever ends a request tells its caller.
TimeoutIsReported == \A n \in DOMAIN requests : Awaiting(n) \/ n \in told

Distance(a, b) == Larger(a, b) - (a + b - Larger(a, b))

\* An urgency goes back to where it came from only after its
\* measures moved by twice the hysteresis, or the gap left or entered the window.
NoFlapping ==
  \A g \in Gaps :
    /\ switch[g] # None
    /\ switch'[g] # None
    /\ switch'[g] # switch[g]
    /\ previous'[g] = switch[g].from
    => LET i == switch[g].inputs
           j == switch'[g].inputs
       IN  \/ i.blocks # j.blocks
           \/ Distance(i.remaining, j.remaining) > 2 * HysteresisDistance
           \/ Distance(i.time, j.time) > 2 * HysteresisTime

\* A scout that went too far, out of reach included, is held until it is near again.
HeldUntilNear ==
  far => directive \in {"hold_position", "recover_communication", "input_invalid"}

\* Both hystereses work, that of the urgency and that of the distance.
GradingsAreSteady == [][NoFlapping /\ HeldUntilNear']_<<urgencyVars, distanceVars>>

\* No unknown or uncertain point of the line or the detour is lost by merging, and a
\* merged gap is as bad as its worst point.
GapsCoverDefects ==
  gaps # None =>
    LET points == {ground.line[n] : n \in DOMAIN ground.line} \cup
                  {ground.detour[n] : n \in DOMAIN ground.detour}
    IN  \A p \in points : p.class \in Defects =>
          \E n \in DOMAIN gaps :
            /\ gaps[n].start <= Unit * p.progress /\ Unit * p.progress <= gaps[n].end
            /\ ReasonRank[gaps[n].reason] >= ReasonRank[p.class]
=============================================================================
