-------------------------- MODULE ReferenceProgress -------------------------
(***************************************************************************)
(* ReferenceProgressTracker (reference_progress_tracker.cpp): how far along *)
(* the reference line cable has been laid, from segments of executed       *)
(* laying that may be lost, repeated or come late.                         *)
(*                                                                         *)
(* Cable is laid along the line to one unit aside at most, so the arc      *)
(* length laid is also the true progress. Where the line comes back on     *)
(* itself, the touchdown point alone does not say which leg it is on.      *)
(*                                                                         *)
(* Abstracted: the line is its stations, one unit apart; time is arc       *)
(* length, the cable being laid at unit speed.                             *)
(***************************************************************************)
EXTENDS Integers, Sequences, FiniteSetsExt

CONSTANTS
  Line,            \* stations: x, y, heading (east or west); the first is at 0
  Offsets,         \* where the touchdown may be, across the line
  DistanceWeight,  \* of a squared distance in the score
  HeadingPenalty,  \* of the opposite heading in the score
  ScoreTolerance,  \* association_score_tolerance
  Backward,        \* backward_tolerance_m
  PerLaying,       \* maximum_progress_per_laying_m
  Slack,           \* forward_slack_m
  MaxSegments,     \* bound on segments produced
  Longest,         \* the longest segment
  NoProgress       \* std::nullopt

ASSUME ProgressAssumption ==
  /\ {DistanceWeight, HeadingPenalty, ScoreTolerance, Backward, PerLaying, Slack, Longest, MaxSegments} \subseteq Nat
  /\ Line \in Seq([x : Int, y : Int, heading : {"e", "w"}]) /\ Line # <<>>
  /\ Offsets \subseteq Int

VARIABLES
  offset,        \* where the touchdown is at each station
  laid,          \* arc length laid so far
  sent,          \* executed segments: sequence number, first and last sample
  lineVersion,   \* version of the reference line in force
  progress,      \* current_.progress
  trackStatus,   \* current_.status
  lastSample,    \* last_executed_sample_
  lastSegment,   \* last_executed_segment_sequence_
  anchored       \* history: the first segment accepted began where the task did

segmentVars == <<offset, laid, sent>>
trackerVars == <<progress, trackStatus, lastSample, lastSegment, anchored>>
progressVars == <<segmentVars, lineVersion, trackerVars>>

Stations == 0..Len(Line) - 1
Station(a) == Line[a + 1]

ProgressInit ==
  /\ offset \in [Stations -> Offsets]
  /\ laid = 0 /\ sent = {}
  /\ lineVersion = 1
  /\ progress = NoProgress /\ trackStatus = "uninitialized"
  /\ lastSample = NoProgress /\ lastSegment = 0 /\ anchored = TRUE

\* Executed laying: every segment starts where the one before it ended.
Lay(n) ==
  /\ Cardinality(sent) < MaxSegments /\ laid + n \in Stations
  /\ sent' = sent \cup {[seq |-> Cardinality(sent) + 1, from |-> laid, to |-> laid + n]}
  /\ laid' = laid + n
  /\ UNCHANGED <<offset, lineVersion, trackerVars>>

ReplaceLine ==
  /\ lineVersion = 1 /\ lineVersion' = 2
  /\ UNCHANGED <<segmentVars, trackerVars>>

-----------------------------------------------------------------------------
(* Faults the runs must notice                                             *)

WholeLine(from, increment) == Stations

-----------------------------------------------------------------------------
(* Association of one sample                                               *)

TouchdownAt(a, aside) == [x |-> Station(a).x, y |-> Station(a).y + aside, heading |-> Station(a).heading]
Touchdown(a) == TouchdownAt(a, offset[a])

Score(s, t) ==
  LET p == Station(s) IN
  DistanceWeight * ((p.x - t.x) * (p.x - t.x) + (p.y - t.y) * (p.y - t.y))
    + IF p.heading = t.heading THEN 0 ELSE HeadingPenalty

Window(from, increment) ==
  {s \in Stations : from - Backward <= s /\ s <= from + PerLaying * increment + Slack}

\* The nearest station in the window; of equal ones, the first.
Best(window, t) ==
  CHOOSE s \in window : \A r \in window : Score(s, t) < Score(r, t) \/ (Score(s, t) = Score(r, t) /\ s <= r)

Ambiguous(window, t) ==
  \E s \in window : s # Best(window, t) /\ Score(s, t) - Score(Best(window, t), t) <= ScoreTolerance

Association(from, a, increment) ==
  LET window == Window(from, increment)
      t == Touchdown(a)
  IN IF window = {} THEN "no_local_association"
     ELSE IF Ambiguous(window, t) THEN "association_ambiguous"
     ELSE IF Best(window, t) < from THEN "regression_requested"
     ELSE "tracked"

-----------------------------------------------------------------------------
(* Tracking                                                                *)

\* reset_for_new_task
ResetForNewTask(initial) ==
  /\ trackStatus' = "tracked"
  /\ progress' = [version |-> lineVersion, at |-> initial, time |-> laid, seq |-> 1]
  /\ lastSample' = NoProgress /\ lastSegment' = 0 /\ anchored' = TRUE
  /\ UNCHANGED <<segmentVars, lineVersion>>

\* Progress and outcome after the sample at a, given those before it.
StepTo(a, before) ==
  LET status == Association(before.at, a, 1)
  IN  IF before.status # "tracked" THEN before
      ELSE [at |-> IF status = "tracked" THEN Best(Window(before.at, 1), Touchdown(a)) ELSE before.at,
            status |-> status]

\* Progress and outcome after all samples of a segment but the first, until one fails.
Steps(segment) ==
  LET after[k \in 0..segment.to - segment.from] ==
        IF k = 0 THEN [at |-> progress.at, status |-> "tracked"]
        ELSE StepTo(segment.from + k, after[k - 1])
  IN  after[segment.to - segment.from]

Refusal(segment) ==
  IF progress = NoProgress THEN "uninitialized"
  ELSE IF progress.version # lineVersion THEN "reference_version_changed"
  ELSE IF segment.seq <= lastSegment \/ segment.from < progress.time THEN "input_invalid"
  ELSE IF lastSample # NoProgress /\ lastSample # segment.from THEN "executed_segment_discontinuity"
  ELSE Steps(segment).status

\* update_from_executed_laying: all samples of a segment count, or none.
UpdateFromExecutedLaying(segment) ==
  /\ trackStatus' = Refusal(segment)
  /\ \/ /\ Refusal(segment) = "tracked"
        /\ progress' = [progress EXCEPT !.at = Steps(segment).at, !.time = segment.to, !.seq = @ + 1]
        /\ lastSample' = segment.to
        /\ lastSegment' = segment.seq
        /\ anchored' = (anchored /\ (lastSample = NoProgress => segment.from = progress.time))
     \/ /\ Refusal(segment) # "tracked"
        /\ UNCHANGED <<progress, lastSample, lastSegment, anchored>>
  /\ UNCHANGED <<segmentVars, lineVersion>>

\* A task starts where the cable is.
ProgressNext ==
  \/ \E n \in 1..Longest : Lay(n)
  \/ ReplaceLine
  \/ ResetForNewTask(laid)
  \/ \E segment \in sent : UpdateFromExecutedLaying(segment)

ProgressSpec == ProgressInit /\ [][ProgressNext]_progressVars

-----------------------------------------------------------------------------

ProgressTypeOK ==
  /\ laid \in Stations
  /\ progress # NoProgress => progress.at \in Stations /\ progress.time <= laid
  /\ lastSample \in Stations \cup {NoProgress} /\ lastSegment \in 0..MaxSegments

\* The legs of the line are apart: where the tracker looks from a station and from one
\* behind, nothing scores as well as the station itself but its neighbours.
LegsApart ==
  /\ PerLaying + Slack >= 2
  /\ \A a, s \in Stations, aside \in Offsets :
       s = a - 2 \/ (a + 2 <= s /\ s <= a + PerLaying + Slack)
         => Score(a, TouchdownAt(a, aside)) < Score(s, TouchdownAt(a, aside))

(* The progress tracked is never ahead of the cable: it does not jump to a  *)
(* leg of the line that passes nearby, although each association may prefer  *)
(* it and errors add up.  Nor does it fall behind, unless the first segment  *)
(* of the task was lost, for which the tracker does not ask                 *)
(* (reference_progress_tracker.cpp:137, 403).                               *)
ProgressStaysWithCable ==
  progress # NoProgress =>
    /\ progress.at <= progress.time + 1
    /\ anchored => progress.at >= progress.time - 1
=============================================================================
