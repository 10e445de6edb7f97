---------------------------- MODULE CableTracking ---------------------------
(***************************************************************************)
(* CableStateTracker (cable_state_tracker.cpp): the state of the cable     *)
(* between the robot and the sea bed, propagated over executed segments    *)
(* and corrected by touchdown observations, any of which may be lost,      *)
(* repeated or late.                                                       *)
(*                                                                         *)
(* Abstracted: the robot drives straight at unit speed, so arc length is   *)
(* time as well; the state is its mechanical history, for each sample      *)
(* where the robot was, where along that line cable touched down, and how  *)
(* much cable lay by then; an observation is the error of what the tracker  *)
(* would predict.                                                          *)
(***************************************************************************)
EXTENDS Integers, Sequences, FiniteSetsExt, SequencesExt

CONSTANTS
  History,       \* required_history_length_m
  MaxResidual,   \* maximum_touchdown_observation_residual_m
  Residuals,     \* what an observation may differ by
  MaxGap,        \* maximum_observation_gap
  MaxDriven,     \* bound on the arc length driven
  MaxStates,     \* bound on state sequence numbers
  NoState        \* std::nullopt

ASSUME TrackingAssumption ==
  /\ {History, MaxResidual, MaxGap, MaxDriven, MaxStates} \subseteq Nat /\ History > 0
  /\ Residuals \subseteq Int

TouchdownSamples == [robot : Nat, at : Int, arc : Nat]
Memories == [samples : Seq(TouchdownSamples), points : 0..2]
CableStates == [memory : Memories, time : Nat, seq : Nat]

ASSUME NoStateAssumption == NoState \notin CableStates /\ NoState \notin Nat

VARIABLES
  driven,          \* arc length the robot has driven
  segments,        \* executed segments: sequence number, first and last sample
  cable,           \* current_.state
  cableStatus,     \* current_.status
  lastRobot,       \* last_executed_sample_
  lastObserved,    \* last_observation_timestamp_
  watermarks,      \* last sequence numbers accepted: segment, telemetry, observation
  nextState,       \* next_state_sequence_
  taskStart,       \* explicit_task_start_boundary_
  taken            \* history: segments taken into the state there is

cableVars == <<cable, cableStatus, lastRobot, lastObserved, watermarks, nextState, taskStart, taken>>
trackingVars == <<driven, segments, cableVars>>

CableInit ==
  /\ driven = 0 /\ segments = {}
  /\ cable = NoState /\ cableStatus = "initial_state_uncertain"
  /\ lastRobot = NoState /\ lastObserved = NoState
  /\ watermarks = [segment |-> 0, telemetry |-> 0, observation |-> 0]
  /\ nextState = 1 /\ taskStart = FALSE /\ taken = {}

Drive(n) ==
  /\ driven + n <= MaxDriven
  /\ driven' = driven + n
  /\ segments' = segments \cup {[seq |-> Cardinality(segments) + 1, from |-> driven, to |-> driven + n]}
  /\ UNCHANGED cableVars

-----------------------------------------------------------------------------
(* Faults the runs must notice                                             *)

AnyBoundary(segment) == TRUE

-----------------------------------------------------------------------------
(* The mechanical history                                                  *)

Magnitude(n) == IF n < 0 THEN -n ELSE n

\* A sample that follows others: the cable between them is what lies between the touchdowns.
Following(samples, robot, at) ==
  [robot |-> robot, at |-> at,
   arc |-> IF samples = <<>> THEN 0 ELSE Last(samples).arc + Magnitude(at - Last(samples).at)]

\* append_touchdown_sample: a touchdown that has not moved adds nothing.
Extended(m, robot, at) ==
  IF m.samples # <<>> /\ at = Last(m.samples).at THEN m
  ELSE [samples |-> Append(m.samples, Following(m.samples, robot, at)), points |-> Min({2, m.points + 1})]

CarriedThrough(m, from, to) ==
  LET after[n \in 0..to - from + 1] ==
        IF n = 0 THEN m ELSE Extended(after[n - 1], from + n - 1, from + n - 1)
  IN  after[to - from + 1]

\* initialize_memory_from_executed_history: the observation ends the history.
Initial(segment, residual) ==
  Extended(CarriedThrough([samples |-> <<>>, points |-> 0], segment.from, segment.to - 1),
           segment.to, segment.to + residual)

Propagated(m, segment) == CarriedThrough(m, segment.from + 1, segment.to)

\* correct_from_observation: the last sample moves to the observation; if that
\* is where the one before it is, it goes, and only one distinct point is left.
Corrected(m, robot, residual) ==
  LET at == Last(m.samples).at + residual IN
  IF Len(m.samples) = 1
  THEN [m EXCEPT !.samples = <<[robot |-> robot, at |-> at, arc |-> m.samples[1].arc]>>]
  ELSE IF at = Last(Front(m.samples)).at
  THEN [samples |-> Front(m.samples), points |-> 1]
  ELSE [m EXCEPT !.samples = Append(Front(@), Following(Front(@), robot, at))]

\* normalize_memory drops what is older than the required history.
Normalized(m) ==
  LET h == m.samples
      keep == {i \in DOMAIN h : i = Len(h) \/ h[i + 1].arc > Last(h).arc - History}
  IN [m EXCEPT !.samples = SubSeq(h, Min(keep), Len(h))]

Complete(m) == m.points = 2 /\ Last(m.samples).arc - Head(m.samples).arc >= History

-----------------------------------------------------------------------------
(* Updates                                                                 *)

LoseState ==
  /\ cable' = NoState /\ cableStatus' = "state_lost"
  /\ lastRobot' = NoState /\ lastObserved' = NoState
  /\ taskStart' = FALSE /\ taken' = {}
  /\ UNCHANGED <<watermarks, nextState>>

Report(status) ==
  /\ cableStatus' = status
  /\ UNCHANGED <<cable, lastRobot, lastObserved, watermarks, nextState, taskStart, taken>>

Continues(segment) == lastRobot = NoState \/ lastRobot = segment.from

Outdated(segment, telemetry, observation) ==
  \/ segment.seq <= watermarks.segment
  \/ telemetry <= watermarks.telemetry
  \/ observation # NoState /\ observation.seq <= watermarks.observation

\* The observation is missing for too long.
Interrupted(segment, observation) ==
  observation = NoState /\ lastObserved # NoState /\ segment.to - lastObserved > MaxGap

\* What follows once the new history is known.
Adopt(memory, segment, telemetry, observation) ==
  LET state == [memory |-> Normalized(memory), time |-> segment.to, seq |-> nextState]
      start == taskStart /\ ~Complete(state.memory)
  IN /\ cable' = state
     /\ nextState' = nextState + 1
     /\ taskStart' = start
     /\ taken' = taken \cup {segment.seq}
     /\ cableStatus' = IF Interrupted(segment, observation) THEN "observation_interrupted"
                       ELSE IF start \/ Complete(state.memory) THEN "tracked"
                       ELSE "initial_state_uncertain"
     /\ lastRobot' = segment.to
     /\ watermarks' = [segment |-> segment.seq, telemetry |-> telemetry,
                       observation |-> IF observation = NoState THEN watermarks.observation ELSE observation.seq]
     /\ lastObserved' = IF observation = NoState THEN lastObserved ELSE segment.to

\* update, of evidence that is well formed and synchronized (sound) or not.
Update(segment, telemetry, observation, sound) ==
  /\ nextState <= MaxStates
  /\ UNCHANGED <<driven, segments>>
  /\ LET refused == ~sound \/ Outdated(segment, telemetry, observation)
         residual == IF observation = NoState THEN 0 ELSE observation.residual
         far == Magnitude(residual) > MaxResidual
     IN \/ refused /\ Report("input_invalid")
        \/ ~refused /\ ~Continues(segment) /\ LoseState
        \/ /\ ~refused /\ Continues(segment) /\ cable = NoState
           /\ \/ (observation = NoState \/ far) /\ Report("initial_state_uncertain")
              \/ observation # NoState /\ ~far /\ Adopt(Initial(segment, residual), segment, telemetry, observation)
        \/ /\ ~refused /\ Continues(segment) /\ cable # NoState
           /\ \/ far /\ LoseState
              \/ ~far /\ Adopt(IF observation = NoState THEN Propagated(cable.memory, segment)
                               ELSE Corrected(Propagated(cable.memory, segment), segment.to, residual),
                               segment, telemetry, observation)

BeginNewTask ==
  /\ cable' = NoState /\ cableStatus' = "initial_state_uncertain"
  /\ lastRobot' = NoState /\ lastObserved' = NoState
  /\ taskStart' = TRUE /\ taken' = {}
  /\ UNCHANGED <<driven, segments, watermarks, nextState>>

MarkStateLost == LoseState /\ UNCHANGED <<driven, segments>>

\* Telemetry and observations carry the number of the segment they belong to.
Observed(segment) == {NoState} \cup {[seq |-> segment.seq, residual |-> r] : r \in Residuals}

CableNext ==
  \/ \E n \in 1..2 : Drive(n)
  \/ \E segment \in segments, sound \in BOOLEAN : \E o \in Observed(segment) :
       Update(segment, segment.seq, o, sound)
  \/ BeginNewTask
  \/ MarkStateLost

CableSpec == CableInit /\ [][CableNext]_trackingVars

-----------------------------------------------------------------------------

CableTypeOK ==
  /\ driven \in 0..MaxDriven
  /\ cable # NoState => /\ cable.seq \in 1..nextState - 1 /\ cable.time <= driven
                        /\ cable.memory.samples # <<>>
  /\ lastRobot \in 0..driven \cup {NoState} /\ nextState \in 1..MaxStates + 1

(* What planning may use: a tracked state belongs to the last segment        *)
(* accepted, an observation vouches for it, and its history has no hole:    *)
(* whatever was lost, repeated or late, every segment the robot drove since  *)
(* the first sample was taken into it, and between two samples lies as much  *)
(* cable as they are apart, however often the last one was corrected.  And  *)
(* it is long enough, unless the task has just begun                        *)
(* (cable_state_tracker.cpp:418, 498, 527).                                 *)
TrackedHistoryIsReal ==
  cableStatus = "tracked" =>
    /\ cable # NoState /\ cable.time = lastRobot
    /\ lastObserved # NoState /\ cable.time - lastObserved <= MaxGap
    /\ taskStart \/ Complete(cable.memory)
    /\ LET h == cable.memory.samples IN
       /\ \A i \in 1..Len(h) - 1 : /\ h[i].at # h[i + 1].at
                                 /\ h[i + 1].arc - h[i].arc = Magnitude(h[i + 1].at - h[i].at)
       /\ \A s \in segments : Head(h).robot <= s.from /\ s.to <= cable.time => s.seq \in taken
=============================================================================
