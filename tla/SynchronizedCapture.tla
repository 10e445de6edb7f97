------------------------- MODULE SynchronizedCapture -------------------------
(***************************************************************************)
(* SynchronizedValidationInputCapturer (synchronized_validation_inputs.cpp)*)
(* over a source that keeps changing.  Under its own lock the source       *)
(* advances the trackers by one evidence batch and freezes a frame; the    *)
(* capturer then asks for the source's revision again, tests the frame and *)
(* compares it with the last frame that passed.                            *)
(*                                                                         *)
(* Abstracted: sensor values, and the versions of models and policies: a   *)
(* frame may be refused for them at any time.                              *)
(***************************************************************************)
EXTENDS PlanningSnapshots

CONSTANTS
  Sensors,      \* robot state, cable telemetry, execution tracking
  MaxAge,       \* MaxAge[i]: the age limit of a sensor
  TrackerAge,   \* the age limit of the two tracker outputs
  Tolerance,    \* synchronization_tolerance
  MaxSeq,       \* bound on the numbers of a sensor
  MaxRevision   \* bound on the revisions of the source

ASSUME CaptureAssumption ==
  /\ MaxAge \in [Sensors -> Nat]
  /\ {TrackerAge, Tolerance, MaxSeq} \subseteq Nat /\ MaxRevision \in Nat \ {0}
  /\ "reference_line" \in Parts

VARIABLES
  revision,     \* revision of the source
  sensor,       \* last sample of every sensor in the source
  trackers,     \* batch and time of the tracker outputs, and the line they follow
  frame,        \* the frame a running capture holds, or None
  last,         \* last_successful_sequences_
  touchdowns,   \* history: touchdown observations used by successful captures
  validated     \* history: per map id, the newest map a capture was made with

sourceVars == <<revision, sensor, trackers>>
captureVars == <<frame, last, touchdowns, validated>>
vars == <<clock, snapshotVars, sourceVars, captureVars>>

Samples == [seq : 1..MaxSeq, at : Times]
Touchdowns == 1..MaxSeq
Versions == 0..MaxVersion
TrackerOutputs == [batch : 0..MaxRevision, at : Times, line : Versions]
Marks == [revision : 1..MaxRevision, seq : [Sensors -> 1..MaxSeq], batch : 1..MaxRevision,
          map : 1..MaxMapSeq, touchdown : Touchdowns \cup {None}]

ASSUME NoMarksAssumption == None \notin Marks

Init ==
  /\ SnapshotInit
  /\ revision = 1
  /\ sensor = [i \in Sensors |-> None]
  /\ trackers = [batch |-> 0, at |-> 0, line |-> 0]
  /\ frame = None
  /\ last = None
  /\ touchdowns = {}
  /\ validated = [m \in MapIds |-> 0]

-----------------------------------------------------------------------------
(* Faults the runs must notice                                             *)

NothingKept(marks) == marks

MapMayRegress(marks) ==
  \/ marks.revision < last.revision
  \/ \E i \in Sensors : marks.seq[i] < last.seq[i]
  \/ marks.batch < last.batch
  \/ marks.touchdown # None /\ last.touchdown # None /\ marks.touchdown < last.touchdown

-----------------------------------------------------------------------------
(* The source                                                              *)

Changed == revision < MaxRevision /\ revision' = revision + 1

\* A sensor delivers a sample; after a restart it counts from one again.
Arrive(i) ==
  /\ Changed
  /\ \E seq \in {1} \cup {sensor[i].seq + 1 : j \in {j \in {i} : sensor[j] # None}} :
       /\ seq <= MaxSeq
       /\ sensor' = [sensor EXCEPT ![i] = [seq |-> seq, at |-> clock]]
  /\ UNCHANGED <<clock, snapshotVars, trackers, captureVars>>

\* An adapter passes a snapshot to the manager.
InstallSnapshot ==
  /\ Changed
  /\ \E s \in Snapshots : Update(s)
  /\ UNCHANGED <<clock, sensor, trackers, captureVars>>

Tick ==
  /\ clock < MaxTime
  /\ clock' = clock + 1
  /\ UNCHANGED <<snapshotVars, sourceVars, captureVars>>

-----------------------------------------------------------------------------
(* capture                                                                 *)

\* advance_trackers_and_capture_frame: under the lock of the source.  The trackers
\* follow the line they were given; a batch may hold a touchdown observation.
Freeze ==
  /\ frame = None
  /\ latest # None
  /\ Changed
  /\ \E line \in {trackers.line, latest.version["reference_line"]},
        touchdown \in Touchdowns \cup {None} :
       LET output == [batch |-> trackers.batch + 1, at |-> clock, line |-> line]
       IN  /\ trackers' = output
           /\ frame' = [revision |-> revision + 1, sensor |-> sensor, trackers |-> output,
                        touchdown |-> touchdown, snapshot |-> latest]
  /\ UNCHANGED <<clock, snapshotVars, sensor, last, touchdowns, validated>>

Complete == \A i \in Sensors : frame.sensor[i] # None

Unchanged == frame.revision = revision

\* Every input is young enough now, and they are close to each other.
Fresh ==
  /\ \A i \in Sensors : clock - frame.sensor[i].at <= MaxAge[i]
  /\ clock - frame.trackers.at <= TrackerAge
  /\ clock - frame.snapshot.map.at <= MapAge

Synchronized ==
  LET times == {frame.sensor[i].at : i \in Sensors} \cup {frame.trackers.at}
  IN  \A t, u \in times : t - u <= Tolerance

\* The progress follows the reference line of the snapshot.
Bound == frame.trackers.line = frame.snapshot.version["reference_line"]

\* The numbers of the frame, as they are compared and kept.
MarksOf ==
  [revision |-> frame.revision, seq |-> [i \in Sensors |-> frame.sensor[i].seq],
   batch |-> frame.trackers.batch, map |-> frame.snapshot.map.seq,
   touchdown |-> frame.touchdown]

\* The map number is compared whatever the map id.
Regressed(marks) ==
  \/ marks.revision < last.revision
  \/ \E i \in Sensors : marks.seq[i] < last.seq[i]
  \/ marks.batch < last.batch
  \/ marks.map < last.map
  \/ marks.touchdown # None /\ last.touchdown # None /\ marks.touchdown < last.touchdown

\* A frame without touchdown keeps the last one observed.
KeepTouchdown(marks) ==
  IF marks.touchdown = None /\ last # None
  THEN [marks EXCEPT !.touchdown = last.touchdown] ELSE marks

Capture ==
  /\ frame # None
  /\ Unchanged
  /\ Complete
  /\ Fresh /\ Synchronized /\ Bound
  /\ last # None => ~Regressed(MarksOf)
  /\ last' = KeepTouchdown(MarksOf)
  /\ frame' = None
  /\ touchdowns' = IF frame.touchdown = None THEN touchdowns
                   ELSE touchdowns \cup {[number |-> frame.touchdown, batch |-> frame.trackers.batch]}
  /\ validated' = [validated EXCEPT ![frame.snapshot.map.id] = frame.snapshot.map.seq]
  /\ UNCHANGED <<clock, snapshotVars, sourceVars>>

\* Any other frame is validation_context_invalid and leaves nothing behind; so may a
\* frame be for what is left out here.
Refuse ==
  /\ frame # None
  /\ frame' = None
  /\ UNCHANGED <<clock, snapshotVars, sourceVars, last, touchdowns, validated>>

Next ==
  \/ Tick
  \/ InstallSnapshot
  \/ \E i \in Sensors : Arrive(i)
  \/ Freeze \/ Capture \/ Refuse

Spec == Init /\ [][Next]_vars

-----------------------------------------------------------------------------
(* Properties                                                              *)

\* Every variable stays in its domain.
CaptureTypeOK ==
  /\ clock \in Times
  /\ latest \in Snapshots \cup {None}
  /\ revision \in 1..MaxRevision
  /\ \A i \in Sensors : sensor[i] \in Samples \cup {None}
  /\ trackers \in TrackerOutputs
  /\ last \in Marks \cup {None}
  /\ validated \in [MapIds -> 0..MaxMapSeq]

\* Touchdown evidence never goes back, however many captures without any lie in
\* between.
TouchdownsInOrder ==
  \A a, b \in touchdowns : a.batch < b.batch => a.number <= b.number

\* What validation runs on never goes back: neither the map within a map id, although
\* the manager forgets an id as soon as another one is installed and then takes an
\* older map of the first, nor the touchdown evidence.
ValidatedInputsNeverRegress ==
  [][/\ \A m \in MapIds : validated'[m] >= validated[m]
     /\ TouchdownsInOrder']_<<validated, touchdowns>>
=============================================================================
