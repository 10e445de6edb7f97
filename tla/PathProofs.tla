----------------------------- MODULE PathProofs ------------------------------
(***************************************************************************)
(* What holds along a path: the path the search finds, the smoothed curve  *)
(* of the plan, the cable behind the robot, how far it has been laid, and  *)
(* the change from one path to another.                                    *)
(***************************************************************************)
EXTENDS HybridSearch, PathSmoothing, CableTracking, ReferenceProgress,
        PathSwitching, Induction

-----------------------------------------------------------------------------
(***************************************************************************)
(* The path smoother, for every set of curves and every number of          *)
(* iterations. The audit makes what it hands out feasible; that it is no   *)
(* worse than the first curve at the goal needs an invariant of the loop,  *)
(* which the audit does not look at.                                       *)
(***************************************************************************)

\* The solver has a curve from its seed on, and answers once.
HasCurve ==
  /\ run.phase \in {"solving", "improving", "solved"} => run.curve \in Curves
  /\ run.phase # "done" => smoothed = [status |-> "pending", path |-> NoCurve]

\* Before it improves, it has not reached the goal; while it improves, it has.
FirstAtGoal ==
  /\ run.phase \in {"asked", "solving"} => run.first = NoCurve
  /\ run.phase = "improving" => run.first # NoCurve /\ AtGoal(run.curve)

\* Improving only lowers the objective, and keeps to the goal and the tube.
NoWorse ==
  run.first # NoCurve =>
    /\ run.curve \in Curves
    /\ run.curve.objective <= run.first.objective
    /\ run.curve # run.first => AtGoal(run.curve) /\ run.curve.tube

\* Only the last curve is handed out, after its audit.
Audited ==
  /\ smoothed.status = "success" <=> smoothed.path # NoCurve
  /\ smoothed.path # NoCurve =>
       smoothed.path = run.curve /\ Trackability(run.curve) = "success"

\* What smooth answers without the audit, and with it.
Refusals == SmoothingRefusals \cup SolverFailures
Statuses == Refusals \cup {"pending", "success", "constraint_residual_exceeded",
                          "trackability_validation_failed"}

RunTyped ==
  /\ run \in [phase : {"asked", "solving", "improving", "solved", "done"},
              curve : Curves \cup {NoCurve}, count : 0..(MaxNewton + MaxImprovements),
              first : Curves \cup {NoCurve}]
  /\ smoothed \in [status : Statuses, path : Curves \cup {NoCurve}]

SmoothingInv == RunTyped /\ HasCurve /\ FirstAtGoal /\ NoWorse /\ Audited

-----------------------------------------------------------------------------
\* An answer without a path ends the run and disturbs nothing of its history.
LEMMA AnswerKeeps ==
  ASSUME SmoothingInv, NEW status \in Refusals, run.phase # "done", Answer(status)
  PROVE  SmoothingInv'
<1>1. /\ run' = [run EXCEPT !.phase = "done"]
      /\ smoothed' = [status |-> status, path |-> NoCurve]
      BY DEF Answer
<1> status \in Statuses /\ status # "success"
    BY DEF Statuses, Refusals, SmoothingRefusals, SolverFailures
<1>2. /\ run'.phase = "done" /\ run'.curve = run.curve /\ run'.first = run.first
      /\ run'.count = run.count /\ smoothed'.status = status /\ smoothed'.path = NoCurve
      BY <1>1 DEF SmoothingInv, RunTyped
<1>3. RunTyped'
      BY <1>1 DEF SmoothingInv, RunTyped
<1>4. HasCurve' /\ FirstAtGoal'
      BY <1>2 DEF HasCurve, FirstAtGoal
<1>5. NoWorse'
      BY <1>2 DEF SmoothingInv, NoWorse, AtGoal
<1>6. Audited'
      BY <1>2 DEF Audited
<1>7. QED
      BY <1>3, <1>4, <1>5, <1>6 DEF SmoothingInv

\* While the solver runs there is no answer yet.
LEMMA StillPending ==
  ASSUME SmoothingInv, run.phase # "done", UNCHANGED smoothed,
         run' \in [phase : {"solving", "improving", "solved"}, curve : Curves,
                   count : 0..(MaxNewton + MaxImprovements), first : Curves \cup {NoCurve}],
         FirstAtGoal', NoWorse'
  PROVE  SmoothingInv'
<1>1. smoothed = [status |-> "pending", path |-> NoCurve]
      BY DEF SmoothingInv, HasCurve
<1>2. RunTyped' /\ HasCurve'
      BY <1>1 DEF SmoothingInv, RunTyped, HasCurve
<1>3. Audited'
      BY <1>1 DEF Audited
<1>4. QED
      BY <1>2, <1>3 DEF SmoothingInv

LEMMA SmoothingStarts == SmoothingInit => SmoothingInv
BY SmoothingAssumption
   DEF SmoothingAssumption, SmoothingInit, Statuses, SmoothingInv, RunTyped, HasCurve, FirstAtGoal, NoWorse, Audited

LEMMA StepKeeps == SmoothingInv /\ [SmoothingNext]_smoothingVars => SmoothingInv'
<1> SUFFICES ASSUME SmoothingInv, [SmoothingNext]_smoothingVars PROVE SmoothingInv'
    OBVIOUS
<1> USE SmoothingAssumption DEF SmoothingAssumption
<1>1. CASE RefuseSmoothing
  <2>1. PICK status \in Refusals : Answer(status)
        BY <1>1 DEF Refusals, RefuseSmoothing
  <2>2. run.phase # "done"
        BY <1>1 DEF RefuseSmoothing, SmoothingRefusals
  <2>3. QED
        BY <2>1, <2>2, AnswerKeeps
<1>2. CASE PassDeadline
      BY <1>2 DEF PassDeadline, SmoothingInv, RunTyped, HasCurve, FirstAtGoal, NoWorse, Audited, AtGoal,
                  Trackability
<1>3. CASE Seed
  <2>1. PICK c \in Curves : run' = [run EXCEPT !.phase = "solving", !.curve = c]
        BY <1>3 DEF Seed
  <2>2. run.phase = "asked" /\ UNCHANGED smoothed /\ run.first = NoCurve
        BY <1>3 DEF Seed, SmoothingInv, FirstAtGoal
  <2>3. /\ run' \in [phase : {"solving", "improving", "solved"}, curve : Curves,
                   count : 0..(MaxNewton + MaxImprovements), first : Curves \cup {NoCurve}]
        /\ run'.first = NoCurve /\ run'.phase = "solving"
        BY <2>1, <2>2 DEF SmoothingInv, RunTyped
  <2>4. QED
        BY <2>2, <2>3, StillPending DEF FirstAtGoal, NoWorse
<1>4. CASE ComeCloser
  <2>1. PICK c \in Curves : run' = [run EXCEPT !.curve = c, !.count = @ + 1]
        BY <1>4 DEF ComeCloser
  <2>2. /\ run.phase = "solving" /\ UNCHANGED smoothed /\ run.first = NoCurve
        /\ run.count < MaxNewton
        BY <1>4 DEF ComeCloser, GoalMissed, SmoothingInv, FirstAtGoal
  <2>3. run.count + 1 \in 0..(MaxNewton + MaxImprovements)
        BY <2>2 DEF SmoothingInv, RunTyped
  <2>4. /\ run' \in [phase : {"solving", "improving", "solved"}, curve : Curves,
                   count : 0..(MaxNewton + MaxImprovements), first : Curves \cup {NoCurve}]
        /\ run'.first = NoCurve /\ run'.phase = "solving"
        BY <2>1, <2>2, <2>3 DEF SmoothingInv, RunTyped
  <2>5. QED
        BY <2>2, <2>4, StillPending DEF FirstAtGoal, NoWorse
<1>5. CASE GiveUp
  <2>1. PICK status \in Refusals : Answer(status)
        BY <1>5 DEF Refusals, SolverFailures, GiveUp, GoalMissed
  <2>2. run.phase # "done"
        BY <1>5 DEF GiveUp, GoalMissed
  <2>3. QED
        BY <2>1, <2>2, AnswerKeeps
<1>6. CASE TimeOut
  <2>1. PICK status \in Refusals : Answer(status)
        BY <1>6 DEF Refusals, SolverFailures, TimeOut, GoalMissed
  <2>2. run.phase # "done"
        BY <1>6 DEF TimeOut, GoalMissed
  <2>3. QED
        BY <2>1, <2>2, AnswerKeeps
<1>7. CASE BeginImproving
  <2>1. /\ run' = [run EXCEPT !.phase = "improving", !.count = 0, !.first = run.curve]
        /\ run.phase = "solving" /\ UNCHANGED smoothed /\ AtGoal(run.curve)
        BY <1>7 DEF BeginImproving
  <2>2. run.curve \in Curves /\ run.curve.objective \in Int
        BY <2>1 DEF SmoothingInv, HasCurve
  <2>3. 0 \in 0..(MaxNewton + MaxImprovements)
        OBVIOUS
  <2>4. /\ run' \in [phase : {"solving", "improving", "solved"}, curve : Curves,
                   count : 0..(MaxNewton + MaxImprovements), first : Curves \cup {NoCurve}]
        /\ run'.first = run.curve /\ run'.curve = run.curve /\ run'.phase = "improving"
        BY <2>1, <2>2, <2>3 DEF SmoothingInv, RunTyped
  <2>5. FirstAtGoal'
        BY <2>1, <2>2, <2>4 DEF FirstAtGoal, AtGoal
  <2>6. NoWorse'
        BY <2>2, <2>4 DEF NoWorse
  <2>7. QED
        BY <2>1, <2>4, <2>5, <2>6, StillPending
<1>8. CASE Improve
  <2>1. PICK c \in Curves : Better(c) /\ run' = [run EXCEPT !.curve = c, !.count = @ + 1]
        BY <1>8 DEF Improve
  <2>2. /\ run.phase = "improving" /\ UNCHANGED smoothed /\ run.count < MaxImprovements
        /\ run.first \in Curves /\ run.curve \in Curves
        /\ run.curve.objective <= run.first.objective
        BY <1>8 DEF Improve, SmoothingInv, RunTyped, FirstAtGoal, NoWorse
  <2>3. run.count + 1 \in 0..(MaxNewton + MaxImprovements)
        BY <2>2 DEF SmoothingInv, RunTyped
  <2>4. /\ run' \in [phase : {"solving", "improving", "solved"}, curve : Curves,
                   count : 0..(MaxNewton + MaxImprovements), first : Curves \cup {NoCurve}]
        /\ run'.first = run.first /\ run'.curve = c /\ run'.phase = "improving"
        BY <2>1, <2>2, <2>3 DEF SmoothingInv, RunTyped
  <2>5. c.objective <= run.first.objective
        BY <2>1, <2>2 DEF Better
  <2>6. FirstAtGoal' /\ NoWorse'
        BY <2>1, <2>2, <2>4, <2>5 DEF FirstAtGoal, NoWorse, Better, AtGoal
  <2>7. QED
        BY <2>2, <2>4, <2>6, StillPending
<1>9. CASE Converge
  <2>1. /\ run' = [run EXCEPT !.phase = "solved"]
        /\ run.phase = "improving" /\ UNCHANGED smoothed
        BY <1>9 DEF Converge
  <2>2. /\ run' \in [phase : {"solving", "improving", "solved"}, curve : Curves,
                   count : 0..(MaxNewton + MaxImprovements), first : Curves \cup {NoCurve}]
        /\ run'.first = run.first /\ run'.curve = run.curve /\ run'.phase = "solved"
        BY <2>1 DEF SmoothingInv, RunTyped, HasCurve
  <2>3. FirstAtGoal' /\ NoWorse'
        BY <2>1, <2>2 DEF SmoothingInv, FirstAtGoal, NoWorse, AtGoal
  <2>4. QED
        BY <2>1, <2>2, <2>3, StillPending
<1>10. CASE Exhaust
  <2>1. PICK status \in Refusals : Answer(status)
        BY <1>10 DEF Refusals, SolverFailures, Exhaust
  <2>2. run.phase # "done"
        BY <1>10 DEF Exhaust
  <2>3. QED
        BY <2>1, <2>2, AnswerKeeps
<1>11. CASE OtherSolver
  <2>1. CASE \E c \in Curves :
               run' = [run EXCEPT !.phase = "solved", !.curve = c] /\ UNCHANGED smoothed
    <3>1. PICK c \in Curves : run' = [run EXCEPT !.phase = "solved", !.curve = c]
          BY <2>1
    <3>2. run.phase = "asked" /\ UNCHANGED smoothed /\ run.first = NoCurve
          BY <1>11, <2>1 DEF OtherSolver, SmoothingInv, FirstAtGoal
    <3>3. /\ run' \in [phase : {"solving", "improving", "solved"}, curve : Curves,
                     count : 0..(MaxNewton + MaxImprovements), first : Curves \cup {NoCurve}]
          /\ run'.first = NoCurve /\ run'.phase = "solved"
          BY <3>1, <3>2 DEF SmoothingInv, RunTyped
    <3>4. QED
          BY <3>2, <3>3, StillPending DEF FirstAtGoal, NoWorse
  <2>2. CASE \E status \in SolverFailures \cup {"unknown"} :
               Answer(IF status \in SolverFailures THEN status ELSE "solver_failed")
    <3>1. PICK status \in Refusals : Answer(status)
          BY <2>2 DEF Refusals, SolverFailures
    <3>2. QED
          BY <1>11, <3>1, AnswerKeeps DEF OtherSolver
  <2>3. QED
        BY <1>11, <2>1, <2>2 DEF OtherSolver
<1>12. CASE AuditCurve
  <2> DEFINE status == Trackability(run.curve)
  <2>1. /\ smoothed' = [status |-> status,
                        path |-> IF status = "success" THEN run.curve ELSE NoCurve]
        /\ run' = [run EXCEPT !.phase = "done"]
        /\ run.phase = "solved"
        BY <1>12 DEF AuditCurve
  <2>2. status \in Statuses /\ run.curve \in Curves
        BY <2>1 DEF Statuses, Trackability, SmoothingInv, HasCurve
  <2>3. /\ run'.phase = "done" /\ run'.curve = run.curve /\ run'.first = run.first
        /\ smoothed'.status = status
        /\ smoothed'.path = IF status = "success" THEN run.curve ELSE NoCurve
        BY <2>1 DEF SmoothingInv, RunTyped
  <2>4. RunTyped'
        BY <2>1, <2>2 DEF SmoothingInv, RunTyped
  <2>5. HasCurve' /\ FirstAtGoal' /\ NoWorse'
        BY <2>3 DEF SmoothingInv, HasCurve, FirstAtGoal, NoWorse, AtGoal
  <2>6. Audited'
        BY <2>2, <2>3 DEF Audited, Trackability, AtGoal
  <2>7. QED
        BY <2>4, <2>5, <2>6 DEF SmoothingInv
<1>13. CASE UNCHANGED smoothingVars
      BY <1>13 DEF smoothingVars, SmoothingInv, RunTyped, HasCurve, FirstAtGoal, NoWorse, Audited, AtGoal,
                   Trackability
<1>14. QED
      BY <1>1, <1>2, <1>3, <1>4, <1>5, <1>6, <1>7, <1>8, <1>9, <1>10, <1>11, <1>12, <1>13
         DEF SmoothingNext

LEMMA SmoothingInvariance == SmoothingSpec => []SmoothingInv
BY SmoothingStarts, StepKeeps, PTL DEF SmoothingSpec

-----------------------------------------------------------------------------
\* Every variable of the smoother stays in its domain.
THEOREM SmoothingTyped == SmoothingSpec => []SmoothingTypeOK
<1>1. SmoothingInv => SmoothingTypeOK
      BY DEF SmoothingInv, RunTyped, SmoothingTypeOK
<1>2. QED
      BY <1>1, SmoothingInvariance, PTL

\* What smooth hands out ends at the goal, lies in the tube, keeps the limits, and is
\* no worse than the first curve that reached the goal, whatever the solver found on
\* its way and whenever the deadline passed.
THEOREM SmoothedPathsAreSound == SmoothingSpec => []SmoothedPathSound
<1>1. ASSUME SmoothingInv PROVE SmoothedPathSound
  <2>1. smoothed.path # NoCurve =>
          /\ smoothed.path = run.curve
          /\ AtGoal(run.curve) /\ run.curve.tube /\ run.curve.residuals
        BY <1>1 DEF SmoothingInv, Audited, Trackability
  <2>2. QED
        BY <1>1, <2>1 DEF SmoothingInv, Audited, NoWorse, SmoothedPathSound, AtGoal
<1>2. QED
      BY <1>1, SmoothingInvariance, PTL

-----------------------------------------------------------------------------
(***************************************************************************)
(* The cable tracker, for every road, required history, residuals and gap. *)
(* A state has no hole because a segment that is not in it was over before *)
(* its first sample; what a segment carries into the history is followed   *)
(* by induction along the segment.                                         *)
(***************************************************************************)

\* A history taken later than an arc length, with as much cable between two samples as
\* they are apart.
Sound(m) ==
  \A i \in 1..Len(m.samples) - 1 :
    /\ m.samples[i].at # m.samples[i + 1].at
    /\ m.samples[i + 1].arc - m.samples[i].arc = Magnitude(m.samples[i + 1].at - m.samples[i].at)

Since(arc) == {m \in Memories : Sound(m) /\ \A i \in DOMAIN m.samples : m.samples[i].robot > arc}

LEMMA SeqIs ==
  ASSUME NEW S, NEW q \in Seq(S)
  PROVE  Len(q) \in Nat /\ DOMAIN q = 1..Len(q) /\ \A i \in 1..Len(q) : q[i] \in S
OBVIOUS

LEMMA AppendTo ==
  ASSUME NEW S, NEW q \in Seq(S), NEW e \in S
  PROVE  /\ Append(q, e) \in Seq(S) /\ Append(q, e) # <<>>
         /\ Len(Append(q, e)) = Len(q) + 1 /\ Append(q, e)[Len(q) + 1] = e
         /\ \A i \in 1..Len(q) : Append(q, e)[i] = q[i]
OBVIOUS

LEMMA PartIs ==
  ASSUME NEW S, NEW q \in Seq(S), NEW a \in 1..Len(q), NEW b \in a..Len(q)
  PROVE  /\ SubSeq(q, a, b) \in Seq(S) /\ Len(SubSeq(q, a, b)) = b - a + 1
         /\ \A i \in 1..b - a + 1 : SubSeq(q, a, b)[i] = q[a + i - 1]
OBVIOUS

LEMMA FrontIs ==
  ASSUME NEW S, NEW q \in Seq(S), Len(q) > 1
  PROVE  /\ Front(q) \in Seq(S) /\ Len(Front(q)) = Len(q) - 1 /\ Front(q) # <<>>
         /\ \A i \in 1..Len(q) - 1 : Front(q)[i] = q[i]
         /\ Last(Front(q)) = q[Len(q) - 1]
<1>1. Len(q) \in Nat /\ 1 \in 1..Len(q) /\ Len(q) - 1 \in 1..Len(q)
      OBVIOUS
<1>2. Front(q) = SubSeq(q, 1, Len(q) - 1)
      BY DEF Front
<1>3. /\ Front(q) \in Seq(S) /\ Len(Front(q)) = Len(q) - 1
      /\ \A i \in 1..Len(q) - 1 : Front(q)[i] = q[i]
      BY <1>1, <1>2, PartIs
<1>4. Last(Front(q)) = q[Len(q) - 1]
      BY <1>1, <1>3 DEF Last
<1>5. QED
      BY <1>1, <1>3, <1>4

LEMMA MemoryIs ==
  ASSUME NEW m \in Memories
  PROVE  /\ m = [samples |-> m.samples, points |-> m.points]
         /\ m.samples \in Seq(TouchdownSamples) /\ m.points \in 0..2
BY DEF Memories

LEMMA Resampled ==
  ASSUME NEW m \in Memories, NEW q
  PROVE  [m EXCEPT !.samples = q] = [samples |-> q, points |-> m.points]
BY DEF Memories

\* The touchdown that is added.
LEMMA AppendSample ==
  ASSUME NEW arc \in Int, NEW samples \in Seq(TouchdownSamples), NEW points \in 0..2,
         Sound([samples |-> samples, points |-> points]),
         \A i \in DOMAIN samples : samples[i].robot > arc,
         NEW robot \in Nat, robot > arc, NEW at \in Int, samples # <<>> => at # Last(samples).at
  PROVE  /\ [samples |-> Append(samples, Following(samples, robot, at)), points |-> points] \in Since(arc)
         /\ Append(samples, Following(samples, robot, at)) # <<>>
<1> DEFINE e == Following(samples, robot, at)
           h == Append(samples, e)
           n == Len(samples)
           m == [samples |-> h, points |-> points]
<1>1. n \in Nat /\ DOMAIN samples = 1..n /\ \A i \in 1..n : samples[i] \in TouchdownSamples
      BY SeqIs
<1>2. \A i \in 1..n : samples[i].robot \in Nat /\ samples[i].at \in Int /\ samples[i].arc \in Nat
      BY <1>1 DEF TouchdownSamples
<1>3. /\ e \in TouchdownSamples /\ e.robot = robot /\ e.at = at
      /\ n > 0 => e.arc = samples[n].arc + Magnitude(at - samples[n].at)
  <2>1. CASE samples = <<>>
        BY <2>1 DEF Following, TouchdownSamples
  <2>2. CASE samples # <<>>
    <3>1. n \in 1..n /\ Last(samples) = samples[n]
          BY <1>1, <2>2 DEF Last
    <3>2. samples[n].arc \in Nat /\ Magnitude(at - samples[n].at) \in Nat
          BY <1>2, <3>1 DEF Magnitude
    <3>3. samples[n].arc + Magnitude(at - samples[n].at) \in Nat
          BY <3>2
    <3>4. QED
          BY <2>2, <3>1, <3>3 DEF Following, TouchdownSamples
  <2>3. QED
        BY <2>1, <2>2
<1>4. n > 0 => at # samples[n].at
      BY <1>1 DEF Last
<1> HIDE DEF e
<1>5. /\ h \in Seq(TouchdownSamples) /\ h # <<>> /\ Len(h) = n + 1 /\ h[n + 1] = e
      /\ \A i \in 1..n : h[i] = samples[i]
      BY <1>3, AppendTo
<1> HIDE DEF h, n
<1>6. m \in Memories /\ m.samples = h
      BY <1>5 DEF Memories
<1>7. Sound(m)
  <2> SUFFICES ASSUME NEW i \in 1..n
               PROVE  /\ h[i].at # h[i + 1].at
                      /\ h[i + 1].arc - h[i].arc = Magnitude(h[i + 1].at - h[i].at)
      BY <1>1, <1>5, <1>6 DEF Sound
  <2>1. CASE i = n
    <3>1. h[i] = samples[n] /\ h[i + 1] = e /\ n > 0
          BY <1>1, <1>5, <2>1
    <3>2. samples[n].arc \in Nat /\ Magnitude(at - samples[n].at) \in Int
          BY <1>1, <1>2, <2>1 DEF Magnitude
    <3>3. QED
          BY <1>3, <1>4, <3>1, <3>2
  <2>2. CASE i # n
    <3>1. i \in 1..n - 1 /\ i + 1 \in 1..n
          BY <1>1, <2>2
    <3>2. h[i] = samples[i] /\ h[i + 1] = samples[i + 1]
          BY <1>5, <3>1
    <3>3. QED
          BY <3>1, <3>2 DEF Sound, n
  <2>3. QED
        BY <2>1, <2>2
<1>8. \A i \in DOMAIN m.samples : m.samples[i].robot > arc
  <2>1. \A i \in 1..n + 1 : h[i].robot > arc
    <3> TAKE i \in 1..n + 1
    <3>1. CASE i = n + 1
          BY <1>3, <1>5, <3>1
    <3>2. CASE i # n + 1
          BY <1>1, <1>5, <3>2
    <3>3. QED
          BY <3>1, <3>2
  <2>2. DOMAIN h = 1..n + 1
        BY <1>5, SeqIs
  <2>3. QED
        BY <1>6, <2>1, <2>2
<1>9. QED
      BY <1>5, <1>6, <1>7, <1>8 DEF Since, h, e

LEMMA ExtendedKeeps ==
  ASSUME NEW arc \in Int, NEW m \in Since(arc), NEW robot \in Nat, robot > arc, NEW at \in Int
  PROVE  Extended(m, robot, at) \in Since(arc) /\ Extended(m, robot, at).samples # <<>>
<1>1. /\ m \in Memories /\ Sound(m) /\ \A i \in DOMAIN m.samples : m.samples[i].robot > arc
      BY DEF Since
<1>2. CASE m.samples # <<>> /\ at = Last(m.samples).at
      BY <1>2 DEF Extended
<1>3. CASE ~(m.samples # <<>> /\ at = Last(m.samples).at)
  <2> DEFINE points == Min({2, m.points + 1})
  <2>1. m.samples \in Seq(TouchdownSamples) /\ points \in 0..2
    <3>1. m.points \in 0..2
          BY <1>1, MemoryIs
    <3>2. Min({2, m.points + 1}) = IF m.points + 1 < 2 THEN m.points + 1 ELSE 2
      <4> DEFINE b == m.points + 1
      <4>1. b \in Int
            BY <3>1
      <4> HIDE DEF b
      <4>2. \E x \in {2, b} : \A y \in {2, b} : x <= y
            BY <4>1
      <4>3. Min({2, b}) \in {2, b} /\ \A y \in {2, b} : Min({2, b}) <= y
            BY <4>2 DEF Min
      <4>4. Min({2, b}) = IF b < 2 THEN b ELSE 2
            BY <4>1, <4>3
      <4>5. QED
            BY <4>4 DEF b
    <3>3. QED
          BY <1>1, <3>1, <3>2, MemoryIs
  <2>2. Sound([samples |-> m.samples, points |-> points])
        BY <1>1 DEF Sound
  <2>3. Extended(m, robot, at)
          = [samples |-> Append(m.samples, Following(m.samples, robot, at)), points |-> points]
        BY <1>3 DEF Extended
  <2> DEFINE samples == m.samples
  <2>4. /\ samples \in Seq(TouchdownSamples) /\ Sound([samples |-> samples, points |-> points])
        /\ \A i \in DOMAIN samples : samples[i].robot > arc
        /\ samples # <<>> => at # Last(samples).at
        BY <1>1, <1>3, <2>1, <2>2
  <2>5. Extended(m, robot, at)
          = [samples |-> Append(samples, Following(samples, robot, at)), points |-> points]
        BY <2>3
  <2> HIDE DEF points, samples
  <2>6. /\ [samples |-> Append(samples, Following(samples, robot, at)), points |-> points] \in Since(arc)
        /\ Append(samples, Following(samples, robot, at)) # <<>>
        BY <2>1, <2>4, AppendSample
  <2>7. QED
        BY <2>5, <2>6
<1>4. QED
      BY <1>2, <1>3

LEMMA CarriedKeeps ==
  ASSUME NEW arc \in Int, NEW m \in Since(arc), NEW from \in Nat, NEW to \in Nat, arc < from, from <= to
  PROVE  CarriedThrough(m, from, to) \in Since(arc) /\ CarriedThrough(m, from, to).samples # <<>>
<1> DEFINE N == to - from + 1
           F == [e \in Nat \X Since(arc) |->
                   IF e[1] = 0 THEN e[2] ELSE Extended(e[2], from + e[1] - 1, from + e[1] - 1)]
           Step(f) == [n \in 0..N |-> IF n = 0 THEN m ELSE Extended(f[n - 1], from + n - 1, from + n - 1)]
           after == CHOOSE f : f = Step(f)
<1>1. N \in Nat /\ N > 0
      OBVIOUS
<1>2. F \in [Nat \X Since(arc) -> Since(arc)]
  <2> SUFFICES ASSUME NEW n \in Nat, NEW k \in Since(arc), n # 0
               PROVE  Extended(k, from + n - 1, from + n - 1) \in Since(arc)
      OBVIOUS
  <2>1. from + n - 1 \in Nat /\ from + n - 1 \in Int /\ from + n - 1 > arc
        OBVIOUS
  <2>2. QED
        BY <2>1, ExtendedKeeps
<1>3. PICK f \in [0..N -> Since(arc)] : StepsThrough(f, N, m, F)
  <2> HIDE DEF F, N
  <2>1. QED
        BY <1>1, <1>2, RecursionByStep
<1>4. \A n \in 1..N : f[n - 1] \in Since(arc) /\ f[n] = Extended(f[n - 1], from + n - 1, from + n - 1)
  <2> TAKE n \in 1..N
  <2>1. n \in 0..N /\ n - 1 \in 0..N /\ n \in Nat /\ n # 0
        OBVIOUS
  <2>2. f[n] = F[<<n, f[n - 1]>>] /\ f[n - 1] \in Since(arc)
        BY <1>3, <2>1 DEF StepsThrough
  <2>3. F[<<n, f[n - 1]>>] = Extended(f[n - 1], from + n - 1, from + n - 1)
        BY <2>1, <2>2
  <2>4. QED
        BY <2>2, <2>3
<1>5. f[0] = m
  <2>1. 0 \in 0..N
        BY <1>1
  <2>2. QED
        BY <1>3, <2>1 DEF StepsThrough
<1>6. f = Step(f)
  <2>1. \A n \in 0..N : f[n] = IF n = 0 THEN m ELSE Extended(f[n - 1], from + n - 1, from + n - 1)
    <3> TAKE n \in 0..N
    <3>1. n = 0 \/ n \in 1..N
          BY <1>1
    <3>2. QED
          BY <1>4, <1>5, <3>1
  <2>2. QED
        BY <2>1
<1>7. after = Step(after)
      BY <1>6
<1> HIDE DEF after
<1>8. after[0] = m /\ \A n \in 1..N : after[n] = Extended(after[n - 1], from + n - 1, from + n - 1)
  <2>1. 0 \in 0..N /\ \A n \in 1..N : n \in 0..N /\ n # 0
        BY <1>1
  <2>2. QED
        BY <1>7, <2>1
<1> DEFINE P == {n \in Nat : n \in 0..N => after[n] \in Since(arc) /\ (n > 0 => after[n].samples # <<>>)}
<1>9. \A n \in Nat : n \in P
  <2>1. 0 \in P
        BY <1>8
  <2>2. ASSUME NEW n \in Nat, n \in P PROVE n + 1 \in P
    <3>1. SUFFICES ASSUME n + 1 \in 0..N
                   PROVE  after[n + 1] \in Since(arc) /\ after[n + 1].samples # <<>>
          OBVIOUS
    <3>2. n \in 0..N /\ n + 1 \in 1..N /\ (n + 1) - 1 = n /\ from + (n + 1) - 1 = from + n
          BY <3>1
    <3>3. after[n] \in Since(arc)
          BY <2>2, <3>2
    <3>4. from + n \in Nat /\ from + n \in Int /\ from + n > arc
          OBVIOUS
    <3>5. after[n + 1] = Extended(after[n], from + n, from + n)
          BY <1>8, <3>2
    <3>6. QED
          BY <3>3, <3>4, <3>5, ExtendedKeeps
  <2> HIDE DEF P
  <2>3. QED
        BY <2>1, <2>2, NumberInduction
<1>10. CarriedThrough(m, from, to) = after[to - from + 1]
       BY DEF CarriedThrough, after
<1>11. N \in P /\ N \in 0..N
       BY <1>1, <1>9
<1>12. QED
       BY <1>1, <1>10, <1>11

LEMMA CorrectedKeeps ==
  ASSUME NEW arc \in Int, NEW m \in Since(arc), m.samples # <<>>, NEW robot \in Nat, robot > arc,
         NEW residual \in Int
  PROVE  Corrected(m, robot, residual) \in Since(arc) /\ Corrected(m, robot, residual).samples # <<>>
<1> DEFINE h == m.samples
           at == Last(h).at + residual
<1>1. m \in Memories /\ Sound(m) /\ \A i \in DOMAIN h : h[i].robot > arc
      BY DEF Since
<1>2. m = [samples |-> h, points |-> m.points] /\ h \in Seq(TouchdownSamples) /\ m.points \in 0..2
      BY <1>1, MemoryIs
<1>3. Len(h) \in Nat /\ Len(h) > 0 /\ DOMAIN h = 1..Len(h) /\ \A i \in 1..Len(h) : h[i] \in TouchdownSamples
      BY <1>2, SeqIs
<1>4. \A i \in 1..Len(h) : h[i].at \in Int /\ h[i].arc \in Nat
      BY <1>3 DEF TouchdownSamples
<1>5. at \in Int
      BY <1>3, <1>4 DEF Last
<1>6. CASE Len(h) = 1
  <2> DEFINE e == [robot |-> robot, at |-> at, arc |-> h[1].arc]
             new == [samples |-> <<e>>, points |-> m.points]
  <2>1. e \in TouchdownSamples
        BY <1>4, <1>5, <1>6 DEF TouchdownSamples
  <2>2. Corrected(m, robot, residual) = new
        BY <1>2, <1>6 DEF Corrected
  <2> HIDE DEF e
  <2>3. <<e>> \in Seq(TouchdownSamples) /\ Len(<<e>>) = 1 /\ <<e>> # <<>> /\ <<e>>[1] = e
        BY <2>1
  <2>4. new \in Memories /\ new.samples = <<e>>
        BY <1>2, <2>3 DEF Memories
  <2>5. Sound(new)
        BY <2>3, <2>4 DEF Sound
  <2>6. \A i \in DOMAIN <<e>> : <<e>>[i].robot > arc
        BY <2>3 DEF e
  <2>7. QED
        BY <2>2, <2>3, <2>4, <2>5, <2>6 DEF Since
<1>7. CASE Len(h) # 1
  <2> DEFINE k == Front(h)
  <2>1. /\ k \in Seq(TouchdownSamples) /\ Len(k) = Len(h) - 1 /\ k # <<>>
        /\ \A i \in 1..Len(h) - 1 : k[i] = h[i]
    <3>1. Len(h) > 1
      <4>1. \A n \in Nat : n > 0 /\ n # 1 => n > 1
            OBVIOUS
      <4>2. QED
            BY <1>3, <1>7, <4>1
    <3> HIDE DEF h
    <3>2. QED
          BY <1>2, <3>1, FrontIs
  <2>2. ASSUME NEW points \in 0..2
        PROVE  /\ Sound([samples |-> k, points |-> points])
               /\ [samples |-> k, points |-> points] \in Memories
    <3> DEFINE new == [samples |-> k, points |-> points]
    <3>1. new \in Memories /\ new.samples = k
          BY <2>1 DEF Memories
    <3>2. ASSUME NEW i \in 1..Len(k) - 1
          PROVE  /\ k[i].at # k[i + 1].at
                 /\ k[i + 1].arc - k[i].arc = Magnitude(k[i + 1].at - k[i].at)
      <4>1. i \in 1..Len(h) - 1 /\ i + 1 \in 1..Len(h) - 1
            BY <1>3, <2>1
      <4>2. k[i] = h[i] /\ k[i + 1] = h[i + 1]
            BY <2>1, <4>1
      <4>3. QED
            BY <1>1, <4>1, <4>2 DEF Sound
    <3>3. QED
          BY <3>1, <3>2 DEF Sound
  <2>3. \A i \in DOMAIN k : k[i].robot > arc
    <3>1. DOMAIN k = 1..Len(h) - 1 /\ \A i \in 1..Len(h) - 1 : i \in 1..Len(h)
          BY <1>3, <2>1, SeqIs
    <3>2. QED
          BY <1>1, <1>3, <2>1, <3>1
  <2>4. CASE at = Last(k).at
    <3>1. Corrected(m, robot, residual) = [samples |-> k, points |-> 1]
          BY <1>7, <2>4 DEF Corrected
    <3>2. QED
          BY <2>1, <2>2, <2>3, <3>1 DEF Since
  <2>5. CASE at # Last(k).at
    <3> DEFINE points == m.points
    <3>1. Corrected(m, robot, residual) = [samples |-> Append(k, Following(k, robot, at)), points |-> points]
          BY <1>2, <1>7, <2>5 DEF Corrected
    <3>2. points \in 0..2 /\ Sound([samples |-> k, points |-> points])
          BY <1>2, <2>2
    <3> HIDE DEF k, at, points
    <3>3. /\ [samples |-> Append(k, Following(k, robot, at)), points |-> points] \in Since(arc)
          /\ Append(k, Following(k, robot, at)) # <<>>
          BY <1>5, <2>1, <2>3, <2>5, <3>2, AppendSample
    <3>4. QED
          BY <3>1, <3>3
  <2>6. QED
        BY <2>4, <2>5
<1>8. QED
      BY <1>6, <1>7

LEMMA NormalizedKeeps ==
  ASSUME NEW arc \in Int, NEW m \in Since(arc), m.samples # <<>>
  PROVE  Normalized(m) \in Since(arc) /\ Normalized(m).samples # <<>>
<1> DEFINE h == m.samples
           keep == {i \in DOMAIN h : i = Len(h) \/ h[i + 1].arc > Last(h).arc - History}
           a == Min(keep)
           k == SubSeq(h, a, Len(h))
           new == [samples |-> k, points |-> m.points]
<1>1. m \in Memories /\ Sound(m) /\ \A i \in DOMAIN h : h[i].robot > arc
      BY DEF Since
<1>2. m = [samples |-> h, points |-> m.points] /\ h \in Seq(TouchdownSamples) /\ m.points \in 0..2
      BY <1>1, MemoryIs
<1>3. Len(h) \in Nat /\ Len(h) > 0 /\ DOMAIN h = 1..Len(h)
      BY <1>2, SeqIs
<1>4. Normalized(m) = new
  <2>1. Normalized(m) = [m EXCEPT !.samples = k]
        BY DEF Normalized
  <2> HIDE DEF k
  <2>2. QED
        BY <1>1, <2>1, Resampled
<1>5. a \in 1..Len(h)
  <2> DEFINE n == Len(h)
  <2>0. IsFiniteSet(1..n) /\ n \in 1..n
    <3>1. n \in Int /\ n > 0
          BY <1>3
    <3> HIDE DEF n
    <3>2. QED
          BY <3>1, FS_Interval
  <2>1. keep \in SUBSET (1..n) /\ keep # {} /\ IsFiniteSet(1..n)
        BY <1>3, <2>0
  <2>2. IsFiniteSet(keep) /\ keep \in SUBSET Int
        BY <2>1, FS_Subset
  <2> HIDE DEF keep
  <2>3. \E i \in keep : \A j \in keep : i <= j
        BY <2>1, <2>2, SmallestOf
  <2>4. Min(keep) \in keep
        BY <2>3 DEF Min
  <2>5. QED
        BY <2>1, <2>4
<1> HIDE DEF a
<1>6. /\ k \in Seq(TouchdownSamples) /\ Len(k) = Len(h) - a + 1
      /\ \A i \in 1..Len(h) - a + 1 : k[i] = h[a + i - 1]
  <2>1. Len(h) \in a..Len(h)
        BY <1>3, <1>5
  <2>2. QED
        BY <1>2, <1>5, <2>1, PartIs
<1>7. new \in Memories /\ new.samples = k /\ k # <<>>
  <2>1. Len(h) - a + 1 > 0
        BY <1>3, <1>5
  <2> HIDE DEF k
  <2>2. k # <<>>
        BY <1>6, <2>1
  <2>3. QED
        BY <1>2, <1>6, <2>2 DEF Memories
<1> HIDE DEF k
<1>8. Sound(new)
  <2> SUFFICES ASSUME NEW i \in 1..Len(k) - 1
               PROVE  /\ k[i].at # k[i + 1].at
                      /\ k[i + 1].arc - k[i].arc = Magnitude(k[i + 1].at - k[i].at)
      BY <1>7 DEF Sound
  <2> DEFINE j == a + i - 1
  <2> DEFINE n == Len(h)
  <2>1. j \in 1..n - 1 /\ a + (i + 1) - 1 = j + 1 /\ {i, i + 1} \subseteq 1..n - a + 1
    <3>1. n \in Nat /\ a \in 1..n /\ i \in 1..(n - a + 1) - 1
          BY <1>3, <1>5, <1>6
    <3> HIDE DEF n
    <3>2. QED
          BY <3>1
  <2>2. k[i] = h[j] /\ k[i + 1] = h[j + 1]
        BY <1>6, <2>1
  <2> HIDE DEF j
  <2>3. QED
        BY <1>1, <2>1, <2>2 DEF Sound
<1>9. \A i \in DOMAIN k : k[i].robot > arc
  <2>1. DOMAIN k = 1..Len(h) - a + 1 /\ \A i \in 1..Len(h) - a + 1 : a + i - 1 \in 1..Len(h)
        BY <1>3, <1>5, <1>6, SeqIs
  <2>2. QED
        BY <1>1, <1>3, <1>6, <2>1
<1>10. QED
       BY <1>4, <1>7, <1>8, <1>9 DEF Since

-----------------------------------------------------------------------------
\* The road: segments follow one another.
RoadInv ==
  /\ driven \in Nat
  /\ \A s \in segments : s.from \in Nat /\ s.to \in Nat /\ s.from < s.to /\ s.to <= driven
  /\ \A s, t \in segments : s # t => s.to <= t.from \/ t.to <= s.from

\* A state that is there vouches for what lies behind it: a segment that is not in it was over
\* before its first sample.
StateInv ==
  /\ nextState \in Nat /\ cable \in CableStates \cup {NoState}
  /\ cable = NoState => lastRobot = NoState
  /\ cable # NoState =>
       /\ lastRobot = cable.time /\ cable.time <= driven /\ lastObserved \in Nat
       /\ cable.memory \in Since(-1) /\ cable.memory.samples # <<>>
       /\ \A s \in segments : s.to <= cable.time /\ s.seq \notin taken => cable.memory \in Since(s.from)

StatusInv ==
  cableStatus = "tracked" =>
    /\ cable # NoState /\ cable.time - lastObserved <= MaxGap
    /\ taskStart \/ Complete(cable.memory)

TrackInv == RoadInv /\ StateInv /\ StatusInv

\* A history that may be taken for the one up to the end of a segment.
Covers(memory, piece) ==
  /\ memory \in Since(-1) /\ memory.samples # <<>>
  /\ \A s \in segments :
       s.to <= piece.to /\ s.seq \notin taken \cup {piece.seq} => memory \in Since(s.from)

LEMMA TrackStarts ==
  CableInit => TrackInv
BY NoStateAssumption DEF CableInit, TrackInv, RoadInv, StateInv, StatusInv

LEMMA DriveKeeps ==
  ASSUME TrackInv, NEW n \in 1..2, Drive(n)
  PROVE  TrackInv'
<1> DEFINE new == [seq |-> Cardinality(segments) + 1, from |-> driven, to |-> driven + n]
<1>1. RoadInv /\ StateInv /\ StatusInv
      BY DEF TrackInv
<1>2. driven' = driven + n /\ segments' = segments \cup {new} /\ UNCHANGED cableVars
      BY DEF Drive
<1>3. new.from = driven /\ new.to = driven + n
      OBVIOUS
<1> HIDE DEF new
<1>4. RoadInv'
  <2>1. driven' \in Nat
        BY <1>1, <1>2 DEF RoadInv
  <2>2. \A s \in segments' : s.from \in Nat /\ s.to \in Nat /\ s.from < s.to /\ s.to <= driven'
        BY <1>1, <1>2, <1>3 DEF RoadInv
  <2>3. ASSUME NEW s \in segments', NEW t \in segments', s # t
        PROVE  s.to <= t.from \/ t.to <= s.from
    <3>1. CASE s \in segments /\ t \in segments
          BY <1>1, <2>3, <3>1 DEF RoadInv
    <3>2. CASE s = new
          BY <1>1, <1>2, <1>3, <2>3, <3>2 DEF RoadInv
    <3>3. CASE t = new
          BY <1>1, <1>2, <1>3, <2>3, <3>3 DEF RoadInv
    <3>4. QED
          BY <1>2, <3>1, <3>2, <3>3
  <2>4. QED
        BY <2>1, <2>2, <2>3 DEF RoadInv
<1>5. StateInv'
  <2>1. UNCHANGED <<cable, lastRobot, lastObserved, nextState, taken>>
        BY <1>2 DEF cableVars
  <2>2. SUFFICES ASSUME cable # NoState
                 PROVE  /\ cable.time <= driven'
                        /\ \A s \in segments' : s.to <= cable.time /\ s.seq \notin taken
                                                  => cable.memory \in Since(s.from)
        BY <1>1, <2>1 DEF StateInv
  <2>3. cable.time \in Nat /\ cable.time <= driven /\ driven \in Nat
        BY <1>1, <2>2 DEF StateInv, RoadInv, CableStates
  <2>4. cable.time <= driven' /\ ~(new.to <= cable.time)
        BY <1>2, <1>3, <2>3
  <2>5. QED
        BY <1>1, <1>2, <2>2, <2>4 DEF StateInv
<1>6. StatusInv'
      BY <1>1, <1>2 DEF StatusInv, cableVars
<1>7. QED
      BY <1>4, <1>5, <1>6 DEF TrackInv

LEMMA NothingKeeps ==
  ASSUME TrackInv, UNCHANGED <<driven, segments>>,
         NEW status \in {"input_invalid", "initial_state_uncertain"}, LoseState \/ Report(status) \/ BeginNewTask
  PROVE  TrackInv'
<1>1. RoadInv /\ StateInv /\ StatusInv
      BY DEF TrackInv
<1>2. RoadInv'
      BY <1>1 DEF RoadInv
<1>3. CASE Report(status)
  <2>1. StateInv'
        BY <1>1, <1>3 DEF Report, StateInv
  <2>2. StatusInv'
        BY <1>3 DEF Report, StatusInv
  <2>3. QED
        BY <1>2, <2>1, <2>2 DEF TrackInv
<1>4. CASE LoseState \/ BeginNewTask
  <2>1. StateInv'
        BY <1>1, <1>4 DEF LoseState, BeginNewTask, StateInv
  <2>2. StatusInv'
        BY <1>4 DEF LoseState, BeginNewTask, StatusInv
  <2>3. QED
        BY <1>2, <2>1, <2>2 DEF TrackInv
<1>5. QED
      BY <1>3, <1>4

LEMMA AdoptKeeps ==
  ASSUME TrackInv, NEW piece \in segments, NEW telemetry, NEW observation, NEW memory,
         Covers(memory, piece), observation = NoState => cable # NoState,
         UNCHANGED <<driven, segments>>, Adopt(memory, piece, telemetry, observation)
  PROVE  TrackInv'
<1> DEFINE normal == Normalized(memory)
           state == [memory |-> normal, time |-> piece.to, seq |-> nextState]
           start == taskStart /\ ~Complete(normal)
<1>1. RoadInv /\ StateInv /\ StatusInv
      BY DEF TrackInv
<1>2. piece.from \in Nat /\ piece.to \in Nat /\ piece.to <= driven
      BY <1>1 DEF RoadInv
<1>3. /\ cable' = state /\ nextState' = nextState + 1 /\ taskStart' = start
      /\ taken' = taken \cup {piece.seq} /\ lastRobot' = piece.to
      /\ cableStatus' = IF Interrupted(piece, observation) THEN "observation_interrupted"
                        ELSE IF start \/ Complete(normal) THEN "tracked" ELSE "initial_state_uncertain"
      /\ lastObserved' = IF observation = NoState THEN lastObserved ELSE piece.to
      BY DEF Adopt
<1>4. /\ normal \in Since(-1) /\ normal.samples # <<>>
      /\ \A s \in segments : s.to <= piece.to /\ s.seq \notin taken \cup {piece.seq} => normal \in Since(s.from)
  <2> HIDE DEF normal
  <2>1. \A arc \in Int : memory \in Since(arc) => normal \in Since(arc) /\ normal.samples # <<>>
        BY NormalizedKeeps DEF Covers, normal
  <2>2. \A s \in segments : s.from \in Int
        BY <1>1 DEF RoadInv
  <2>3. -1 \in Int
        OBVIOUS
  <2>4. QED
        BY <2>1, <2>2, <2>3 DEF Covers
<1>5. normal \in Memories
      BY <1>4 DEF Since
<1> HIDE DEF normal
<1>6. nextState \in Nat
      BY <1>1 DEF StateInv
<1>7. state \in CableStates /\ state.memory = normal /\ state.time = piece.to
      BY <1>2, <1>5, <1>6 DEF CableStates
<1> HIDE DEF state, start
<1>8. state # NoState
      BY <1>7, NoStateAssumption
<1>9. lastObserved' \in Nat
      BY <1>1, <1>2, <1>3 DEF StateInv
<1>10. StateInv'
  <2>1. nextState' \in Nat /\ cable' \in CableStates \cup {NoState} /\ cable' # NoState
        BY <1>3, <1>6, <1>7, <1>8
  <2>2. /\ lastRobot' = cable'.time /\ cable'.time <= driven'
        /\ cable'.memory \in Since(-1) /\ cable'.memory.samples # <<>>
        BY <1>2, <1>3, <1>4, <1>7
  <2>3. \A s \in segments' : s.to <= cable'.time /\ s.seq \notin taken' => cable'.memory \in Since(s.from)
        BY <1>3, <1>4, <1>7
  <2>4. QED
        BY <1>9, <2>1, <2>2, <2>3 DEF StateInv
<1>11. StatusInv'
  <2> SUFFICES ASSUME cableStatus' = "tracked"
               PROVE  cable'.time - lastObserved' <= MaxGap /\ (taskStart' \/ Complete(cable'.memory))
      BY <1>3, <1>8 DEF StatusInv
  <2>1. ~Interrupted(piece, observation) /\ (start \/ Complete(normal))
        BY <1>3
  <2>2. cable'.time = piece.to /\ cable'.memory = normal
        BY <1>3, <1>7
  <2>3. piece.to - lastObserved' <= MaxGap
    <3>1. CASE observation = NoState
      <4>1. lastObserved \in Nat /\ lastObserved # NoState
            BY <1>1, <3>1, NoStateAssumption DEF StateInv
      <4>2. ~(piece.to - lastObserved > MaxGap)
            BY <2>1, <3>1, <4>1 DEF Interrupted
      <4>3. QED
            BY <1>2, <1>3, <3>1, <4>1, <4>2, TrackingAssumption
    <3>2. CASE observation # NoState
          BY <1>2, <1>3, <3>2, TrackingAssumption
    <3>3. QED
          BY <3>1, <3>2
  <2>4. QED
        BY <1>3, <2>1, <2>2, <2>3
<1>12. RoadInv'
       BY <1>1 DEF RoadInv
<1>13. QED
       BY <1>10, <1>11, <1>12 DEF TrackInv

\* What was driven before a segment lies before its first sample.
LEMMA EarlierSegments ==
  ASSUME TrackInv, NEW piece \in segments, NEW s \in segments, s.to <= piece.to, s.seq # piece.seq
  PROVE  s.to <= piece.from /\ s.from < piece.from /\ s.from \in Int
<1>1. /\ s.from \in Nat /\ s.to \in Nat /\ s.from < s.to
      /\ piece.from \in Nat /\ piece.to \in Nat
      /\ s # piece => s.to <= piece.from \/ piece.to <= s.from
      BY DEF TrackInv, RoadInv
<1>2. s # piece
      OBVIOUS
<1>3. QED
      BY <1>1, <1>2

LEMMA InitialCovers ==
  ASSUME TrackInv, NEW piece \in segments, NEW residual \in Int
  PROVE  Covers(Initial(piece, residual), piece)
<1> DEFINE none == [samples |-> <<>>, points |-> 0]
           first == piece.from
           last == piece.to
           m == Initial(piece, residual)
<1>1. first \in Nat /\ last \in Nat /\ first < last
      BY DEF TrackInv, RoadInv
<1> HIDE DEF first, last
<1>2. ASSUME NEW arc \in Int, arc < first PROVE m \in Since(arc) /\ m.samples # <<>>
  <2>1. none \in Since(arc)
    <3>1. <<>> \in Seq(TouchdownSamples) /\ 0 \in 0..2 /\ Len(<<>>) = 0 /\ DOMAIN <<>> = {}
          OBVIOUS
    <3>2. none \in Memories
          BY <3>1 DEF Memories
    <3>3. QED
          BY <3>1, <3>2 DEF Since, Sound
  <2>2. last - 1 \in Nat /\ first <= last - 1 /\ last > arc
        BY <1>1, <1>2
  <2> DEFINE k == CarriedThrough(none, first, last - 1)
  <2> HIDE DEF none
  <2>3. k \in Since(arc)
        BY <1>1, <1>2, <2>1, <2>2, CarriedKeeps
  <2>4. last + residual \in Int
        BY <1>1
  <2> HIDE DEF k
  <2>5. Extended(k, last, last + residual) \in Since(arc) /\ Extended(k, last, last + residual).samples # <<>>
        BY <1>1, <2>2, <2>3, <2>4, ExtendedKeeps
  <2>6. QED
        BY <2>5 DEF Initial, k, none, first, last
<1> HIDE DEF m
<1>3. -1 \in Int /\ -1 < first
      BY <1>1
<1>4. m \in Since(-1) /\ m.samples # <<>>
      BY <1>2, <1>3
<1>5. ASSUME NEW s \in segments, s.to <= piece.to, s.seq \notin taken \cup {piece.seq}
      PROVE  m \in Since(s.from)
  <2>1. s.from < first /\ s.from \in Int
        BY <1>5, EarlierSegments DEF first
  <2>2. QED
        BY <1>2, <2>1
<1>6. QED
      BY <1>4, <1>5 DEF Covers, m

LEMMA PropagatedCovers ==
  ASSUME TrackInv, cable # NoState, NEW piece \in segments, lastRobot = piece.from
  PROVE  Covers(Propagated(cable.memory, piece), piece)
<1> DEFINE old == cable.memory
           first == piece.from + 1
           last == piece.to
           m == Propagated(old, piece)
<1>1. first \in Nat /\ last \in Nat /\ first <= last /\ first > 0
      BY DEF TrackInv, RoadInv
<1>2. /\ cable.time = piece.from /\ old \in Since(-1)
      /\ \A s \in segments : s.to <= cable.time /\ s.seq \notin taken => old \in Since(s.from)
      BY DEF TrackInv, StateInv
<1>3. ASSUME NEW arc \in Int, arc < first, old \in Since(arc) PROVE m \in Since(arc) /\ m.samples # <<>>
  <2> HIDE DEF old, first, last
  <2>1. CarriedThrough(old, first, last) \in Since(arc) /\ CarriedThrough(old, first, last).samples # <<>>
        BY <1>1, <1>3, CarriedKeeps
  <2>2. QED
        BY <2>1 DEF Propagated, first, last
<1>4. -1 \in Int /\ -1 < first
      BY <1>1
<1>5. m \in Since(-1) /\ m.samples # <<>>
      BY <1>2, <1>3, <1>4
<1>6. ASSUME NEW s \in segments, s.to <= piece.to, s.seq \notin taken \cup {piece.seq}
      PROVE  m \in Since(s.from)
  <2>1. s.to <= piece.from /\ s.from < piece.from /\ s.from \in Int
        BY <1>6, EarlierSegments
  <2>2. old \in Since(s.from)
        BY <1>2, <1>6, <2>1
  <2>3. piece.from \in Nat
        BY DEF TrackInv, RoadInv
  <2>4. s.from < first
        BY <2>1, <2>3
  <2>5. QED
        BY <1>3, <2>1, <2>2, <2>4
<1>7. QED
      BY <1>5, <1>6 DEF Covers

LEMMA CorrectedCovers ==
  ASSUME TrackInv, NEW piece \in segments, NEW m, Covers(m, piece), NEW residual \in Int
  PROVE  Covers(Corrected(m, piece.to, residual), piece)
<1> DEFINE k == Corrected(m, piece.to, residual)
           last == piece.to
<1>1. last \in Nat
      BY DEF TrackInv, RoadInv
<1> HIDE DEF last
<1>2. ASSUME NEW arc \in Int, arc < last, m \in Since(arc) PROVE k \in Since(arc) /\ k.samples # <<>>
  <2>1. m.samples # <<>>
        BY DEF Covers
  <2>2. Corrected(m, last, residual) \in Since(arc) /\ Corrected(m, last, residual).samples # <<>>
        BY <1>1, <1>2, <2>1, CorrectedKeeps
  <2>3. QED
        BY <2>2 DEF last
<1> HIDE DEF k
<1>3. -1 \in Int /\ -1 < last
      BY <1>1
<1>4. k \in Since(-1) /\ k.samples # <<>>
      BY <1>2, <1>3 DEF Covers
<1>5. ASSUME NEW s \in segments, s.to <= piece.to, s.seq \notin taken \cup {piece.seq}
      PROVE  k \in Since(s.from)
  <2>1. m \in Since(s.from)
        BY <1>5 DEF Covers
  <2>2. s.from < piece.from /\ s.from \in Int
        BY <1>5, EarlierSegments
  <2>3. piece.from \in Nat /\ piece.to \in Nat /\ piece.from < piece.to
        BY DEF TrackInv, RoadInv
  <2>4. s.from < last
        BY <2>2, <2>3 DEF last
  <2>5. QED
        BY <1>2, <2>1, <2>2, <2>4
<1>6. QED
      BY <1>4, <1>5 DEF Covers, k

LEMMA UpdateKeeps ==
  ASSUME TrackInv, NEW piece \in segments, NEW sound \in BOOLEAN, NEW observation \in Observed(piece),
         Update(piece, piece.seq, observation, sound)
  PROVE  TrackInv'
<1> DEFINE residual == IF observation = NoState THEN 0 ELSE observation.residual
           moved == Propagated(cable.memory, piece)
           fixed == Corrected(moved, piece.to, residual)
<1>1. residual \in Int
  <2>1. CASE observation = NoState
        BY <2>1
  <2>2. CASE observation # NoState
    <3>1. PICK r \in Residuals : observation = [seq |-> piece.seq, residual |-> r]
          BY <2>2 DEF Observed
    <3>2. observation.residual = r /\ r \in Int
          BY <3>1, TrackingAssumption
    <3>3. QED
          BY <2>2, <3>2
  <2>3. QED
        BY <2>1, <2>2
<1>2. UNCHANGED <<driven, segments>>
      BY DEF Update
<1>3. CASE LoseState \/ Report("input_invalid") \/ Report("initial_state_uncertain")
      BY <1>2, <1>3, NothingKeeps
<1>4. CASE observation # NoState /\ Adopt(Initial(piece, residual), piece, piece.seq, observation)
  <2> HIDE DEF residual
  <2>1. Covers(Initial(piece, residual), piece)
        BY <1>1, InitialCovers
  <2>2. QED
        BY <1>2, <1>4, <2>1, AdoptKeeps
<1>5. CASE /\ cable # NoState /\ Continues(piece)
           /\ Adopt(IF observation = NoState THEN moved ELSE fixed, piece, piece.seq, observation)
  <2>1. lastRobot # NoState
        BY <1>5, NoStateAssumption DEF TrackInv, StateInv, CableStates
  <2>2. Covers(moved, piece)
        BY <1>5, <2>1, PropagatedCovers DEF Continues
  <2> HIDE DEF residual, moved
  <2>3. Covers(fixed, piece)
        BY <1>1, <2>2, CorrectedCovers
  <2> HIDE DEF fixed
  <2> DEFINE m == IF observation = NoState THEN moved ELSE fixed
  <2>4. Covers(m, piece) /\ Adopt(m, piece, piece.seq, observation)
        BY <1>5, <2>2, <2>3
  <2> HIDE DEF m
  <2>5. QED
        BY <1>2, <1>5, <2>4, AdoptKeeps
<1>6. QED
      BY <1>3, <1>4, <1>5 DEF Update

LEMMA TrackKept ==
  TrackInv /\ [CableNext]_trackingVars => TrackInv'
<1> SUFFICES ASSUME TrackInv, [CableNext]_trackingVars PROVE TrackInv'
    OBVIOUS
<1>1. ASSUME NEW n \in 1..2, Drive(n) PROVE TrackInv'
      BY <1>1, DriveKeeps
<1>2. ASSUME NEW piece \in segments, NEW sound \in BOOLEAN, NEW o \in Observed(piece),
             Update(piece, piece.seq, o, sound)
      PROVE  TrackInv'
      BY <1>2, UpdateKeeps
<1>3. CASE BeginNewTask \/ MarkStateLost
      BY <1>3, NothingKeeps DEF BeginNewTask, MarkStateLost
<1>4. CASE UNCHANGED trackingVars
      BY <1>4 DEF trackingVars, cableVars, TrackInv, RoadInv, StateInv, StatusInv
<1>5. QED
      BY <1>1, <1>2, <1>3, <1>4 DEF CableNext

LEMMA TrackMeans ==
  TrackInv => TrackedHistoryIsReal
<1> SUFFICES ASSUME TrackInv, cableStatus = "tracked"
             PROVE  TrackedHistoryIsReal
    BY DEF TrackedHistoryIsReal
<1> DEFINE h == cable.memory.samples
<1>1. /\ cable # NoState /\ cable.time = lastRobot /\ lastObserved # NoState
      /\ cable.time - lastObserved <= MaxGap /\ (taskStart \/ Complete(cable.memory))
      BY NoStateAssumption DEF TrackInv, StateInv, StatusInv
<1>2. Sound(cable.memory) /\ cable.memory \in Memories /\ h # <<>>
      BY <1>1 DEF TrackInv, StateInv, Since
<1>3. ASSUME NEW s \in segments, Head(h).robot <= s.from, s.to <= cable.time PROVE s.seq \in taken
  <2>1. SUFFICES ASSUME s.seq \notin taken PROVE FALSE
        OBVIOUS
  <2>2. cable.memory \in Since(s.from)
        BY <1>1, <1>3, <2>1 DEF TrackInv, StateInv
  <2>3. h \in Seq(TouchdownSamples)
        BY <1>2, MemoryIs
  <2> HIDE DEF h
  <2>4. 1 \in 1..Len(h) /\ DOMAIN h = 1..Len(h) /\ Head(h) = h[1]
        BY <1>2, <2>3
  <2>5. h[1].robot \in Nat /\ s.from \in Nat
    <3>1. h[1] \in TouchdownSamples
          BY <2>3, <2>4, SeqIs
    <3>2. s.from \in Nat
          BY DEF TrackInv, RoadInv
    <3>3. QED
          BY <3>1, <3>2 DEF TouchdownSamples
  <2>6. h[1].robot > s.from
        BY <2>2, <2>4 DEF Since, h
  <2>7. QED
        BY <1>3, <2>4, <2>5, <2>6
<1>4. QED
      BY <1>1, <1>2, <1>3 DEF TrackedHistoryIsReal, Sound

\* Whatever was lost, repeated or late, and however often the last sample was corrected: a state
\* planning may use has no hole, and as much cable as its touchdowns are apart.
THEOREM HistoryStaysReal ==
  CableSpec => []TrackedHistoryIsReal
<1>1. QED
      BY TrackStarts, TrackKept, TrackMeans, PTL DEF CableSpec

-----------------------------------------------------------------------------
(***************************************************************************)
(* Reference progress, for every line whose legs lie apart: the station    *)
(* follows the cable, however the robot strays between the updates, by     *)
(* induction along the segment an update is given.                         *)
(***************************************************************************)

Outcomes == [at : Stations,
             status : {"tracked", "no_local_association", "association_ambiguous", "regression_requested"}]

LEMMA StationsAre ==
  /\ Stations \subseteq Nat /\ 0 \in Stations /\ IsFiniteSet(Stations)
  /\ \A a \in Stations : Station(a) \in [x : Int, y : Int, heading : {"e", "w"}]
  /\ \A a \in Stations, b \in Nat : b <= a => b \in Stations
<1>1. /\ Len(Line) \in Nat /\ Len(Line) >= 1
      /\ \A i \in 1..Len(Line) : Line[i] \in [x : Int, y : Int, heading : {"e", "w"}]
  <2> DEFINE LinePoints == [x : Int, y : Int, heading : {"e", "w"}]
  <2>1. Line \in Seq(LinePoints) /\ Line # <<>>
        BY ProgressAssumption
  <2> HIDE DEF LinePoints
  <2>2. Len(Line) \in Nat /\ DOMAIN Line = 1..Len(Line) /\ \A i \in 1..Len(Line) : Line[i] \in LinePoints
        BY <2>1, SeqIs
  <2>3. Len(Line) # 0
        BY <2>1
  <2>4. QED
        BY <2>2, <2>3 DEF LinePoints
<1>2. IsFiniteSet(Stations)
      BY <1>1, FS_Interval DEF Stations
<1>3. \A a \in Stations : a + 1 \in 1..Len(Line)
      BY <1>1 DEF Stations
<1>4. QED
      BY <1>1, <1>2, <1>3 DEF Stations, Station

LEMMA ScoresAre ==
  ASSUME NEW a \in Stations, NEW aside \in Offsets
  PROVE  \A s \in Stations : Score(s, TouchdownAt(a, aside)) \in Int
<1> TAKE s \in Stations
<1> DEFINE t == TouchdownAt(a, aside)
           dx == Station(s).x - t.x
           dy == Station(s).y - t.y
<1>1. aside \in Int /\ DistanceWeight \in Nat /\ HeadingPenalty \in Nat
      BY ProgressAssumption
<1>2. dx \in Int /\ dy \in Int
  <2>1. t.x = Station(a).x /\ t.y = Station(a).y + aside
        BY DEF TouchdownAt
  <2>2. QED
        BY <1>1, <2>1, StationsAre
<1>3. Score(s, t) = DistanceWeight * (dx * dx + dy * dy) + IF Station(s).heading = t.heading THEN 0 ELSE HeadingPenalty
      BY DEF Score
<1> HIDE DEF dx, dy, t
<1>4. dx * dx + dy * dy \in Int
      BY <1>2
<1> DEFINE q == dx * dx + dy * dy
<1>5. Score(s, t) = DistanceWeight * q + IF Station(s).heading = t.heading THEN 0 ELSE HeadingPenalty
      BY <1>3
<1>6. q \in Int
      BY <1>4
<1> HIDE DEF q
<1>7. DistanceWeight * q \in Int
      BY <1>1, <1>6
<1>8. QED
      BY <1>1, <1>5, <1>7 DEF t

\* A window with a station in it has a nearest one.
LEMMA BestIs ==
  ASSUME NEW window \in SUBSET Stations, window # {}, NEW t, \A s \in Stations : Score(s, t) \in Int
  PROVE  /\ Best(window, t) \in window
         /\ \A r \in window : Score(Best(window, t), t) <= Score(r, t)
<1> DEFINE score == [s \in Stations |-> Score(s, t)]
           Scores == {score[s] : s \in window}
<1>1. IsFiniteSet(window)
      BY StationsAre, FS_Subset
<1>2. IsFiniteSet(Scores)
      BY <1>1, ImageIsFinite
<1>3. Scores \subseteq Int /\ Scores # {}
      OBVIOUS
<1>4. PICK low \in Scores : \A v \in Scores : low <= v
  <2> HIDE DEF Scores
  <2>1. QED
        BY <1>2, <1>3, SmallestOf
<1> DEFINE Lowest == {s \in window : score[s] = low}
<1>5. Lowest # {} /\ Lowest \in SUBSET window /\ Lowest \subseteq Int
  <2>1. PICK s \in window : score[s] = low
        BY <1>4
  <2>2. Stations \subseteq Int
        BY StationsAre
  <2> HIDE DEF score, Scores
  <2>3. QED
        BY <2>1, <2>2
<1>6. PICK b \in Lowest : \A s \in Lowest : b <= s
  <2>1. IsFiniteSet(Lowest)
    <3> HIDE DEF Lowest
    <3>1. QED
          BY <1>1, <1>5, FS_Subset
  <2> HIDE DEF Lowest
  <2>2. QED
        BY <1>5, <2>1, SmallestOf
<1>7. ASSUME NEW r \in window
      PROVE  Score(b, t) < Score(r, t) \/ (Score(b, t) = Score(r, t) /\ b <= r)
  <2>1. score[r] \in Int /\ score[b] \in Int /\ score[b] = low /\ low <= score[r] /\ low \in Int
        BY <1>3, <1>4, <1>6
  <2>2. score[r] = low => b <= r
        BY <1>6
  <2>3. score[r] = Score(r, t) /\ score[b] = Score(b, t)
        OBVIOUS
  <2> HIDE DEF score, Scores, Lowest
  <2>4. QED
        BY <2>1, <2>2, <2>3
<1>8. b \in window
      OBVIOUS
<1> DEFINE best == Best(window, t)
<1>9. best \in window /\ \A r \in window : Score(best, t) < Score(r, t) \/ (Score(best, t) = Score(r, t) /\ best <= r)
      BY <1>7, <1>8 DEF Best
<1> HIDE DEF best
<1>10. \A r \in window : Score(best, t) <= Score(r, t)
  <2> TAKE r \in window
  <2>1. Score(best, t) \in Int /\ Score(r, t) \in Int
        BY <1>9
  <2>2. QED
        BY <1>9, <2>1
<1>11. QED
       BY <1>9, <1>10 DEF best

LEMMA WindowIs ==
  ASSUME NEW from \in Stations
  PROVE  /\ Window(from, 1) \in SUBSET Stations
         /\ \A s \in Stations : s \in Window(from, 1) <=> from - Backward <= s /\ s <= from + PerLaying + Slack
<1>1. from + PerLaying * 1 + Slack = from + PerLaying + Slack
      BY ProgressAssumption
<1>2. Window(from, 1) = {s \in Stations : from - Backward <= s /\ s <= from + PerLaying + Slack}
      BY <1>1 DEF Window
<1>3. QED
      BY <1>2

-----------------------------------------------------------------------------
(* One sample                                                              *)

LEMMA StepIs ==
  ASSUME NEW a \in Stations, NEW before \in Outcomes, offset[a] \in Offsets
  PROVE  StepTo(a, before) \in Outcomes
<1> DEFINE status == Association(before.at, a, 1)
<1>1. before.at \in Stations
      BY DEF Outcomes
<1>2. status \in {"tracked", "no_local_association", "association_ambiguous", "regression_requested"}
      BY DEF Association
<1>3. status = "tracked" => Best(Window(before.at, 1), Touchdown(a)) \in Stations
  <2>1. SUFFICES ASSUME status = "tracked" PROVE Best(Window(before.at, 1), Touchdown(a)) \in Stations
        OBVIOUS
  <2>2. Window(before.at, 1) # {}
        BY <2>1 DEF Association
  <2>3. \A s \in Stations : Score(s, Touchdown(a)) \in Int
        BY ScoresAre DEF Touchdown
  <2>4. QED
        BY <1>1, <2>2, <2>3, BestIs, WindowIs
<1> HIDE DEF status
<1>4. QED
      BY <1>1, <1>2, <1>3 DEF StepTo, Outcomes, status

\* Whatever was tracked before, what is found at a sample is no further ahead of it than one
\* station; and no further behind, if what was tracked before was not.
LEMMA StepStays ==
  ASSUME NEW a \in Stations, NEW before \in Outcomes, offset[a] \in Offsets, LegsApart,
         before.status = "tracked", before.at <= a, StepTo(a, before).status = "tracked"
  PROVE  /\ StepTo(a, before).at <= a + 1
         /\ before.at >= a - 2 => StepTo(a, before).at >= a - 1
<1> DEFINE from == before.at
           t == Touchdown(a)
           window == Window(from, 1)
           best == Best(window, t)
<1>1. from \in Stations /\ from \in Nat /\ a \in Nat
      BY StationsAre DEF Outcomes
<1>2. /\ Association(from, a, 1) = "tracked"
      /\ StepTo(a, before).at = best
      BY DEF StepTo
<1>3. window # {} /\ ~(best < from)
      BY <1>2 DEF Association
<1>4. \A s \in Stations : Score(s, t) \in Int
      BY ScoresAre DEF Touchdown
<1>5. window \in SUBSET Stations
      BY <1>1, WindowIs
<1>6. \A s \in Stations : s \in window <=> from - Backward <= s /\ s <= from + PerLaying + Slack
      BY <1>1, WindowIs
<1>7. best \in window /\ \A r \in window : Score(best, t) <= Score(r, t)
  <2> HIDE DEF window, t
  <2>1. QED
        BY <1>3, <1>4, <1>5, BestIs
<1> HIDE DEF best, window
<1>8. best \in Stations /\ best \in Nat
      BY <1>5, <1>7, StationsAre
<1>9. PerLaying \in Nat /\ Slack \in Nat /\ Backward \in Nat /\ PerLaying + Slack >= 2
      BY ProgressAssumption DEF LegsApart
<1>10. best >= from
       BY <1>1, <1>3, <1>8
<1>11. a \in window => ~(best = a - 2) /\ ~(a + 2 <= best /\ best <= a + PerLaying + Slack)
  <2> SUFFICES ASSUME a \in window, best = a - 2 \/ (a + 2 <= best /\ best <= a + PerLaying + Slack)
               PROVE FALSE
      OBVIOUS
  <2>1. Score(a, t) < Score(best, t)
        BY <1>8 DEF LegsApart, Touchdown
  <2>2. Score(best, t) <= Score(a, t)
        BY <1>7
  <2>3. Score(a, t) \in Int /\ Score(best, t) \in Int
        BY <1>4, <1>8
  <2> HIDE DEF t
  <2>4. QED
        BY <2>1, <2>2, <2>3
<1>12. best <= from + PerLaying + Slack
       BY <1>6, <1>7, <1>8
<1> HIDE DEF from
<1>13. from <= a
       BY DEF from
<1>14. best <= a + 1
  <2> SUFFICES ASSUME best >= a + 2 PROVE FALSE
      BY <1>1, <1>8
  <2>1. a \in window
        BY <1>1, <1>6, <1>8, <1>9, <1>12, <1>13
  <2>2. best <= a + PerLaying + Slack
        BY <1>1, <1>8, <1>9, <1>12, <1>13
  <2>3. QED
        BY <1>11, <2>1, <2>2
<1>15. from >= a - 2 => best >= a - 1
  <2> SUFFICES ASSUME from >= a - 2, ~(best >= a - 1) PROVE FALSE
      OBVIOUS
  <2>1. best = a - 2
        BY <1>1, <1>8, <1>10
  <2>2. a \in window
        BY <1>1, <1>6, <1>9, <1>13
  <2>3. QED
        BY <1>11, <2>1, <2>2
<1>16. QED
       BY <1>2, <1>14, <1>15 DEF from

\* All samples of a segment.
LEMMA SegmentStays ==
  ASSUME NEW piece, piece.from \in Stations, piece.to \in Stations, piece.from < piece.to,
         \A a \in Stations : offset[a] \in Offsets, LegsApart,
         progress.at \in Stations, progress.at <= piece.from + 1,
         Steps(piece).status = "tracked"
  PROVE  /\ Steps(piece).at \in Stations
         /\ Steps(piece).at <= piece.to + 1
         /\ progress.at >= piece.from - 1 => Steps(piece).at >= piece.to - 1
<1> DEFINE low == piece.from
           N == piece.to - low
           b == [at |-> progress.at, status |-> "tracked"]
           F == [e \in Nat \X Outcomes |-> IF low + e[1] \in Stations THEN StepTo(low + e[1], e[2]) ELSE e[2]]
           Step(f) == [k \in 0..N |-> IF k = 0 THEN b ELSE StepTo(low + k, f[k - 1])]
           after == CHOOSE f : f = Step(f)
<1>1. low \in Nat /\ piece.to \in Nat /\ N \in Nat /\ N > 0
  <2>1. Stations \subseteq Nat
        BY StationsAre
  <2>2. low \in Nat /\ piece.to \in Nat /\ low < piece.to
        BY <2>1
  <2> HIDE DEF low
  <2>3. QED
        BY <2>2
<1>2. b \in Outcomes
      BY DEF Outcomes
<1>3. F \in [Nat \X Outcomes -> Outcomes]
  <2>1. \A k \in Nat, v \in Outcomes : low + k \in Stations => StepTo(low + k, v) \in Outcomes
        BY StepIs
  <2>2. QED
        BY <2>1
<1>4. PICK f \in [0..N -> Outcomes] : StepsThrough(f, N, b, F)
  <2> HIDE DEF F, N, b
  <2>1. QED
        BY <1>1, <1>2, <1>3, RecursionByStep
<1>5. \A k \in 1..N : low + k \in Stations /\ k \in Nat /\ k # 0 /\ k \in 0..N /\ k - 1 \in 0..N
  <2> TAKE k \in 1..N
  <2>1. low + k \in Nat /\ low + k <= piece.to /\ k \in Nat /\ k # 0 /\ k \in 0..N /\ k - 1 \in 0..N
        BY <1>1
  <2>2. QED
        BY <2>1, StationsAre
<1>6. f = Step(f)
  <2>1. f[0] = b
    <3>1. 0 \in 0..N
          BY <1>1
    <3>2. QED
          BY <1>4, <3>1 DEF StepsThrough
  <2>2. ASSUME NEW k \in 1..N PROVE f[k] = StepTo(low + k, f[k - 1])
    <3>1. f[k] = F[<<k, f[k - 1]>>] /\ f[k - 1] \in Outcomes
          BY <1>4, <1>5 DEF StepsThrough
    <3>2. F[<<k, f[k - 1]>>] = StepTo(low + k, f[k - 1])
          BY <1>5, <3>1
    <3>3. QED
          BY <3>1, <3>2
  <2>3. \A k \in 0..N : f[k] = IF k = 0 THEN b ELSE StepTo(low + k, f[k - 1])
    <3> TAKE k \in 0..N
    <3>1. k = 0 \/ k \in 1..N
          BY <1>1
    <3> HIDE DEF b, N
    <3>2. QED
          BY <1>5, <2>1, <2>2, <3>1
  <2> HIDE DEF b
  <2>4. QED
        BY <2>3
<1>7. after = Step(after)
      BY <1>6
<1> HIDE DEF after
<1>8. after[0] = b /\ \A k \in 1..N : after[k] = StepTo(low + k, after[k - 1])
  <2>1. 0 \in 0..N
        BY <1>1
  <2> HIDE DEF b, N
  <2>2. QED
        BY <1>5, <1>7, <2>1
<1> DEFINE P == {k \in Nat : k \in 0..N =>
                   /\ after[k] \in Outcomes
                   /\ after[k].status = "tracked" =>
                        /\ after[k].at <= low + k + 1
                        /\ progress.at >= low - 1 => after[k].at >= low + k - 1}
<1>9. \A k \in 0..N : k \in P
  <2>1. 0 \in P
    <3>1. after[0] \in Outcomes /\ after[0].at = progress.at
          BY <1>2, <1>8
    <3>2. QED
          BY <1>1, <3>1
  <2>2. ASSUME NEW k \in 1..N, k - 1 \in P PROVE k \in P
    <3>1. after[k - 1] \in Outcomes /\ after[k] = StepTo(low + k, after[k - 1])
          BY <1>5, <1>8, <2>2
    <3>2. after[k] \in Outcomes
          BY <1>5, <3>1, StepIs
    <3>3. ASSUME after[k].status = "tracked"
          PROVE  /\ after[k].at <= low + k + 1
                 /\ progress.at >= low - 1 => after[k].at >= low + k - 1
      <4>1. after[k - 1].status = "tracked"
            BY <3>1, <3>3 DEF StepTo
      <4>2. /\ after[k - 1].at <= low + k
            /\ progress.at >= low - 1 => after[k - 1].at >= (low + k) - 2
        <5>1. /\ after[k - 1].at <= low + (k - 1) + 1
              /\ progress.at >= low - 1 => after[k - 1].at >= low + (k - 1) - 1
              BY <1>5, <2>2, <4>1
        <5>2. after[k - 1].at \in Nat
              BY <3>1, StationsAre DEF Outcomes
        <5> HIDE DEF low, N
        <5>3. low + (k - 1) + 1 = low + k /\ low + (k - 1) - 1 = (low + k) - 2
              BY <1>1
        <5>4. QED
              BY <5>1, <5>3
      <4>3. /\ StepTo(low + k, after[k - 1]).at <= (low + k) + 1
            /\ after[k - 1].at >= (low + k) - 2 => StepTo(low + k, after[k - 1]).at >= (low + k) - 1
            BY <1>5, <3>1, <3>3, <4>1, <4>2, StepStays
      <4>4. QED
        <5>1. k \in Nat /\ low \in Nat
              BY <1>1, <1>5
        <5>2. (low + k) + 1 = low + k + 1 /\ (low + k) - 1 = low + k - 1
              BY <5>1
        <5> HIDE DEF low, N
        <5>3. QED
              BY <3>1, <4>2, <4>3, <5>2
    <3>4. QED
          BY <3>2, <3>3
  <2> HIDE DEF P, N
  <2>3. QED
        BY <1>1, <2>1, <2>2, InductionUpTo
<1>10. Steps(piece) = after[N]
       BY DEF Steps, after
<1>11. N \in P /\ N \in 0..N
       BY <1>1, <1>9
<1>12. after[N] \in Outcomes /\ after[N].at \in Stations
       BY <1>11 DEF Outcomes
<1>13. /\ after[N].at <= low + N + 1
       /\ progress.at >= low - 1 => after[N].at >= low + N - 1
  <2> HIDE DEF N
  <2>1. QED
        BY <1>10, <1>11
<1>14. low + N = piece.to
  <2> HIDE DEF low
  <2>1. QED
        BY <1>1
<1>15. /\ after[N].at <= piece.to + 1
       /\ progress.at >= low - 1 => after[N].at >= piece.to - 1
  <2> HIDE DEF N, low
  <2>1. QED
        BY <1>1, <1>13, <1>14
<1>16. QED
       BY <1>10, <1>12, <1>15

-----------------------------------------------------------------------------
(* The tracker                                                             *)

SegmentsTyped ==
  /\ offset \in [Stations -> Offsets] /\ laid \in Stations
  /\ IsFiniteSet(sent) /\ Cardinality(sent) <= MaxSegments
  /\ \A s \in sent : /\ s.seq \in 1..MaxSegments /\ s.from \in Stations /\ s.to \in Stations
                     /\ s.from < s.to /\ s.to <= laid

TrackerTyped ==
  /\ lastSegment \in 0..MaxSegments
  /\ lastSample \in Stations \cup {NoProgress}
  /\ progress # NoProgress =>
       /\ progress = [version |-> progress.version, at |-> progress.at, time |-> progress.time, seq |-> progress.seq]
       /\ progress.at \in Stations /\ progress.time \in Stations /\ progress.time <= laid
       /\ lastSample # NoProgress => lastSample = progress.time

ProgressInv == SegmentsTyped /\ TrackerTyped /\ ProgressStaysWithCable

LEMMA ProgressStarts == ProgressInit => ProgressInv
<1>1. IsFiniteSet({}) /\ Cardinality({}) = 0 /\ 0 <= MaxSegments
      BY FS_EmptySet, ProgressAssumption
<1>2. QED
      BY <1>1, StationsAre, ProgressAssumption
      DEF ProgressInit, ProgressInv, SegmentsTyped, TrackerTyped, ProgressStaysWithCable

LEMMA LayKeeps ==
  ASSUME NEW n \in 1..Longest, ProgressInv, Lay(n)
  PROVE  ProgressInv'
<1> USE DEF ProgressInv
<1> DEFINE new == [seq |-> Cardinality(sent) + 1, from |-> laid, to |-> laid + n]
<1>1. /\ Cardinality(sent) < MaxSegments /\ laid + n \in Stations
      /\ sent' = sent \cup {new} /\ laid' = laid + n
      /\ offset' = offset /\ lineVersion' = lineVersion
      /\ progress' = progress /\ trackStatus' = trackStatus /\ lastSample' = lastSample
      /\ lastSegment' = lastSegment /\ anchored' = anchored
      BY DEF Lay, trackerVars
<1>2. laid \in Nat /\ n \in Nat /\ n > 0 /\ Longest \in Nat /\ MaxSegments \in Nat
  <2>1. Longest \in Nat /\ MaxSegments \in Nat
        BY ProgressAssumption
  <2>2. laid \in Nat
        BY StationsAre DEF SegmentsTyped
  <2>3. n \in Nat /\ n > 0
        BY <2>1
  <2>4. QED
        BY <2>1, <2>2, <2>3
<1>3. IsFiniteSet(sent) /\ Cardinality(sent) \in Nat
      BY FS_CardinalityType DEF SegmentsTyped
<1>4. IsFiniteSet(sent') /\ Cardinality(sent') <= MaxSegments
  <2> HIDE DEF new
  <2>1. /\ IsFiniteSet(sent \cup {new})
        /\ Cardinality(sent \cup {new}) = IF new \in sent THEN Cardinality(sent) ELSE Cardinality(sent) + 1
        BY <1>3, FS_AddElement
  <2>2. QED
        BY <1>1, <1>2, <1>3, <2>1
<1>5. \A s \in sent' : /\ s.seq \in 1..MaxSegments /\ s.from \in Stations /\ s.to \in Stations
                       /\ s.from < s.to /\ s.to <= laid'
  <2> SUFFICES ASSUME NEW s \in sent'
               PROVE  /\ s.seq \in 1..MaxSegments /\ s.from \in Stations /\ s.to \in Stations
                      /\ s.from < s.to /\ s.to <= laid'
      OBVIOUS
  <2>1. CASE s \in sent
    <3>1. /\ s.seq \in 1..MaxSegments /\ s.from \in Stations /\ s.to \in Stations
          /\ s.from < s.to /\ s.to <= laid
          BY <2>1 DEF SegmentsTyped
    <3>2. s.to \in Nat
          BY <3>1, StationsAre
    <3>3. QED
          BY <1>1, <1>2, <3>1, <3>2
  <2>2. CASE s = new
    <3>1. s.seq = Cardinality(sent) + 1 /\ s.from = laid /\ s.to = laid + n
          BY <2>2
    <3>2. laid \in Stations
          BY DEF SegmentsTyped
    <3>3. QED
          BY <1>1, <1>2, <1>3, <3>1, <3>2
  <2>3. QED
        BY <1>1, <2>1, <2>2
<1>6. SegmentsTyped'
      BY <1>1, <1>4, <1>5 DEF SegmentsTyped
<1>7. TrackerTyped'
  <2>1. progress # NoProgress => progress.time <= laid'
    <3> SUFFICES ASSUME progress # NoProgress PROVE progress.time <= laid'
        OBVIOUS
    <3>1. progress.time \in Nat /\ progress.time <= laid
          BY StationsAre DEF TrackerTyped
    <3>2. QED
          BY <1>1, <1>2, <3>1
  <2>2. QED
        BY <1>1, <2>1 DEF TrackerTyped
<1>8. ProgressStaysWithCable'
      BY <1>1 DEF ProgressStaysWithCable
<1>9. QED
      BY <1>6, <1>7, <1>8

LEMMA AssociationKeeps ==
  ASSUME NEW piece \in sent, LegsApart, ProgressInv, UpdateFromExecutedLaying(piece)
  PROVE  ProgressInv'
<1> USE DEF ProgressInv
<1>1. offset' = offset /\ laid' = laid /\ sent' = sent
      BY DEF UpdateFromExecutedLaying, segmentVars
<1>2. SegmentsTyped'
      BY <1>1 DEF SegmentsTyped
<1>3. CASE Refusal(piece) # "tracked"
  <2>1. progress' = progress /\ lastSample' = lastSample /\ lastSegment' = lastSegment /\ anchored' = anchored
        BY <1>3 DEF UpdateFromExecutedLaying
  <2>2. QED
        BY <1>1, <1>2, <2>1 DEF TrackerTyped, ProgressStaysWithCable
<1>4. CASE Refusal(piece) = "tracked"
  <2>1. /\ progress' = [progress EXCEPT !.at = Steps(piece).at, !.time = piece.to, !.seq = @ + 1]
        /\ lastSample' = piece.to /\ lastSegment' = piece.seq
        /\ anchored' = (anchored /\ (lastSample = NoProgress => piece.from = progress.time))
        BY <1>4 DEF UpdateFromExecutedLaying
  <2>2. /\ progress # NoProgress /\ ~(piece.from < progress.time)
        /\ lastSample # NoProgress => lastSample = piece.from
        /\ Steps(piece).status = "tracked"
    <3>1. progress # NoProgress
          BY <1>4 DEF Refusal
    <3>2. ~(piece.from < progress.time)
          BY <1>4, <3>1 DEF Refusal
    <3>3. lastSample # NoProgress => lastSample = piece.from
          BY <1>4, <3>1, <3>2 DEF Refusal
    <3>4. Steps(piece).status = "tracked"
          BY <1>4, <3>1, <3>2, <3>3 DEF Refusal
    <3>5. QED
          BY <3>1, <3>2, <3>3, <3>4
  <2>3. /\ progress = [version |-> progress.version, at |-> progress.at, time |-> progress.time, seq |-> progress.seq]
        /\ progress.at \in Stations /\ progress.time \in Stations /\ progress.time <= laid
        /\ lastSample # NoProgress => lastSample = progress.time
        /\ lastSample \in Stations \cup {NoProgress}
        BY <2>2 DEF TrackerTyped
  <2>4. /\ piece.seq \in 1..MaxSegments /\ piece.from \in Stations /\ piece.to \in Stations
        /\ piece.from < piece.to /\ piece.to <= laid
        /\ \A a \in Stations : offset[a] \in Offsets
        BY DEF SegmentsTyped
  <2>5. progress.at <= progress.time + 1 /\ (anchored => progress.at >= progress.time - 1)
        BY <2>2 DEF ProgressStaysWithCable
  <2>6. {progress.at, progress.time, piece.from, piece.to, laid} \subseteq Nat
        BY <2>3, <2>4, StationsAre DEF SegmentsTyped
  <2>7. progress.at <= piece.from + 1
        BY <2>2, <2>5, <2>6
  <2>8. /\ Steps(piece).at \in Stations /\ Steps(piece).at <= piece.to + 1
        /\ progress.at >= piece.from - 1 => Steps(piece).at >= piece.to - 1
        BY <2>2, <2>3, <2>4, <2>7, SegmentStays
  <2>9. anchored' => progress.at >= piece.from - 1
    <3> SUFFICES ASSUME anchored' PROVE progress.at >= piece.from - 1
        OBVIOUS
    <3>1. anchored /\ (lastSample = NoProgress => piece.from = progress.time)
          BY <2>1
    <3>2. piece.from = progress.time
          BY <2>2, <2>3, <3>1
    <3>3. QED
          BY <2>5, <3>1, <3>2
  <2> DEFINE to == [version |-> progress.version, at |-> Steps(piece).at, time |-> piece.to, seq |-> progress.seq + 1]
  <2>10. progress' = to
         BY <2>1, <2>3
  <2>11. progress'.at = Steps(piece).at /\ progress'.time = piece.to
         BY <2>10
  <2>12. TrackerTyped'
    <3>1. to = [version |-> to.version, at |-> to.at, time |-> to.time, seq |-> to.seq]
          OBVIOUS
    <3>2. piece.seq \in 0..MaxSegments
          BY <2>4
    <3>3. QED
          BY <1>1, <2>1, <2>4, <2>8, <2>10, <2>11, <3>1, <3>2 DEF TrackerTyped
  <2>13. ProgressStaysWithCable'
         BY <2>8, <2>9, <2>11 DEF ProgressStaysWithCable
  <2>14. QED
         BY <1>2, <2>12, <2>13
<1>5. QED
      BY <1>3, <1>4

LEMMA ProgressKept ==
  ASSUME LegsApart
  PROVE  ProgressInv /\ [ProgressNext]_progressVars => ProgressInv'
<1> SUFFICES ASSUME ProgressInv, [ProgressNext]_progressVars PROVE ProgressInv'
    OBVIOUS
<1>1. ASSUME NEW n \in 1..Longest, Lay(n) PROVE ProgressInv'
      BY <1>1, LayKeeps
<1>2. CASE ReplaceLine
      BY <1>2 DEF ReplaceLine, segmentVars, trackerVars, ProgressInv, SegmentsTyped, TrackerTyped, ProgressStaysWithCable
<1>3. CASE ResetForNewTask(laid)
  <2>1. /\ offset' = offset /\ laid' = laid /\ sent' = sent
        /\ progress' = [version |-> lineVersion, at |-> laid, time |-> laid, seq |-> 1]
        /\ lastSample' = NoProgress /\ lastSegment' = 0 /\ anchored' = TRUE
        BY <1>3 DEF ResetForNewTask, segmentVars
  <2>2. laid \in Stations /\ laid \in Nat /\ MaxSegments \in Nat
        BY StationsAre, ProgressAssumption DEF ProgressInv, SegmentsTyped
  <2>3. SegmentsTyped'
        BY <2>1 DEF ProgressInv, SegmentsTyped
  <2>4. progress'.at = laid /\ progress'.time = laid /\ progress'.version = lineVersion /\ progress'.seq = 1
        BY <2>1
  <2>5. TrackerTyped'
        BY <2>1, <2>2, <2>4 DEF TrackerTyped
  <2>6. ProgressStaysWithCable'
        BY <2>2, <2>4 DEF ProgressStaysWithCable
  <2>7. QED
        BY <2>3, <2>5, <2>6 DEF ProgressInv
<1>4. ASSUME NEW piece \in sent, UpdateFromExecutedLaying(piece) PROVE ProgressInv'
      BY <1>4, AssociationKeeps
<1>5. CASE UNCHANGED progressVars
      BY <1>5 DEF progressVars, segmentVars, trackerVars, ProgressInv, SegmentsTyped, TrackerTyped, ProgressStaysWithCable
<1>6. QED
      BY <1>1, <1>2, <1>3, <1>4, <1>5 DEF ProgressNext

\* Whatever segments are lost, repeated or late, and whatever the line and the touchdowns: where the
\* legs are apart within the reach of one association, associations in a row never leave the cable.
THEOREM ProgressStays ==
  ASSUME LegsApart
  PROVE  ProgressSpec => []ProgressStaysWithCable
<1>1. ProgressInv => ProgressStaysWithCable
      BY DEF ProgressInv
<1>2. QED
      BY <1>1, ProgressStarts, ProgressKept, PTL DEF ProgressSpec

-----------------------------------------------------------------------------
(***************************************************************************)
(* The hybrid A*, for any places, motions, goals, tolerance and answers of *)
(* the evaluators. What has left the queue was expanded in full, whatever  *)
(* the discretization merged; so every path crosses the queue, or ends at  *)
(* an expanded node, no later than at the cost it has, but for one         *)
(* tolerance per place, which is shown by induction over the number of its *)
(* motions.                                                                *)
(***************************************************************************)

SearchNode == [place : Places, by : Nat, parent : Nat, cost : Nat, label : Nat]

LEMMA PlacesAre ==
  /\ IsFiniteSet(Places) /\ Places = 1..Len(Position) /\ \A p \in Places : Position[p] \in Int
  /\ Start \in Places /\ Goals \subseteq Places /\ Goals # {} /\ Cardinality(Places) \in Nat
<1>1. Position \in Seq(Int) /\ Start \in Places /\ Goals \subseteq Places /\ Goals # {}
      BY SearchAssumption
<1>2. Len(Position) \in Nat /\ Places = 1..Len(Position) /\ \A p \in Places : Position[p] \in Int
      BY <1>1, SeqIs DEF Places
<1>3. IsFiniteSet(Places)
      BY <1>2, FS_Interval
<1>4. QED
      BY <1>1, <1>2, <1>3, FS_CardinalityType

LEMMA MotionsAre ==
  /\ Len(Motions) \in Nat /\ DOMAIN Motions = 1..Len(Motions)
  /\ \A m \in DOMAIN Motions :
       /\ Motions[m].from \in Places /\ Motions[m].to \in Places /\ Motions[m].length \in Nat
       /\ Motions[m].analytic \in BOOLEAN
       /\ Motions[m].length >= Straight(Motions[m].from, Motions[m].to)
<1> DEFINE M == [from : Places, to : Places, length : Nat, analytic : BOOLEAN]
<1>1. Motions \in Seq(M)
      BY SearchAssumption
<1> HIDE DEF M
<1>2. Len(Motions) \in Nat /\ DOMAIN Motions = 1..Len(Motions) /\ \A m \in 1..Len(Motions) : Motions[m] \in M
      BY <1>1, SeqIs
<1>3. \A m \in DOMAIN Motions : Motions[m].length >= Straight(Motions[m].from, Motions[m].to)
      BY SearchAssumption
<1>4. QED
      BY <1>2, <1>3 DEF M

-----------------------------------------------------------------------------
(* The heuristic                                                           *)

LEMMA HeuristicIs ==
  ASSUME NEW p \in Places
  PROVE  /\ Heuristic(p) \in Nat
         /\ \A g \in Goals : Heuristic(p) <= Straight(p, g)
         /\ \E g \in Goals : Heuristic(p) = Straight(p, g)
<1> DEFINE away == [g \in Goals |-> Straight(p, g)]
           S == {away[g] : g \in Goals}
<1>1. \A g \in Goals : Straight(p, g) \in Nat
      BY PlacesAre DEF Straight
<1>2. S \subseteq Int /\ S # {}
  <2>1. Goals # {}
        BY PlacesAre
  <2>2. \A g \in Goals : away[g] \in Int
        BY <1>1
  <2> HIDE DEF away
  <2>3. QED
        BY <2>1, <2>2
<1>3. IsFiniteSet(S)
  <2>1. IsFiniteSet(Goals)
        BY PlacesAre, FS_Subset
  <2>2. QED
        BY <2>1, ImageIsFinite
<1>4. S = {Straight(p, g) : g \in Goals}
      OBVIOUS
<1>5. \E x \in S : \A y \in S : x <= y
  <2> HIDE DEF S
  <2>1. QED
        BY <1>2, <1>3, SmallestOf
<1>6. Min(S) \in S /\ \A y \in S : Min(S) <= y
  <2> HIDE DEF S
  <2>1. QED
        BY <1>5 DEF Min
<1>7. Heuristic(p) = Min(S)
      BY <1>4 DEF Heuristic
<1> HIDE DEF S
<1>8. Heuristic(p) \in {Straight(p, g) : g \in Goals} /\ \A y \in {Straight(p, g) : g \in Goals} : Heuristic(p) <= y
      BY <1>4, <1>6, <1>7
<1>9. QED
      BY <1>1, <1>8

LEMMA HeuristicOfGoal ==
  ASSUME NEW g \in Goals
  PROVE  Heuristic(g) = 0
<1>1. g \in Places /\ Straight(g, g) = 0
      BY PlacesAre DEF Straight
<1>2. Heuristic(g) \in Nat /\ Heuristic(g) <= Straight(g, g)
      BY <1>1, HeuristicIs
<1>3. QED
      BY <1>1, <1>2

\* No motion takes the robot nearer to a goal than it is long.
LEMMA HeuristicAlong ==
  ASSUME NEW m \in DOMAIN Motions
  PROVE  Heuristic(Motions[m].from) <= Motions[m].length + Heuristic(Motions[m].to)
<1> DEFINE p == Motions[m].from
           q == Motions[m].to
<1>1. p \in Places /\ q \in Places /\ Motions[m].length \in Nat /\ Motions[m].length >= Straight(p, q)
      BY MotionsAre
<1> HIDE DEF p, q
<1>2. PICK g \in Goals : Heuristic(q) = Straight(q, g)
      BY <1>1, HeuristicIs
<1>3. Heuristic(p) <= Straight(p, g) /\ Heuristic(p) \in Nat /\ Heuristic(q) \in Nat
      BY <1>1, HeuristicIs
<1>4. Straight(p, g) <= Straight(p, q) + Straight(q, g)
  <2>1. Position[p] \in Int /\ Position[q] \in Int /\ Position[g] \in Int
        BY <1>1, PlacesAre
  <2>2. QED
        BY <2>1 DEF Straight
<1>5. Straight(p, g) \in Int /\ Straight(p, q) \in Int /\ Straight(q, g) \in Int
      BY <1>1, PlacesAre DEF Straight
<1>6. QED
      BY <1>1, <1>2, <1>3, <1>4, <1>5 DEF p, q

-----------------------------------------------------------------------------
(* The queue                                                               *)

Total(ns, x) == ns[x].cost + Heuristic(ns[x].place)

\* Sooner, with the five numbers named.
Ahead(a1, a2, a3, a4, a5, b1, b2, b3, b4, b5) ==
  \/ a1 < b1
  \/ a1 = b1 /\ a2 < b2
  \/ a1 = b1 /\ a2 = b2 /\ a3 < b3
  \/ a1 = b1 /\ a2 = b2 /\ a3 = b3 /\ a4 < b4
  \/ a1 = b1 /\ a2 = b2 /\ a3 = b3 /\ a4 = b4 /\ a5 < b5

LEMMA SoonerIs ==
  ASSUME NEW ns, NEW x, NEW y
  PROVE  Sooner(ns, x, y) <=>
           Ahead(Total(ns, x), Heuristic(ns[x].place), ns[x].cost, ns[x].label, x,
                 Total(ns, y), Heuristic(ns[y].place), ns[y].cost, ns[y].label, y)
<1> DEFINE Rank(z) == <<ns[z].cost + Heuristic(ns[z].place), Heuristic(ns[z].place),
                        ns[z].cost, ns[z].label, z>>
<1>1. \A z : /\ Rank(z)[1] = Total(ns, z) /\ Rank(z)[2] = Heuristic(ns[z].place)
             /\ Rank(z)[3] = ns[z].cost /\ Rank(z)[4] = ns[z].label /\ Rank(z)[5] = z
      BY DEF Total
<1>2. Sooner(ns, x, y) <=> \E i \in 1..5 : /\ Rank(x)[i] < Rank(y)[i]
                                           /\ \A j \in 1..(i - 1) : Rank(x)[j] = Rank(y)[j]
      BY DEF Sooner
<1> HIDE DEF Rank
<1> DEFINE At(i) == /\ Rank(x)[i] < Rank(y)[i]
                    /\ \A j \in 1..(i - 1) : Rank(x)[j] = Rank(y)[j]
<1>3. 1..5 = {1, 2, 3, 4, 5}
      OBVIOUS
<1>4. Sooner(ns, x, y) <=> At(1) \/ At(2) \/ At(3) \/ At(4) \/ At(5)
      BY <1>2, <1>3
<1>5. /\ 1..(1 - 1) = {} /\ 1..(2 - 1) = {1} /\ 1..(3 - 1) = {1, 2} /\ 1..(4 - 1) = {1, 2, 3}
      /\ 1..(5 - 1) = {1, 2, 3, 4}
      OBVIOUS
<1>6. At(1) <=> Rank(x)[1] < Rank(y)[1]
      BY <1>5
<1>7. At(2) <=> Rank(x)[1] = Rank(y)[1] /\ Rank(x)[2] < Rank(y)[2]
      BY <1>5
<1>8. At(3) <=> Rank(x)[1] = Rank(y)[1] /\ Rank(x)[2] = Rank(y)[2] /\ Rank(x)[3] < Rank(y)[3]
      BY <1>5
<1>9. At(4) <=> /\ Rank(x)[1] = Rank(y)[1] /\ Rank(x)[2] = Rank(y)[2] /\ Rank(x)[3] = Rank(y)[3]
                /\ Rank(x)[4] < Rank(y)[4]
      BY <1>5
<1>10. At(5) <=> /\ Rank(x)[1] = Rank(y)[1] /\ Rank(x)[2] = Rank(y)[2] /\ Rank(x)[3] = Rank(y)[3]
                 /\ Rank(x)[4] = Rank(y)[4] /\ Rank(x)[5] < Rank(y)[5]
      BY <1>5
<1> HIDE DEF At
<1>11. QED
       BY <1>1, <1>4, <1>6, <1>7, <1>8, <1>9, <1>10 DEF Ahead

LEMMA AheadChains ==
  ASSUME NEW a1 \in Int, NEW a2 \in Int, NEW a3 \in Int, NEW a4 \in Int, NEW a5 \in Int,
         NEW b1 \in Int, NEW b2 \in Int, NEW b3 \in Int, NEW b4 \in Int, NEW b5 \in Int,
         NEW c1 \in Int, NEW c2 \in Int, NEW c3 \in Int, NEW c4 \in Int, NEW c5 \in Int,
         Ahead(a1, a2, a3, a4, a5, b1, b2, b3, b4, b5), Ahead(b1, b2, b3, b4, b5, c1, c2, c3, c4, c5)
  PROVE  Ahead(a1, a2, a3, a4, a5, c1, c2, c3, c4, c5)
BY DEF Ahead

LEMMA SoonerOrders ==
  ASSUME NEW ns \in Seq(SearchNode)
  PROVE  /\ \A x, y \in DOMAIN ns : x # y => Sooner(ns, x, y) \/ Sooner(ns, y, x)
         /\ \A x, y, z \in DOMAIN ns : Sooner(ns, x, y) /\ Sooner(ns, y, z) => Sooner(ns, x, z)
         /\ \A x, y \in DOMAIN ns : Sooner(ns, x, y) => Total(ns, x) <= Total(ns, y)
<1>1. \A x \in DOMAIN ns :
        /\ Total(ns, x) \in Int /\ Heuristic(ns[x].place) \in Int /\ ns[x].cost \in Int /\ ns[x].label \in Int
        /\ x \in Int
  <2> TAKE x \in DOMAIN ns
  <2>1. ns[x] \in SearchNode /\ x \in Int
        BY SeqIs
  <2>2. ns[x].place \in Places /\ ns[x].cost \in Nat /\ ns[x].label \in Nat
        BY <2>1 DEF SearchNode
  <2>3. Heuristic(ns[x].place) \in Nat
        BY <2>2, HeuristicIs
  <2>4. QED
        BY <2>1, <2>2, <2>3 DEF Total
<1>2. \A x, y \in DOMAIN ns : x # y => Sooner(ns, x, y) \/ Sooner(ns, y, x)
  <2> TAKE x, y \in DOMAIN ns
  <2> DEFINE tx == Total(ns, x)
             hx == Heuristic(ns[x].place)
             cx == ns[x].cost
             lx == ns[x].label
             ty == Total(ns, y)
             hy == Heuristic(ns[y].place)
             cy == ns[y].cost
             ly == ns[y].label
  <2>1. {tx, hx, cx, lx, x} \subseteq Int /\ {ty, hy, cy, ly, y} \subseteq Int
        BY <1>1
  <2>2. Sooner(ns, x, y) <=> Ahead(tx, hx, cx, lx, x, ty, hy, cy, ly, y)
        BY SoonerIs
  <2>3. Sooner(ns, y, x) <=> Ahead(ty, hy, cy, ly, y, tx, hx, cx, lx, x)
        BY SoonerIs
  <2> HIDE DEF tx, hx, cx, lx, ty, hy, cy, ly
  <2>4. /\ Ahead(tx, hx, cx, lx, x, ty, hy, cy, ly, y) \/ Ahead(ty, hy, cy, ly, y, tx, hx, cx, lx, x) \/ x = y
        /\ Ahead(tx, hx, cx, lx, x, ty, hy, cy, ly, y) => tx <= ty
        BY <2>1 DEF Ahead
  <2>5. QED
        BY <2>2, <2>3, <2>4 DEF tx, ty
<1>3. \A x, y, z \in DOMAIN ns : Sooner(ns, x, y) /\ Sooner(ns, y, z) => Sooner(ns, x, z)
  <2> TAKE x, y, z \in DOMAIN ns
  <2> DEFINE tx == Total(ns, x)
             hx == Heuristic(ns[x].place)
             cx == ns[x].cost
             lx == ns[x].label
             ty == Total(ns, y)
             hy == Heuristic(ns[y].place)
             cy == ns[y].cost
             ly == ns[y].label
             tz == Total(ns, z)
             hz == Heuristic(ns[z].place)
             cz == ns[z].cost
             lz == ns[z].label
  <2>1. /\ {tx, hx, cx, lx, x} \subseteq Int
        /\ {ty, hy, cy, ly, y} \subseteq Int
        /\ {tz, hz, cz, lz, z} \subseteq Int
        BY <1>1
  <2>2. Sooner(ns, x, y) <=> Ahead(tx, hx, cx, lx, x, ty, hy, cy, ly, y)
        BY SoonerIs
  <2>3. Sooner(ns, y, z) <=> Ahead(ty, hy, cy, ly, y, tz, hz, cz, lz, z)
        BY SoonerIs
  <2>4. Sooner(ns, x, z) <=> Ahead(tx, hx, cx, lx, x, tz, hz, cz, lz, z)
        BY SoonerIs
  <2> HIDE DEF tx, hx, cx, lx, ty, hy, cy, ly, tz, hz, cz, lz
  <2>5. QED
        BY <2>1, <2>2, <2>3, <2>4, AheadChains
<1>4. \A x, y \in DOMAIN ns : Sooner(ns, x, y) => Total(ns, x) <= Total(ns, y)
  <2> TAKE x, y \in DOMAIN ns
  <2> DEFINE tx == Total(ns, x)
             hx == Heuristic(ns[x].place)
             cx == ns[x].cost
             lx == ns[x].label
             ty == Total(ns, y)
             hy == Heuristic(ns[y].place)
             cy == ns[y].cost
             ly == ns[y].label
  <2>1. {tx, hx, cx, lx, x} \subseteq Int /\ {ty, hy, cy, ly, y} \subseteq Int
        BY <1>1
  <2>2. Sooner(ns, x, y) <=> Ahead(tx, hx, cx, lx, x, ty, hy, cy, ly, y)
        BY SoonerIs
  <2>3. Sooner(ns, y, x) <=> Ahead(ty, hy, cy, ly, y, tx, hx, cx, lx, x)
        BY SoonerIs
  <2> HIDE DEF tx, hx, cx, lx, ty, hy, cy, ly
  <2>4. /\ Ahead(tx, hx, cx, lx, x, ty, hy, cy, ly, y) \/ Ahead(ty, hy, cy, ly, y, tx, hx, cx, lx, x) \/ x = y
        /\ Ahead(tx, hx, cx, lx, x, ty, hy, cy, ly, y) => tx <= ty
        BY <2>1 DEF Ahead
  <2>5. QED
        BY <2>2, <2>3, <2>4 DEF tx, ty
<1>5. QED
      BY <1>2, <1>3, <1>4

\* What is popped is in the queue, and nothing in it has a smaller total.
LEMMA SoonestIs ==
  ASSUME NEW ns \in Seq(SearchNode), NEW queue \in SUBSET (DOMAIN ns), queue # {}
  PROVE  /\ Soonest(ns, queue) \in queue
         /\ \A m \in queue : Total(ns, Soonest(ns, queue)) <= Total(ns, m)
<1> DEFINE First(T) == \E n \in T : \A m \in T \ {n} : Sooner(ns, n, m)
           P == {T \in SUBSET queue : T # {} => First(T)}
<1>1. IsFiniteSet(queue)
  <2>1. DOMAIN ns = 1..Len(ns) /\ Len(ns) \in Nat
        BY SeqIs
  <2>2. IsFiniteSet(DOMAIN ns)
        BY <2>1, FS_Interval
  <2>3. QED
        BY <2>2, FS_Subset
<1>2. \A T \in SUBSET queue : T \in P
  <2>1. {} \in P
        OBVIOUS
  <2>2. ASSUME NEW T \in SUBSET queue, NEW x \in T, T \ {x} \in P PROVE T \in P
    <3>1. CASE T \ {x} = {}
      <4>1. \A m \in T \ {x} : Sooner(ns, x, m)
            BY <3>1
      <4>2. QED
            BY <4>1
    <3>2. CASE T \ {x} # {}
      <4>1. PICK n \in T \ {x} : \A m \in (T \ {x}) \ {n} : Sooner(ns, n, m)
            BY <2>2, <3>2
      <4>2. x \in DOMAIN ns /\ n \in DOMAIN ns /\ x # n /\ T \subseteq DOMAIN ns
            OBVIOUS
      <4>3. CASE Sooner(ns, n, x)
        <5>1. \A m \in T \ {n} : Sooner(ns, n, m)
              BY <4>1, <4>3
        <5>2. QED
              BY <5>1
      <4>4. CASE Sooner(ns, x, n)
        <5>1. \A m \in T \ {x} : Sooner(ns, x, m)
              BY <4>1, <4>2, <4>4, SoonerOrders
        <5>2. QED
              BY <5>1
      <4>5. QED
            BY <4>2, <4>3, <4>4, SoonerOrders
    <3>3. QED
          BY <3>1, <3>2
  <2> HIDE DEF P
  <2>3. QED
        BY <1>1, <2>1, <2>2, SubsetInduction
<1> DEFINE s == Soonest(ns, queue)
<1>3. First(queue)
      BY <1>2
<1>4. s \in queue /\ \A m \in queue \ {s} : Sooner(ns, s, m)
      BY <1>3 DEF Soonest
<1> HIDE DEF s
<1>5. \A m \in queue : Total(ns, s) <= Total(ns, m)
  <2> TAKE m \in queue
  <2>1. CASE m = s
    <3>1. ns[s] \in SearchNode
          BY <1>4, SeqIs
    <3>2. ns[s].place \in Places /\ ns[s].cost \in Nat
          BY <3>1 DEF SearchNode
    <3>3. Total(ns, s) \in Int
          BY <3>2, HeuristicIs DEF Total
    <3>4. QED
          BY <2>1, <3>3
  <2>2. CASE m # s
        BY <1>4, <2>2, SoonerOrders
  <2>3. QED
        BY <2>1, <2>2
<1>6. QED
      BY <1>4, <1>5 DEF s

-----------------------------------------------------------------------------
(* What the search has found                                               *)

SearchStates ==
  [nodes : Seq(SearchNode), open : SUBSET Nat, labels : Seq(Nat), rejected : SUBSET RejectionKinds, full : BOOLEAN]

Accepts(w, m) == w.verdict[m] = "ok"

\* Every node but the first was made by an accepted motion from the place of its parent.
Real(w, ns) ==
  /\ Len(ns) >= 1 /\ ns[1].place = Start /\ ns[1].parent = 1 /\ ns[1].cost = 0
  /\ \A i \in 2..Len(ns) :
       /\ ns[i].parent \in 1..i - 1 /\ ns[i].by \in DOMAIN Motions /\ Accepts(w, ns[i].by)
       /\ Motions[ns[i].by].from = ns[ns[i].parent].place /\ Motions[ns[i].by].to = ns[i].place
       /\ ns[i].cost = ns[ns[i].parent].cost + MotionCost(w, ns[i].by)

Holder(s, l) == s.nodes[s.labels[l]]

\* Every node has a label, every label an active node, and no two the same mechanical label.
Fit(w, s) ==
  /\ s.open \subseteq 1..Len(s.nodes) /\ Len(s.labels) \in 1..MaxLabels
  /\ \A i \in 1..Len(s.nodes) : s.nodes[i].label \in 1..Len(s.labels)
  /\ \A l \in 1..Len(s.labels) : s.labels[l] \in 1..Len(s.nodes) /\ Holder(s, l).label = l
  /\ \A k, l \in 1..Len(s.labels) : w.label[Holder(s, k).place] = w.label[Holder(s, l).place] => k = l

Active(s, i) == s.labels[s.nodes[i].label] = i

\* The place has a label whose active node costs no more.
Reached(w, s, p, c) ==
  \E l \in 1..Len(s.labels) : w.label[Holder(s, l).place] = w.label[p] /\ Holder(s, l).cost <= c

\* The motion was tried from the node, and what came of it is kept.
Tried(w, s, i, m) ==
  IF Accepts(w, m) THEN Reached(w, s, Motions[m].to, s.nodes[i].cost + MotionCost(w, m) + w.tolerance)
  ELSE w.verdict[m] \in s.rejected

\* An active node that has left the queue is not at a goal, and all its primitives were tried.
Closed(w, s, except) ==
  \A i \in 1..Len(s.nodes) \ except :
    Active(s, i) /\ i \notin s.open =>
      /\ s.nodes[i].place \notin Goals
      /\ \A m \in Primitives : Motions[m].from = s.nodes[i].place => Tried(w, s, i, m)

\* From s to t nodes are added, labels are held for less, and nothing is closed.
Extends(w, s, t) ==
  /\ Len(s.nodes) <= Len(t.nodes) /\ \A i \in 1..Len(s.nodes) : t.nodes[i] = s.nodes[i]
  /\ \A p \in Places, c \in Nat : Reached(w, s, p, c) => Reached(w, t, p, c)
  /\ s.rejected \subseteq t.rejected
  /\ \A i \in 1..Len(t.nodes) : Active(t, i) /\ i \notin t.open =>
       i \in 1..Len(s.nodes) /\ Active(s, i) /\ i \notin s.open

LEMMA WorldIs ==
  ASSUME NEW w \in Worlds
  PROVE  /\ w.tolerance \in Nat
         /\ \A m \in DOMAIN Motions : MotionCost(w, m) \in Nat /\ MotionCost(w, m) >= Motions[m].length
         /\ \A m \in DOMAIN Motions : Accepts(w, m) \/ w.verdict[m] \in RejectionKinds
<1>1. /\ w.tolerance \in Nat
      /\ \A m \in DOMAIN Motions : w.soft[m] \in Nat /\ w.verdict[m] \in {"ok"} \cup RejectionKinds
      BY SearchAssumption
<1>2. \A m \in DOMAIN Motions : MotionCost(w, m) \in Nat /\ MotionCost(w, m) >= Motions[m].length
  <2> TAKE m \in DOMAIN Motions
  <2>1. Motions[m].length \in Nat /\ w.soft[m] \in Nat
        BY <1>1, MotionsAre
  <2>2. QED
        BY <2>1 DEF MotionCost
<1>3. QED
      BY <1>1, <1>2 DEF Accepts

LEMMA StateIs ==
  ASSUME NEW s \in SearchStates
  PROVE  /\ s = [nodes |-> s.nodes, open |-> s.open, labels |-> s.labels, rejected |-> s.rejected, full |-> s.full]
         /\ s.nodes \in Seq(SearchNode) /\ s.open \in SUBSET Nat /\ s.labels \in Seq(Nat)
         /\ s.rejected \in SUBSET RejectionKinds /\ s.full \in BOOLEAN
BY DEF SearchStates

LEMMA Updated ==
  ASSUME NEW s \in SearchStates, NEW x
  PROVE  /\ [s EXCEPT !.full = x]
              = [nodes |-> s.nodes, open |-> s.open, labels |-> s.labels, rejected |-> s.rejected, full |-> x]
         /\ [s EXCEPT !.rejected = x]
              = [nodes |-> s.nodes, open |-> s.open, labels |-> s.labels, rejected |-> x, full |-> s.full]
<1>1. [s EXCEPT !.full = x]
        = [nodes |-> s.nodes, open |-> s.open, labels |-> s.labels, rejected |-> s.rejected, full |-> x]
      BY DEF SearchStates
<1>2. [s EXCEPT !.rejected = x]
        = [nodes |-> s.nodes, open |-> s.open, labels |-> s.labels, rejected |-> x, full |-> s.full]
      BY DEF SearchStates
<1>3. QED
      BY <1>1, <1>2

LEMMA NodeIs ==
  ASSUME NEW node \in SearchNode
  PROVE  /\ node.place \in Places /\ node.by \in Nat /\ node.parent \in Nat /\ node.cost \in Nat /\ node.label \in Nat
         /\ \A l \in Nat : Labelled(node, l)
              = [place |-> node.place, by |-> node.by, parent |-> node.parent, cost |-> node.cost, label |-> l]
BY DEF SearchNode, Labelled

\* What inserting a node comes to.
LEMMA InsertIs ==
  ASSUME NEW w, NEW s \in SearchStates, NEW node \in SearchNode
  PROVE  LET t == Insert(w, s, node)
             Same(l) == w.label[Holder(s, l).place] = w.label[node.place]
         IN  \/ \E l \in DOMAIN s.labels :
                  /\ Same(l)
                  /\ \/ t = s /\ Holder(s, l).cost <= node.cost + w.tolerance
                     \/ /\ t = Given(s, node, l, [s.labels EXCEPT ![l] = Len(s.nodes) + 1])
                        /\ ~(Holder(s, l).cost <= node.cost + w.tolerance)
             \/ /\ \A l \in DOMAIN s.labels : ~Same(l)
                /\ \/ t = [nodes |-> s.nodes, open |-> s.open, labels |-> s.labels, rejected |-> s.rejected, full |-> TRUE]
                   \/ /\ t = Given(s, node, Len(s.labels) + 1, Append(s.labels, Len(s.nodes) + 1))
                      /\ ~(Len(s.labels) >= MaxLabels)
<1> DEFINE t == Insert(w, s, node)
           Same(l) == w.label[Holder(s, l).place] = w.label[node.place]
           same == LabelOf(w, s, node.place)
           fresh == Len(s.nodes) + 1
           chosen == CHOOSE x \in same : TRUE
<1>1. t = IF same # {}
          THEN IF Keeps(w, s.nodes[s.labels[chosen]], node) THEN s
               ELSE Given(s, node, chosen, [s.labels EXCEPT ![chosen] = fresh])
          ELSE IF Len(s.labels) >= MaxLabels THEN [s EXCEPT !.full = TRUE]
               ELSE Given(s, node, Len(s.labels) + 1, Append(s.labels, fresh))
      BY DEF Insert
<1>2. same = {l \in DOMAIN s.labels : Same(l)}
      BY DEF LabelOf, Holder
<1>3. [s EXCEPT !.full = TRUE]
        = [nodes |-> s.nodes, open |-> s.open, labels |-> s.labels, rejected |-> s.rejected, full |-> TRUE]
      BY Updated
<1> HIDE DEF t, Same, same
<1>4. CASE same # {}
  <2>1. chosen \in same
        BY <1>4
  <2>2. chosen \in DOMAIN s.labels /\ Same(chosen)
        BY <1>2, <2>1
  <2>3. Keeps(w, s.nodes[s.labels[chosen]], node) <=> Holder(s, chosen).cost <= node.cost + w.tolerance
        BY DEF Keeps, Holder
  <2> HIDE DEF chosen
  <2>4. QED
        BY <1>1, <1>4, <2>2, <2>3 DEF t, Same
<1>5. CASE same = {}
  <2>1. \A l \in DOMAIN s.labels : ~Same(l)
        BY <1>2, <1>5
  <2>2. QED
        BY <1>1, <1>3, <1>5, <2>1 DEF t, Same
<1>6. QED
      BY <1>4, <1>5

\* Whatever node is inserted, what was found is kept; and unless the labels are spent, its
\* place is reached for no more than it costs, but for the tolerance.
Founded(w, s, node) ==
  /\ node.parent \in 1..Len(s.nodes) /\ node.by \in DOMAIN Motions /\ Accepts(w, node.by)
  /\ Motions[node.by].from = s.nodes[node.parent].place /\ Motions[node.by].to = node.place
  /\ node.cost = s.nodes[node.parent].cost + MotionCost(w, node.by)

Sensible(w, s) == s \in SearchStates /\ Real(w, s.nodes) /\ Fit(w, s)

LEMMA FullIs ==
  ASSUME NEW w, NEW s, Sensible(w, s),
         NEW t, t = [nodes |-> s.nodes, open |-> s.open, labels |-> s.labels, rejected |-> s.rejected, full |-> TRUE]
  PROVE  Sensible(w, t) /\ Extends(w, s, t)
<1>1. t.nodes = s.nodes /\ t.open = s.open /\ t.labels = s.labels /\ t.rejected = s.rejected
      OBVIOUS
<1>2. t \in SearchStates
      BY StateIs DEF Sensible, SearchStates
<1>3. Len(s.nodes) \in Nat
      BY StateIs, SeqIs DEF Sensible
<1>4. Fit(w, t)
      BY <1>1 DEF Sensible, Fit, Holder
<1>5. Extends(w, s, t)
      BY <1>1, <1>3 DEF Extends, Reached, Holder, Active
<1>6. QED
      BY <1>1, <1>2, <1>4, <1>5 DEF Sensible

\* A new node that holds a label which was free, or which it takes from one that costs more.
LEMMA GivenIs ==
  ASSUME NEW w, NEW s, Sensible(w, s), NEW node \in SearchNode, Founded(w, s, node),
         NEW l \in Nat \ {0}, NEW holders \in Seq(Nat), NEW t, t = Given(s, node, l, holders),
         Len(holders) \in 1..MaxLabels, l \in 1..Len(holders), holders[l] = Len(s.nodes) + 1,
         Len(s.labels) <= Len(holders), \A k \in 1..Len(holders) : k # l => k \in 1..Len(s.labels) /\ holders[k] = s.labels[k],
         \A k \in 1..Len(s.labels) : k # l => w.label[Holder(s, k).place] # w.label[node.place],
         l \in 1..Len(s.labels) => /\ w.label[Holder(s, l).place] = w.label[node.place]
                                   /\ node.cost <= Holder(s, l).cost
  PROVE  Sensible(w, t) /\ Extends(w, s, t) /\ \A c \in Nat : node.cost <= c => Reached(w, t, node.place, c)
<1> DEFINE new == Labelled(node, l)
           n == Len(s.nodes)
<1>1. s.nodes \in Seq(SearchNode) /\ s.open \in SUBSET Nat /\ s.labels \in Seq(Nat) /\ s.rejected \in SUBSET RejectionKinds
      BY StateIs DEF Sensible
<1>2. n \in Nat /\ (\A i \in 1..n : s.nodes[i] \in SearchNode) /\ Len(s.labels) \in Nat /\ Len(holders) \in Nat
      BY <1>1, SeqIs
<1>3. /\ new \in SearchNode /\ new.place = node.place /\ new.by = node.by /\ new.parent = node.parent
      /\ new.cost = node.cost /\ new.label = l
  <2>1. /\ node.place \in Places /\ node.by \in Nat /\ node.parent \in Nat /\ node.cost \in Nat /\ l \in Nat
        BY NodeIs
  <2>2. new = [place |-> node.place, by |-> node.by, parent |-> node.parent, cost |-> node.cost, label |-> l]
        BY <2>1, NodeIs
  <2> HIDE DEF new
  <2>3. QED
        BY <2>1, <2>2 DEF SearchNode
<1> HIDE DEF new
<1>4. /\ t.nodes = Append(s.nodes, new) /\ t.open = s.open \cup {n + 1} /\ t.labels = holders /\ t.rejected = s.rejected
      /\ t.full = FALSE
      BY DEF Given, new
<1>5. /\ t.nodes \in Seq(SearchNode) /\ Len(t.nodes) = n + 1 /\ t.nodes[n + 1] = new
      /\ \A i \in 1..n : t.nodes[i] = s.nodes[i]
      BY <1>1, <1>3, <1>4, AppendTo
<1>6. t \in SearchStates
  <2>1. t = [nodes |-> t.nodes, open |-> t.open, labels |-> t.labels, rejected |-> t.rejected, full |-> t.full]
        BY DEF Given
  <2>2. t.open \in SUBSET Nat
        BY <1>1, <1>2, <1>4
  <2>3. QED
        BY <1>1, <1>4, <1>5, <2>1, <2>2 DEF SearchStates
<1>7. Real(w, t.nodes)
  <2>1. Real(w, s.nodes) /\ n >= 1
        BY DEF Sensible, Real
  <2>2. 1 \in 1..n /\ Len(t.nodes) >= 1
        BY <1>2, <1>5, <2>1
  <2>3. t.nodes[1].place = Start /\ t.nodes[1].parent = 1 /\ t.nodes[1].cost = 0
        BY <1>5, <2>1, <2>2 DEF Real
  <2> DEFINE ns == t.nodes
             Link(i) == /\ ns[i].parent \in 1..i - 1 /\ ns[i].by \in DOMAIN Motions /\ Accepts(w, ns[i].by)
                        /\ Motions[ns[i].by].from = ns[ns[i].parent].place /\ Motions[ns[i].by].to = ns[i].place
                        /\ ns[i].cost = ns[ns[i].parent].cost + MotionCost(w, ns[i].by)
  <2>4. ASSUME NEW i \in 2..n PROVE Link(i)
    <3>1. i \in 1..n /\ s.nodes[i].parent \in 1..i - 1 /\ s.nodes[i].parent \in 1..n
      <4>1. s.nodes[i].parent \in 1..i - 1
            BY <2>1 DEF Real
      <4>2. i \in 1..n
            BY <1>2
      <4>3. QED
            BY <1>2, <4>1, <4>2
    <3>2. ns[i] = s.nodes[i] /\ ns[s.nodes[i].parent] = s.nodes[s.nodes[i].parent]
          BY <1>5, <3>1
    <3>3. QED
          BY <2>1, <3>1, <3>2 DEF Real
  <2>5. Link(n + 1)
    <3>1. node.parent \in 1..n
          BY DEF Founded
    <3>2. ns[node.parent] = s.nodes[node.parent]
          BY <1>5, <3>1
    <3>2a. (n + 1) - 1 = n
      <4> HIDE DEF n
      <4>1. QED
            BY <1>2
    <3>3. ns[n + 1].parent = node.parent /\ ns[n + 1].by = node.by /\ ns[n + 1].place = node.place /\ ns[n + 1].cost = node.cost
          BY <1>3, <1>5
    <3> HIDE DEF ns
    <3>4. QED
          BY <3>1, <3>2, <3>2a, <3>3 DEF Founded
  <2>6. \A i \in 2..n + 1 : Link(i)
    <3> TAKE i \in 2..n + 1
    <3>1. i \in 2..n \/ i = n + 1
          BY <1>2
    <3> HIDE DEF Link
    <3>2. QED
          BY <2>4, <2>5, <3>1
  <2>7. QED
        BY <1>5, <2>2, <2>3, <2>6 DEF Real
<1>8. /\ Holder(t, l) = new
      /\ \A k \in 1..Len(holders) : k # l => k \in 1..Len(s.labels) /\ Holder(t, k) = Holder(s, k)
  <2>1. Holder(t, l) = new
        BY <1>4, <1>5 DEF Holder
  <2>2. ASSUME NEW k \in 1..Len(holders), k # l PROVE k \in 1..Len(s.labels) /\ Holder(t, k) = Holder(s, k)
    <3>1. k \in 1..Len(s.labels) /\ holders[k] = s.labels[k]
          BY <2>2
    <3>2. s.labels[k] \in 1..n
          BY <3>1 DEF Sensible, Fit
    <3>3. QED
          BY <1>4, <1>5, <3>1, <3>2 DEF Holder
  <2>3. QED
        BY <2>1, <2>2
<1>9. Fit(w, t)
  <2>1. Fit(w, s)
        BY DEF Sensible
  <2>2. t.open \subseteq 1..Len(t.nodes)
        BY <1>2, <1>4, <1>5, <2>1 DEF Fit
  <2>3. \A i \in 1..Len(t.nodes) : t.nodes[i].label \in 1..Len(t.labels)
    <3> TAKE i \in 1..Len(t.nodes)
    <3>1. CASE i = n + 1
          BY <1>3, <1>4, <1>5, <3>1
    <3>2. CASE i # n + 1
      <4>1. i \in 1..n
            BY <1>2, <1>5, <3>2
      <4>2. s.nodes[i].label \in 1..Len(s.labels)
            BY <2>1, <4>1 DEF Fit
      <4>3. QED
            BY <1>2, <1>4, <1>5, <4>1, <4>2
    <3>3. QED
          BY <3>1, <3>2
  <2>4. ASSUME NEW k \in 1..Len(t.labels) PROVE t.labels[k] \in 1..Len(t.nodes) /\ Holder(t, k).label = k
    <3>1. CASE k = l
          BY <1>2, <1>3, <1>4, <1>5, <1>8, <3>1
    <3>2. CASE k # l
      <4>1. k \in 1..Len(s.labels) /\ holders[k] = s.labels[k] /\ Holder(t, k) = Holder(s, k)
            BY <1>4, <1>8, <3>2
      <4>2. s.labels[k] \in 1..n /\ Holder(s, k).label = k
            BY <2>1, <4>1 DEF Fit
      <4>3. QED
            BY <1>2, <1>4, <1>5, <4>1, <4>2
    <3>3. QED
          BY <3>1, <3>2
  <2>5. ASSUME NEW j \in 1..Len(t.labels), NEW k \in 1..Len(t.labels), j # k
        PROVE  w.label[Holder(t, j).place] # w.label[Holder(t, k).place]
    <3>1. CASE j = l
      <4>1. k \in 1..Len(s.labels) /\ Holder(t, k) = Holder(s, k) /\ k # l
            BY <1>4, <1>8, <2>5, <3>1
      <4>2. Holder(t, j).place = node.place
            BY <1>3, <1>8, <3>1
      <4>3. QED
            BY <4>1, <4>2
    <3>2. CASE k = l
      <4>1. j \in 1..Len(s.labels) /\ Holder(t, j) = Holder(s, j) /\ j # l
            BY <1>4, <1>8, <2>5, <3>2
      <4>2. Holder(t, k).place = node.place
            BY <1>3, <1>8, <3>2
      <4>3. QED
            BY <4>1, <4>2
    <3>3. CASE j # l /\ k # l
      <4>1. /\ j \in 1..Len(s.labels) /\ Holder(t, j) = Holder(s, j)
            /\ k \in 1..Len(s.labels) /\ Holder(t, k) = Holder(s, k)
            BY <1>4, <1>8, <3>3
      <4>2. QED
            BY <2>1, <2>5, <4>1 DEF Fit
    <3>4. QED
          BY <3>1, <3>2, <3>3
  <2>6. QED
        BY <1>4, <2>2, <2>3, <2>4, <2>5 DEF Fit
<1>10. \A c \in Nat : node.cost <= c => Reached(w, t, node.place, c)
  <2>1. Holder(t, l).place = node.place /\ Holder(t, l).cost = node.cost /\ l \in 1..Len(t.labels)
        BY <1>3, <1>4, <1>8
  <2>2. QED
        BY <2>1 DEF Reached
<1>11. Extends(w, s, t)
  <2>1. Len(s.nodes) <= Len(t.nodes) /\ \A i \in 1..Len(s.nodes) : t.nodes[i] = s.nodes[i]
        BY <1>2, <1>5
  <2>2. ASSUME NEW p \in Places, NEW c \in Nat, Reached(w, s, p, c) PROVE Reached(w, t, p, c)
    <3>1. PICK k \in 1..Len(s.labels) : w.label[Holder(s, k).place] = w.label[p] /\ Holder(s, k).cost <= c
          BY <2>2 DEF Reached
    <3>2. k \in 1..Len(t.labels)
          BY <1>2, <1>4
    <3>3. CASE k = l
      <4>1. w.label[Holder(t, l).place] = w.label[p]
            BY <1>3, <1>8, <3>1, <3>3
      <4>2. Holder(s, l).cost \in Nat /\ node.cost \in Nat /\ node.cost <= Holder(s, l).cost
        <5>1. s.labels[l] \in 1..n
              BY <3>3 DEF Sensible, Fit
        <5>2. Holder(s, l) \in SearchNode
              BY <1>2, <5>1 DEF Holder
        <5>3. QED
              BY <3>3, <5>2, NodeIs
      <4>3. Holder(t, l).cost <= c
            BY <1>3, <1>8, <3>1, <3>3, <4>2
      <4>4. QED
            BY <3>2, <3>3, <4>1, <4>3 DEF Reached
    <3>4. CASE k # l
          BY <1>4, <1>8, <3>1, <3>2, <3>4 DEF Reached
    <3>5. QED
          BY <3>3, <3>4
  <2>3. ASSUME NEW i \in 1..Len(t.nodes), Active(t, i), i \notin t.open
        PROVE  i \in 1..Len(s.nodes) /\ Active(s, i) /\ i \notin s.open
    <3>1. i \in 1..n /\ i \notin s.open
          BY <1>2, <1>4, <1>5, <2>3
    <3>2. t.nodes[i] = s.nodes[i] /\ holders[s.nodes[i].label] = i
          BY <1>4, <1>5, <2>3, <3>1 DEF Active
    <3>3. s.nodes[i].label # l
          BY <1>2, <3>1, <3>2
    <3>4. s.nodes[i].label \in 1..Len(holders)
      <4>1. s.nodes[i].label \in 1..Len(s.labels)
            BY <3>1 DEF Sensible, Fit
      <4>2. QED
            BY <1>2, <4>1
    <3>5. QED
          BY <3>1, <3>2, <3>3, <3>4 DEF Active
  <2>4. QED
        BY <1>4, <2>1, <2>2, <2>3 DEF Extends
<1>12. QED
       BY <1>6, <1>7, <1>9, <1>10, <1>11 DEF Sensible

LEMMA ExtendsItself ==
  ASSUME NEW w, NEW s, Sensible(w, s)
  PROVE  Extends(w, s, s)
<1>1. Len(s.nodes) \in Nat
      BY StateIs, SeqIs DEF Sensible
<1>2. QED
      BY <1>1 DEF Extends

LEMMA InsertKeeps ==
  ASSUME NEW w \in Worlds, NEW s, Sensible(w, s), NEW node \in SearchNode, Founded(w, s, node),
         NEW t, t = Insert(w, s, node)
  PROVE  Sensible(w, t) /\ Extends(w, s, t) /\ (t.full \/ Reached(w, t, node.place, node.cost + w.tolerance))
<1> DEFINE Same(l) == w.label[Holder(s, l).place] = w.label[node.place]
           n == Len(s.nodes)
<1>1. s \in SearchStates /\ s.labels \in Seq(Nat) /\ n \in Nat
      BY StateIs, SeqIs DEF Sensible
<1>2. Len(s.labels) \in Nat /\ DOMAIN s.labels = 1..Len(s.labels)
      BY <1>1, SeqIs
<1>3. node.cost \in Nat /\ w.tolerance \in Nat /\ node.cost + w.tolerance \in Nat /\ node.cost <= node.cost + w.tolerance
      BY NodeIs, WorldIs
<1>4. /\ Len(s.labels) \in 1..MaxLabels /\ MaxLabels \in Nat
      /\ \A k, l \in 1..Len(s.labels) : w.label[Holder(s, k).place] = w.label[Holder(s, l).place] => k = l
      BY SearchAssumption DEF Sensible, Fit
<1>5. \A l \in 1..Len(s.labels) : Holder(s, l).cost \in Nat
  <2> TAKE l \in 1..Len(s.labels)
  <2>1. s.labels[l] \in 1..n /\ s.nodes \in Seq(SearchNode)
        BY <1>1, StateIs DEF Sensible, Fit
  <2>2. Holder(s, l) \in SearchNode
        BY <2>1, SeqIs DEF Holder
  <2>3. QED
        BY <2>2, NodeIs
<1>6. \/ \E l \in DOMAIN s.labels :
           /\ Same(l)
           /\ \/ t = s /\ Holder(s, l).cost <= node.cost + w.tolerance
              \/ /\ t = Given(s, node, l, [s.labels EXCEPT ![l] = Len(s.nodes) + 1])
                 /\ ~(Holder(s, l).cost <= node.cost + w.tolerance)
      \/ /\ \A l \in DOMAIN s.labels : ~Same(l)
         /\ \/ t = [nodes |-> s.nodes, open |-> s.open, labels |-> s.labels, rejected |-> s.rejected, full |-> TRUE]
            \/ /\ t = Given(s, node, Len(s.labels) + 1, Append(s.labels, Len(s.nodes) + 1))
               /\ ~(Len(s.labels) >= MaxLabels)
      BY <1>1, InsertIs
<1>7. ASSUME NEW l \in 1..Len(s.labels), Same(l), t = s, Holder(s, l).cost <= node.cost + w.tolerance
      PROVE  Sensible(w, t) /\ Extends(w, s, t) /\ Reached(w, t, node.place, node.cost + w.tolerance)
      BY <1>7, ExtendsItself DEF Reached
<1>8. ASSUME NEW l \in 1..Len(s.labels), Same(l),
             t = Given(s, node, l, [s.labels EXCEPT ![l] = Len(s.nodes) + 1]),
             ~(Holder(s, l).cost <= node.cost + w.tolerance)
      PROVE  Sensible(w, t) /\ Extends(w, s, t) /\ Reached(w, t, node.place, node.cost + w.tolerance)
  <2> DEFINE holders == [s.labels EXCEPT ![l] = n + 1]
  <2>1. /\ holders \in Seq(Nat) /\ Len(holders) = Len(s.labels) /\ holders[l] = n + 1
        /\ \A k \in 1..Len(s.labels) : k # l => holders[k] = s.labels[k]
        BY <1>1, <1>2
  <2>2. \A k \in 1..Len(s.labels) : k # l => ~Same(k)
        BY <1>4, <1>8
  <2>3. node.cost <= Holder(s, l).cost
        BY <1>3, <1>5, <1>8
  <2>4. t = Given(s, node, l, holders) /\ l \in Nat \ {0}
        BY <1>2, <1>8
  <2> HIDE DEF holders
  <2>5. /\ Len(holders) \in 1..MaxLabels /\ l \in 1..Len(holders) /\ holders[l] = Len(s.nodes) + 1
        /\ Len(s.labels) <= Len(holders)
        /\ \A k \in 1..Len(holders) : k # l => k \in 1..Len(s.labels) /\ holders[k] = s.labels[k]
    <3>1. Len(holders) = Len(s.labels) /\ holders[l] = Len(s.nodes) + 1
          BY <2>1
    <3>2. \A k \in 1..Len(holders) : k # l => k \in 1..Len(s.labels) /\ holders[k] = s.labels[k]
          BY <2>1, <3>1
    <3>3. Len(s.labels) <= Len(holders)
          BY <1>2, <3>1
    <3>4. QED
          BY <1>4, <3>1, <3>2, <3>3
  <2>6. /\ \A k \in 1..Len(s.labels) : k # l => w.label[Holder(s, k).place] # w.label[node.place]
        /\ l \in 1..Len(s.labels) => /\ w.label[Holder(s, l).place] = w.label[node.place]
                                     /\ node.cost <= Holder(s, l).cost
        BY <1>8, <2>2, <2>3
  <2>7. Sensible(w, t) /\ Extends(w, s, t) /\ \A c \in Nat : node.cost <= c => Reached(w, t, node.place, c)
        BY <2>1, <2>4, <2>5, <2>6, GivenIs
  <2>8. QED
        BY <1>3, <2>7
<1>9. ASSUME \A l \in 1..Len(s.labels) : ~Same(l), ~(Len(s.labels) >= MaxLabels),
             t = Given(s, node, Len(s.labels) + 1, Append(s.labels, Len(s.nodes) + 1))
      PROVE  Sensible(w, t) /\ Extends(w, s, t) /\ Reached(w, t, node.place, node.cost + w.tolerance)
  <2> DEFINE holders == Append(s.labels, n + 1)
             l == Len(s.labels) + 1
  <2>1. /\ holders \in Seq(Nat) /\ Len(holders) = l /\ holders[l] = n + 1
        /\ \A k \in 1..Len(s.labels) : holders[k] = s.labels[k]
        BY <1>1, AppendTo
  <2>2. t = Given(s, node, l, holders) /\ l \in Nat \ {0}
        BY <1>2, <1>9
  <2>3. l \in 1..MaxLabels /\ l \in 1..l /\ Len(s.labels) <= l /\ l \notin 1..Len(s.labels)
        /\ \A k \in 1..l : k # l => k \in 1..Len(s.labels)
        BY <1>2, <1>4, <1>9
  <2> HIDE DEF holders, l
  <2>4. /\ Len(holders) \in 1..MaxLabels /\ l \in 1..Len(holders) /\ holders[l] = Len(s.nodes) + 1
        /\ Len(s.labels) <= Len(holders)
        /\ \A k \in 1..Len(holders) : k # l => k \in 1..Len(s.labels) /\ holders[k] = s.labels[k]
    <3>1. Len(holders) = l /\ holders[l] = Len(s.nodes) + 1
          BY <2>1
    <3>2. \A k \in 1..Len(holders) : k # l => k \in 1..Len(s.labels) /\ holders[k] = s.labels[k]
          BY <2>1, <2>3, <3>1
    <3>3. QED
          BY <2>3, <3>1, <3>2
  <2>5. \A k \in 1..Len(s.labels) : k # l => w.label[Holder(s, k).place] # w.label[node.place]
        BY <1>9
  <2>6. Sensible(w, t) /\ Extends(w, s, t) /\ \A c \in Nat : node.cost <= c => Reached(w, t, node.place, c)
        BY <2>1, <2>2, <2>3, <2>4, <2>5, GivenIs
  <2>7. QED
        BY <1>3, <2>6
<1>10. CASE t = [nodes |-> s.nodes, open |-> s.open, labels |-> s.labels, rejected |-> s.rejected, full |-> TRUE]
       BY <1>10, FullIs
<1> HIDE DEF Same
<1>11. QED
       BY <1>2, <1>6, <1>7, <1>8, <1>9, <1>10

\* One candidate: unless the labels are spent it was tried, and what came of it is kept.
LEMMA TryKeeps ==
  ASSUME NEW w \in Worlds, NEW s, Sensible(w, s), NEW n \in 1..Len(s.nodes), NEW m \in DOMAIN Motions,
         Motions[m].from = s.nodes[n].place, NEW t, t = TryMotion(w, n, s, m)
  PROVE  Sensible(w, t) /\ Extends(w, s, t) /\ (t.full \/ Tried(w, t, n, m))
<1>1. s \in SearchStates /\ s.nodes \in Seq(SearchNode) /\ Len(s.nodes) \in Nat
      BY StateIs, SeqIs DEF Sensible
<1>2. s.nodes[n] \in SearchNode /\ s.nodes[n].cost \in Nat /\ m \in Nat /\ n \in Nat
      BY <1>1, SeqIs, NodeIs, MotionsAre
<1>3. CASE s.full
  <2>1. t = s
        BY <1>3 DEF TryMotion
  <2>2. QED
        BY <1>3, <2>1, ExtendsItself
<1>4. CASE ~s.full /\ ~Accepts(w, m)
  <2> DEFINE kinds == s.rejected \cup {w.verdict[m]}
  <2>1. t = [s EXCEPT !.rejected = kinds]
        BY <1>4 DEF TryMotion, Accepts
  <2>2. t = [nodes |-> s.nodes, open |-> s.open, labels |-> s.labels, rejected |-> kinds, full |-> s.full]
        BY <1>1, <2>1, Updated
  <2>3. w.verdict[m] \in RejectionKinds
        BY <1>4, WorldIs
  <2>4. kinds \in SUBSET RejectionKinds
        BY <1>1, <2>3, StateIs
  <2>5. w.verdict[m] \in kinds /\ s.rejected \subseteq kinds
        OBVIOUS
  <2> HIDE DEF kinds
  <2>6. t.nodes = s.nodes /\ t.open = s.open /\ t.labels = s.labels /\ t.rejected = kinds /\ t.full = s.full
        BY <2>2
  <2>7. t \in SearchStates
        BY <1>1, <2>2, <2>4, StateIs DEF SearchStates
  <2>8. Fit(w, t) /\ Real(w, t.nodes)
    <3>1. Fit(w, s) /\ Real(w, s.nodes)
          BY DEF Sensible
    <3>2. Fit(w, t)
      <4>1. \A l : Holder(t, l) = Holder(s, l)
            BY <2>6 DEF Holder
      <4>2. QED
            BY <2>6, <3>1, <4>1 DEF Fit
    <3>3. QED
          BY <2>6, <3>1, <3>2
  <2>9. Extends(w, s, t)
        BY <1>1, <2>5, <2>6 DEF Extends, Reached, Holder, Active
  <2>10. Tried(w, t, n, m)
        BY <1>4, <2>5, <2>6 DEF Tried
  <2>11. QED
        BY <2>7, <2>8, <2>9, <2>10 DEF Sensible
<1>5. CASE ~s.full /\ Accepts(w, m)
  <2> DEFINE node == [place |-> Motions[m].to, by |-> m, parent |-> n, cost |-> s.nodes[n].cost + MotionCost(w, m), label |-> 0]
  <2>1. t = Insert(w, s, node)
        BY <1>5 DEF TryMotion, Accepts
  <2>2. s.nodes[n].cost + MotionCost(w, m) \in Nat /\ Motions[m].to \in Places
        BY <1>2, WorldIs, MotionsAre
  <2>3. node \in SearchNode /\ Founded(w, s, node)
        BY <1>2, <1>5, <2>2 DEF SearchNode, Founded
  <2>4. node.place = Motions[m].to /\ node.cost = s.nodes[n].cost + MotionCost(w, m)
        OBVIOUS
  <2> HIDE DEF node
  <2>5. Sensible(w, t) /\ Extends(w, s, t) /\ (t.full \/ Reached(w, t, node.place, node.cost + w.tolerance))
        BY <2>1, <2>3, InsertKeeps
  <2>6. t.nodes[n] = s.nodes[n]
        BY <2>5 DEF Extends
  <2>7. QED
        BY <1>5, <2>4, <2>5, <2>6 DEF Tried
<1>6. QED
      BY <1>3, <1>4, <1>5

LEMMA TriedKeeps ==
  ASSUME NEW w \in Worlds, NEW s, Sensible(w, s), NEW t, Extends(w, s, t), NEW n \in 1..Len(s.nodes), NEW m \in DOMAIN Motions,
         Tried(w, s, n, m)
  PROVE  Tried(w, t, n, m)
<1>1. t.nodes[n] = s.nodes[n]
      BY DEF Extends
<1>2. s.nodes[n].cost \in Nat
  <2>1. s.nodes[n] \in SearchNode
        BY StateIs, SeqIs DEF Sensible
  <2>2. QED
        BY <2>1, NodeIs
<1>3. CASE Accepts(w, m)
  <2>1. s.nodes[n].cost + MotionCost(w, m) + w.tolerance \in Nat /\ Motions[m].to \in Places
    <3> DEFINE c == s.nodes[n].cost
               d == MotionCost(w, m)
               e == w.tolerance
    <3>1. c \in Nat /\ d \in Nat /\ e \in Nat
          BY <1>2, WorldIs
    <3>2. Motions[m].to \in Places
          BY MotionsAre
    <3> HIDE DEF c, d, e
    <3>3. c + d + e \in Nat
          BY <3>1
    <3>4. QED
          BY <3>2, <3>3 DEF c, d, e
  <2>2. QED
        BY <1>1, <1>3, <2>1 DEF Tried, Extends
<1>4. CASE ~Accepts(w, m)
      BY <1>4 DEF Tried, Extends
<1>5. QED
      BY <1>3, <1>4

LEMMA ClosedKeeps ==
  ASSUME NEW w \in Worlds, NEW s, Sensible(w, s), NEW t, Extends(w, s, t), NEW except, Closed(w, s, except)
  PROVE  Closed(w, t, except)
<1> SUFFICES ASSUME NEW i \in 1..Len(t.nodes) \ except, Active(t, i), i \notin t.open
             PROVE  /\ t.nodes[i].place \notin Goals
                    /\ \A m \in Primitives : Motions[m].from = t.nodes[i].place => Tried(w, t, i, m)
    BY DEF Closed
<1>1. i \in 1..Len(s.nodes) /\ Active(s, i) /\ i \notin s.open
      BY DEF Extends
<1>2. t.nodes[i] = s.nodes[i]
      BY <1>1 DEF Extends
<1>3. /\ s.nodes[i].place \notin Goals
      /\ \A m \in Primitives : Motions[m].from = s.nodes[i].place => Tried(w, s, i, m)
      BY <1>1 DEF Closed
<1>4. \A m \in Primitives : m \in DOMAIN Motions
      BY DEF Primitives
<1>5. QED
      BY <1>1, <1>2, <1>3, <1>4, TriedKeeps

-----------------------------------------------------------------------------
(* Expanding a node                                                        *)

LEMMA TryMotionsKeep ==
  ASSUME world \in Worlds, NEW n \in 1..Len(nodes), NEW count, NEW last \in 0..Len(Motions),
         NEW b, b = [nodes |-> nodes, open |-> open \ {n}, labels |-> labels, rejected |-> rejected, full |-> FALSE],
         Sensible(world, b), Closed(world, b, {n}), Reached(world, b, Start, 0), NEW t, t = TryMotions(n, count, last)
  PROVE  /\ Sensible(world, t) /\ Closed(world, t, {n}) /\ Reached(world, t, Start, 0) /\ n \in 1..Len(t.nodes) /\ t.nodes[n] = nodes[n]
         /\ t.full \/ \A m \in Primitives : m <= last /\ Motions[m].from = nodes[n].place => Tried(world, t, n, m)
<1> DEFINE V == {s \in SearchStates : /\ Sensible(world, s) /\ Closed(world, s, {n}) /\ Reached(world, s, Start, 0)
                                     /\ n \in 1..Len(s.nodes) /\ s.nodes[n] = nodes[n]}
           Next(m, s) == IF Applies(m, nodes[n].place, count) THEN TryMotion(world, n, s, m) ELSE s
           F == [e \in Nat \X V |-> IF e[1] \in DOMAIN Motions THEN Next(e[1], e[2]) ELSE e[2]]
           Step(f) == [m \in 0..last |-> IF m = 0 THEN b ELSE Next(m, f[m - 1])]
           after == CHOOSE f : f = Step(f)
<1>1. last \in Nat /\ \A m \in 1..last : m \in DOMAIN Motions /\ m \in 0..last /\ m - 1 \in 0..last /\ m # 0 /\ m \in Nat
      BY MotionsAre
<1>2. b \in V
      BY DEF Sensible
<1>3. ASSUME NEW m \in DOMAIN Motions, NEW s \in V
      PROVE  /\ Next(m, s) \in V
             /\ Applies(m, nodes[n].place, count) => Next(m, s).full \/ Tried(world, Next(m, s), n, m)
             /\ Extends(world, s, Next(m, s)) /\ (s.full => Next(m, s).full)
  <2>1. Sensible(world, s) /\ Closed(world, s, {n}) /\ Reached(world, s, Start, 0) /\ n \in 1..Len(s.nodes) /\ s.nodes[n] = nodes[n]
        OBVIOUS
  <2>2. CASE ~Applies(m, nodes[n].place, count)
    <3>1. Next(m, s) = s
          BY <2>2
    <3> HIDE DEF Next, V
    <3>2. QED
          BY <2>1, <2>2, <3>1, ExtendsItself
  <2>3. CASE Applies(m, nodes[n].place, count)
    <3> DEFINE u == TryMotion(world, n, s, m)
    <3>1. Next(m, s) = u
          BY <2>3
    <3>2. Motions[m].from = s.nodes[n].place
          BY <2>1, <2>3 DEF Applies
    <3> HIDE DEF u, V, Next
    <3>3. Sensible(world, u) /\ Extends(world, s, u) /\ (u.full \/ Tried(world, u, n, m))
          BY <2>1, <3>2, TryKeeps DEF u
    <3>4. Closed(world, u, {n}) /\ Reached(world, u, Start, 0)
      <4>1. Closed(world, u, {n})
            BY <2>1, <3>3, ClosedKeeps
      <4>2. Start \in Places /\ 0 \in Nat
            BY PlacesAre
      <4>3. Reached(world, u, Start, 0)
            BY <2>1, <3>3, <4>2 DEF Extends
      <4>4. QED
            BY <4>1, <4>3
    <3>5. n \in 1..Len(u.nodes) /\ u.nodes[n] = nodes[n]
      <4>1. Len(s.nodes) \in Nat /\ Len(u.nodes) \in Nat
            BY <2>1, <3>3, StateIs, SeqIs DEF Sensible
      <4>2. QED
            BY <2>1, <3>3, <4>1 DEF Extends
    <3>6. s.full => u.full
          BY DEF u, TryMotion
    <3>7. u \in V
          BY <3>3, <3>4, <3>5 DEF V, Sensible
    <3>8. QED
          BY <3>1, <3>3, <3>6, <3>7
  <2>4. QED
        BY <2>2, <2>3
<1> HIDE DEF Next, V
<1>4. F \in [Nat \X V -> V]
      BY <1>3
<1>5. PICK f \in [0..last -> V] : StepsThrough(f, last, b, F)
  <2> HIDE DEF F
  <2>1. QED
        BY <1>1, <1>2, <1>4, RecursionByStep
<1>6. f = Step(f)
  <2>1. f[0] = b
    <3>1. 0 \in 0..last
          BY <1>1
    <3>2. QED
          BY <1>5, <3>1 DEF StepsThrough
  <2>2. ASSUME NEW m \in 1..last PROVE f[m] = Next(m, f[m - 1])
    <3>1. f[m] = F[<<m, f[m - 1]>>] /\ f[m - 1] \in V
          BY <1>1, <1>5 DEF StepsThrough
    <3>2. F[<<m, f[m - 1]>>] = Next(m, f[m - 1])
          BY <1>1, <3>1
    <3>3. QED
          BY <3>1, <3>2
  <2>3. \A m \in 0..last : f[m] = IF m = 0 THEN b ELSE Next(m, f[m - 1])
    <3> TAKE m \in 0..last
    <3>1. m = 0 \/ m \in 1..last
          BY <1>1
    <3>2. QED
          BY <1>1, <2>1, <2>2, <3>1
  <2>4. QED
        BY <2>3
<1>7. after = Step(after)
      BY <1>6
<1>8. t = after[last]
      BY DEF TryMotions, Next
<1> HIDE DEF after
<1>9. after[0] = b /\ \A m \in 1..last : after[m] = Next(m, after[m - 1])
  <2>1. 0 \in 0..last
        BY <1>1
  <2>2. QED
        BY <1>1, <1>7, <2>1
<1> DEFINE Done(s, k) == s.full \/ \A m \in Primitives : m <= k /\ Motions[m].from = nodes[n].place => Tried(world, s, n, m)
           P == {k \in Nat : k \in 0..last => after[k] \in V /\ Done(after[k], k)}
<1>10. \A k \in 0..last : k \in P
  <2>1. 0 \in P
    <3>1. \A m \in Primitives : ~(m <= 0)
          BY MotionsAre DEF Primitives
    <3>2. QED
          BY <1>2, <1>9, <3>1
  <2>2. ASSUME NEW k \in 1..last, k - 1 \in P PROVE k \in P
    <3> DEFINE s == after[k - 1]
               u == after[k]
    <3>1. s \in V /\ Done(s, k - 1)
          BY <1>1, <2>2
    <3>2. u = Next(k, s) /\ k \in DOMAIN Motions
          BY <1>1, <1>9
    <3> HIDE DEF s, u
    <3>3. /\ u \in V /\ Extends(world, s, u) /\ (s.full => u.full)
          /\ Applies(k, nodes[n].place, count) => u.full \/ Tried(world, u, n, k)
          BY <1>3, <3>1, <3>2
    <3>4. Done(u, k)
      <4> SUFFICES ASSUME ~u.full, NEW m \in Primitives, m <= k, Motions[m].from = nodes[n].place
                   PROVE  Tried(world, u, n, m)
          OBVIOUS
      <4>1. CASE m = k
        <5>1. Applies(k, nodes[n].place, count)
              BY <4>1 DEF Applies, Primitives
        <5>2. QED
              BY <3>3, <4>1, <5>1
      <4>2. CASE m # k
        <5>1. m <= k - 1 /\ m \in DOMAIN Motions
              BY <1>1, <4>2, MotionsAre DEF Primitives
        <5>2. ~s.full
              BY <3>3
        <5>3. Tried(world, s, n, m)
              BY <3>1, <5>1, <5>2
        <5>4. Sensible(world, s) /\ n \in 1..Len(s.nodes)
              BY <3>1 DEF V
        <5>5. QED
              BY <3>3, <5>1, <5>3, <5>4, TriedKeeps
      <4>3. QED
            BY <4>1, <4>2
    <3>5. QED
          BY <1>1, <3>3, <3>4 DEF u
  <2> HIDE DEF P
  <2>3. QED
        BY <1>1, <2>1, <2>2, InductionUpTo
<1>11. last \in P /\ last \in 0..last
  <2>1. last \in 0..last
        BY <1>1
  <2> HIDE DEF P
  <2>2. QED
        BY <1>10, <2>1
<1>12. t \in V /\ Done(t, last)
       BY <1>8, <1>11
<1>13. QED
       BY <1>12 DEF V

-----------------------------------------------------------------------------
(* What the paths cost                                                     *)

\* The costs with one motion more.
Added(shorter, p) ==
  UNION {{c + MotionCost(world, m) : c \in shorter[Motions[m].from]} :
           m \in {x \in Primitives : Usable(x) /\ Motions[x].to = p}}

More(shorter) == [p \in Places |-> shorter[p] \cup Added(shorter, p)]

CostSets == [Places -> SUBSET Nat]

LEMMA AddedIs ==
  ASSUME world \in Worlds, NEW shorter \in CostSets, NEW p \in Places
  PROVE  /\ Added(shorter, p) \subseteq Nat
         /\ \A c \in Added(shorter, p) :
              \E m \in Primitives : /\ Usable(m) /\ Motions[m].to = p
                                    /\ \E d \in shorter[Motions[m].from] : c = d + MotionCost(world, m)
<1>1. \A m \in Primitives : m \in DOMAIN Motions /\ Motions[m].from \in Places
      BY MotionsAre DEF Primitives
<1>2. ASSUME NEW c \in Added(shorter, p)
      PROVE  \E m \in Primitives : /\ Usable(m) /\ Motions[m].to = p
                                   /\ \E d \in shorter[Motions[m].from] : c = d + MotionCost(world, m)
      BY <1>2 DEF Added
<1>3. ASSUME NEW c \in Added(shorter, p) PROVE c \in Nat
  <2>1. PICK m \in Primitives : \E d \in shorter[Motions[m].from] : c = d + MotionCost(world, m)
        BY <1>2
  <2>2. PICK d \in shorter[Motions[m].from] : c = d + MotionCost(world, m)
        BY <2>1
  <2>3. MotionCost(world, m) \in Nat
        BY <1>1, WorldIs
  <2>4. d \in Nat
    <3>1. shorter[Motions[m].from] \in SUBSET Nat
          BY <1>1 DEF CostSets
    <3>2. QED
          BY <3>1
  <2>5. QED
        BY <2>2, <2>3, <2>4
<1>4. QED
      BY <1>2, <1>3

LEMMA CostsAre ==
  ASSUME world \in Worlds
  PROVE  \E costs \in [0..Cardinality(Places) -> CostSets] :
           /\ PathCosts = costs[Cardinality(Places)]
           /\ \A p \in Places : costs[0][p] = IF p = Start THEN {0} ELSE {}
           /\ \A k \in 1..Cardinality(Places) : \A p \in Places :
                costs[k][p] = costs[k - 1][p] \cup Added(costs[k - 1], p)
<1> DEFINE N == Cardinality(Places)
           b == [p \in Places |-> IF p = Start THEN {0} ELSE {}]
           F == [shorter \in CostSets |-> More(shorter)]
           Step(f) == [k \in 0..N |-> IF k = 0 THEN b ELSE More(f[k - 1])]
           costs == CHOOSE f : f = Step(f)
<1>1. N \in Nat
      BY PlacesAre
<1>2. b \in CostSets
      BY DEF CostSets
<1>3. F \in [CostSets -> CostSets]
  <2>1. ASSUME NEW shorter \in CostSets PROVE More(shorter) \in CostSets
    <3>1. \A p \in Places : shorter[p] \cup Added(shorter, p) \in SUBSET Nat
          BY AddedIs DEF CostSets
    <3>2. QED
          BY <3>1 DEF More, CostSets
  <2>2. QED
        BY <2>1
<1>4. PathCosts = costs[N]
      BY DEF PathCosts, More, Added
<1> HIDE DEF b
<1>5. PICK f \in [0..N -> CostSets] : Iterates(f, N, b, F)
  <2> HIDE DEF F, N
  <2>1. QED
        BY <1>1, <1>2, <1>3, RecursionOnNumbers
<1>6. f[0] = b /\ \A k \in 1..N : f[k] = More(f[k - 1])
  <2>1. \A k \in 0..N : f[k] = IF k = 0 THEN b ELSE F[f[k - 1]]
        BY <1>5 DEF Iterates
  <2>2. 0 \in 0..N /\ \A k \in 1..N : k \in 0..N /\ k # 0 /\ k - 1 \in 0..N
        BY <1>1
  <2>3. \A k \in 1..N : F[f[k - 1]] = More(f[k - 1])
        BY <2>2
  <2> HIDE DEF F, N
  <2>4. QED
        BY <2>1, <2>2, <2>3
<1>7. f = Step(f)
  <2>1. \A k \in 0..N : f[k] = IF k = 0 THEN b ELSE More(f[k - 1])
    <3> TAKE k \in 0..N
    <3>1. k = 0 \/ k \in 1..N
          BY <1>1
    <3> HIDE DEF N
    <3>2. QED
          BY <1>6, <3>1
  <2> HIDE DEF N
  <2>2. QED
        BY <2>1
<1>8. costs = Step(costs)
      BY <1>7
<1> HIDE DEF costs
<1>9. costs[0] = b /\ \A k \in 1..N : costs[k] = More(costs[k - 1])
  <2>1. 0 \in 0..N /\ \A k \in 1..N : k \in 0..N /\ k # 0
        BY <1>1
  <2> HIDE DEF N
  <2>2. QED
        BY <1>8, <2>1
<1>10. costs \in [0..N -> CostSets]
  <2> DEFINE P == {k \in Nat : k \in 0..N => costs[k] \in CostSets}
  <2>1. 0 \in P
        BY <1>2, <1>9
  <2>2. ASSUME NEW k \in 1..N, k - 1 \in P PROVE k \in P
    <3>1. costs[k - 1] \in CostSets /\ k \in Nat
          BY <1>1, <2>2
    <3>2. More(costs[k - 1]) \in CostSets
          BY <1>3, <3>1
    <3>3. QED
          BY <1>9, <3>1, <3>2
  <2>3. \A k \in 0..N : k \in P
    <3> HIDE DEF P, N
    <3>1. QED
          BY <1>1, <2>1, <2>2, InductionUpTo
  <2>4. \A k \in 0..N : costs[k] \in CostSets
        BY <2>3
  <2>5. DOMAIN costs = 0..N /\ costs = [k \in 0..N |-> costs[k]]
        BY <1>8
  <2> HIDE DEF N
  <2>6. QED
        BY <2>4, <2>5
<1>11. \A p \in Places : costs[0][p] = IF p = Start THEN {0} ELSE {}
       BY <1>9 DEF b
<1>12. \A k \in 1..N : \A p \in Places : costs[k][p] = costs[k - 1][p] \cup Added(costs[k - 1], p)
       BY <1>9 DEF More
<1> HIDE DEF N
<1>13. QED
       BY <1>4, <1>10, <1>11, <1>12 DEF N

-----------------------------------------------------------------------------
(* Nothing is farther than the frontier says                               *)

\* A path to the place that costs c is not finished before the node is popped, or the node ends it.
Near(s, p, c) ==
  \E i \in 1..Len(s.nodes) :
    /\ Active(s, i)
    /\ \/ i \in s.open /\ Total(s.nodes, i) <= c + Heuristic(p)
       \/ i \notin s.open /\ s.nodes[i].place = p /\ s.nodes[i].cost <= c

Found(s) == Sensible(world, s) /\ Closed(world, s, {}) /\ Reached(world, s, Start, 0)

LEMMA NearMore ==
  ASSUME NEW s, Sensible(world, s), NEW p \in Places, NEW c \in Nat, NEW d \in Nat, c <= d, Near(s, p, c)
  PROVE  Near(s, p, d)
<1>1. PICK i \in 1..Len(s.nodes) :
        /\ Active(s, i)
        /\ \/ i \in s.open /\ Total(s.nodes, i) <= c + Heuristic(p)
           \/ i \notin s.open /\ s.nodes[i].place = p /\ s.nodes[i].cost <= c
      BY DEF Near
<1>2. s.nodes[i] \in SearchNode
      BY StateIs, SeqIs DEF Sensible
<1>3. s.nodes[i].cost \in Nat /\ s.nodes[i].place \in Places
      BY <1>2, NodeIs
<1>4. Heuristic(p) \in Nat /\ Total(s.nodes, i) \in Nat
      BY <1>3, HeuristicIs DEF Total
<1>5. Total(s.nodes, i) <= c + Heuristic(p) => Total(s.nodes, i) <= d + Heuristic(p)
      BY <1>4
<1>6. s.nodes[i].cost <= c => s.nodes[i].cost <= d
      BY <1>3
<1>7. QED
      BY <1>1, <1>5, <1>6 DEF Near

LEMMA ReachedNear ==
  ASSUME NEW s, Sensible(world, s), Faithful, NEW p \in Places, NEW c \in Nat, Reached(world, s, p, c)
  PROVE  Near(s, p, c)
<1>1. PICK l \in 1..Len(s.labels) : world.label[Holder(s, l).place] = world.label[p] /\ Holder(s, l).cost <= c
      BY DEF Reached
<1> DEFINE i == s.labels[l]
<1>2. i \in 1..Len(s.nodes) /\ Holder(s, l).label = l
      BY DEF Sensible, Fit
<1>3. s.nodes[i] \in SearchNode
      BY <1>2, StateIs, SeqIs DEF Sensible
<1>4. s.nodes[i].cost \in Nat /\ s.nodes[i].place \in Places
      BY <1>3, NodeIs
<1>5. s.nodes[i].place = p /\ s.nodes[i].cost <= c
      BY <1>1, <1>4 DEF Faithful, Holder
<1>6. Active(s, i)
      BY <1>2 DEF Active, Holder
<1> HIDE DEF i
<1>7. Total(s.nodes, i) <= c + Heuristic(p)
  <2>1. Heuristic(p) \in Nat
        BY HeuristicIs
  <2>2. QED
        BY <1>4, <1>5, <2>1 DEF Total
<1>8. QED
      BY <1>2, <1>5, <1>6, <1>7 DEF Near

\* One motion farther, one tolerance more.
LEMMA NearAlong ==
  ASSUME world \in Worlds, NEW s, Found(s), Faithful, NEW m \in Primitives, Usable(m),
         NEW c \in Nat, Near(s, Motions[m].from, c)
  PROVE  Near(s, Motions[m].to, c + MotionCost(world, m) + world.tolerance)
<1> DEFINE p == Motions[m].from
           q == Motions[m].to
           cost == MotionCost(world, m)
           tol == world.tolerance
<1>1. m \in DOMAIN Motions
      BY DEF Primitives
<1>2. p \in Places /\ q \in Places /\ Motions[m].length \in Nat
      BY <1>1, MotionsAre
<1>3. cost \in Nat /\ cost >= Motions[m].length /\ tol \in Nat
      BY <1>1, WorldIs
<1>4. Heuristic(p) <= Motions[m].length + Heuristic(q) /\ Heuristic(p) \in Nat /\ Heuristic(q) \in Nat
      BY <1>1, <1>2, HeuristicAlong, HeuristicIs
<1>5. PICK i \in 1..Len(s.nodes) :
        /\ Active(s, i)
        /\ \/ i \in s.open /\ Total(s.nodes, i) <= c + Heuristic(p)
           \/ i \notin s.open /\ s.nodes[i].place = p /\ s.nodes[i].cost <= c
      BY DEF Near
<1>6. s.nodes[i] \in SearchNode
      BY StateIs, SeqIs DEF Found, Sensible
<1>7. s.nodes[i].cost \in Nat /\ s.nodes[i].place \in Places
      BY <1>6, NodeIs
<1>8. Total(s.nodes, i) \in Nat
      BY <1>7, HeuristicIs DEF Total
<1>9. CASE i \in s.open /\ Total(s.nodes, i) <= c + Heuristic(p)
  <2> HIDE DEF p, q, cost, tol
  <2>1. Total(s.nodes, i) <= c + cost + tol + Heuristic(q)
        BY <1>2, <1>3, <1>4, <1>8, <1>9
  <2>2. Near(s, q, c + cost + tol)
        BY <1>5, <1>9, <2>1 DEF Near
  <2>3. QED
        BY <2>2 DEF q, cost, tol
<1>10. CASE i \notin s.open /\ s.nodes[i].place = p /\ s.nodes[i].cost <= c
  <2>1. Tried(world, s, i, m)
        BY <1>5, <1>10 DEF Found, Closed
  <2>2. Reached(world, s, q, s.nodes[i].cost + cost + tol)
        BY <2>1 DEF Tried, Accepts, Usable
  <2> HIDE DEF p, q, cost, tol
  <2>3. /\ s.nodes[i].cost + cost + tol \in Nat /\ c + cost + tol \in Nat
        /\ s.nodes[i].cost + cost + tol <= c + cost + tol
        BY <1>3, <1>7, <1>10
  <2>4. Near(s, q, s.nodes[i].cost + cost + tol)
        BY <1>2, <2>2, <2>3, ReachedNear DEF Found
  <2>5. Near(s, q, c + cost + tol)
        BY <1>2, <2>3, <2>4, NearMore DEF Found
  <2>6. QED
        BY <2>5 DEF q, cost, tol
<1>11. QED
       BY <1>5, <1>9, <1>10

\* Every path is near, but for a tolerance per place.
LEMMA PathsNear ==
  ASSUME world \in Worlds, NEW s, Found(s), Faithful
  PROVE  \A p \in Places : PathCosts[p] \in SUBSET Nat /\ \A c \in PathCosts[p] : Near(s, p, c + world.tolerance * Cardinality(Places))
<1> DEFINE N == Cardinality(Places)
           tol == world.tolerance
<1>1. PICK costs \in [0..N -> CostSets] :
        /\ PathCosts = costs[N]
        /\ \A p \in Places : costs[0][p] = IF p = Start THEN {0} ELSE {}
        /\ \A k \in 1..N : \A p \in Places : costs[k][p] = costs[k - 1][p] \cup Added(costs[k - 1], p)
      BY CostsAre
<1>2. N \in Nat /\ tol \in Nat /\ Start \in Places
      BY PlacesAre, WorldIs
<1> HIDE DEF N, tol
<1> DEFINE P == {k \in Nat : k \in 0..N => \A p \in Places : \A c \in costs[k][p] : Near(s, p, c + tol * k)}
<1>3. 0 \in P
  <2>1. Near(s, Start, 0)
        BY <1>2, ReachedNear DEF Found
  <2>2. tol * 0 = 0 /\ 0 + 0 = 0
        BY <1>2
  <2>3. \A p \in Places : \A c \in costs[0][p] : p = Start /\ c = 0
        BY <1>1
  <2>4. \A p \in Places : \A c \in costs[0][p] : Near(s, p, c + tol * 0)
        BY <2>1, <2>2, <2>3
  <2>5. QED
        BY <2>4
<1>4. ASSUME NEW k \in 1..N, k - 1 \in P PROVE k \in P
  <2>1. k \in Nat /\ k - 1 \in Nat /\ k - 1 \in 0..N
        BY <1>2
  <2>2. costs[k - 1] \in CostSets /\ \A p \in Places : costs[k - 1][p] \in SUBSET Nat
        BY <2>1 DEF CostSets
  <2>3. \A p \in Places : \A c \in costs[k - 1][p] : Near(s, p, c + tol * (k - 1))
        BY <1>4, <2>1
  <2>4. /\ tol * k = tol * (k - 1) + tol /\ tol * (k - 1) \in Nat /\ tol * k \in Nat
        BY <1>2, <2>1
  <2>5. ASSUME NEW p \in Places, NEW c \in costs[k][p] PROVE Near(s, p, c + tol * k)
    <3>1. c \in costs[k - 1][p] \/ c \in Added(costs[k - 1], p)
          BY <1>1, <2>5
    <3>2. CASE c \in costs[k - 1][p]
      <4>1. c \in Nat /\ Near(s, p, c + tol * (k - 1))
            BY <2>2, <2>3, <3>2
      <4>2. c + tol * (k - 1) \in Nat /\ c + tol * k \in Nat /\ c + tol * (k - 1) <= c + tol * k
        <5> DEFINE x == tol * (k - 1)
                   y == tol * k
        <5>1. x \in Nat /\ y \in Nat /\ y = x + tol
              BY <2>4
        <5> HIDE DEF x, y
        <5>2. c + x \in Nat /\ c + y \in Nat /\ c + x <= c + y
              BY <1>2, <4>1, <5>1
        <5>3. QED
              BY <5>2 DEF x, y
      <4>3. QED
            BY <4>1, <4>2, NearMore DEF Found
    <3>3. CASE c \in Added(costs[k - 1], p)
      <4>1. PICK m \in Primitives : /\ Usable(m) /\ Motions[m].to = p
                                    /\ \E d \in costs[k - 1][Motions[m].from] : c = d + MotionCost(world, m)
            BY <2>2, <3>3, AddedIs
      <4>2. PICK d \in costs[k - 1][Motions[m].from] : c = d + MotionCost(world, m)
            BY <4>1
      <4>3. Motions[m].from \in Places /\ m \in DOMAIN Motions /\ MotionCost(world, m) \in Nat
            BY MotionsAre, WorldIs DEF Primitives
      <4>4. d \in Nat /\ Near(s, Motions[m].from, d + tol * (k - 1))
            BY <2>2, <2>3, <4>3
      <4> DEFINE x == tol * (k - 1)
                 y == tol * k
                 cost == MotionCost(world, m)
      <4>5. x \in Nat /\ y = x + tol /\ cost \in Nat /\ d \in Nat /\ c = d + cost
            BY <2>4, <4>2, <4>3, <4>4
      <4>6. d + x \in Nat
            BY <4>5
      <4>7. Near(s, Motions[m].to, d + x + cost + tol)
            BY <4>1, <4>4, <4>6, NearAlong DEF tol
      <4> HIDE DEF x, y, cost
      <4>8. d + x + cost + tol = c + y
            BY <1>2, <4>5
      <4>9. QED
            BY <4>1, <4>7, <4>8 DEF y
    <3>4. QED
          BY <3>1, <3>2, <3>3
  <2>6. QED
        BY <2>1, <2>5
<1>5. \A k \in 0..N : k \in P
  <2> HIDE DEF P
  <2>1. QED
        BY <1>2, <1>3, <1>4, InductionUpTo
<1>6. N \in P /\ N \in 0..N
      BY <1>2, <1>5
<1>7. \A p \in Places : \A c \in PathCosts[p] : Near(s, p, c + tol * N)
      BY <1>1, <1>6
<1>8. \A p \in Places : PathCosts[p] \in SUBSET Nat
      BY <1>1, <1>6 DEF CostSets
<1>9. QED
      BY <1>7, <1>8 DEF tol, N

-----------------------------------------------------------------------------
(* The path to a node                                                      *)

LEMMA ChainIs ==
  ASSUME nodes \in Seq(SearchNode), Real(world, nodes), NEW n \in 1..Len(nodes)
  PROVE  PathIsReal(n)
<1> DEFINE N == Len(nodes)
           b == [i \in 1..N |-> <<i>>]
           parent == [i \in 1..N |-> nodes[i].parent]
           F == [e \in Nat \X Seq(Nat) |-> Append(e[2], e[1])]
           Back(f) == [i \in DOMAIN nodes |-> IF nodes[i].parent = i THEN <<i>> ELSE Append(f[nodes[i].parent], i)]
           back == CHOOSE f : f = Back(f)
<1>1. N \in Nat /\ N >= 1 /\ DOMAIN nodes = 1..N /\ nodes[1].parent = 1
      BY SeqIs DEF Real
<1>2. ASSUME NEW i \in 2..N
      PROVE  /\ nodes[i].parent \in 1..i - 1 /\ Usable(nodes[i].by)
             /\ Motions[nodes[i].by].from = nodes[nodes[i].parent].place /\ Motions[nodes[i].by].to = nodes[i].place
             /\ nodes[i].cost = nodes[nodes[i].parent].cost + MotionCost(world, nodes[i].by)
      BY DEF Real, Usable, Accepts
<1>3. \A i \in 1..N : i = 1 \/ (i \in 2..N /\ i \in Nat)
      BY <1>1
<1>4. \A i \in 1..N : nodes[i].parent \in 1..i /\ nodes[i].parent \in 1..N
  <2> TAKE i \in 1..N
  <2>1. CASE i = 1
        BY <1>1, <2>1
  <2>2. CASE i \in 2..N
    <3>1. nodes[i].parent \in 1..i - 1
          BY <1>2, <2>2
    <3>2. QED
          BY <1>1, <2>2, <3>1
  <2>3. QED
        BY <1>3, <2>1, <2>2
<1>5. Chain(n) = back[n]
      BY DEF Chain
<1>6. PICK f \in [1..N -> Seq(Nat)] : Descends(f, N, b, parent, F)
  <2>1. \A i \in 1..N : b[i] \in Seq(Nat) /\ parent[i] \in 1..i
        BY <1>4
  <2>2. F \in [Nat \X Seq(Nat) -> Seq(Nat)]
        OBVIOUS
  <2> HIDE DEF N, b, parent, F
  <2>3. QED
        BY <1>1, <2>1, <2>2, RecursionOnAncestors
<1>7. \A i \in 1..N : f[i] = IF nodes[i].parent = i THEN <<i>> ELSE Append(f[nodes[i].parent], i)
  <2> TAKE i \in 1..N
  <2>1. f[i] = IF parent[i] = i THEN b[i] ELSE F[<<i, f[parent[i]]>>]
        BY <1>6 DEF Descends
  <2>2. parent[i] = nodes[i].parent /\ b[i] = <<i>>
        OBVIOUS
  <2>3. F[<<i, f[nodes[i].parent]>>] = Append(f[nodes[i].parent], i)
    <3>1. i \in Nat /\ f[nodes[i].parent] \in Seq(Nat)
          BY <1>1, <1>4
    <3>2. QED
          BY <3>1
  <2> HIDE DEF parent, b, F
  <2>4. QED
        BY <2>1, <2>2, <2>3
<1>8. f = Back(f)
  <2> HIDE DEF N
  <2>1. QED
        BY <1>1, <1>7
<1>9. back = Back(back)
      BY <1>8
<1> HIDE DEF back, F, b, parent
<1>10. \A i \in 1..N : back[i] = IF nodes[i].parent = i THEN <<i>> ELSE Append(back[nodes[i].parent], i)
  <2> HIDE DEF N
  <2>1. QED
        BY <1>1, <1>9
<1> DEFINE Link(j, i) ==
             LET m == nodes[i].by
             IN  /\ Usable(m)
                 /\ Motions[m].from = nodes[j].place
                 /\ Motions[m].to = nodes[i].place
                 /\ nodes[i].cost = nodes[j].cost + MotionCost(world, m)
           Leads(q, i) ==
             /\ q \in Seq(Nat) /\ q # <<>> /\ nodes[q[1]].place = Start /\ q[Len(q)] = i
             /\ \A k \in 2..Len(q) : Link(q[k - 1], q[k])
           P == {m \in Nat : \A i \in 1..N : i <= m => Leads(back[i], i)}
<1>11. 0 \in P
       BY <1>1
<1>12. ASSUME NEW m \in 1..N, m - 1 \in P PROVE m \in P
  <2>1. \A i \in 1..N : i <= m - 1 => Leads(back[i], i)
        BY <1>12
  <2>2. Leads(back[m], m)
    <3>1. CASE m = 1
      <4>1. back[1] = <<1>>
            BY <1>1, <1>10, <3>1
      <4>2. nodes[1].place = Start
            BY DEF Real
      <4> DEFINE q == <<1>>
      <4>3. q \in Seq(Nat) /\ q # <<>> /\ Len(q) = 1 /\ q[1] = 1
            OBVIOUS
      <4> HIDE DEF q
      <4>4. \A k \in 2..Len(q) : FALSE
            BY <4>3
      <4> HIDE DEF Link
      <4>5. Leads(q, 1)
            BY <4>2, <4>3, <4>4
      <4>6. QED
            BY <3>1, <4>1, <4>5 DEF q
    <3>2. CASE m # 1
      <4> DEFINE j == nodes[m].parent
                 p == back[j]
                 q == back[m]
      <4>1. m \in 2..N /\ m \in Nat
            BY <1>1, <3>2
      <4>2. j \in 1..m - 1 /\ Link(j, m)
            BY <1>2, <4>1
      <4>3. j \in 1..N /\ j <= m - 1 /\ j # m
            BY <1>1, <4>1, <4>2
      <4>4. q = Append(p, m)
            BY <1>10, <4>3
      <4> HIDE DEF j, p, q, Link
      <4>5. Leads(p, j)
            BY <2>1, <4>3 DEF p
      <4>6. /\ q \in Seq(Nat) /\ q # <<>> /\ Len(q) = Len(p) + 1 /\ q[Len(p) + 1] = m
            /\ \A i \in 1..Len(p) : q[i] = p[i]
            BY <4>1, <4>4, <4>5, AppendTo
      <4>7. Len(p) \in Nat /\ Len(p) >= 1
            BY <4>5
      <4>8. nodes[q[1]].place = Start /\ q[Len(q)] = m
        <5>1. 1 \in 1..Len(p)
              BY <4>7
        <5>2. QED
              BY <4>5, <4>6, <5>1
      <4>9. \A k \in 2..Len(q) : Link(q[k - 1], q[k])
        <5> TAKE k \in 2..Len(q)
        <5>1. CASE k = Len(q)
          <6>1. k - 1 = Len(p) /\ Len(p) \in 1..Len(p)
                BY <4>6, <4>7, <5>1
          <6>2. q[k - 1] = j /\ q[k] = m
                BY <4>5, <4>6, <5>1, <6>1
          <6>3. QED
                BY <4>2, <6>2
        <5>2. CASE k # Len(q)
          <6>1. k \in 2..Len(p) /\ k - 1 \in 1..Len(p) /\ k \in 1..Len(p)
                BY <4>6, <4>7, <5>2
          <6>2. QED
                BY <4>5, <4>6, <6>1
        <5>3. QED
              BY <5>1, <5>2
      <4>10. Leads(q, m)
             BY <4>6, <4>8, <4>9
      <4>11. QED
             BY <4>10 DEF q
    <3>3. QED
          BY <3>1, <3>2
  <2> HIDE DEF Leads
  <2>3. \A i \in 1..N : i <= m => Leads(back[i], i)
    <3> TAKE i \in 1..N
    <3>1. i = m \/ i <= m - 1 \/ ~(i <= m)
          BY <1>1
    <3>2. QED
          BY <2>1, <2>2, <3>1
  <2>4. m \in Nat
        BY <1>1
  <2>5. QED
        BY <2>3, <2>4
<1>13. \A m \in 0..N : m \in P
  <2> HIDE DEF P, N
  <2>1. QED
        BY <1>1, <1>11, <1>12, InductionUpTo
<1>14. n \in Nat /\ n \in 0..N
       BY <1>1
<1>15. Leads(back[n], n)
       BY <1>13, <1>14
<1>16. QED
       BY <1>5, <1>15 DEF PathIsReal

-----------------------------------------------------------------------------
(* The invariant of the search                                             *)

\* What the search has, with this queue.
With(queue) == [nodes |-> nodes, open |-> queue, labels |-> labels, rejected |-> rejected, full |-> FALSE]

\* The goal that was popped, with the queue as it was.
GoalIs(n) ==
  /\ n \in 1..Len(nodes) /\ n \notin open /\ Found(With(open \cup {n}))
  /\ labels[nodes[n].label] = n /\ nodes[n].place \in Goals
  /\ \A m \in open \cup {n} : Total(nodes, n) <= Total(nodes, m)

SearchInv ==
  /\ world \in Worlds
  /\ answer \in {"requested", "searching", "success", "no_solution", "no_envelope", "timeout", "input_invalid"}
  /\ expanded \in 0..MaxExpansions /\ rejected \in SUBSET RejectionKinds
  /\ nodes = <<>> => /\ open = {} /\ labels = <<>>
                     /\ answer \in {"requested", "no_solution", "no_envelope", "input_invalid"}
  /\ answer = "requested" => nodes = <<>>
  /\ nodes # <<>> => Sensible(world, With(open))
  /\ nodes # <<>> /\ answer \in {"searching", "no_solution", "no_envelope"} => Found(With(open))
  /\ answer \in {"no_solution", "no_envelope"} => open = {}
  /\ nodes # <<>> /\ answer = "no_envelope" => rejected \subseteq EnvelopeKinds
  /\ answer = "success" => \E n \in 1..Len(nodes) : GoalIs(n)

LEMMA WithIs ==
  ASSUME NEW queue
  PROVE  /\ With(queue).nodes = nodes /\ With(queue).open = queue /\ With(queue).labels = labels
         /\ With(queue).rejected = rejected /\ With(queue).full = FALSE
         /\ \A i : Active(With(queue), i) <=> labels[nodes[i].label] = i
BY DEF With, Active

\* While there are nodes, this is what they are.
LEMMA SoundIs ==
  ASSUME NEW queue, Sensible(world, With(queue))
  PROVE  /\ nodes \in Seq(SearchNode) /\ labels \in Seq(Nat) /\ Real(world, nodes) /\ Len(nodes) \in Nat /\ Len(nodes) >= 1
         /\ queue \subseteq 1..Len(nodes) /\ DOMAIN nodes = 1..Len(nodes) /\ nodes # <<>>
         /\ Len(labels) \in 1..MaxLabels /\ DOMAIN labels = 1..Len(labels)
         /\ \A l \in 1..Len(labels) : nodes[labels[l]].label = l
<1>1. nodes \in Seq(SearchNode) /\ labels \in Seq(Nat) /\ Real(world, nodes)
  <2> DEFINE s == With(queue)
  <2>1. s.nodes = nodes /\ s.labels = labels
        BY WithIs
  <2>2. s \in SearchStates /\ Real(world, s.nodes)
        BY DEF Sensible
  <2> HIDE DEF s
  <2>3. s.nodes \in Seq(SearchNode) /\ s.labels \in Seq(Nat)
        BY <2>2, StateIs
  <2>4. QED
        BY <2>1, <2>2, <2>3
<1>2. Len(nodes) \in Nat /\ DOMAIN nodes = 1..Len(nodes) /\ DOMAIN labels = 1..Len(labels)
      BY <1>1, SeqIs
<1>3. Len(nodes) >= 1 /\ nodes # <<>>
      BY <1>1 DEF Real
<1>4. queue \subseteq 1..Len(nodes) /\ Len(labels) \in 1..MaxLabels /\ \A l \in 1..Len(labels) : nodes[labels[l]].label = l
  <2> DEFINE s == With(queue)
  <2>1. s.nodes = nodes /\ s.open = queue /\ s.labels = labels /\ Fit(world, s)
        BY WithIs DEF Sensible
  <2> HIDE DEF s
  <2>2. s.open \subseteq 1..Len(s.nodes) /\ Len(s.labels) \in 1..MaxLabels
        BY <2>1 DEF Fit
  <2>3. \A l \in 1..Len(s.labels) : Holder(s, l).label = l
        BY <2>1 DEF Fit
  <2>4. QED
        BY <2>1, <2>2, <2>3 DEF Holder
<1>5. QED
      BY <1>1, <1>2, <1>3, <1>4

\* An entry that leaves the queue changes nothing else; a stale one can leave for good.
LEMMA Dropped ==
  ASSUME NEW queue, Sensible(world, With(queue)), NEW n
  PROVE  /\ Sensible(world, With(queue \ {n}))
         /\ Closed(world, With(queue), {}) => Closed(world, With(queue \ {n}), {n})
         /\ Closed(world, With(queue), {}) /\ labels[nodes[n].label] # n => Closed(world, With(queue \ {n}), {})
         /\ \A p, c : Reached(world, With(queue \ {n}), p, c) <=> Reached(world, With(queue), p, c)
<1> DEFINE s == With(queue)
           t == With(queue \ {n})
<1>1. t.nodes = s.nodes /\ t.labels = s.labels /\ t.rejected = s.rejected /\ t.open = s.open \ {n} /\ t.full = s.full
      BY WithIs
<1>2. \A l : Holder(t, l) = Holder(s, l)
      BY <1>1 DEF Holder
<1>3. \A i : Active(t, i) <=> Active(s, i)
      BY <1>1 DEF Active
<1>4. \A p, c : Reached(world, t, p, c) <=> Reached(world, s, p, c)
      BY <1>1, <1>2 DEF Reached
<1>5. \A i, m : Tried(world, t, i, m) <=> Tried(world, s, i, m)
      BY <1>1, <1>4 DEF Tried
<1>6. Sensible(world, t)
  <2>1. s \in SearchStates /\ Real(world, s.nodes) /\ Fit(world, s)
        BY DEF Sensible
  <2>2. t.open \in SUBSET Nat
        BY <1>1, <2>1, StateIs
  <2>3. t \in SearchStates
        BY <2>1, <2>2, WithIs, StateIs DEF With, SearchStates
  <2>4. Fit(world, t)
        BY <1>1, <1>2, <2>1 DEF Fit
  <2>5. QED
        BY <1>1, <2>1, <2>3, <2>4 DEF Sensible
<1>7. Closed(world, s, {}) => Closed(world, t, {n})
  <2> SUFFICES ASSUME Closed(world, s, {}), NEW i \in 1..Len(t.nodes) \ {n}, Active(t, i), i \notin t.open
               PROVE  /\ t.nodes[i].place \notin Goals
                      /\ \A m \in Primitives : Motions[m].from = t.nodes[i].place => Tried(world, t, i, m)
      BY DEF Closed
  <2>1. i \in 1..Len(s.nodes) \ {} /\ Active(s, i) /\ i \notin s.open
        BY <1>1, <1>3
  <2>2. /\ s.nodes[i].place \notin Goals
        /\ \A m \in Primitives : Motions[m].from = s.nodes[i].place => Tried(world, s, i, m)
        BY <2>1 DEF Closed
  <2>3. QED
        BY <1>1, <1>5, <2>2
<1>8. Closed(world, s, {}) /\ labels[nodes[n].label] # n => Closed(world, t, {})
  <2> SUFFICES ASSUME Closed(world, s, {}), labels[nodes[n].label] # n
               PROVE  Closed(world, t, {})
      OBVIOUS
  <2>1. ~Active(t, n)
        BY WithIs
  <2>2. \A i \in 1..Len(t.nodes) \ {} : Active(t, i) => i \in 1..Len(t.nodes) \ {n}
        BY <2>1
  <2>3. QED
        BY <1>7, <2>2 DEF Closed
<1>9. QED
      BY <1>4, <1>6, <1>7, <1>8

LEMMA SearchStarts == SearchInit => SearchInv
<1> SUFFICES ASSUME SearchInit PROVE SearchInv
    OBVIOUS
<1>1. MaxExpansions \in Nat
      BY SearchAssumption
<1>2. QED
      BY <1>1 DEF SearchInit, SearchInv

\* The checks that fail end the request with nothing found.
LEMMA ChecksAre ==
  \A i \in DOMAIN StartChecks : StartChecks[i].state \in {"input_invalid", "no_envelope", "no_solution"}
<1> DEFINE R == [check : {"request", "envelope", "touchdown", "corridor", "layer", "sweep", "area", "history"},
                  state : {"input_invalid", "no_envelope", "no_solution"}]
           Check(c, s) == [check |-> c, state |-> s]
<1>1. RequestChecks \in Seq(R)
  <2>1. RequestChecks = <<Check("request", "input_invalid")>>
        BY DEF RequestChecks
  <2>2. Check("request", "input_invalid") \in R
        OBVIOUS
  <2> HIDE DEF R, Check
  <2>3. QED
        BY <2>1, <2>2
<1>2. EnvelopeChecks \in Seq(R)
  <2>1. EnvelopeChecks = <<Check("envelope", "no_envelope"), Check("touchdown", "input_invalid"),
                           Check("corridor", "no_envelope")>>
        BY DEF EnvelopeChecks
  <2>2. /\ Check("envelope", "no_envelope") \in R /\ Check("touchdown", "input_invalid") \in R
        /\ Check("corridor", "no_envelope") \in R
        OBVIOUS
  <2> HIDE DEF R, Check
  <2>3. QED
        BY <2>1, <2>2
<1>3. SweepChecks \in Seq(R)
  <2>1. SweepChecks = <<Check("layer", "input_invalid"), Check("sweep", "input_invalid"),
                        Check("area", "no_solution"), Check("history", "input_invalid")>>
        BY DEF SweepChecks
  <2>2. /\ Check("layer", "input_invalid") \in R /\ Check("sweep", "input_invalid") \in R
        /\ Check("area", "no_solution") \in R /\ Check("history", "input_invalid") \in R
        OBVIOUS
  <2> HIDE DEF R, Check
  <2>3. QED
        BY <2>1, <2>2
<1>4. StartChecks \in Seq(R)
  <2> HIDE DEF R
  <2>1. QED
        BY <1>1, <1>2, <1>3 DEF StartChecks
<1>5. \A i \in DOMAIN StartChecks : StartChecks[i] \in R
  <2> HIDE DEF R
  <2>1. QED
        BY <1>4, SeqIs
<1>6. QED
      BY <1>5

\* The search has the start, open and at no cost.
LEMMA FirstFound ==
  ASSUME world \in Worlds, rejected \in SUBSET RejectionKinds, NEW s,
         s = [nodes |-> <<[place |-> Start, by |-> 0, parent |-> 1, cost |-> 0, label |-> 1]>>,
              open |-> {1}, labels |-> << 1 >>, rejected |-> rejected, full |-> FALSE]
  PROVE  Found(s)
<1> DEFINE first == [place |-> Start, by |-> 0, parent |-> 1, cost |-> 0, label |-> 1]
<1>1. first \in SearchNode
      BY PlacesAre DEF SearchNode
<1>2. /\ first.place = Start /\ first.by = 0 /\ first.parent = 1 /\ first.cost = 0 /\ first.label = 1
      OBVIOUS
<1>3. /\ s.nodes = <<first>> /\ s.open = {1} /\ s.labels = <<1>> /\ s.rejected = rejected /\ s.full = FALSE
      /\ s = [nodes |-> s.nodes, open |-> s.open, labels |-> s.labels, rejected |-> s.rejected, full |-> s.full]
      OBVIOUS
<1> HIDE DEF first
<1>4. s.nodes \in Seq(SearchNode) /\ Len(s.nodes) = 1 /\ s.nodes[1] = first
      BY <1>1, <1>3
<1>5. s.labels \in Seq(Nat) /\ Len(s.labels) = 1 /\ s.labels[1] = 1
      BY <1>3
<1>6. s \in SearchStates
      BY <1>3, <1>4, <1>5 DEF SearchStates
<1>7. Real(world, s.nodes)
      BY <1>2, <1>4 DEF Real
<1>8. 1..1 = {1} /\ 1 \in 1..1
      OBVIOUS
<1>9. Holder(s, 1) = first
      BY <1>4, <1>5 DEF Holder
<1>10. Fit(world, s)
  <2>1. MaxLabels \in Nat \ {0}
        BY SearchAssumption
  <2>2. 1 \in 1..MaxLabels
        BY <2>1
  <2>3. QED
        BY <1>2, <1>3, <1>4, <1>5, <1>8, <1>9, <2>2 DEF Fit
<1>11. Closed(world, s, {})
       BY <1>3, <1>4, <1>8 DEF Closed
<1>12. Reached(world, s, Start, 0)
       BY <1>2, <1>5, <1>8, <1>9 DEF Reached
<1>13. QED
       BY <1>6, <1>7, <1>10, <1>11, <1>12 DEF Found, Sensible

LEMMA BeginKeeps == SearchInv /\ Begin => SearchInv'
<1> SUFFICES ASSUME SearchInv, Begin PROVE SearchInv'
    OBVIOUS
<1>1. world \in Worlds /\ rejected \in SUBSET RejectionKinds /\ expanded \in 0..MaxExpansions /\ nodes = <<>> /\ open = {} /\ labels = <<>>
      BY DEF SearchInv, Begin
<1>2. world' = world /\ expanded' = expanded /\ rejected' = rejected
      BY DEF Begin
<1>3. CASE \E i \in DOMAIN StartChecks : answer' = StartChecks[i].state /\ UNCHANGED <<nodes, open, labels>>
  <2>1. answer' \in {"input_invalid", "no_envelope", "no_solution"} /\ nodes' = <<>> /\ open' = {} /\ labels' = <<>>
        BY <1>1, <1>3, ChecksAre
  <2>2. QED
        BY <1>1, <1>2, <2>1 DEF SearchInv
<1>4. CASE /\ answer' = "searching" /\ open' = {1} /\ labels' = <<1>>
           /\ nodes' = <<[place |-> Start, by |-> 0, parent |-> 1, cost |-> 0, label |-> 1]>>
  <2>1. Found(With(open))'
    <3> DEFINE s == With(open)'
    <3>1. s = [nodes |-> <<[place |-> Start, by |-> 0, parent |-> 1, cost |-> 0, label |-> 1]>>,
               open |-> {1}, labels |-> <<1>>, rejected |-> rejected, full |-> FALSE]
          BY <1>2, <1>4 DEF With
    <3> HIDE DEF s
    <3>2. Found(s)
          BY <1>1, <3>1, FirstFound
    <3>3. Sensible(world, s) /\ Closed(world, s, {}) /\ Reached(world, s, Start, 0)
          BY <3>2 DEF Found
    <3>4. Sensible(world', s) /\ Closed(world', s, {}) /\ Reached(world', s, Start, 0)
          BY <1>2, <3>3
    <3>5. QED
          BY <3>4 DEF Found, s
  <2>2. Sensible(world, With(open))' /\ nodes' # <<>>
        BY <1>4, <2>1 DEF Found
  <2> HIDE DEF With
  <2>3. QED
        BY <1>1, <1>2, <1>4, <2>1, <2>2 DEF SearchInv
<1>5. QED
      BY <1>3, <1>4 DEF Begin

\* While the search goes on, what it has is found, and what it pops is its best.
LEMMA LoopIs ==
  ASSUME SearchInv, Looping
  PROVE  /\ answer = "searching" /\ nodes # <<>> /\ Found(With(open)) /\ expanded + 1 \in 0..MaxExpansions
         /\ Popped \in open /\ Popped \in 1..Len(nodes) /\ \A m \in open : Total(nodes, Popped) <= Total(nodes, m)
         /\ world \in Worlds /\ expanded \in 0..MaxExpansions /\ rejected \in SUBSET RejectionKinds
<1>1. answer = "searching" /\ open # {} /\ expanded < MaxExpansions
      BY DEF Looping
<1>2. nodes # <<>> /\ Found(With(open))
      BY <1>1 DEF SearchInv
<1>3. nodes \in Seq(SearchNode) /\ open \subseteq 1..Len(nodes) /\ DOMAIN nodes = 1..Len(nodes)
      BY <1>2, SoundIs DEF Found
<1>4. Popped \in open /\ \A m \in open : Total(nodes, Popped) <= Total(nodes, m)
      BY <1>1, <1>3, SoonestIs DEF Popped
<1>5. expanded \in 0..MaxExpansions /\ MaxExpansions \in Nat /\ world \in Worlds /\ rejected \in SUBSET RejectionKinds
      BY SearchAssumption DEF SearchInv
<1>6. expanded + 1 \in 0..MaxExpansions
      BY <1>1, <1>5
<1>7. QED
      BY <1>1, <1>2, <1>3, <1>4, <1>5, <1>6

\* What the search has when only the queue was changed.
LEMMA WithNext ==
  ASSUME UNCHANGED <<nodes, labels, rejected>>
  PROVE  \A queue : [nodes |-> nodes', open |-> queue, labels |-> labels', rejected |-> rejected', full |-> FALSE] = With(queue)
BY DEF With

LEMMA SkipKeeps == SearchInv /\ SkipStale => SearchInv'
<1> SUFFICES ASSUME SearchInv, SkipStale PROVE SearchInv'
    OBVIOUS
<1> DEFINE n == Popped
           s == With(open \ {n})
<1>1. /\ world' = world /\ answer' = answer /\ nodes' = nodes /\ labels' = labels /\ expanded' = expanded
      /\ rejected' = rejected /\ open' = open \ {n} /\ Looping /\ labels[nodes[n].label] # n
      BY DEF SkipStale
<1>2. /\ answer = "searching" /\ nodes # <<>> /\ Found(With(open)) /\ world \in Worlds
      /\ expanded \in 0..MaxExpansions /\ rejected \in SUBSET RejectionKinds
      BY <1>1, LoopIs
<1> HIDE DEF n
<1>3. Found(s)
      BY <1>1, <1>2, Dropped DEF Found
<1>4. With(open)' = s
      BY <1>1 DEF With
<1> HIDE DEF s
<1>5. Found(With(open))'
  <2>1. Sensible(world, s) /\ Closed(world, s, {}) /\ Reached(world, s, Start, 0)
        BY <1>3 DEF Found
  <2>2. QED
        BY <1>1, <1>4, <2>1 DEF Found
<1>6. Sensible(world, With(open))'
      BY <1>5 DEF Found
<1>7. QED
      BY <1>1, <1>2, <1>5, <1>6 DEF SearchInv

LEMMA GoalKeeps == SearchInv /\ ReachGoal => SearchInv'
<1> SUFFICES ASSUME SearchInv, ReachGoal PROVE SearchInv'
    OBVIOUS
<1>0. PICK n : n = Popped
      OBVIOUS
<1> DEFINE s == With(open \ {n})
<1>1. /\ world' = world /\ answer' = "success" /\ nodes' = nodes /\ labels' = labels /\ expanded' = expanded + 1
      /\ rejected' = rejected /\ open' = open \ {n} /\ Looping /\ labels[nodes[n].label] = n /\ nodes[n].place \in Goals
      BY <1>0 DEF ReachGoal
<1>2. /\ nodes # <<>> /\ Found(With(open)) /\ world \in Worlds
      /\ expanded + 1 \in 0..MaxExpansions /\ rejected \in SUBSET RejectionKinds
      /\ n \in open /\ n \in 1..Len(nodes) /\ \A m \in open : Total(nodes, n) <= Total(nodes, m)
      BY <1>0, <1>1, LoopIs
<1>3. Sensible(world, With(open))'
  <2>1. Sensible(world, s)
        BY <1>2, Dropped DEF Found
  <2>2. With(open)' = s
        BY <1>1 DEF With
  <2> HIDE DEF s
  <2>3. QED
        BY <1>1, <2>1, <2>2
<1>4. GoalIs(n)'
  <2>1. open' \cup {n} = open
        BY <1>1, <1>2
  <2>2. With(open \cup {n})' = With(open)
        BY <1>1, <2>1 DEF With
  <2>3. Found(With(open \cup {n}))'
    <3> DEFINE u == With(open)
    <3>1. Sensible(world, u) /\ Closed(world, u, {}) /\ Reached(world, u, Start, 0)
          BY <1>2 DEF Found
    <3> HIDE DEF u
    <3>2. QED
          BY <1>1, <2>2, <3>1 DEF Found, u
  <2>4. n \in 1..Len(nodes') /\ n \notin open' /\ labels'[nodes'[n].label] = n /\ nodes'[n].place \in Goals
        BY <1>1, <1>2
  <2>5. \A m \in open' \cup {n} : Total(nodes', n) <= Total(nodes', m)
        BY <1>1, <1>2, <2>1
  <2>6. QED
        BY <2>3, <2>4, <2>5 DEF GoalIs
<1>5. \E i \in 1..Len(nodes') : GoalIs(i)'
      BY <1>1, <1>2, <1>4
<1>6. QED
      BY <1>1, <1>2, <1>3, <1>5 DEF SearchInv

\* Whether the labels are spent is not kept.
LEMMA KeptParts ==
  ASSUME NEW t, Sensible(world, t),
         NEW u, u = [nodes |-> t.nodes, open |-> t.open, labels |-> t.labels, rejected |-> t.rejected, full |-> FALSE]
  PROVE  Sensible(world, u)
<1>1. u.nodes = t.nodes /\ u.open = t.open /\ u.labels = t.labels /\ u.rejected = t.rejected
      OBVIOUS
<1>2. u \in SearchStates
      BY StateIs DEF Sensible, SearchStates
<1>3. \A l : Holder(u, l) = Holder(t, l)
      BY <1>1 DEF Holder
<1>4. Fit(world, u)
  <2>1. Fit(world, t)
        BY DEF Sensible
  <2> HIDE DEF Sensible
  <2>2. QED
        BY ONLY <1>1, <1>3, <2>1 DEF Fit
<1>5. QED
      BY <1>1, <1>2, <1>4 DEF Sensible

LEMMA ExpandKeeps == SearchInv /\ Expand => SearchInv'
<1> SUFFICES ASSUME SearchInv, Expand PROVE SearchInv'
    OBVIOUS
<1>0. PICK n : n = Popped
      OBVIOUS
<1>1. /\ Looping /\ labels[nodes[n].label] = n /\ nodes[n].place \notin Goals
      /\ expanded' = expanded + 1 /\ world' = world
      BY <1>0 DEF Expand
<1>2a. PICK last \in 0..Len(Motions) :
         /\ nodes' = TryMotions(n, expanded + 1, last).nodes /\ open' = TryMotions(n, expanded + 1, last).open
         /\ labels' = TryMotions(n, expanded + 1, last).labels
         /\ rejected' = TryMotions(n, expanded + 1, last).rejected
         /\ answer' = IF TryMotions(n, expanded + 1, last).full \/ last # Len(Motions) THEN "timeout" ELSE "searching"
      BY <1>0 DEF Expand
<1>2b. PICK t : t = TryMotions(n, expanded + 1, last)
      OBVIOUS
<1>2. /\ t = TryMotions(n, expanded + 1, last)
      /\ nodes' = t.nodes /\ open' = t.open /\ labels' = t.labels /\ rejected' = t.rejected
      /\ answer' = IF t.full \/ last # Len(Motions) THEN "timeout" ELSE "searching"
      BY <1>2a, <1>2b
<1>3. /\ nodes # <<>> /\ Found(With(open)) /\ world \in Worlds
      /\ expanded + 1 \in 0..MaxExpansions /\ n \in 1..Len(nodes)
      BY <1>0, <1>1, LoopIs
<1> DEFINE b == With(open \ {n})
<1>4. Sensible(world, b) /\ Closed(world, b, {n}) /\ Reached(world, b, Start, 0)
      BY <1>3, Dropped DEF Found
<1>5. /\ Sensible(world, t) /\ Closed(world, t, {n}) /\ Reached(world, t, Start, 0) /\ n \in 1..Len(t.nodes)
      /\ t.nodes[n] = nodes[n]
      /\ t.full \/ \A m \in Primitives : m <= last /\ Motions[m].from = nodes[n].place => Tried(world, t, n, m)
  <2>1. b = [nodes |-> nodes, open |-> open \ {n}, labels |-> labels, rejected |-> rejected, full |-> FALSE]
        BY DEF With
  <2> HIDE DEF b
  <2>2. QED
        BY <1>2, <1>3, <1>4, <2>1, TryMotionsKeep
<1> DEFINE u == [nodes |-> t.nodes, open |-> t.open, labels |-> t.labels, rejected |-> t.rejected, full |-> FALSE]
<1>6. With(open)' = u
      BY <1>2 DEF With
<1>7. Sensible(world, u)
      BY <1>5, KeptParts
<1> HIDE DEF u, b
<1>8. Sensible(world, With(open))'
      BY <1>1, <1>6, <1>7
<1>9. rejected' \in SUBSET RejectionKinds /\ nodes' # <<>>
  <2>1. t.rejected \in SUBSET RejectionKinds /\ t.nodes \in Seq(SearchNode) /\ Real(world, t.nodes)
        BY <1>5, StateIs DEF Sensible
  <2>2. QED
        BY <1>2, <2>1 DEF Real
<1>10. CASE ~t.full /\ last = Len(Motions)
  <2>1. t.full = FALSE /\ t \in SearchStates
        BY <1>5, <1>10, StateIs DEF Sensible
  <2>2. u = t
        BY <2>1, StateIs DEF u
  <2>3. Closed(world, t, {})
    <3> SUFFICES ASSUME NEW i \in 1..Len(t.nodes), Active(t, i), i \notin t.open
                 PROVE  /\ t.nodes[i].place \notin Goals
                        /\ \A m \in Primitives : Motions[m].from = t.nodes[i].place => Tried(world, t, i, m)
        BY DEF Closed
    <3>1. CASE i # n
          BY <1>5, <3>1 DEF Closed
    <3>2. CASE i = n
      <4>1. \A m \in Primitives : m <= last
            BY <1>10, MotionsAre DEF Primitives
      <4>2. QED
            BY <1>1, <1>5, <1>10, <3>2, <4>1
    <3>3. QED
          BY <3>1, <3>2
  <2>4. Found(With(open))'
        BY <1>1, <1>5, <1>6, <2>2, <2>3 DEF Found
  <2>5. answer' = "searching"
        BY <1>2, <1>10
  <2>6. QED
        BY <1>1, <1>3, <1>8, <1>9, <2>4, <2>5 DEF SearchInv
<1>11. CASE ~(~t.full /\ last = Len(Motions))
  <2>1. answer' = "timeout"
        BY <1>2, <1>11
  <2>2. QED
        BY <1>1, <1>3, <1>8, <1>9, <2>1 DEF SearchInv
<1>12. QED
       BY <1>10, <1>11

LEMMA EndKeeps ==
  ASSUME SearchInv, UNCHANGED <<world, nodes, open, labels, expanded, rejected>>, answer = "searching",
         answer' \in {"timeout", "no_envelope", "no_solution"},
         answer' # "timeout" => open = {},
         answer' = "no_envelope" => rejected \subseteq EnvelopeKinds
  PROVE  SearchInv'
<1>1. /\ world \in Worlds /\ expanded \in 0..MaxExpansions /\ rejected \in SUBSET RejectionKinds
      /\ nodes # <<>> /\ Found(With(open))
      BY DEF SearchInv
<1>2. With(open)' = With(open)
      BY DEF With
<1>3. Found(With(open))'
  <2> DEFINE u == With(open)
  <2>1. Sensible(world, u) /\ Closed(world, u, {}) /\ Reached(world, u, Start, 0)
        BY <1>1 DEF Found
  <2> HIDE DEF u
  <2>2. QED
        BY <1>2, <2>1 DEF Found, u
<1>4. Sensible(world, With(open))'
      BY <1>3 DEF Found
<1>5. QED
      BY <1>1, <1>3, <1>4 DEF SearchInv

LEMMA LastKeeps == SearchInv /\ (OutOfTime \/ Finish) => SearchInv'
<1>1. SearchInv /\ OutOfTime => SearchInv'
      BY EndKeeps DEF OutOfTime, Looping
<1>2. SearchInv /\ Finish => SearchInv'
  <2> SUFFICES ASSUME SearchInv, Finish PROVE SearchInv'
      OBVIOUS
  <2>1. /\ answer = "searching" /\ UNCHANGED <<world, nodes, open, labels, expanded, rejected>>
        /\ answer' = IF open # {} THEN "timeout"
                     ELSE IF rejected # {} /\ rejected \subseteq EnvelopeKinds THEN "no_envelope" ELSE "no_solution"
        BY DEF Finish
  <2>2. QED
        BY <2>1, EndKeeps
<1>3. QED
      BY <1>1, <1>2

LEMMA SearchStutters == SearchInv /\ UNCHANGED searchVars => SearchInv'
BY DEF SearchInv, searchVars, With, GoalIs, Found, Total

-----------------------------------------------------------------------------
(* What the invariant says of the answers                                  *)

LEMMA PathsEnd ==
  ASSUME NEW s, Found(s), world \in Worlds, Faithful, s.open = {}, NEW g \in Places, PathCosts[g] # {}
  PROVE  \E i \in 1..Len(s.nodes) : Active(s, i) /\ i \notin s.open /\ s.nodes[i].place = g
<1>1. PICK c \in PathCosts[g] : Near(s, g, c + world.tolerance * Cardinality(Places))
      BY PathsNear
<1>2. QED
      BY <1>1 DEF Near

LEMMA InvSound == SearchInv => SearchSound
<1> SUFFICES ASSUME SearchInv PROVE SearchSound
    OBVIOUS
<1>1. ASSUME answer = "success"
      PROVE  \E n \in DOMAIN nodes :
               /\ labels[nodes[n].label] = n /\ nodes[n].place \in Goals
               /\ PathIsReal(n)
               /\ Faithful => \A g \in Goals : \A c \in PathCosts[g] :
                                nodes[n].cost <= c + world.tolerance * Cardinality(Places)
  <2>1. PICK n \in 1..Len(nodes) : GoalIs(n)
        BY <1>1 DEF SearchInv
  <2> DEFINE s == With(open \cup {n})
  <2>2. Found(s) /\ labels[nodes[n].label] = n /\ nodes[n].place \in Goals /\ world \in Worlds
        BY <2>1 DEF GoalIs, SearchInv
  <2>3. nodes \in Seq(SearchNode) /\ Real(world, nodes) /\ DOMAIN nodes = 1..Len(nodes) /\ Len(nodes) \in Nat
        BY <2>2, SoundIs DEF Found
  <2>4. PathIsReal(n)
        BY <2>3, ChainIs
  <2>5. nodes[n].cost \in Nat /\ Total(nodes, n) = nodes[n].cost
    <3>1. nodes[n] \in SearchNode
          BY <2>3, SeqIs
    <3>2. nodes[n].cost \in Nat
          BY <3>1, NodeIs
    <3>3. Heuristic(nodes[n].place) = 0
          BY <2>2, HeuristicOfGoal
    <3>4. QED
          BY <3>2, <3>3 DEF Total
  <2>6. ASSUME Faithful, NEW g \in Goals, NEW c \in PathCosts[g]
        PROVE  nodes[n].cost <= c + world.tolerance * Cardinality(Places)
    <3> DEFINE far == c + world.tolerance * Cardinality(Places)
    <3>1. g \in Places
          BY PlacesAre
    <3>2. Near(s, g, far) /\ c \in Nat
          BY <2>2, <2>6, <3>1, PathsNear
    <3>3. far \in Nat
      <4>1. world.tolerance \in Nat /\ Cardinality(Places) \in Nat
            BY <2>2, WorldIs, PlacesAre
      <4> DEFINE x == world.tolerance
                 y == Cardinality(Places)
      <4>2. x \in Nat /\ y \in Nat
            BY <4>1
      <4> HIDE DEF x, y
      <4>3. c + x * y \in Nat
            BY <3>2, <4>2
      <4>4. QED
            BY <4>3 DEF x, y
    <3> HIDE DEF far
    <3>4. PICK i \in 1..Len(s.nodes) :
            /\ Active(s, i)
            /\ \/ i \in s.open /\ Total(s.nodes, i) <= far + Heuristic(g)
               \/ i \notin s.open /\ s.nodes[i].place = g /\ s.nodes[i].cost <= far
          BY <3>2 DEF Near
    <3>5. s.nodes = nodes /\ s.open = open \cup {n}
          BY WithIs
    <3>6. CASE i \in s.open /\ Total(s.nodes, i) <= far + Heuristic(g)
      <4>1. Total(nodes, n) <= Total(nodes, i)
            BY <2>1, <3>5, <3>6 DEF GoalIs
      <4>2. Heuristic(g) = 0
            BY HeuristicOfGoal
      <4>3. nodes[i] \in SearchNode
            BY <2>3, <3>4, <3>5, SeqIs
      <4>4. Total(nodes, i) \in Nat
            BY <4>3, NodeIs, HeuristicIs DEF Total
      <4>5. Total(nodes, i) <= far
            BY <3>3, <3>5, <3>6, <4>2
      <4>6. QED
            BY <2>5, <3>3, <4>1, <4>4, <4>5 DEF far
    <3>7. CASE i \notin s.open /\ s.nodes[i].place = g
      <4>1. s.nodes[i].place \notin Goals
            BY <2>2, <3>4, <3>7 DEF Found, Closed
      <4>2. QED
            BY <3>7, <4>1
    <3>8. QED
          BY <3>4, <3>6, <3>7
  <2>7. QED
        BY <2>2, <2>3, <2>4, <2>6
<1>2. ASSUME answer \in {"no_solution", "no_envelope"}, nodes # <<>>, Faithful
      PROVE  /\ Found(With(open)) /\ world \in Worlds /\ open = {}
             /\ \A p \in Places : PathCosts[p] # {} =>
                  \E i \in 1..Len(nodes) : Active(With(open), i) /\ i \notin With(open).open /\ nodes[i].place = p
  <2>1. Found(With(open)) /\ world \in Worlds /\ open = {}
        BY <1>2 DEF SearchInv
  <2> DEFINE s == With(open)
  <2>2. s.nodes = nodes /\ s.open = open
        BY WithIs
  <2> HIDE DEF s
  <2>3. ASSUME NEW p \in Places, PathCosts[p] # {}
        PROVE  \E i \in 1..Len(nodes) : Active(s, i) /\ i \notin s.open /\ nodes[i].place = p
    <3>1. Found(s) /\ s.open = {}
          BY <2>1, <2>2 DEF s
    <3>2. QED
          BY <1>2, <2>1, <2>2, <2>3, <3>1, PathsEnd
  <2>4. QED
        BY <2>1, <2>3 DEF s
<1>3. ASSUME answer \in {"no_solution", "no_envelope"}, nodes # <<>>, Faithful, NEW g \in Goals
      PROVE  PathCosts[g] = {}
  <2> SUFFICES ASSUME PathCosts[g] # {} PROVE FALSE
      OBVIOUS
  <2>1. g \in Places
        BY PlacesAre
  <2>2. PICK i \in 1..Len(nodes) : Active(With(open), i) /\ i \notin With(open).open /\ nodes[i].place = g
        BY <1>2, <1>3, <2>1
  <2>3. nodes[i].place \notin Goals
        BY <1>2, <1>3, <2>2, WithIs DEF Found, Closed
  <2>4. QED
        BY <2>2, <2>3
<1>4. ASSUME answer = "no_envelope", nodes # <<>>, Faithful, NEW m \in Primitives, PathCosts[Motions[m].from] # {}, ~Usable(m)
      PROVE  world.verdict[m] \in EnvelopeKinds
  <2>1. Motions[m].from \in Places
        BY MotionsAre DEF Primitives
  <2>2. PICK i \in 1..Len(nodes) : Active(With(open), i) /\ i \notin With(open).open /\ nodes[i].place = Motions[m].from
        BY <1>2, <1>4, <2>1
  <2>3. Tried(world, With(open), i, m)
        BY <1>2, <1>4, <2>2, WithIs DEF Found, Closed
  <2>4. world.verdict[m] \in rejected
        BY <1>4, <2>3, WithIs DEF Tried, Usable, Accepts
  <2>5. rejected \subseteq EnvelopeKinds
        BY <1>4 DEF SearchInv
  <2>6. QED
        BY <2>4, <2>5
<1>5. QED
      BY <1>1, <1>3, <1>4 DEF SearchSound

LEMMA InvTyped == SearchInv => SearchTypeOK
<1> SUFFICES ASSUME SearchInv PROVE SearchTypeOK
    OBVIOUS
<1>1. MaxLabels \in Nat /\ MaxExpansions \in Nat /\ expanded \in 0..MaxExpansions
      BY SearchAssumption DEF SearchInv
<1>2. CASE nodes = <<>>
  <2>1. open = {} /\ labels = <<>>
        BY <1>2 DEF SearchInv
  <2>2. Len(labels) = 0 /\ DOMAIN labels = {}
        BY <2>1
  <2>3. QED
        BY <1>1, <2>1, <2>2 DEF SearchInv, SearchTypeOK
<1>3. CASE nodes # <<>>
  <2>1. /\ open \subseteq DOMAIN nodes /\ Len(labels) \in 1..MaxLabels
        /\ \A l \in DOMAIN labels : nodes[labels[l]].label = l
    <3>1. Sensible(world, With(open))
          BY <1>3 DEF SearchInv
    <3>2. QED
          BY <3>1, SoundIs
  <2>2. QED
        BY <1>1, <2>1 DEF SearchInv, SearchTypeOK
<1>4. QED
      BY <1>2, <1>3

\* In every state of every search, for any places, motions, goals and worlds: a success is
\* a path of accepted motions from the start to a goal and, where no two places share a
\* label, costs no more than any path over the primitives but for one tolerance per place;
\* "no solution" means that there is no such path, and blaming the envelope that only the
\* envelope stood in the way.
THEOREM SearchStaysSound == SearchSpec => [](SearchSound /\ SearchTypeOK)
<1>1. SearchInv /\ [SearchNext]_searchVars => SearchInv'
  <2>1. SearchInv /\ SearchNext => SearchInv'
        BY BeginKeeps, SkipKeeps, GoalKeeps, ExpandKeeps, LastKeeps DEF SearchNext
  <2>2. QED
        BY <2>1, SearchStutters
<1>2. SearchInv => SearchSound /\ SearchTypeOK
      BY InvSound, InvTyped
<1>3. QED
      BY <1>1, <1>2, SearchStarts, PTL DEF SearchSpec

-----------------------------------------------------------------------------
(***************************************************************************)
(* Path switching without a topology threshold: switches for cost never go *)
(* back to what was left, for any lanes, costs and threshold. The cost of  *)
(* what is left of a path is followed by induction along it as the robot   *)
(* consumes it.                                                            *)
(***************************************************************************)

LEMMA TailIs ==
  ASSUME NEW S, NEW q \in Seq(S), Len(q) > 1
  PROVE  /\ Tail(q) \in Seq(S) /\ Len(Tail(q)) = Len(q) - 1
         /\ \A i \in 1..Len(q) - 1 : Tail(q)[i] = q[i + 1]
OBVIOUS

LEMMA JoinedIs ==
  ASSUME NEW S, NEW q \in Seq(S), NEW r \in Seq(S)
  PROVE  /\ q \o r \in Seq(S) /\ Len(q \o r) = Len(q) + Len(r)
         /\ \A i \in 1..Len(q) : (q \o r)[i] = q[i]
OBVIOUS

LEMMA SameSequence ==
  ASSUME NEW S, NEW q \in Seq(S), NEW r \in Seq(S), Len(q) = Len(r), \A i \in 1..Len(q) : q[i] = r[i]
  PROVE  q = r
OBVIOUS

LEMMA ElementOf ==
  ASSUME NEW S, NEW q \in Seq(S), NEW i \in 1..Len(q)
  PROVE  q[i] \in S
OBVIOUS

LEMMA CostOfLane ==
  ASSUME NEW lanes \in Seq(Lanes), NEW i \in 1..Len(lanes)
  PROVE  LaneCost[lanes[i]] \in Nat
<1>1. lanes[i] \in Lanes
      BY ElementOf
<1>2. QED
      BY <1>1, PathAssumption

\* The cost up to each point.
Sums(f, lanes) ==
  /\ f \in [0..Len(lanes) -> Nat] /\ f[0] = 0
  /\ \A n \in 1..Len(lanes) : f[n] = f[n - 1] + LaneCost[lanes[n]]

LEMMA CostIsSum ==
  ASSUME NEW lanes \in Seq(Lanes)
  PROVE  \E f : Sums(f, lanes) /\ Cost(lanes) = f[Len(lanes)]
<1> DEFINE N == Len(lanes)
           F == [e \in Nat \X Nat |-> IF e[1] \in 1..N THEN e[2] + LaneCost[lanes[e[1]]] ELSE 0]
           Step(f) == [n \in 0..N |-> IF n = 0 THEN 0 ELSE f[n - 1] + LaneCost[lanes[n]]]
           upTo == CHOOSE f : f = Step(f)
<1>1. N \in Nat /\ \A n \in 1..N : LaneCost[lanes[n]] \in Nat
      BY CostOfLane
<1>2. F \in [Nat \X Nat -> Nat]
  <2> HIDE DEF N
  <2>1. \A n, c \in Nat : n \in 1..N => c + LaneCost[lanes[n]] \in Nat
        BY <1>1
  <2>2. QED
        BY <2>1
<1>3. PICK f \in [0..N -> Nat] : StepsThrough(f, N, 0, F)
  <2> HIDE DEF F, N
  <2>1. QED
        BY <1>1, <1>2, RecursionByStep
<1>4. ASSUME NEW n \in 1..N PROVE f[n] = f[n - 1] + LaneCost[lanes[n]]
  <2>1. n \in 0..N /\ n - 1 \in 0..N /\ n \in Nat /\ n # 0
        BY <1>1
  <2>2. f[n] = F[<<n, f[n - 1]>>] /\ f[n - 1] \in Nat
        BY <1>3, <2>1 DEF StepsThrough
  <2>3. F[<<n, f[n - 1]>>] = f[n - 1] + LaneCost[lanes[n]]
        BY <2>1, <2>2
  <2>4. QED
        BY <2>2, <2>3
<1>5. f[0] = 0
  <2>1. 0 \in 0..N
        BY <1>1
  <2>2. QED
        BY <1>3, <2>1 DEF StepsThrough
<1> HIDE DEF N, F
<1>6. f = Step(f)
  <2>1. \A n \in 0..N : f[n] = IF n = 0 THEN 0 ELSE f[n - 1] + LaneCost[lanes[n]]
    <3> TAKE n \in 0..N
    <3>1. n = 0 \/ n \in 1..N
          BY <1>1
    <3>2. QED
          BY <1>4, <1>5, <3>1
  <2>2. QED
        BY <2>1
<1>7. upTo = Step(upTo)
      BY <1>6
<1> HIDE DEF upTo
<1>8. upTo \in [0..N -> Nat]
  <2> DEFINE P == {n \in Nat : n \in 0..N => upTo[n] \in Nat}
  <2>1. 0 \in P
    <3>1. 0 \in 0..N
          BY <1>1
    <3>2. QED
          BY <1>7, <3>1
  <2>2. ASSUME NEW n \in Nat, n \in P PROVE n + 1 \in P
    <3>1. SUFFICES ASSUME n + 1 \in 0..N PROVE upTo[n + 1] \in Nat
          OBVIOUS
    <3>2. n \in 0..N /\ n + 1 \in 1..N /\ (n + 1) - 1 = n /\ n + 1 # 0
          BY <1>1, <3>1
    <3>3. upTo[n + 1] = upTo[n] + LaneCost[lanes[n + 1]]
          BY <1>7, <3>1, <3>2
    <3>4. QED
          BY <1>1, <2>2, <3>2, <3>3
  <2>3. \A n \in Nat : n \in P
    <3> HIDE DEF P
    <3>1. QED
          BY <2>1, <2>2, NumberInduction
  <2>4. \A n \in 0..N : upTo[n] \in Nat
    <3>1. \A n \in 0..N : n \in Nat
          BY <1>1
    <3>2. QED
          BY <2>3, <3>1
  <2>5. upTo = [n \in 0..N |-> upTo[n]]
        BY <1>7
  <2>6. QED
        BY <2>4, <2>5
<1>9. upTo[0] = 0 /\ \A n \in 1..N : upTo[n] = upTo[n - 1] + LaneCost[lanes[n]]
  <2>1. 0 \in 0..N /\ \A n \in 1..N : n \in 0..N /\ n # 0
        BY <1>1
  <2>2. QED
        BY <1>7, <2>1
<1>10. Cost(lanes) = upTo[N]
       BY DEF Cost, upTo, N
<1>11. QED
       BY <1>8, <1>9, <1>10 DEF Sums, N

\* The cost of what is left when the first point is passed.
LEMMA CostOfTail ==
  ASSUME NEW lanes \in Seq(Lanes), Len(lanes) > 1
  PROVE  Cost(lanes) = LaneCost[lanes[1]] + Cost(Tail(lanes))
<1> DEFINE rest == Tail(lanes)
           N == Len(rest)
<1>1. rest \in Seq(Lanes) /\ Len(lanes) = N + 1 /\ \A i \in 1..N : rest[i] = lanes[i + 1]
      BY TailIs
<1>2. N \in Nat /\ N > 0
      BY <1>1
<1> HIDE DEF rest
<1>3. PICK f : Sums(f, lanes) /\ Cost(lanes) = f[Len(lanes)]
      BY CostIsSum
<1>4. PICK g : Sums(g, rest) /\ Cost(rest) = g[N]
      BY <1>1, CostIsSum
<1> HIDE DEF N
<1>5. LaneCost[lanes[1]] \in Nat
      BY CostOfLane
<1>6. /\ f[0] = 0 /\ \A n \in 1..N + 1 : f[n] = f[n - 1] + LaneCost[lanes[n]] /\ f[n] \in Nat
      BY <1>1, <1>2, <1>3 DEF Sums
<1>7. /\ g[0] = 0 /\ \A n \in 1..N : g[n] = g[n - 1] + LaneCost[rest[n]]
      /\ \A n \in 0..N : g[n] \in Nat
      BY <1>1, <1>4 DEF Sums, N
<1> DEFINE P == {n \in Nat : n \in 0..N => f[n + 1] = LaneCost[lanes[1]] + g[n]}
<1>8. 0 \in P
  <2>1. 1 \in 1..N + 1 /\ 1 - 1 = 0 /\ 0 + 1 = 1
        BY <1>2
  <2>2. f[1] = f[0] + LaneCost[lanes[1]]
        BY <1>6, <2>1
  <2>3. QED
        BY <1>5, <1>6, <1>7, <2>1, <2>2
<1>9. ASSUME NEW n \in Nat, n \in P PROVE n + 1 \in P
  <2>1. SUFFICES ASSUME n + 1 \in 0..N PROVE f[(n + 1) + 1] = LaneCost[lanes[1]] + g[n + 1]
        OBVIOUS
  <2>2. /\ n \in 0..N /\ n + 1 \in 1..N /\ (n + 1) - 1 = n
        /\ (n + 1) + 1 \in 1..N + 1 /\ ((n + 1) + 1) - 1 = n + 1
        BY <1>2, <2>1
  <2>3. f[n + 1] = LaneCost[lanes[1]] + g[n]
        BY <1>9, <2>2
  <2>4. f[(n + 1) + 1] = f[n + 1] + LaneCost[lanes[(n + 1) + 1]]
        BY <1>6, <2>2
  <2>5. g[n + 1] = g[n] + LaneCost[rest[n + 1]] /\ rest[n + 1] = lanes[(n + 1) + 1]
        BY <1>1, <1>7, <2>2
  <2>6. LaneCost[rest[n + 1]] \in Nat /\ g[n] \in Nat
        BY <1>1, <1>7, <2>2, CostOfLane DEF N
  <2>7. QED
        BY <1>5, <2>3, <2>4, <2>5, <2>6
<1>10. \A n \in Nat : n \in P
  <2> HIDE DEF P
  <2>1. QED
        BY <1>8, <1>9, NumberInduction
<1>11. N \in 0..N /\ N \in P
       BY <1>2, <1>10
<1>12. QED
       BY <1>1, <1>3, <1>4, <1>11 DEF rest, N

LEMMA CostIsNumber ==
  ASSUME NEW lanes \in Seq(Lanes)
  PROVE  Cost(lanes) \in Nat
<1>1. PICK f : Sums(f, lanes) /\ Cost(lanes) = f[Len(lanes)]
      BY CostIsSum
<1>2. Len(lanes) \in 0..Len(lanes)
      OBVIOUS
<1>3. QED
      BY <1>1, <1>2 DEF Sums

-----------------------------------------------------------------------------
Trajectories == [from : Nat, lane : Seq(Lanes), version : Nat]

LEMMA SliceIs ==
  ASSUME NEW path \in Trajectories, NEW a \in Nat, NEW b \in Nat,
         path.from <= a, a <= b, b <= Through(path)
  PROVE  /\ Slice(path, a, b) \in Trajectories /\ Slice(path, a, b).from = a
         /\ Slice(path, a, b).version = path.version
         /\ Len(Slice(path, a, b).lane) = b - a + 1 /\ Through(Slice(path, a, b)) = b
         /\ \A i \in 1..b - a + 1 : Slice(path, a, b).lane[i] = LaneAt(path, a + i - 1)
<1> DEFINE f == path.from
           q == path.lane
           i0 == a - f + 1
           i1 == b - f + 1
           r == SubSeq(q, i0, i1)
           slice == [from |-> a, lane |-> r, version |-> path.version]
<1>1. f \in Nat /\ q \in Seq(Lanes) /\ path.version \in Nat
      BY DEF Trajectories
<1>2. Slice(path, a, b) = slice
      BY DEF Slice
<1>3. i0 \in 1..Len(q) /\ i1 \in i0..Len(q) /\ i1 - i0 + 1 = b - a + 1
  <2>1. Len(q) \in Nat /\ b <= f + Len(q) - 1
        BY <1>1 DEF Through
  <2>2. f <= a
        OBVIOUS
  <2> DEFINE n == Len(q)
  <2>3. n \in Nat /\ b <= f + n - 1
        BY <2>1
  <2> HIDE DEF f, q, n
  <2>4. i0 \in 1..n /\ i1 \in i0..n /\ i1 - i0 + 1 = b - a + 1
        BY <1>1, <2>2, <2>3
  <2>5. QED
        BY <2>4 DEF n
<1> HIDE DEF i0, i1, q
<1>4. r \in Seq(Lanes) /\ Len(r) = b - a + 1 /\ \A i \in 1..i1 - i0 + 1 : r[i] = q[i0 + i - 1]
  <2> HIDE DEF r
  <2>1. /\ SubSeq(q, i0, i1) \in Seq(Lanes) /\ Len(SubSeq(q, i0, i1)) = i1 - i0 + 1
        /\ \A i \in 1..i1 - i0 + 1 : SubSeq(q, i0, i1)[i] = q[i0 + i - 1]
        BY <1>1, <1>3, PartIs
  <2>2. r = SubSeq(q, i0, i1)
        BY DEF r
  <2>3. QED
        BY <1>3, <2>1, <2>2
<1> HIDE DEF r
<1>5. slice \in Trajectories /\ Through(slice) = b
  <2>1. slice.from = a /\ slice.lane = r /\ slice.version = path.version
        OBVIOUS
  <2>2. slice \in Trajectories
        BY <1>1, <1>4 DEF Trajectories
  <2> HIDE DEF slice
  <2>3. a + Len(r) - 1 = b
        BY <1>4
  <2>4. QED
        BY <2>1, <2>2, <2>3 DEF Through
<1>6. \A i \in 1..b - a + 1 : r[i] = LaneAt(path, a + i - 1)
  <2> TAKE i \in 1..b - a + 1
  <2>1. i0 + i - 1 = (a + i - 1) - f + 1
        BY <1>1 DEF i0
  <2>2. r[i] = q[i0 + i - 1]
        BY <1>3, <1>4
  <2>3. QED
        BY <2>1, <2>2 DEF LaneAt, q
<1>7. QED
      BY <1>2, <1>4, <1>5, <1>6

AuthorizedInv ==
  /\ authorized \in Trajectories /\ position \in Nat
  /\ authorized.from <= position /\ position <= Through(authorized)
  /\ versioner.last \in Nat

\* The committed segment is part of what is authorized.
SegmentInv ==
  segment # NoPath =>
    /\ segment \in Trajectories /\ segment.version = authorized.version
    /\ segment.from <= position /\ segment.from <= Through(segment)
    /\ Through(segment) <= Through(authorized)
    /\ \A a \in segment.from..Through(segment) : LaneAt(segment, a) = LaneAt(authorized, a)

\* What may be switched to begins with the committed segment.
CandidateInv ==
  candidate # NoPath =>
    /\ segment # NoPath /\ candidate \in Trajectories /\ candidate.version > authorized.version
    /\ \A a \in segment.from..Through(segment) : LaneAt(candidate, a) = LaneAt(authorized, a)

\* What was left passes through where the robot is, and costs more than what is left to drive.
LeftInv ==
  \A y \in left :
    /\ y \in Seq(Lanes) /\ Len(y) > 0 /\ y[1] = LaneAt(authorized, position)
    /\ Cost(y) > Cost(Remaining(authorized).lane)

SwitchingInv == AuthorizedInv /\ SegmentInv /\ CandidateInv /\ LeftInv

\* What remains of a path the robot is on.
LEMMA RemainingIs ==
  ASSUME NEW path \in Trajectories, position \in Nat, path.from <= position, position <= Through(path)
  PROVE  /\ Remaining(path) \in Trajectories /\ Remaining(path).lane \in Seq(Lanes)
         /\ Len(Remaining(path).lane) = Through(path) - position + 1
         /\ \A i \in 1..Through(path) - position + 1 : Remaining(path).lane[i] = LaneAt(path, position + i - 1)
         /\ Remaining(path).lane[1] = LaneAt(path, position)
         /\ Cost(Remaining(path).lane) \in Nat
<1> DEFINE b == Through(path)
           rest == Slice(path, position, b)
<1>1. b \in Nat
  <2>1. path.from \in Nat /\ path.lane \in Seq(Lanes)
        BY DEF Trajectories
  <2>2. b \in Int
        BY <2>1 DEF Through
  <2>3. QED
        BY <2>2
<1> HIDE DEF b
<1>2. position <= b /\ b <= Through(path)
      BY <1>1 DEF b
<1>3. /\ rest \in Trajectories /\ Len(rest.lane) = b - position + 1
      /\ \A i \in 1..b - position + 1 : rest.lane[i] = LaneAt(path, position + i - 1)
      BY <1>1, <1>2, SliceIs
<1>4. 1 \in 1..b - position + 1 /\ position + 1 - 1 = position
      BY <1>1, <1>2
<1>5. rest.lane[1] = LaneAt(path, position)
      BY <1>3, <1>4
<1>6. rest.lane \in Seq(Lanes)
      BY <1>3 DEF Trajectories
<1>7. Cost(rest.lane) \in Nat
      BY <1>6, CostIsNumber
<1>8. Remaining(path) = rest
      BY DEF Remaining, b
<1>9. QED
      BY <1>3, <1>5, <1>6, <1>7, <1>8 DEF b

LEMMA SwitchingStarts ==
  PathInit => SwitchingInv
<1> SUFFICES ASSUME PathInit PROVE SwitchingInv
    OBVIOUS
<1>1. PICK l \in [1..Horizon + 1 -> Lanes] : authorized = [from |-> 0, lane |-> l, version |-> 1]
      BY DEF PathInit
<1>2. l \in Seq(Lanes) /\ Len(l) = Horizon + 1 /\ Horizon \in Nat
      BY PathAssumption
<1>3. authorized \in Trajectories /\ Through(authorized) = Horizon /\ authorized.from = 0
      BY <1>1, <1>2 DEF Trajectories, Through
<1>4. AuthorizedInv
      BY <1>2, <1>3 DEF AuthorizedInv, PathInit
<1>5. SegmentInv /\ CandidateInv /\ LeftInv
      BY DEF SegmentInv, CandidateInv, LeftInv, PathInit
<1>6. QED
      BY <1>4, <1>5 DEF SwitchingInv

LEMMA MoveKeeps ==
  ASSUME SwitchingInv, Move
  PROVE  SwitchingInv'
<1> DEFINE old == Remaining(authorized).lane
           new == Remaining(authorized)'.lane
           b == Through(authorized)
<1>1. /\ position < b /\ position' = position + 1
      /\ left' = {Tail(x) : x \in {y \in left : Len(y) > 1 /\ y[2] = LaneAt(authorized, position + 1)}}
      /\ UNCHANGED <<authorized, segment, candidate, versioner>>
      BY DEF Move
<1>2. AuthorizedInv /\ SegmentInv /\ CandidateInv /\ LeftInv
      BY DEF SwitchingInv
<1>3. authorized \in Trajectories /\ position \in Nat /\ authorized.from \in Nat /\ b \in Int
  <2>1. authorized \in Trajectories /\ position \in Nat /\ authorized.from \in Nat /\ authorized.lane \in Seq(Lanes)
        BY <1>2 DEF AuthorizedInv, Trajectories
  <2>2. QED
        BY <2>1 DEF Through
<1>4. AuthorizedInv'
  <2>1. b' = b
        BY <1>1 DEF Through
  <2>2. position' \in Nat /\ authorized.from <= position' /\ position' <= b
        BY <1>1, <1>2, <1>3 DEF AuthorizedInv
  <2>3. QED
        BY <1>1, <1>2, <2>1, <2>2 DEF AuthorizedInv
<1>5. SegmentInv'
  <2>1. segment # NoPath => segment.from \in Nat
        BY <1>2 DEF SegmentInv, Trajectories
  <2>2. SUFFICES ASSUME segment # NoPath PROVE SegmentInv'
        BY <1>1 DEF SegmentInv
  <2>3. /\ segment \in Trajectories /\ segment.version = authorized.version
        /\ segment.from <= position /\ segment.from <= Through(segment)
        /\ Through(segment) <= Through(authorized)
        /\ \A a \in segment.from..Through(segment) : LaneAt(segment, a) = LaneAt(authorized, a)
        BY <1>2, <2>2 DEF SegmentInv
  <2>4. segment.from <= position'
        BY <1>1, <1>3, <2>1, <2>2, <2>3
  <2>5. QED
        BY <1>1, <2>3, <2>4 DEF SegmentInv, Through, LaneAt
<1>6. CandidateInv'
      BY <1>1, <1>2 DEF CandidateInv, Through, LaneAt
<1>7. LeftInv'
  <2>1. /\ old \in Seq(Lanes) /\ Len(old) = b - position + 1
        /\ \A i \in 1..b - position + 1 : old[i] = LaneAt(authorized, position + i - 1)
        /\ old[1] = LaneAt(authorized, position) /\ Cost(old) \in Nat
        BY <1>2, RemainingIs DEF AuthorizedInv
  <2>2. /\ new \in Seq(Lanes) /\ Len(new) = b - position
        /\ \A i \in 1..b - position : new[i] = LaneAt(authorized, position + i)
        /\ Cost(new) \in Nat
    <3> DEFINE p == position + 1
               next == Slice(authorized, p, b)
    <3>1. p \in Nat /\ authorized.from <= p /\ p <= b /\ b \in Nat
          BY <1>1, <1>2, <1>3 DEF AuthorizedInv
    <3>2. Remaining(authorized)' = next
          BY <1>1 DEF Remaining, Through, Slice
    <3> HIDE DEF p
    <3>3. /\ next \in Trajectories /\ Len(next.lane) = b - p + 1
          /\ \A i \in 1..b - p + 1 : next.lane[i] = LaneAt(authorized, p + i - 1)
          BY <1>3, <3>1, SliceIs
    <3>4. next.lane \in Seq(Lanes)
          BY <3>3 DEF Trajectories
    <3>5. Cost(next.lane) \in Nat
          BY <3>4, CostIsNumber
    <3>6. b - p + 1 = b - position /\ \A i \in 1..b - position : p + i - 1 = position + i
          BY <1>3 DEF p
    <3>7. QED
          BY <3>2, <3>3, <3>4, <3>5, <3>6
  <2> HIDE DEF old, new, b
  <2>3. Tail(old) = new
    <3>1. Len(old) > 1
          BY <1>1, <1>3, <2>1
    <3>2. /\ Tail(old) \in Seq(Lanes) /\ Len(Tail(old)) = Len(old) - 1
          /\ \A i \in 1..Len(old) - 1 : Tail(old)[i] = old[i + 1]
          BY <2>1, <3>1, TailIs
    <3>3. Len(Tail(old)) = Len(new)
          BY <1>3, <2>1, <2>2, <3>2
    <3>4. ASSUME NEW i \in 1..Len(new) PROVE Tail(old)[i] = new[i]
      <4>1. i \in 1..Len(old) - 1 /\ i + 1 \in 1..b - position + 1 /\ i \in 1..b - position
            /\ position + (i + 1) - 1 = position + i
            BY <1>3, <2>1, <2>2
      <4>2. QED
            BY <2>1, <2>2, <3>2, <4>1
    <3>5. QED
          BY <2>2, <3>2, <3>3, <3>4, SameSequence
  <2>4. Cost(old) = LaneCost[old[1]] + Cost(new)
    <3>1. Len(old) > 1
          BY <1>1, <1>3, <2>1
    <3>2. QED
          BY <2>1, <2>3, <3>1, CostOfTail
  <2>5. ASSUME NEW y \in left, Len(y) > 1, y[2] = LaneAt(authorized, position + 1)
        PROVE  /\ Tail(y) \in Seq(Lanes) /\ Len(Tail(y)) > 0
               /\ Tail(y)[1] = LaneAt(authorized, position + 1) /\ Cost(Tail(y)) > Cost(new)
    <3>1. y \in Seq(Lanes) /\ y[1] = old[1] /\ Cost(y) > Cost(old)
          BY <1>2, <2>1 DEF LeftInv, old
    <3>2. /\ Tail(y) \in Seq(Lanes) /\ Len(Tail(y)) = Len(y) - 1
          /\ \A i \in 1..Len(y) - 1 : Tail(y)[i] = y[i + 1]
          BY <2>5, <3>1, TailIs
    <3>3. Len(y) \in Nat /\ 1 \in 1..Len(y) - 1 /\ 1 \in 1..Len(y) /\ 1 + 1 = 2
          BY <2>5, <3>1
    <3>4. Cost(y) = LaneCost[y[1]] + Cost(Tail(y))
          BY <2>5, <3>1, CostOfTail
    <3>5. LaneCost[y[1]] \in Nat /\ Cost(Tail(y)) \in Nat
          BY <3>1, <3>2, <3>3, CostOfLane, CostIsNumber
    <3>6. Cost(Tail(y)) > Cost(new)
          BY <2>2, <2>4, <3>1, <3>4, <3>5
    <3>7. QED
          BY <2>5, <3>2, <3>3, <3>6
  <2>6. LaneAt(authorized, position)' = LaneAt(authorized, position + 1)
        BY <1>1 DEF LaneAt
  <2>7. ASSUME NEW z \in left'
        PROVE  /\ z \in Seq(Lanes) /\ Len(z) > 0 /\ z[1] = LaneAt(authorized, position)'
               /\ Cost(z) > Cost(new)
    <3>1. PICK y \in left : Len(y) > 1 /\ y[2] = LaneAt(authorized, position + 1) /\ z = Tail(y)
          BY <1>1
    <3>2. QED
          BY <2>5, <2>6, <3>1
  <2>8. Cost(new) = Cost(Remaining(authorized).lane)'
        BY DEF new, Cost
  <2>9. \A z : Cost(z)' = Cost(z)
        BY DEF Cost
  <2>10. QED
         BY <2>7, <2>8, <2>9 DEF LeftInv
<1>8. QED
      BY <1>4, <1>5, <1>6, <1>7 DEF SwitchingInv

LEMMA NothingDriven ==
  ASSUME AuthorizedInv, LeftInv, UNCHANGED <<authorized, position, left>>, versioner'.last \in Nat
  PROVE  AuthorizedInv' /\ LeftInv'
<1>1. AuthorizedInv'
      BY DEF AuthorizedInv, Through
<1>2. Remaining(authorized)' = Remaining(authorized)
      BY DEF Remaining, Slice, Through
<1>3. \A z : Cost(z)' = Cost(z)
      BY DEF Cost
<1>4. Cost(Remaining(authorized).lane)' = Cost(Remaining(authorized).lane)
      BY <1>2 DEF Cost
<1>5. LaneAt(authorized, position)' = LaneAt(authorized, position)
      BY DEF LaneAt
<1>6. LeftInv'
      BY <1>3, <1>4, <1>5 DEF LeftInv
<1>7. QED
      BY <1>1, <1>6

LEMMA ExtractKeeps ==
  ASSUME SwitchingInv, candidate = NoPath, ExtractSegment
  PROVE  SwitchingInv'
<1> DEFINE b == position + Required
           part == Slice(authorized, position, b)
<1>1. /\ Through(authorized) - position >= Required /\ Required > 0
      /\ segment' = part /\ UNCHANGED <<authorized, position, candidate, versioner, left>>
      BY DEF ExtractSegment
<1>2. AuthorizedInv /\ LeftInv
      BY DEF SwitchingInv
<1>3. Required \in Nat
  <2>1. Reach \in Nat /\ StoppingMargin \in Nat
        BY PathAssumption
  <2>2. \E x \in {Reach, StoppingMargin} : \A y \in {Reach, StoppingMargin} : x >= y
        BY <2>1
  <2>3. Max({Reach, StoppingMargin}) \in {Reach, StoppingMargin}
        BY <2>2 DEF Max
  <2>4. QED
        BY <2>1, <2>3 DEF Required
<1>4. authorized \in Trajectories /\ position \in Nat /\ authorized.from <= position /\ Through(authorized) \in Int
  <2>1. authorized \in Trajectories /\ position \in Nat /\ authorized.from \in Nat /\ authorized.lane \in Seq(Lanes)
        BY <1>2 DEF AuthorizedInv, Trajectories
  <2>2. QED
        BY <1>2, <2>1 DEF Through, AuthorizedInv
<1>5. b \in Nat /\ position <= b /\ b <= Through(authorized)
      BY <1>1, <1>3, <1>4
<1> HIDE DEF b
<1>6. /\ part \in Trajectories /\ part.from = position /\ part.version = authorized.version
      /\ Through(part) = b /\ Len(part.lane) = b - position + 1
      /\ \A i \in 1..b - position + 1 : part.lane[i] = LaneAt(authorized, position + i - 1)
      BY <1>4, <1>5, SliceIs
<1> HIDE DEF part
<1>7. \A a \in position..b : LaneAt(part, a) = LaneAt(authorized, a)
  <2> TAKE a \in position..b
  <2>1. a - position + 1 \in 1..b - position + 1 /\ position + (a - position + 1) - 1 = a
        BY <1>4, <1>5
  <2>2. QED
        BY <1>6, <2>1 DEF LaneAt
<1>8. SegmentInv'
  <2>1. /\ part \in Trajectories /\ part.version = authorized.version /\ part.from <= position
        /\ part.from <= Through(part) /\ Through(part) <= Through(authorized)
        /\ \A a \in part.from..Through(part) : LaneAt(part, a) = LaneAt(authorized, a)
        BY <1>4, <1>5, <1>6, <1>7
  <2>2. QED
        BY <1>1, <2>1 DEF SegmentInv, Through, LaneAt
<1>9. CandidateInv'
      BY <1>1 DEF CandidateInv
<1>10. AuthorizedInv' /\ LeftInv'
  <2>1. versioner'.last \in Nat
        BY <1>1, <1>2 DEF AuthorizedInv
  <2>2. QED
        BY <1>1, <1>2, <2>1, NothingDriven
<1>11. QED
       BY <1>8, <1>9, <1>10 DEF SwitchingInv

LEMMA MergeKeeps ==
  ASSUME SwitchingInv, segment # NoPath, NEW n \in 2..Horizon + 1, NEW lane \in [1..n -> Lanes], MergeTail(lane)
  PROVE  SwitchingInv'
<1> DEFINE m == Assign(lane).last
           top == Max({segment.version, m})
           rest == Tail(lane)
           joint == Join(segment, lane, m)
<1>1. AuthorizedInv /\ SegmentInv /\ CandidateInv /\ LeftInv
      BY DEF SwitchingInv
<1>2. /\ versioner' = Assign(lane) /\ UNCHANGED <<authorized, position, left>>
      /\ candidate' \in {joint, NoPath}
      /\ segment' = IF candidate' = NoPath THEN NoPath ELSE segment
      BY DEF MergeTail
<1>3. m \in Nat
      BY <1>1 DEF Assign, AuthorizedInv
<1>4. segment \in Trajectories /\ segment.version = authorized.version
      BY <1>1 DEF SegmentInv
<1>5. segment.version \in Nat /\ segment.from \in Nat /\ segment.lane \in Seq(Lanes)
      BY <1>4 DEF Trajectories
<1> HIDE DEF m
<1>6. top \in Nat /\ top >= segment.version
  <2> DEFINE v == segment.version
  <2>1. v \in Nat
        BY <1>5
  <2> HIDE DEF v
  <2>2. \E x \in {v, m} : \A y \in {v, m} : x >= y
        BY <1>3, <2>1
  <2>3. Max({v, m}) \in {v, m} /\ Max({v, m}) >= v
        BY <2>2 DEF Max
  <2>4. QED
        BY <1>3, <2>1, <2>3 DEF v
<1>7. rest \in Seq(Lanes)
  <2>1. lane \in Seq(Lanes) /\ Len(lane) = n /\ n > 1
    <3>1. n \in Nat /\ n > 1
          BY PathAssumption
    <3>2. QED
          BY <3>1
  <2>2. QED
        BY <2>1, TailIs
<1> DEFINE q == segment.lane
           whole == q \o rest
<1>8. joint = [from |-> segment.from, lane |-> whole, version |-> top + 1]
      BY DEF Join
<1> HIDE DEF top, rest, q
<1>9. whole \in Seq(Lanes) /\ \A i \in 1..Len(q) : whole[i] = q[i]
      BY <1>5, <1>7, JoinedIs DEF q
<1> HIDE DEF joint, whole
<1>10. joint \in Trajectories /\ joint.version > authorized.version
  <2>1. top + 1 \in Nat /\ top + 1 > authorized.version
        BY <1>4, <1>5, <1>6
  <2>2. QED
        BY <1>5, <1>8, <1>9, <2>1 DEF Trajectories
<1>11. \A a \in segment.from..Through(segment) : LaneAt(joint, a) = LaneAt(authorized, a)
  <2> TAKE a \in segment.from..Through(segment)
  <2>1. a - segment.from + 1 \in 1..Len(q)
    <3>1. Len(q) \in Nat /\ a <= segment.from + Len(q) - 1
          BY <1>5 DEF q, Through
    <3>2. QED
          BY <1>5, <3>1
  <2>2. LaneAt(joint, a) = LaneAt(segment, a)
        BY <1>8, <1>9, <2>1 DEF LaneAt, q
  <2>3. LaneAt(segment, a) = LaneAt(authorized, a)
        BY <1>1 DEF SegmentInv
  <2>4. QED
        BY <2>2, <2>3
<1>12. CASE candidate' = NoPath
  <2>1. SegmentInv' /\ CandidateInv'
        BY <1>2, <1>12 DEF SegmentInv, CandidateInv
  <2>2. AuthorizedInv' /\ LeftInv'
    <3>1. versioner'.last \in Nat
          BY <1>2, <1>3 DEF m
    <3>2. QED
          BY <1>1, <1>2, <3>1, NothingDriven
  <2>3. QED
        BY <2>1, <2>2 DEF SwitchingInv
<1>13. CASE candidate' # NoPath
  <2>1. candidate' = joint /\ segment' = segment
        BY <1>2, <1>13
  <2>2. SegmentInv'
        BY <1>1, <1>2, <2>1 DEF SegmentInv, Through, LaneAt
  <2>3. CandidateInv'
        BY <1>2, <1>10, <1>11, <2>1 DEF CandidateInv, Through, LaneAt
  <2>4. AuthorizedInv' /\ LeftInv'
    <3>1. versioner'.last \in Nat
          BY <1>2, <1>3 DEF m
    <3>2. QED
          BY <1>1, <1>2, <3>1, NothingDriven
  <2>5. QED
        BY <2>2, <2>3, <2>4 DEF SwitchingInv
<1>14. QED
       BY <1>12, <1>13

\* A switch while the current plan is valid is to something cheaper.
LEMMA CheaperOnly ==
  ASSUME NEW old \in Nat, NEW new \in Nat, 10 * new < (10 - Threshold) * old
  PROVE  new < old
<1>1. Threshold \in Nat /\ Threshold < 10
      BY PathAssumption
<1>2. (10 - Threshold) * old = 10 * old - Threshold * old /\ Threshold * old >= 0
      BY <1>1, SMTT(30)
<1> DEFINE t == Threshold * old
           w == (10 - Threshold) * old
<1>3. t \in Int
      BY <1>1
<1> HIDE DEF t
<1>4. 10 * new < 10 * old - t
      BY <1>2 DEF t
<1>5. t >= 0
      BY <1>2 DEF t
<1>6. QED
      BY <1>3, <1>4, <1>5

Improves ==
  /\ authorized'.version > authorized.version
  /\ \A a \in position..Min({Through(segment), Through(authorized)}) :
       LaneAt(authorized', a) = LaneAt(authorized, a)
  /\ Slice(authorized', position, Through(authorized')).lane \notin left'

LEMMA DecideKeeps ==
  ASSUME Topology = NoPath, SwitchingInv,
         NEW a \in BOOLEAN, NEW b \in BOOLEAN, NEW c \in BOOLEAN, NEW d \in BOOLEAN, NEW e \in BOOLEAN,
         Decide(a, b, c, d, e)
  PROVE  SwitchingInv' /\ (authorized' # authorized => Improves)
<1> DEFINE currentValid == a /\ OnPath(authorized)
           candidateValid == b /\ OnPath(candidate)
           decision == Decision(currentValid, candidateValid, c, d, e)
           old == Remaining(authorized).lane
           new == Remaining(candidate).lane
<1>1. AuthorizedInv /\ SegmentInv /\ CandidateInv /\ LeftInv
      BY DEF SwitchingInv
<1>2. /\ candidate # NoPath /\ segment' = NoPath /\ candidate' = NoPath /\ UNCHANGED <<position, versioner>>
      /\ IF decision = "switch"
         THEN authorized' = candidate /\ left' = IF currentValid THEN left \cup {old} ELSE {}
         ELSE UNCHANGED <<authorized, left>>
      BY DEF Decide
<1>3. SegmentInv' /\ CandidateInv'
      BY <1>2 DEF SegmentInv, CandidateInv
<1>4. CASE decision # "switch"
  <2>1. UNCHANGED <<authorized, left, position, versioner>>
        BY <1>2, <1>4
  <2>2. AuthorizedInv' /\ LeftInv'
    <3>1. versioner'.last \in Nat
          BY <1>1, <2>1 DEF AuthorizedInv
    <3>2. QED
          BY <1>1, <2>1, <3>1, NothingDriven
  <2>3. QED
        BY <1>3, <2>1, <2>2 DEF SwitchingInv
<1>5. CASE decision = "switch"
  <2>1. authorized' = candidate /\ left' = (IF currentValid THEN left \cup {old} ELSE {}) /\ position' = position
        BY <1>2, <1>5
  <2>2. /\ candidateValid
        /\ currentValid => 10 * Cost(new) < (10 - Threshold) * Cost(old)
    <3> HIDE DEF currentValid, candidateValid, old, new
    <3>1. candidateValid /\ (currentValid => ShouldSwitch(Remaining(authorized), Remaining(candidate), Cost(old), Cost(new)))
          BY <1>5 DEF Decision, decision, old, new
    <3>2. QED
          BY <3>1 DEF ShouldSwitch
  <2>3. /\ segment # NoPath /\ candidate \in Trajectories /\ candidate.version > authorized.version
        /\ \A k \in segment.from..Through(segment) : LaneAt(candidate, k) = LaneAt(authorized, k)
        BY <1>1, <1>2 DEF CandidateInv
  <2>4. authorized \in Trajectories /\ position \in Nat
        BY <1>1 DEF AuthorizedInv
  <2>5. Through(authorized) \in Int /\ Through(candidate) \in Int
    <3>1. \A path \in Trajectories : path.from \in Nat /\ path.lane \in Seq(Lanes)
          BY DEF Trajectories
    <3>2. QED
          BY <2>3, <2>4, <3>1 DEF Through
  <2>6. /\ candidate.from <= position /\ position <= Through(candidate)
        /\ LaneAt(candidate, position) = LaneAt(authorized, position)
        BY <2>2, <2>4, <2>5 DEF OnPath
  <2>7. AuthorizedInv'
    <3>1. Through(authorized)' = Through(candidate) /\ authorized'.from = candidate.from
          BY <2>1 DEF Through
    <3>2. QED
          BY <1>1, <1>2, <2>1, <2>3, <2>4, <2>6, <3>1 DEF AuthorizedInv
  <2>8. /\ old \in Seq(Lanes) /\ old[1] = LaneAt(authorized, position) /\ Cost(old) \in Nat
        /\ Len(old) = Through(authorized) - position + 1
        BY <1>1, RemainingIs DEF AuthorizedInv
  <2>9. new \in Seq(Lanes) /\ new[1] = LaneAt(candidate, position) /\ Cost(new) \in Nat
        BY <2>3, <2>4, <2>6, RemainingIs
  <2>10. Len(old) > 0
    <3>1. position <= Through(authorized)
          BY <1>1 DEF AuthorizedInv
    <3>2. QED
          BY <2>4, <2>5, <2>8, <3>1
  <2>11. Remaining(authorized)'.lane = new /\ Cost(Remaining(authorized).lane)' = Cost(new)
         BY <2>1 DEF Remaining, Slice, Through, Cost
  <2>12. Slice(authorized', position, Through(authorized')).lane = new
         BY <2>1 DEF Remaining
  <2> HIDE DEF old, new, currentValid, candidateValid, decision
  <2>13. \A y \in left : y \in Seq(Lanes) /\ Len(y) > 0 /\ y[1] = LaneAt(authorized, position) /\ Cost(y) > Cost(old)
         BY <1>1 DEF LeftInv, old
  <2>14. ASSUME NEW y \in left'
         PROVE  /\ y \in Seq(Lanes) /\ Len(y) > 0 /\ y[1] = LaneAt(candidate, position)
                /\ Cost(y) > Cost(new)
    <3>1. currentValid /\ y \in left \cup {old}
          BY <2>1
    <3>2. Cost(new) < Cost(old)
          BY <2>2, <2>8, <2>9, <3>1, CheaperOnly
    <3>3. CASE y = old
          BY <2>6, <2>8, <2>10, <3>2, <3>3
    <3>4. CASE y \in left
      <4>1. y \in Seq(Lanes) /\ Len(y) > 0 /\ y[1] = LaneAt(authorized, position) /\ Cost(y) > Cost(old)
            BY <2>13, <3>4
      <4>2. Cost(y) \in Nat
            BY <4>1, CostIsNumber
      <4>3. QED
            BY <2>6, <2>8, <2>9, <3>2, <4>1, <4>2
    <3>5. QED
          BY <3>1, <3>3, <3>4
  <2>15. LeftInv'
    <3>1. LaneAt(authorized, position)' = LaneAt(candidate, position)
          BY <2>1 DEF LaneAt
    <3>2. \A z : Cost(z)' = Cost(z)
          BY DEF Cost
    <3>3. QED
          BY <2>11, <2>14, <3>1, <3>2 DEF LeftInv
  <2>16. new \notin left'
         BY <2>9, <2>14
  <2>17. ASSUME NEW k \in position..Min({Through(segment), Through(authorized)})
         PROVE  LaneAt(authorized', k) = LaneAt(authorized, k)
    <3>1. /\ segment.from <= position /\ Through(segment) <= Through(authorized)
          /\ segment.from \in Nat /\ Through(segment) \in Int
      <4>1. /\ segment \in Trajectories /\ segment.from <= position
            /\ Through(segment) <= Through(authorized)
            BY <1>1, <2>3 DEF SegmentInv
      <4>2. segment.from \in Nat /\ segment.lane \in Seq(Lanes)
            BY <4>1 DEF Trajectories
      <4>3. QED
            BY <4>1, <4>2 DEF Through
    <3> DEFINE s == Through(segment)
               t == Through(authorized)
    <3>2. s \in Int /\ t \in Int /\ s <= t
          BY <2>5, <3>1
    <3> HIDE DEF s, t
    <3>3. Min({s, t}) = s
      <4>1. \A y \in {s, t} : s <= y
            BY <3>2
      <4>2. Min({s, t}) \in {s, t} /\ \A y \in {s, t} : Min({s, t}) <= y
            BY <4>1 DEF Min
      <4>3. QED
            BY <3>2, <4>2
    <3>4. k \in position..s
          BY <3>3 DEF s, t
    <3>5. k \in segment.from..Through(segment)
          BY <2>4, <3>1, <3>2, <3>4 DEF s
    <3>6. QED
          BY <2>1, <2>3, <3>5
  <2>18. Improves
         BY <2>1, <2>3, <2>12, <2>16, <2>17 DEF Improves
  <2>19. QED
         BY <1>3, <2>7, <2>15, <2>18 DEF SwitchingInv
<1>6. QED
      BY <1>4, <1>5

LEMMA StepImproves ==
  Topology = NoPath /\ SwitchingInv /\ [PathNext]_pathVars
    => SwitchingInv' /\ (authorized' # authorized => Improves)
<1> SUFFICES ASSUME Topology = NoPath, SwitchingInv, [PathNext]_pathVars
             PROVE  SwitchingInv' /\ (authorized' # authorized => Improves)
    OBVIOUS
<1>1. CASE Move
      BY <1>1, MoveKeeps DEF Move
<1>2. CASE ExtractSegment
  <2>1. candidate = NoPath
        BY <1>2 DEF ExtractSegment, SwitchingInv, CandidateInv
  <2>2. authorized' = authorized
        BY <1>2 DEF ExtractSegment
  <2>3. QED
        BY <1>2, <2>1, <2>2, ExtractKeeps
<1>3. ASSUME NEW n \in 2..Horizon + 1, NEW lane \in [1..n -> Lanes], segment # NoPath, MergeTail(lane)
      PROVE  SwitchingInv' /\ authorized' = authorized
  <2>1. authorized' = authorized
        BY <1>3 DEF MergeTail
  <2>2. SwitchingInv'
        BY <1>3, MergeKeeps
  <2>3. QED
        BY <2>1, <2>2
<1>4. ASSUME NEW a \in BOOLEAN, NEW b \in BOOLEAN, NEW c \in BOOLEAN, NEW d \in BOOLEAN, NEW e \in BOOLEAN,
             Decide(a, b, c, d, e)
      PROVE  SwitchingInv' /\ (authorized' # authorized => Improves)
      BY <1>4, DecideKeeps
<1>5. CASE UNCHANGED pathVars
  <2>1. UNCHANGED <<authorized, position, segment, candidate, versioner, left>>
        BY <1>5 DEF pathVars
  <2>2. AuthorizedInv' /\ LeftInv'
    <3>1. AuthorizedInv /\ LeftInv /\ versioner'.last \in Nat
          BY <2>1 DEF SwitchingInv, AuthorizedInv
    <3>2. QED
          BY <2>1, <3>1, NothingDriven
  <2>3. SegmentInv' /\ CandidateInv'
        BY <2>1 DEF SwitchingInv, SegmentInv, CandidateInv, Through, LaneAt
  <2>4. QED
        BY <2>1, <2>2, <2>3 DEF SwitchingInv
<1>6. QED
      BY <1>1, <1>2, <1>3, <1>4, <1>5 DEF PathNext

\* Switches for cost never go back to what was left, however often the robot moves and replans
\* in between: what was left and still lies ahead costs more than what is left to drive, and
\* both lose the same when the robot passes a point they share.
THEOREM SwitchesImprove ==
  Topology = NoPath /\ PathSpec => SwitchesOnlyImprove
<1> SUFFICES ASSUME Topology = NoPath PROVE PathSpec => SwitchesOnlyImprove
    OBVIOUS
<1>1. SwitchingInv /\ [PathNext]_pathVars => SwitchingInv'
      BY StepImproves
<1>2. SwitchingInv /\ [PathNext]_pathVars => [authorized' # authorized => Improves]_pathVars
      BY StepImproves
<1>3. SwitchesOnlyImprove <=> [][authorized' # authorized => Improves]_pathVars
      BY DEF SwitchesOnlyImprove, Improves
<1>4. QED
      BY SwitchingStarts, <1>1, <1>2, <1>3, PTL DEF PathSpec
=============================================================================
