---------------------------- MODULE PathSmoothing ----------------------------
(***************************************************************************)
(* The path smoother: a solver brings the end of a curve to the goal, then *)
(* improves its objective while it keeps to the goal and to the tube round *)
(* the raw path, each against a deadline; what it returns is audited from  *)
(* the beginning before it is handed out.                                  *)
(*                                                                         *)
(* A curve stands for a path of clothoids: how far its end is from the     *)
(* goal, what its objective is, whether it lies in the tube and whether    *)
(* its other residuals are within limits. The directions that the          *)
(* linearised equations yield are any curves at all.                       *)
(***************************************************************************)
EXTENDS Integers, FiniteSets

CONSTANTS
    Curves,            \* set of [error, objective, tube, residuals]
    Tolerance,         \* of the error at the goal
    MaxNewton,         \* kMaximumIterations
    MaxImprovements,   \* kMaximumObjectiveIterations
    NoCurve

ASSUME SmoothingAssumption ==
    /\ Curves \subseteq [error : Int, objective : Int, tube : BOOLEAN, residuals : BOOLEAN]
    /\ NoCurve \notin Curves
    /\ MaxNewton \in Nat /\ MaxImprovements \in Nat

VARIABLES
    run,               \* [phase, curve, count, first]: the solver
    expired,           \* the deadline of the solver has passed
    smoothed           \* [status, path]: the answer of smooth

smoothingVars == <<run, expired, smoothed>>

AtGoal(c) == c.error <= Tolerance

\* The solver's outcomes, and what smooth makes of one that it does not know.
SolverFailures == {"seed_infeasible", "solver_timeout", "solver_failed"}

\* Why a request is refused before the solver runs, and why the seed of the default
\* solver is.
SmoothingRefusals == {"boundary_state_invalid", "seed_infeasible"}

SmoothingInit ==
    /\ run = [phase |-> "asked", curve |-> NoCurve, count |-> 0, first |-> NoCurve]
    /\ expired = FALSE
    /\ smoothed = [status |-> "pending", path |-> NoCurve]

Answer(status) ==
    /\ smoothed' = [status |-> status, path |-> NoCurve]
    /\ run' = [run EXCEPT !.phase = "done"]

RefuseSmoothing ==
    /\ run.phase = "asked"
    /\ \E status \in SmoothingRefusals : Answer(status)
    /\ UNCHANGED expired

\* The clock: the deadline only counts once the solver has begun.
PassDeadline ==
    /\ run.phase \in {"solving", "improving"}
    /\ ~expired
    /\ expired' = TRUE
    /\ UNCHANGED <<run, smoothed>>

\* The curvature of the raw path, projected on what the robot can do.
Seed ==
    /\ run.phase = "asked"
    /\ \E c \in Curves : run' = [run EXCEPT !.phase = "solving", !.curve = c]
    /\ UNCHANGED <<expired, smoothed>>

GoalMissed == run.phase = "solving" /\ ~AtGoal(run.curve)

\* One iteration: the first step along the direction that brings the end closer.
ComeCloser ==
    /\ GoalMissed
    /\ run.count < MaxNewton
    /\ ~expired
    /\ \E c \in Curves :
         /\ c.error < run.curve.error
         /\ run' = [run EXCEPT !.curve = c, !.count = @ + 1]
    /\ UNCHANGED <<expired, smoothed>>

\* No solution of the equations, no step that comes closer, or no iteration left.
GiveUp ==
    /\ GoalMissed
    /\ run.count < MaxNewton => ~expired
    /\ Answer("solver_failed")
    /\ UNCHANGED expired

\* The deadline is tested in every iteration, before and within its line search.
TimeOut ==
    /\ expired
    /\ \/ GoalMissed /\ run.count < MaxNewton
       \/ run.phase = "improving" /\ run.count < MaxImprovements
    /\ Answer("solver_timeout")
    /\ UNCHANGED expired

\* The goal is reached: the objective has a count of its own.
BeginImproving ==
    /\ run.phase = "solving"
    /\ AtGoal(run.curve)
    /\ run' = [run EXCEPT !.phase = "improving", !.count = 0, !.first = run.curve]
    /\ UNCHANGED <<expired, smoothed>>

\* Fault: a step is taken wherever it leads as long as the objective improves.
Cheaper(c) == c.objective < run.curve.objective

Better(c) == AtGoal(c) /\ c.tube /\ c.objective < run.curve.objective

Improve ==
    /\ run.phase = "improving"
    /\ run.count < MaxImprovements
    /\ ~expired
    /\ \E c \in Curves :
         /\ Better(c)
         /\ run' = [run EXCEPT !.curve = c, !.count = @ + 1]
    /\ UNCHANGED <<expired, smoothed>>

\* No direction and no step improves: this is the curve the solver returns.
Converge ==
    /\ run.phase = "improving"
    /\ run.count < MaxImprovements
    /\ ~expired
    /\ run' = [run EXCEPT !.phase = "solved"]
    /\ UNCHANGED <<expired, smoothed>>

\* The equations have no solution, or the last iteration still improved: the curve in
\* hand is given up.
Exhaust ==
    /\ run.phase = "improving"
    /\ run.count < MaxImprovements => ~expired
    /\ Answer("solver_failed")
    /\ UNCHANGED expired

\* Any other solver answers what it likes.
OtherSolver ==
    /\ run.phase = "asked"
    /\ \/ \E c \in Curves : run' = [run EXCEPT !.phase = "solved", !.curve = c] /\ UNCHANGED smoothed
       \/ \E status \in SolverFailures \cup {"unknown"} :
            Answer(IF status \in SolverFailures THEN status ELSE "solver_failed")
    /\ UNCHANGED expired

\* validateTrackability: the residuals before the tube.
Trackability(c) ==
    IF ~AtGoal(c) \/ ~c.residuals THEN "constraint_residual_exceeded"
    ELSE IF ~c.tube THEN "trackability_validation_failed"
    ELSE "success"

AuditCurve ==
    /\ run.phase = "solved"
    /\ LET status == Trackability(run.curve)
       IN  smoothed' = [status |-> status, path |-> IF status = "success" THEN run.curve ELSE NoCurve]
    /\ run' = [run EXCEPT !.phase = "done"]
    /\ UNCHANGED expired

SmoothingNext ==
    \/ RefuseSmoothing \/ PassDeadline \/ Seed \/ ComeCloser \/ GiveUp \/ TimeOut
    \/ BeginImproving \/ Improve \/ Converge \/ Exhaust \/ OtherSolver \/ AuditCurve

SmoothingSpec == SmoothingInit /\ [][SmoothingNext]_smoothingVars

-----------------------------------------------------------------------------
SmoothingTypeOK ==
    /\ run.phase \in {"asked", "solving", "improving", "solved", "done"}
    /\ run.curve \in Curves \cup {NoCurve} /\ run.first \in Curves \cup {NoCurve}
    /\ run.count \in 0..(MaxNewton + MaxImprovements)
    /\ smoothed.path \in Curves \cup {NoCurve}

\* A path is handed out only on success, and then it ends at the goal, lies in the
\* tube of the raw path and keeps the limits, whichever solver made it; the default
\* solver moreover hands out none that is worse than the first curve that reached the
\* goal, and once it left that curve, the tube is never left again.
SmoothedPathSound ==
    /\ smoothed.status = "success" <=> smoothed.path # NoCurve
    /\ smoothed.path # NoCurve =>
         /\ AtGoal(smoothed.path) /\ smoothed.path.tube /\ smoothed.path.residuals
         /\ run.first # NoCurve => smoothed.path.objective <= run.first.objective
    /\ run.first # NoCurve /\ run.curve # run.first => AtGoal(run.curve) /\ run.curve.tube
=============================================================================
