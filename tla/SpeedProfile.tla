---------------------------- MODULE SpeedProfile ----------------------------
(***************************************************************************)
(* From a geometric path to the speeds it is driven with: the laying       *)
(* planner's trajectory parameterizer, and the checks the cable model      *)
(* makes of an execution profile before it predicts with it.               *)
(*                                                                         *)
(* The parameterizer works with squared speeds, in which a constant        *)
(* acceleration over a stretch is linear: the model keeps the squares and  *)
(* is exact in whole numbers. Stretch i leads from sample i to i + 1.      *)
(***************************************************************************)
EXTENDS Integers, Sequences, FiniteSetsExt

-----------------------------------------------------------------------------
(* TrajectoryParameterizer::parameterize. A request holds the lengths of    *)
(* the stretches, the bend of each sample, the squared speed the robot has, *)
(* what the execution envelope approves, and which test of the deadline     *)
(* finds it exceeded.                                                       *)

DeadlineTests == <<"geometry", "speeds", "braking", "samples", "end">>

Samples(r) == 1..Len(r.bend)
WayLeft(r, i) == LET left[k \in Samples(r)] == IF k = Len(r.bend) THEN 0 ELSE r.length[k] + left[k + 1]
                   IN  left[i]

CanStopInTime(r) ==
    LET needed == r.start + 2 * r.brake * r.margin
    IN  needed <= 2 * r.brake * WayLeft(r, 1) /\ needed <= 2 * r.brake * r.maxStop

\* No sample is faster than the envelope, its bend and the way left to stop allow.
Cap(r, i) ==
    Min({r.top}
        \cup (IF r.stop THEN {2 * r.brake * WayLeft(r, i)} ELSE {})
        \cup (IF r.bend[i] > 0 THEN {r.lateral \div r.bend[i]} ELSE {}))

Forward(r) ==
    LET f[i \in Samples(r)] ==
          IF i = 1 THEN Min({r.start, Cap(r, 1)})
          ELSE Min({Cap(r, i), f[i - 1] + 2 * r.speedUp * r.length[i - 1]})
    IN  f

\* Braking is propagated from the end, in profiles that end with a stop.
Speeds(r) ==
    LET f == Forward(r)
        b[i \in Samples(r)] ==
          IF i = Len(r.bend) THEN 0 ELSE Min({f[i], b[i + 1] + 2 * r.brake * r.length[i]})
    IN  IF r.stop THEN b ELSE f

\* What holds of one sample, and of the stretch that leads to it.
Corners(r, s, i) == s[i] * r.bend[i] <= r.lateral
Accelerates(r, s, i) == i > 1 => /\ s[i] - s[i - 1] <= 2 * r.speedUp * r.length[i - 1]
                                 /\ s[i - 1] - s[i] <= 2 * r.brake * r.length[i - 1]

\* The cable is paid out as fast as the robot drives, within its own range; the first
\* sample takes over the payout there is.
PaysOut(r, s, i) ==
    LET Near(low, high) ==
          /\ s[i] <= (high + r.payout.error) * (high + r.payout.error)
          /\ low > r.payout.error => s[i] >= (low - r.payout.error) * (low - r.payout.error)
    IN  /\ IF i = 1 THEN Near(r.payout.now, r.payout.now) ELSE Near(r.payout.low, r.payout.high)
        /\ i # r.payout.jerk

SampleStatus(r, s, i) ==
    IF ~Corners(r, s, i) \/ ~Accelerates(r, s, i) THEN "dynamics_infeasible"
    ELSE IF ~PaysOut(r, s, i) THEN "payout_infeasible"
    ELSE "success"

\* The tests in their order: the first that fails is the answer.
Parameterize(r) ==
    LET s == Speeds(r)
        refused == {i \in Samples(r) : SampleStatus(r, s, i) # "success"}
        Late(test) == [fails |-> r.late = test, status |-> "deadline_exceeded"]
        If(failed, status) == [fails |-> failed, status |-> status]
        tests ==
          <<If(r.unsound = "timeout", "numerically_invalid"),
            If(r.unsound = "envelope", "execution_envelope_mismatch"),
            If(r.unsound = "limits" \/ Len(r.bend) < 2, "numerically_invalid"),
            Late("geometry"),
            If(r.unsound = "geometry", "numerically_invalid"),
            If(r.unsound = "initial" \/ r.start > r.top \/ r.payout.now \notin r.payout.low..r.payout.high,
               "initial_state_invalid"),
            If(r.lateral <= 0 \/ r.maxStop < 0, "execution_envelope_mismatch"),
            If(r.brake <= 0 \/ (r.stop /\ ~CanStopInTime(r)), "stopping_constraint_infeasible"),
            Late("speeds"),
            [fails |-> r.stop /\ r.late = "braking", status |-> "deadline_exceeded"],
            If(r.stop /\ s[1] < r.start, "stopping_constraint_infeasible"),
            Late("samples"),
            If(refused # {}, SampleStatus(r, s, Min(refused \cup {Len(r.bend)}))),
            If(s[Len(r.bend)] > r.last, "stopping_constraint_infeasible"),
            Late("end")>>
        failed == {i \in DOMAIN tests : tests[i].fails}
    IN  IF failed # {} THEN [status |-> tests[Min(failed)].status, speeds |-> <<>>]
        ELSE [status |-> "success", speeds |-> s]

\* Profiles the robot can drive: they begin as it drives now, corner, gain and lose
\* speed within the envelope, and end slow enough.
Drives(r, s) ==
    /\ s[1] = r.start
    /\ \A i \in Samples(r) : s[i] <= r.top
    /\ \A i \in Samples(r) : Corners(r, s, i) /\ Accelerates(r, s, i)
    /\ s[Len(r.bend)] <= r.last
    /\ r.stop => s[Len(r.bend)] = 0

\* A profile that ends with a stop can be driven, no profile is faster anywhere, and a
\* path is refused for its dynamics only if none exists.
SpeedsSound(r) ==
    LET p == Parameterize(r)
        all == {s \in [Samples(r) -> 0..r.top] : Drives(r, s)}
    IN  r.stop =>
        /\ p.status = "success" => /\ Drives(r, p.speeds)
                                   /\ \A s \in all : \A i \in Samples(r) : s[i] <= p.speeds[i]
        /\ p.status = "dynamics_infeasible" => all = {}
        /\ p.status = "stopping_constraint_infeasible" /\ r.margin = 0 /\ r.maxStop >= WayLeft(r, 1) => all = {}

-----------------------------------------------------------------------------
(* CableModel::predict, up to where it propagates the lag: what it asks of  *)
(* an execution profile. Here speeds are speeds, linear between samples,    *)
(* and bends are signed and linear between the points of the geometry.      *)

\* Exact where the inputs are chosen so that the division is.
Linear(a, b, x, l, r) == IF l = r THEN a ELSE a + ((b - a) * (x - l)) \div (r - l)

BendAt(geometry, arc) ==
    LET after == {i \in DOMAIN geometry : geometry[i].arc >= arc}
    IN  IF after = {} THEN geometry[Len(geometry)].bend
        ELSE IF Min(after) = 1 THEN geometry[1].bend
        ELSE LET i == Min(after)
             IN  Linear(geometry[i - 1].bend, geometry[i].bend, arc, geometry[i - 1].arc, geometry[i].arc)

Lateral(speed, bend) == speed * speed * (IF bend < 0 THEN -bend ELSE bend)

\* Fault: the ends of a stretch stand for it.
EndsWithin(v, dv, k, dk, most) == Lateral(v, k) <= most /\ Lateral(v + dv, k + dk) <= most

\* Between two arcs of one stretch speed and bend are both linear: the lateral
\* acceleration is largest at an end, or where its derivative is zero.
PieceWithin(v, dv, k, dk, most) ==
    LET den == 3 * dv * dk
        num == -(2 * dv * k + v * dk)
        inside == den # 0 /\ (IF den > 0 THEN 0 < num /\ num < den ELSE den < num /\ num < 0)
        size == IF den < 0 THEN -den ELSE den
    IN  /\ Lateral(v, k) <= most
        /\ Lateral(v + dv, k + dk) <= most
        /\ inside => Lateral(v * den + dv * num, k * den + dk * num) <= most * size * size * size

\* lateral_acceleration_interval_within_limit: cut at the points of the geometry.
IntervalWithin(geometry, a, b, most) ==
    LET Speed(x) == Linear(a.speed, b.speed, x, a.arc, b.arc)
        cuts == {a.arc, b.arc} \cup {x \in {geometry[i].arc : i \in DOMAIN geometry} : a.arc < x /\ x < b.arc}
    IN  \A x \in cuts \ {b.arc} :
          LET y == Min({z \in cuts : z > x})
          IN  PieceWithin(Speed(x), Speed(y) - Speed(x),
                          BendAt(geometry, x), BendAt(geometry, y) - BendAt(geometry, x), most)

\* classify_execution_sample: the first limit a sample is outside of.
SampleFault(q, s) ==
    IF s.speed > q.limits.speed \/ Lateral(s.speed, BendAt(q.geometry, s.arc)) > q.limits.lateral
    THEN "motion_mode_out_of_range"
    ELSE IF s.payout > q.limits.payout
            \/ s.payout - s.speed > q.limits.error \/ s.speed - s.payout > q.limits.error
    THEN "payout_tracking_out_of_range"
    ELSE IF s.tension + q.limits.tensionError > q.limits.tension \/ s.tension < q.limits.tensionError
    THEN "tension_out_of_range"
    ELSE "valid"

\* What is asked of the context, in its order.
ContextChecks ==
    <<[check |-> "mode",         validity |-> "input_invalid"],
      [check |-> "state",        validity |-> "initial_state_uncertain"],
      [check |-> "sensor",       validity |-> "sensor_mode_unapproved"],
      [check |-> "domain",       validity |-> "operating_domain_mismatch"],
      [check |-> "envelope",     validity |-> "input_invalid"],
      [check |-> "version",      validity |-> "execution_envelope_version_mismatch"],
      [check |-> "profile",      validity |-> "input_invalid"],
      [check |-> "covariance",   validity |-> "covariance_invalid"],
      [check |-> "telemetry",    validity |-> "input_invalid"],
      [check |-> "lag",          validity |-> "lag_angle_out_of_range"],
      [check |-> "geometry",     validity |-> "input_invalid"]>>

Ordered(samples) ==
    Len(samples) > 0 /\ \A i \in 1..Len(samples) - 1 : samples[i].arc < samples[i + 1].arc

ContextFault(q) ==
    LET failed == {i \in DOMAIN ContextChecks :
                     \/ ContextChecks[i].check \in q.failed
                     \/ ContextChecks[i].check = "profile" /\ ~Ordered(q.samples)}
    IN  IF failed = {} THEN "valid" ELSE ContextChecks[Min(failed)].validity

Differs(a, b, most) == a - b > most \/ b - a > most

AdmissionOf(q) ==
    LET faults == {i \in DOMAIN q.samples : SampleFault(q, q.samples[i]) # "valid"}
        pairs == 1..Len(q.samples) - 1
    IN  IF ContextFault(q) # "valid" THEN ContextFault(q)
        ELSE IF faults # {} THEN SampleFault(q, q.samples[Min(faults)])
        ELSE IF "contract" \in q.failed THEN "input_invalid"
        ELSE IF \E i \in pairs : ~IntervalWithin(q.geometry, q.samples[i], q.samples[i + 1], q.limits.lateral)
        THEN "motion_mode_out_of_range"
        ELSE IF Differs(q.samples[1].payout, q.telemetry.payout, Min({q.ownError, q.limits.error}))
        THEN "payout_tracking_out_of_range"
        ELSE IF Differs(q.samples[1].tension, q.telemetry.tension, q.limits.tensionError) THEN "tension_out_of_range"
        ELSE "valid"

\* Four places in every unit of arc, in units fine enough for all quantities there.
AlongWithin(geometry, a, b, most) ==
    LET unit == 4 * (b.arc - a.arc)
        fine == [i \in DOMAIN geometry |-> [arc |-> 4 * geometry[i].arc, bend |-> 12 * geometry[i].bend]]
    IN  \A n \in 4 * a.arc..4 * b.arc :
          Lateral(a.speed * unit + (b.speed - a.speed) * (n - 4 * a.arc), BendAt(fine, n)) <= 12 * most * unit * unit

\* An admitted profile keeps the lateral acceleration within the certified limit all
\* along the path, wherever its samples and the points of the geometry lie, and goes
\* on from the payout and the tension there are.
AdmissionSound(q) ==
    AdmissionOf(q) = "valid" =>
        /\ \A i \in 1..Len(q.samples) - 1 :
             AlongWithin(q.geometry, q.samples[i], q.samples[i + 1], q.limits.lateral)
        /\ \A i \in DOMAIN q.samples : ~Differs(q.samples[i].payout, q.samples[i].speed, q.limits.error)
        /\ ~Differs(q.samples[1].payout, q.telemetry.payout, q.limits.error)
        /\ ~Differs(q.samples[1].tension, q.telemetry.tension, q.limits.tensionError)
=============================================================================
