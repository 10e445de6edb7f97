--------------------------- MODULE EnvelopeBuilder ---------------------------
(***************************************************************************)
(* The builder of certified cable uncertainty envelopes: it follows every  *)
(* chain of allowed motions over an operating domain as sets of states,    *)
(* leaves out a set contained in one it kept, and bounds the variance of   *)
(* each stretch of the reference by the sets that sweep it.                *)
(*                                                                         *)
(* A step is one motion applied to one kept set. Lengths, times, headings, *)
(* lag angles and progress are whole units; the exponential decay of the   *)
(* lag and the variance bound are tables over the length driven: the       *)
(* search relies only on a division keeping the order of lags and on the   *)
(* variance growing. The margins added to every stretch alike are left out.*)
(***************************************************************************)
EXTENDS Integers, Sequences, FiniteSetsExt

CONSTANTS
    Domains,         \* the operating domains a build is asked for
    VarianceAfter,   \* variance_upper_bound: [length driven -> variance]
    DecayOver,       \* [length driven -> what a lag is divided by]
    MaxLag,          \* maximum_lag_angle_rad
    NotBuilt

ASSUME VarianceAssumption ==
    /\ \A a, b \in DOMAIN VarianceAfter : a <= b => VarianceAfter[a] <= VarianceAfter[b]
    /\ \A a \in DOMAIN VarianceAfter : VarianceAfter[a] \in Nat

ASSUME DecayAssumption == \A a \in DOMAIN DecayOver : DecayOver[a] \in Nat \ {0}

ASSUME LagAssumption == MaxLag \in Nat

MotionPrimitives ==
    [length : Nat \ {0}, turn : Int, time : Nat \X Nat, advance : Nat \X Nat,
     speed : Int \X Int, lateral : Int]

\* base_valid and primitive_valid: what the check of the input lets through.
WellFormed(d) ==
    /\ d.end \in Nat \ {0} /\ d.maxLength \in Nat \ {0} /\ d.maxTime \in Nat \ {0}
    /\ d.maxSets \in Nat \ {0}
    /\ d.lag \in (-MaxLag..MaxLag) \X (-MaxLag..MaxLag) /\ d.lag[1] <= d.lag[2]
    /\ \A b \in {"length", "heading", "lag", "progress", "time"} : d.bins[b] \in Nat \ {0}
    /\ d.motions \in Seq(MotionPrimitives) /\ d.motions # <<>>
    /\ \A n \in DOMAIN d.motions : /\ d.motions[n].time[1] <= d.motions[n].time[2]
                                  /\ d.motions[n].advance[1] <= d.motions[n].advance[2]
    /\ 0..d.maxLength \subseteq DOMAIN VarianceAfter
    /\ 0..d.maxLength \subseteq DOMAIN DecayOver

ASSUME DomainAssumption == \A d \in Domains : "input" \notin d.failed => WellFormed(d)

VARIABLES
    domain,          \* what is built: see Domains
    retained,        \* the sets kept so far, in the order they were made
    at,              \* <<index of the parent, index of the motion>>
    built            \* NotBuilt, or [validity, segments]

builderVars == <<domain, retained, at, built>>

-----------------------------------------------------------------------------
\* primitive_within_execution_envelope: the average speeds, the certified speeds
\* and the curve at full speed lie within what the execution envelope approves.
Drivable(m, approved) ==
    /\ m.time[1] > 0
    /\ m.length >= m.speed[1] * m.time[2]
    /\ m.length <= m.speed[2] * m.time[1]
    /\ approved.speed[1] <= m.speed[1] /\ m.speed[2] <= approved.speed[2]
    /\ m.lateral <= approved.lateral
    /\ \A k \in {m.turn, -m.turn} : m.speed[2] * m.speed[2] * k <= m.lateral

\* The checks before the first set, in their order, and what each one answers.
BuildChecks ==
    <<[check |-> "operating_domain", validity |-> "dependency_mismatch"],
      [check |-> "sensor",           validity |-> "sensor_mode_unapproved"],
      [check |-> "input",            validity |-> "input_invalid"],
      [check |-> "motions",          validity |-> "input_invalid"]>>

BuildFails(d) ==
    {i \in DOMAIN BuildChecks :
        \/ BuildChecks[i].check \in d.failed
        \/ /\ BuildChecks[i].check = "motions"
           /\ \E n \in DOMAIN d.motions : ~Drivable(d.motions[n], d.approved)}

InitialSet(d) ==
    [length |-> 0, time |-> <<0, 0>>, heading |-> 0, lag |-> d.lag, progress |-> <<0, 0>>, swept |-> <<0, 0>>,
     variance |-> VarianceAfter[0]]

\* What is left of a lag after a motion: no two lags change their order.
LagAfter(lag, m) == lag \div DecayOver[m.length] - m.turn

Bounded(x, low, high) == Max({low, Min({x, high})})

\* extend, and the cuts at the bounds of the domain that follow it.
Moved(d, p, m) ==
    LET far == Min({d.end, p.progress[2] + m.advance[2]})
    IN  [length   |-> p.length + m.length,
         time     |-> <<p.time[1] + m.time[1], Min({d.maxTime, p.time[2] + m.time[2]})>>,
         heading  |-> p.heading + m.length * m.turn,
         lag      |-> [i \in 1..2 |-> LagAfter(p.lag[i], m)],
         progress |-> <<Min({d.end, p.progress[1] + m.advance[1]}), far>>,
         swept    |-> <<p.progress[1], far>>,
         variance |-> VarianceAfter[p.length + m.length]]

Cut(set) == [set EXCEPT !.lag = [i \in 1..2 |-> Bounded(set.lag[i], -MaxLag, MaxLag)]]

\* bin_key: the cells of the centres. Only sets of one bin are compared.
BinOf(d, set) ==
    LET Cell(range, width) == (range[1] + range[2]) \div (2 * width)
    IN  <<set.length \div d.bins.length, Cell(<<set.heading, set.heading>>, d.bins.heading), Cell(set.lag, d.bins.lag),
          Cell(set.progress, d.bins.progress), Cell(set.time, d.bins.time)>>

\* Fault: one set per bin is enough.
OnePerBin(outer, inner) == outer.length = inner.length

\* set_contains
SetContains(outer, inner) ==
    LET Within(r, s) == s[1] <= r[1] /\ r[2] <= s[2]
    IN  /\ outer.length = inner.length
        /\ outer.heading = inner.heading
        /\ \A part \in {"time", "lag", "progress", "swept"} : Within(inner[part], outer[part])
        /\ outer.variance >= inner.variance

-----------------------------------------------------------------------------
BuilderInit ==
    /\ retained = <<InitialSet(domain)>>
    /\ at = <<1, 1>>
    /\ built = NotBuilt

\* fail: nothing of the build is handed out.
Fail(validity) ==
    /\ built' = [validity |-> validity, segments |-> <<>>]
    /\ retained' = <<>>
    /\ UNCHANGED <<domain, at>>

RefuseBuild ==
    /\ built = NotBuilt
    /\ BuildFails(domain) # {}
    /\ Fail(BuildChecks[Min(BuildFails(domain))].validity)

Building == built = NotBuilt /\ BuildFails(domain) = {} /\ at[1] <= Len(retained)

Parent == retained[at[1]]
Motion == domain.motions[at[2]]
Made == Moved(domain, Parent, Motion)

Onward == at' = IF at[2] < Len(domain.motions) THEN <<at[1], at[2] + 1>> ELSE <<at[1] + 1, 1>>

\* The motion leaves the domain, or the lag can only be outside the calibrated range.
LeavesDomain ==
    \/ Parent.length + Motion.length > domain.maxLength
    \/ Parent.time[1] + Motion.time[1] > domain.maxTime
    \/ Parent.progress[1] >= domain.end

LeavesCalibration == Made.lag[2] < -MaxLag \/ Made.lag[1] > MaxLag

StaysInside == ~LeavesDomain /\ ~LeavesCalibration

SkipMotion ==
    /\ Building
    /\ ~StaysInside
    /\ Onward
    /\ UNCHANGED <<domain, retained, built>>

Kept(set) == {i \in DOMAIN retained : BinOf(domain, retained[i]) = BinOf(domain, set)}

Covered(set) == \E i \in Kept(set) : SetContains(retained[i], set)

LeaveOut ==
    /\ Building
    /\ StaysInside
    /\ Covered(Cut(Made))
    /\ Onward
    /\ UNCHANGED <<domain, retained, built>>

Retain ==
    /\ Building
    /\ StaysInside /\ ~Covered(Cut(Made))
    /\ IF Len(retained) >= domain.maxSets
       THEN Fail("resource_limit_exceeded")
       ELSE /\ retained' = Append(retained, Cut(Made))
            /\ Onward
            /\ UNCHANGED <<domain, built>>

\* One bound for each bin of progress; a bin no set sweeps gets the bound of the
\* longest path.
SegmentCount(d) == (d.end + d.bins.progress - 1) \div d.bins.progress

Segment(d, sets, i) ==
    LET first == (i - 1) * d.bins.progress
        last == Min({d.end, i * d.bins.progress})
        over == {n \in DOMAIN sets : sets[n].swept[2] >= first /\ sets[n].swept[1] <= last}
        most == Max({0} \cup {sets[n].variance : n \in over})
    IN  [start |-> first, end |-> last, variance |-> IF most = 0 THEN VarianceAfter[d.maxLength] ELSE most]

Certify ==
    /\ built = NotBuilt
    /\ BuildFails(domain) = {}
    /\ at[1] > Len(retained)
    /\ IF SegmentCount(domain) > domain.maxSets
       THEN Fail("resource_limit_exceeded")
       ELSE /\ built' = [validity |-> "valid",
                         segments |-> [i \in 1..SegmentCount(domain) |-> Segment(domain, retained, i)]]
            /\ UNCHANGED <<domain, retained, at>>

BuilderNext == RefuseBuild \/ SkipMotion \/ LeaveOut \/ Retain \/ Certify

BuilderSpec == domain \in Domains /\ BuilderInit /\ [][BuilderNext]_builderVars

-----------------------------------------------------------------------------
BuiltEnvelopes ==
    [validity : {"valid", "resource_limit_exceeded", "dependency_mismatch", "sensor_mode_unapproved",
                 "input_invalid"},
     segments : Seq([start : Nat, end : Nat, variance : Nat])]

ASSUME NotBuiltAssumption == NotBuilt \notin BuiltEnvelopes

BuilderTypeOK ==
    /\ domain \in Domains
    /\ Len(retained) <= domain.maxSets
    /\ at \in Nat \X DOMAIN domain.motions
    /\ built \in BuiltEnvelopes \cup {NotBuilt}

\* The states a motion takes the robot to, whatever its duration and its advance.
EndsOf(d, s, m) ==
    UNION {{[length |-> s.length + m.length, time |-> s.time + dt, lag |-> LagAfter(s.lag, m),
             progress |-> Min({d.end, s.progress + da})] : dt \in m.time[1]..m.time[2]} :
             da \in m.advance[1]..m.advance[2]}

DrivenFrom(d, s) ==
    {t \in UNION {EndsOf(d, s, d.motions[n]) : n \in DOMAIN d.motions} :
       /\ s.progress < d.end
       /\ t.length <= d.maxLength /\ t.time <= d.maxTime /\ -MaxLag <= t.lag /\ t.lag <= MaxLag}

\* The states after at most n motions from a start with any of the initial lags.
Driven(d) ==
    LET after[n \in 0..d.maxLength] ==
          IF n = 0 THEN {[length |-> 0, time |-> 0, lag |-> l, progress |-> 0] : l \in d.lag[1]..d.lag[2]}
          ELSE after[n - 1] \cup UNION {DrivenFrom(d, s) : s \in after[n - 1]}
    IN  after[d.maxLength]

\* A certified envelope bounds every motion of its domain, those of the sets that
\* were left out included: wherever along the reference a motion takes the robot,
\* the stretches it sweeps have at least the variance the robot can have by its end.
\* Neither the order of the motions, nor the bins, nor the cuts at the bounds of the
\* domain lose one (cable_uncertainty_envelope_builder.cpp:630-686).
EnvelopeCoversMotion ==
    built # NotBuilt /\ built.validity = "valid" =>
        \A s \in Driven(domain) : \A t \in DrivenFrom(domain, s) :
            \A i \in DOMAIN built.segments :
                LET g == built.segments[i]
                IN  g.start <= t.progress /\ s.progress <= g.end => g.variance >= VarianceAfter[t.length]
=============================================================================
