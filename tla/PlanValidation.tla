--------------------------- MODULE PlanValidation ---------------------------
(***************************************************************************)
(* PlanValidityEvaluator (plan_validity_evaluator.cpp) with the timed      *)
(* cable verifier it calls: the checks of a plan in their order, and the   *)
(* execution lease a plan that passes them all is given.                   *)
(*                                                                         *)
(* The registry of envelopes is locked per call only: contexts change,     *)
(* envelopes are replaced and time passes between the samples audited and  *)
(* before the lease is registered, all with the time read at the start.    *)
(*                                                                         *)
(* Abstracted: what a check computes; the first check that fails stands    *)
(* for the inputs.                                                         *)
(***************************************************************************)
EXTENDS UncertaintyEnvelope

CONSTANTS
  ReuseTime,     \* maximum_reuse_duration
  Margin,        \* envelope_validity_margin
  Progresses,    \* reference progress of the samples of the predicted path
  Deviations,    \* lateral deviations a prediction may have
  Failing,       \* places in Checks of the checks that may fail
  MaxLeases      \* bound on lease numbers

ASSUME ValidationAssumption ==
  /\ {ReuseTime, Margin} \subseteq Nat
  /\ None \notin Keys

VARIABLES
  locked,      \* the envelope the planner locked, or None
  validation,  \* the evaluation under way, or None
  verdict,     \* the last result
  nextLease    \* next_lease_sequence_

validationVars == <<locked, validation, verdict, nextLease>>

\* A check, the status it fails with and what is then to be done.
Early == <<
  <<"inputs", "input_invalid", "stop">>,
  <<"synchronization", "input_invalid", "stop">>,
  <<"age", "input_expired", "stop">>,
  <<"state", "state_mismatch", "replan">>,
  <<"tracked_profile", "state_mismatch", "replan">>,
  <<"versions", "context_mismatch", "replan">>,
  <<"remaining_path", "execution_profile_invalid", "stop">>,
  <<"tracking_error", "execution_profile_mismatch", "replan">>,
  <<"approved_limits", "execution_profile_invalid", "replan">>,
  <<"stopping_distance", "stopping_distance_insufficient", "stop">>,
  <<"robot", "robot_constraint_violation", "replan">>,
  <<"robot_uncertainty", "cable_model_invalid", "replan">>,
  <<"seed_prediction", "cable_model_invalid", "replan">>,
  <<"interval_bound", "cable_corridor_invalid", "replan">>,
  <<"association", "cable_corridor_invalid", "replan">> >>

Cable == <<
  <<"timed_input", "cable_corridor_invalid", "replan">>,
  <<"certification", "covariance_envelope_unavailable", "replan">>,
  <<"prediction", "cable_model_invalid", "replan">>,
  <<"dependencies", "covariance_envelope_unavailable", "replan">>,
  <<"alignment", "cable_corridor_invalid", "replan">> >>

Late == <<
  <<"corridor_evaluation", "cable_corridor_invalid", "replan">>,
  <<"corridor_gate", "cable_corridor_violation", "replan">>,
  <<"laying_gate", "cable_laying_invalid", "replan">> >>

Checks == Early \o Cable \o Late
Unavailable == <<"audit", "covariance_envelope_unavailable", "replan">>
Breached == <<"audit", "covariance_envelope_breach", "stop">>
NoWindow == <<"window", "input_expired", "stop">>
NotRegistered == <<"registration", "context_mismatch", "replan">>
Valid == <<"none", "valid", "reuse">>

Verdicts == Range(Checks) \cup {Unavailable, Breached, NoWindow, NotRegistered, Valid}

ValidationInit ==
  /\ locked = None /\ validation = None /\ verdict = None
  /\ nextLease = 1

-----------------------------------------------------------------------------
(* Faults the runs must notice                                             *)

AnyPlan(lease, plan, version, at) ==
  lease \notin DOMAIN leases /\ plan \in DOMAIN plans /\ plans[plan].envelope = version

-----------------------------------------------------------------------------

\* The planner's registrations and its lock on the newest envelope.
Lock ==
  /\ validation = None
  /\ locked' \in Validated(now)
  /\ Expire(now)
  /\ UNCHANGED <<validation, verdict, nextLease>>

BindPlan(plan) ==
  /\ validation = None /\ locked # None
  /\ RegisterDependentPlan(plan, locked, now)
  /\ UNCHANGED validationVars

\* All that comes before the first audit reads nothing shared.
StartValidation(plan, failing) ==
  /\ validation = None /\ locked # None /\ nextLease <= MaxLeases
  /\ \/ /\ failing \in Range(Early \o Cable)
        /\ verdict' = failing /\ UNCHANGED validation
     \/ /\ failing \in Range(Late) \cup {Valid}
        /\ validation' = [plan |-> plan, at |-> now, failing |-> failing, audited |-> 0]
        /\ verdict' = None
  /\ UNCHANGED <<envelopeVars, locked, nextLease>>

End(outcome) == verdict' = outcome /\ validation' = None /\ UNCHANGED <<locked, nextLease>>

\* auditActualLateralStddev of the next sample
AuditSample(deviation) ==
  LET v == validation
      progress == Progresses[v.audited + 1]
  IN /\ v # None /\ v.audited < Len(Progresses)
     /\ Audit(locked, v.at, progress, deviation)
     /\ \/ /\ AuditPasses(locked, v.at, progress, deviation)
           /\ validation' = [v EXCEPT !.audited = @ + 1]
           /\ UNCHANGED <<locked, verdict, nextLease>>
        \/ Breach(locked, v.at, progress, deviation) /\ End(Breached)
        \/ /\ ~AuditPasses(locked, v.at, progress, deviation)
           /\ ~Breach(locked, v.at, progress, deviation)
           /\ End(Unavailable)

\* The earliest expiry of the reuse, the inputs and the envelope.
Expiry(at, inputs) ==
  Min({at + ReuseTime, inputs, Max({0, envelopes[locked].until - Margin})})

\* The corridor and the laying, the window and the registration.
IssueLease(inputs) ==
  LET v == validation
      until == Expiry(v.at, inputs)
      dead == Expired(v.at)
      rest == Without(leases, dead)
      lease == [plan |-> v.plan, envelope |-> locked, until |-> until, active |-> TRUE]
  IN /\ v # None /\ v.audited = Len(Progresses)
     /\ \/ /\ v.failing # Valid
           /\ End(v.failing) /\ UNCHANGED registryVars
        \/ /\ v.failing = Valid /\ until <= v.at
           /\ End(NoWindow) /\ UNCHANGED registryVars
        \/ /\ v.failing = Valid /\ until > v.at
           /\ envelopes' = Revoked(dead) /\ plans' = Without(plans, dead)
           /\ \/ /\ CanLease(nextLease, v.plan, locked, v.at)
                 /\ leases' = Extend(rest, nextLease, lease)
                 /\ nextLease' = nextLease + 1
                 /\ verdict' = Valid /\ validation' = None /\ UNCHANGED locked
              \/ /\ ~CanLease(nextLease, v.plan, locked, v.at)
                 /\ leases' = rest
                 /\ End(NotRegistered)
     /\ UNCHANGED <<now, contextVars>>

ValidationInputs == {now, now + ReuseTime}

EnvelopeNext ==
  \/ Advance /\ UNCHANGED validationVars
  \/ \E v \in 1..MaxEnvelopes, k \in Keys, until \in now + 1..MaxNow + 1 :
       RegisterValidated(v, k, until) /\ UNCHANGED validationVars
  \/ \E k \in Keys, n \in 1..MaxContexts : SetCurrentContext(k, n) /\ UNCHANGED validationVars
  \/ \E v \in Active(envelopes) : Invalidate(v) /\ UNCHANGED validationVars
  \/ Lock
  \/ \E p \in 1..MaxPlans : BindPlan(p)
  \/ \E p \in DOMAIN plans, f \in {Checks[i] : i \in Failing} \cup {Valid} : StartValidation(p, f)
  \/ \E d \in Deviations : AuditSample(d)
  \/ \E e \in ValidationInputs : IssueLease(e)

ValidationSpec ==
  EnvelopeInit /\ ValidationInit /\ [][EnvelopeNext]_<<envelopeVars, validationVars>>

-----------------------------------------------------------------------------

ValidationTypeOK ==
  /\ EnvelopeTypeOK
  /\ locked \in DOMAIN envelopes \cup {None}
  /\ verdict \in Verdicts \cup {None}
  /\ nextLease \in 1..MaxLeases + 1
  /\ DOMAIN leases = 1..nextLease - 1

\* Whoever executes a lease executes a plan that is still in force, on the newest
\* envelope of the context there is now, and no longer than that envelope is
\* certified: whatever happened since the plan was locked
\* (cable_uncertainty_envelope_manager.cpp:457-463 does not ask for the newest one).
LeaseFollowsContext ==
  \A l \in Active(leases) :
    LET lease == leases[l] IN
    /\ lease.plan \in Active(plans)
    /\ lease.envelope \in Active(envelopes)
    /\ envelopes[lease.envelope].key = context
    /\ \A v \in Active(envelopes) : envelopes[v].key = context => v <= lease.envelope
    /\ lease.until <= envelopes[lease.envelope].until
=============================================================================
