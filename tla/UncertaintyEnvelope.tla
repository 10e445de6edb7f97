------------------------- MODULE UncertaintyEnvelope -------------------------
(***************************************************************************)
(* The registry of certified uncertainty envelopes                         *)
(* (cable_uncertainty_envelope_manager.cpp): which envelope a plan may be  *)
(* locked to, and the plans and leases that fall with it.                  *)
(*                                                                         *)
(* One mutex makes each operation one step.  A record is never erased, so  *)
(* a version stands for one authorization and needs no generation.         *)
(* Refused registrations change nothing and are not shown.                 *)
(***************************************************************************)
EXTENDS Integers, Sequences, FiniteSetsExt

CONSTANTS
  Lines,        \* versions of the dependencies
  Modes,        \* sensor modes
  Bounds,       \* certified deviation of each segment, two units of progress long
  MaxContexts,  \* bound on context sequence numbers
  MaxEnvelopes, \* bound on envelope versions
  MaxPlans,     \* bound on plan numbers
  MaxNow,       \* the clock stops here
  None          \* std::nullopt

ASSUME EnvelopeAssumption ==
  /\ {MaxContexts, MaxEnvelopes, MaxPlans, MaxNow} \subseteq Nat
  /\ Lines \subseteq Nat /\ Bounds \in Seq(Nat)

VARIABLES
  now,
  envelopes,  \* envelopes_: version -> key, expiry, active
  plans,      \* plans_: number -> envelope, active
  leases,     \* leases_: number -> plan, envelope, expiry, active
  context,    \* current_context_
  contextSeq  \* current_context_sequence_

registryVars == <<envelopes, plans, leases>>
contextVars == <<context, contextSeq>>
envelopeVars == <<now, registryVars, contextVars>>

Keys == [line : Lines, mode : Modes]
Envelopes == [key : Keys, until : 1..MaxNow + 1, active : BOOLEAN]

EnvelopeInit ==
  /\ now = 0
  /\ envelopes = <<>> /\ plans = <<>> /\ leases = <<>>
  /\ context = None /\ contextSeq = 0

Active(f) == {x \in DOMAIN f : f[x].active}
Extend(f, x, record) == [y \in DOMAIN f \cup {x} |-> IF y = x THEN record ELSE f[y]]

Advance == now < MaxNow /\ now' = now + 1 /\ UNCHANGED <<registryVars, contextVars>>

-----------------------------------------------------------------------------
(* Faults the runs must notice                                             *)

NothingReplaced(key) == {}

-----------------------------------------------------------------------------
(* Invalidation                                                            *)

Revoked(dead) ==
  [v \in DOMAIN envelopes |-> [envelopes[v] EXCEPT !.active = @ /\ v \notin dead]]

\* A plan or a lease falls with the envelope it is bound to.
Without(f, dead) ==
  [x \in DOMAIN f |-> [f[x] EXCEPT !.active = @ /\ f[x].envelope \notin dead]]

Expired(at) == {v \in Active(envelopes) : envelopes[v].until <= at}

InvalidateAll(dead) ==
  /\ envelopes' = Revoked(dead)
  /\ plans' = Without(plans, dead)
  /\ leases' = Without(leases, dead)

Invalidate(version) == InvalidateAll({version}) /\ UNCHANGED <<now, contextVars>>

Expire(at) == InvalidateAll(Expired(at)) /\ UNCHANGED <<now, contextVars>>

-----------------------------------------------------------------------------
(* Registration and context                                                *)

Replaced(key) == {v \in Active(envelopes) : context = key /\ envelopes[v].key = key}

RegisterValidated(version, key, until) ==
  LET dead == Replaced(key) IN
  /\ \A v \in DOMAIN envelopes : v < version
  /\ envelopes' = Extend(Revoked(dead), version, [key |-> key, until |-> until, active |-> TRUE])
  /\ plans' = Without(plans, dead)
  /\ leases' = Without(leases, dead)
  /\ UNCHANGED <<now, contextVars>>

\* operator== compares all of the key, versions_regress its versions only.
StaleContext(key, seq) ==
  /\ context # None
  /\ \/ seq < contextSeq
     \/ seq = contextSeq /\ key # context
     \/ seq > contextSeq /\ key.line < context.line

Accepts(key, seq) == ~StaleContext(key, seq) /\ (context # None => seq # contextSeq)

\* Envelopes expire first, whatever becomes of the context.
SetCurrentContext(key, seq) ==
  LET foreign == {v \in Active(envelopes) : envelopes[v].key # key}
      changed == Accepts(key, seq) /\ context # key
  IN /\ InvalidateAll(Expired(now) \cup IF changed THEN foreign ELSE {})
     /\ context' = IF changed THEN key ELSE context
     /\ contextSeq' = IF Accepts(key, seq) THEN seq ELSE contextSeq
     /\ UNCHANGED now

-----------------------------------------------------------------------------
(* Use.  Each use first expires what is due at the time of its caller,     *)
(* which the caller may have read long before.                             *)

Current(at) == {v \in Active(envelopes) \ Expired(at) : envelopes[v].key = context}

\* isCurrentLocked, after prepareForUseLocked
IsCurrent(version, at) == version \in Current(at)

\* current_validated answers the newest one, if there is any.
Validated(at) ==
  IF Current(at) = {} THEN {None} ELSE {v \in Current(at) : \A w \in Current(at) : w <= v}

RegisterDependentPlan(plan, version, at) ==
  LET rest == Without(plans, Expired(at)) IN
  /\ envelopes' = Revoked(Expired(at))
  /\ leases' = Without(leases, Expired(at))
  /\ plans' = IF plan \notin DOMAIN plans /\ IsCurrent(version, at)
              THEN Extend(rest, plan, [envelope |-> version, active |-> TRUE]) ELSE rest
  /\ UNCHANGED <<now, contextVars>>

CanLease(lease, plan, version, at) ==
  /\ IsCurrent(version, at)
  /\ lease \notin DOMAIN leases
  /\ plan \in Active(plans) /\ plans[plan].envelope = version

\* Progress at the end of a segment belongs to both neighbours; inside a
\* segment, the one before it counts as well.
Adjacent(progress) ==
  LET holding == {i \in DOMAIN Bounds : 2 * (i - 1) <= progress /\ progress <= 2 * i}
  IN IF Cardinality(holding) = 1 THEN (holding \cup {i - 1 : i \in holding}) \cap DOMAIN Bounds
     ELSE holding

UpperBound(progress) == Max({Bounds[i] : i \in Adjacent(progress)})

Breach(version, at, progress, deviation) ==
  /\ IsCurrent(version, at)
  /\ Adjacent(progress) # {}
  /\ deviation > UpperBound(progress)

AuditPasses(version, at, progress, deviation) ==
  /\ IsCurrent(version, at)
  /\ Adjacent(progress) # {}
  /\ deviation <= UpperBound(progress)

\* auditActualLateralStddev: a breach invalidates the envelope and all that rests on it.
Audit(version, at, progress, deviation) ==
  /\ InvalidateAll(Expired(at) \cup IF Breach(version, at, progress, deviation) THEN {version} ELSE {})
  /\ UNCHANGED <<now, contextVars>>

-----------------------------------------------------------------------------

EnvelopeTypeOK ==
  /\ now \in 0..MaxNow
  /\ DOMAIN envelopes \subseteq 1..MaxEnvelopes /\ \A v \in DOMAIN envelopes : envelopes[v] \in Envelopes
  /\ DOMAIN plans \subseteq 1..MaxPlans
  /\ \A p \in DOMAIN plans : plans[p].envelope \in DOMAIN envelopes
  /\ context \in Keys \cup {None} /\ contextSeq \in 0..MaxContexts
=============================================================================
