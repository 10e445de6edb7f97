--------------------------- MODULE EnvelopeProofs ----------------------------
(***************************************************************************)
(* What the envelopes of the uncertain cable are good for: leases follow   *)
(* the context they were computed in, and a certified envelope covers      *)
(* every motion it stands for.                                             *)
(***************************************************************************)
EXTENDS PlanValidation, EnvelopeBuilder, Induction

-----------------------------------------------------------------------------
(***************************************************************************)
(* Validation against the registry: leases follow the context, for any     *)
(* contexts, bounds, margins and checks and however the registry changes   *)
(* while a plan is validated.                                              *)
(***************************************************************************)

EnvelopeRecords == [key : Keys, until : Nat, active : BOOLEAN]
PlanRecords == [envelope : DOMAIN envelopes, active : BOOLEAN]
LeaseRecords == [plan : Nat, envelope : DOMAIN envelopes, until : Int, active : BOOLEAN]
\* What a validation holds once it has passed the early checks.
Outcomes == Range(Late) \cup {Valid}
Validations == [plan : Nat, at : Nat, failing : Outcomes, audited : Nat]

\* The registry refers to what it holds.
RegistryTyped ==
  /\ now \in Nat
  /\ context \in Keys \cup {None}
  /\ DOMAIN envelopes \subseteq 1..MaxEnvelopes
  /\ \A v \in DOMAIN envelopes : envelopes[v] \in EnvelopeRecords
  /\ DOMAIN plans \subseteq Nat
  /\ \A p \in DOMAIN plans : plans[p] \in PlanRecords
  /\ \A l \in DOMAIN leases : leases[l] \in LeaseRecords
  /\ locked \in DOMAIN envelopes \cup {None}
  /\ validation # None => validation \in Validations

\* In force, and the newest of the context there is now.
Newest(v) ==
  /\ v \in Active(envelopes)
  /\ envelopes[v].key = context
  /\ \A w \in Active(envelopes) : envelopes[w].key = context => w <= v

\* The lock may be on an envelope that fell, but on no other that is not the newest.
LockedNewest == locked # None /\ locked \in Active(envelopes) => Newest(locked)

PlansNewest == \A p \in Active(plans) : Newest(plans[p].envelope)

\* A lease is bound to the envelope its plan is bound to, and within its validity.
LeasesOfPlans ==
  \A l \in Active(leases) :
    /\ leases[l].plan \in Active(plans)
    /\ plans[leases[l].plan].envelope = leases[l].envelope
    /\ leases[l].until <= envelopes[leases[l].envelope].until

RegistryInv == RegistryTyped /\ LockedNewest /\ PlansNewest /\ LeasesOfPlans

-----------------------------------------------------------------------------
\* Revocation leaves everything but the activity of an envelope alone.
LEMMA RevokedFacts ==
  ASSUME RegistryTyped, NEW dead
  PROVE  /\ DOMAIN Revoked(dead) = DOMAIN envelopes
         /\ \A v \in DOMAIN envelopes :
              /\ Revoked(dead)[v] \in EnvelopeRecords
              /\ Revoked(dead)[v].key = envelopes[v].key
              /\ Revoked(dead)[v].until = envelopes[v].until
              /\ Revoked(dead)[v].active = (envelopes[v].active /\ v \notin dead)
<1> SUFFICES ASSUME NEW v \in DOMAIN envelopes
             PROVE  /\ Revoked(dead)[v] \in EnvelopeRecords
                    /\ Revoked(dead)[v].key = envelopes[v].key
                    /\ Revoked(dead)[v].until = envelopes[v].until
                    /\ Revoked(dead)[v].active = (envelopes[v].active /\ v \notin dead)
    BY DEF Revoked
<1>1. envelopes[v] \in EnvelopeRecords
      BY DEF RegistryTyped
<1>2. Revoked(dead)[v] = [envelopes[v] EXCEPT !.active = @ /\ v \notin dead]
      BY DEF Revoked
<1>3. (envelopes[v].active /\ v \notin dead) \in BOOLEAN
      OBVIOUS
<1>4. QED
      BY <1>1, <1>2, <1>3 DEF EnvelopeRecords

\* The plans and the leases of the dead envelopes fall, and nothing else changes.
LEMMA PlansWithout ==
  ASSUME RegistryTyped, NEW dead
  PROVE  /\ DOMAIN Without(plans, dead) = DOMAIN plans
         /\ \A p \in DOMAIN plans :
              /\ Without(plans, dead)[p] \in PlanRecords
              /\ Without(plans, dead)[p].envelope = plans[p].envelope
              /\ Without(plans, dead)[p].active =
                   (plans[p].active /\ plans[p].envelope \notin dead)
<1> SUFFICES ASSUME NEW p \in DOMAIN plans
             PROVE  /\ Without(plans, dead)[p] \in PlanRecords
                    /\ Without(plans, dead)[p].envelope = plans[p].envelope
                    /\ Without(plans, dead)[p].active =
                         (plans[p].active /\ plans[p].envelope \notin dead)
    BY DEF Without
<1>1. plans[p] \in PlanRecords
      BY DEF RegistryTyped
<1>2. Without(plans, dead)[p] = [plans[p] EXCEPT !.active = @ /\ plans[p].envelope \notin dead]
      BY DEF Without
<1>3. QED
      BY <1>1, <1>2 DEF PlanRecords

LEMMA LeasesWithout ==
  ASSUME RegistryTyped, NEW dead
  PROVE  /\ DOMAIN Without(leases, dead) = DOMAIN leases
         /\ \A l \in DOMAIN leases :
              /\ Without(leases, dead)[l] \in LeaseRecords
              /\ Without(leases, dead)[l].plan = leases[l].plan
              /\ Without(leases, dead)[l].envelope = leases[l].envelope
              /\ Without(leases, dead)[l].until = leases[l].until
              /\ Without(leases, dead)[l].active =
                   (leases[l].active /\ leases[l].envelope \notin dead)
<1> SUFFICES ASSUME NEW l \in DOMAIN leases
             PROVE  /\ Without(leases, dead)[l] \in LeaseRecords
                    /\ Without(leases, dead)[l].plan = leases[l].plan
                    /\ Without(leases, dead)[l].envelope = leases[l].envelope
                    /\ Without(leases, dead)[l].until = leases[l].until
                    /\ Without(leases, dead)[l].active =
                         (leases[l].active /\ leases[l].envelope \notin dead)
    BY DEF Without
<1>1. leases[l] \in LeaseRecords
      BY DEF RegistryTyped
<1>2. Without(leases, dead)[l] = [leases[l] EXCEPT !.active = @ /\ leases[l].envelope \notin dead]
      BY DEF Without
<1>3. QED
      BY <1>1, <1>2 DEF LeaseRecords

\* What a registry with some envelopes dead looks like.
Fallen(dead) ==
  /\ DOMAIN envelopes' = DOMAIN envelopes
  /\ DOMAIN plans' = DOMAIN plans
  /\ DOMAIN leases' = DOMAIN leases
  /\ \A v \in DOMAIN envelopes :
       /\ envelopes'[v] \in EnvelopeRecords
       /\ envelopes'[v].key = envelopes[v].key
       /\ envelopes'[v].until = envelopes[v].until
       /\ envelopes'[v].active = (envelopes[v].active /\ v \notin dead)
  /\ \A p \in DOMAIN plans :
       /\ plans'[p] \in PlanRecords
       /\ plans'[p].envelope = plans[p].envelope
       /\ plans'[p].active = (plans[p].active /\ plans[p].envelope \notin dead)
  /\ \A l \in DOMAIN leases :
       /\ leases'[l] \in LeaseRecords
       /\ leases'[l].plan = leases[l].plan
       /\ leases'[l].envelope = leases[l].envelope
       /\ leases'[l].until = leases[l].until
       /\ leases'[l].active = (leases[l].active /\ leases[l].envelope \notin dead)

LEMMA InvalidationFells ==
  ASSUME RegistryTyped, NEW dead, InvalidateAll(dead)
  PROVE  Fallen(dead)
<1>1. /\ envelopes' = Revoked(dead)
      /\ plans' = Without(plans, dead)
      /\ leases' = Without(leases, dead)
      BY DEF InvalidateAll
<1>2. QED
      BY <1>1, RevokedFacts, PlansWithout, LeasesWithout DEF Fallen

\* The references within the registry hold wherever they held.
LEMMA FallKeepsReferences ==
  ASSUME RegistryTyped, LeasesOfPlans, NEW dead, Fallen(dead)
  PROVE  LeasesOfPlans'
<1> SUFFICES ASSUME NEW l \in Active(leases)'
             PROVE  /\ leases'[l].plan \in Active(plans)'
                    /\ plans'[leases'[l].plan].envelope = leases'[l].envelope
                    /\ leases'[l].until <= envelopes'[leases'[l].envelope].until
    BY DEF LeasesOfPlans
<1>1. l \in Active(leases) /\ leases[l].envelope \notin dead
      BY DEF Active, Fallen
<1>2. /\ leases[l].plan \in Active(plans)
      /\ plans[leases[l].plan].envelope = leases[l].envelope
      /\ leases[l].until <= envelopes[leases[l].envelope].until
      BY <1>1 DEF LeasesOfPlans
<1>3. l \in DOMAIN leases /\ leases[l].plan \in DOMAIN plans
      BY <1>1, <1>2 DEF Active
<1>4. leases[l].envelope \in DOMAIN envelopes
      BY <1>3 DEF RegistryTyped, LeaseRecords
<1>5. QED
      BY <1>1, <1>2, <1>3, <1>4 DEF Active, Fallen

LEMMA FallKeepsTypes ==
  ASSUME RegistryTyped, NEW dead, Fallen(dead), now' \in Nat, context' \in Keys \cup {None},
         locked' \in DOMAIN envelopes \cup {None},
         validation' # None => validation' \in Validations
  PROVE  RegistryTyped'
<1>1. PlanRecords' = PlanRecords /\ LeaseRecords' = LeaseRecords
      BY DEF Fallen, PlanRecords, LeaseRecords
<1>2. EnvelopeRecords' = EnvelopeRecords
      BY DEF EnvelopeRecords, Keys
<1>3. QED
      BY <1>1, <1>2 DEF RegistryTyped, Fallen

\* While the context stays, what is the newest stays it until it falls itself.
LEMMA NewestStays ==
  ASSUME RegistryTyped, NEW dead, Fallen(dead), context' = context, NEW v, Newest(v), v \notin dead
  PROVE  Newest(v)'
<1>1. v \in Active(envelopes)'
      BY DEF Newest, Active, Fallen
<1>2. \A w \in Active(envelopes)' : w \in Active(envelopes) /\ envelopes'[w].key = envelopes[w].key
      BY DEF Active, Fallen
<1>3. v \in DOMAIN envelopes
      BY DEF Newest, Active
<1>4. QED
      BY <1>1, <1>2, <1>3 DEF Newest, Fallen

\* Under an unchanged context, dead envelopes take all that rests on them with them.
LEMMA FallKeeps ==
  ASSUME RegistryInv, NEW dead, Fallen(dead), context' = context, locked' = locked, now' \in Nat,
         validation' # None => validation' \in Validations
  PROVE  RegistryInv'
<1>1. RegistryTyped'
      BY FallKeepsTypes DEF RegistryInv, RegistryTyped
<1>2. LockedNewest'
  <2> SUFFICES ASSUME locked' # None, locked' \in Active(envelopes)' PROVE Newest(locked)'
      BY DEF LockedNewest
  <2>1. locked \in Active(envelopes) /\ locked \notin dead
        BY DEF Active, Fallen
  <2>2. QED
        BY <2>1, NewestStays DEF RegistryInv, LockedNewest, Newest
<1>3. PlansNewest'
  <2> SUFFICES ASSUME NEW p \in Active(plans)' PROVE Newest(plans[p].envelope)'
      BY DEF PlansNewest
  <2>1. p \in Active(plans) /\ plans[p].envelope \notin dead /\ plans'[p].envelope = plans[p].envelope
        BY DEF Active, Fallen
  <2>2. PICK v : v = plans[p].envelope
        OBVIOUS
  <2>3. Newest(v)'
        BY <2>1, <2>2, NewestStays DEF RegistryInv, PlansNewest
  <2>4. QED
        BY <2>1, <2>2, <2>3 DEF Newest
<1>4. LeasesOfPlans'
      BY FallKeepsReferences DEF RegistryInv
<1>5. QED
      BY <1>1, <1>2, <1>3, <1>4 DEF RegistryInv

-----------------------------------------------------------------------------
\* A new envelope comes with a new number, and those of its key fall if the key is
\* that of the context.
LEMMA RegistrationKeeps ==
  ASSUME RegistryInv, NEW version \in 1..MaxEnvelopes, NEW key \in Keys, NEW until \in Nat,
         RegisterValidated(version, key, until), UNCHANGED validationVars
  PROVE  RegistryInv'
<1> PICK dead : dead = Replaced(key)
    OBVIOUS
<1> DEFINE record == [key |-> key, until |-> until, active |-> TRUE]
<1>1. /\ \A v \in DOMAIN envelopes : v < version
      /\ envelopes' = Extend(Revoked(dead), version, record)
      /\ plans' = Without(plans, dead)
      /\ leases' = Without(leases, dead)
      /\ now' = now /\ context' = context /\ locked' = locked /\ validation' = validation
      BY DEF RegisterValidated, contextVars, validationVars
<1>2. /\ DOMAIN envelopes' = DOMAIN envelopes \cup {version}
      /\ envelopes'[version] = record
      /\ \A v \in DOMAIN envelopes : v # version => envelopes'[v] = Revoked(dead)[v]
      BY <1>1, RevokedFacts DEF Extend, RegistryInv
<1>3. /\ version \notin DOMAIN envelopes
      /\ \A v \in DOMAIN envelopes :
           /\ envelopes'[v] \in EnvelopeRecords
           /\ envelopes'[v].key = envelopes[v].key
           /\ envelopes'[v].until = envelopes[v].until
           /\ envelopes'[v].active = (envelopes[v].active /\ v \notin dead)
  <2>1. version \notin DOMAIN envelopes
        BY <1>1
  <2>2. \A v \in DOMAIN envelopes : envelopes'[v] = Revoked(dead)[v]
        BY <1>2, <2>1
  <2>3. QED
        BY <2>1, <2>2, RevokedFacts DEF RegistryInv
<1>4. /\ DOMAIN plans' = DOMAIN plans
      /\ \A p \in DOMAIN plans :
           /\ plans'[p] \in PlanRecords
           /\ plans'[p].envelope = plans[p].envelope
           /\ plans'[p].active = (plans[p].active /\ plans[p].envelope \notin dead)
      BY <1>1, PlansWithout DEF RegistryInv
<1>5. /\ DOMAIN leases' = DOMAIN leases
      /\ \A l \in DOMAIN leases :
           /\ leases'[l] \in LeaseRecords
           /\ leases'[l].plan = leases[l].plan
           /\ leases'[l].envelope = leases[l].envelope
           /\ leases'[l].until = leases[l].until
           /\ leases'[l].active = (leases[l].active /\ leases[l].envelope \notin dead)
      BY <1>1, LeasesWithout DEF RegistryInv
<1>6. record \in EnvelopeRecords /\ record.key = key /\ record.active
      BY DEF EnvelopeRecords
<1> HIDE DEF record
<1>7. RegistryTyped'
  <2>1. /\ \A r \in PlanRecords : r \in PlanRecords'
        /\ \A r \in LeaseRecords : r \in LeaseRecords'
        BY <1>2 DEF PlanRecords, LeaseRecords
  <2>2. EnvelopeRecords' = EnvelopeRecords
        BY DEF EnvelopeRecords, Keys
  <2>3. \A v \in DOMAIN envelopes' : envelopes'[v] \in EnvelopeRecords
        BY <1>2, <1>3, <1>6
  <2>4. DOMAIN envelopes' \subseteq 1..MaxEnvelopes
        BY <1>2 DEF RegistryInv, RegistryTyped
  <2>5. QED
        BY <1>1, <1>2, <1>4, <1>5, <2>1, <2>2, <2>3, <2>4 DEF RegistryInv, RegistryTyped
<1>8. ASSUME NEW v, Newest(v), v \notin dead PROVE Newest(v)'
  <2>1. v \in DOMAIN envelopes /\ v \in Active(envelopes) /\ envelopes[v].key = context
        BY <1>8 DEF Newest, Active
  <2>2. key # context
        BY <1>8, <2>1 DEF Replaced
  <2>3. v \in Active(envelopes)' /\ envelopes'[v].key = context'
        BY <1>1, <1>2, <1>3, <1>8, <2>1 DEF Active
  <2>4. ASSUME NEW w \in Active(envelopes)', envelopes'[w].key = context' PROVE w <= v
    <3>1. w # version
          BY <1>1, <1>2, <1>6, <2>2, <2>4
    <3>2. w \in DOMAIN envelopes
          BY <1>2, <3>1 DEF Active
    <3>3. w \in Active(envelopes) /\ envelopes[w].key = context
          BY <1>1, <1>3, <2>4, <3>2 DEF Active
    <3>4. QED
          BY <1>8, <3>3 DEF Newest
  <2>5. QED
        BY <2>3, <2>4 DEF Newest
<1>9. LockedNewest'
  <2> SUFFICES ASSUME locked' # None, locked' \in Active(envelopes)' PROVE Newest(locked)'
      BY DEF LockedNewest
  <2>1. locked \in DOMAIN envelopes
        BY <1>1 DEF RegistryInv, RegistryTyped
  <2>2. locked \in Active(envelopes) /\ locked \notin dead
        BY <1>1, <1>3, <2>1 DEF Active
  <2>3. PICK v : v = locked
        OBVIOUS
  <2>4. Newest(v)'
        BY <1>1, <1>8, <2>2, <2>3 DEF RegistryInv, LockedNewest
  <2>5. QED
        BY <1>1, <2>3, <2>4 DEF Newest
<1>10. PlansNewest'
  <2> SUFFICES ASSUME NEW p \in Active(plans)' PROVE Newest(plans[p].envelope)'
      BY DEF PlansNewest
  <2>1. p \in Active(plans) /\ plans[p].envelope \notin dead /\ plans'[p].envelope = plans[p].envelope
        BY <1>4 DEF Active
  <2>2. PICK v : v = plans[p].envelope
        OBVIOUS
  <2>3. Newest(v)'
        BY <1>8, <2>1, <2>2 DEF RegistryInv, PlansNewest
  <2>4. QED
        BY <2>1, <2>2, <2>3 DEF Newest
<1>11. LeasesOfPlans'
  <2> SUFFICES ASSUME NEW l \in Active(leases)'
               PROVE  /\ leases'[l].plan \in Active(plans)'
                      /\ plans'[leases'[l].plan].envelope = leases'[l].envelope
                      /\ leases'[l].until <= envelopes'[leases'[l].envelope].until
      BY DEF LeasesOfPlans
  <2>1. l \in Active(leases) /\ leases[l].envelope \notin dead
        BY <1>5 DEF Active
  <2>2. /\ leases[l].plan \in Active(plans)
        /\ plans[leases[l].plan].envelope = leases[l].envelope
        /\ leases[l].until <= envelopes[leases[l].envelope].until
        BY <2>1 DEF RegistryInv, LeasesOfPlans
  <2>3. l \in DOMAIN leases /\ leases[l].plan \in DOMAIN plans
        BY <2>1, <2>2 DEF Active
  <2>4. leases[l].envelope \in DOMAIN envelopes
        BY <2>3 DEF RegistryInv, RegistryTyped, LeaseRecords
  <2>5. QED
        BY <1>3, <1>4, <1>5, <2>1, <2>2, <2>3, <2>4 DEF Active
<1>12. QED
      BY <1>7, <1>9, <1>10, <1>11 DEF RegistryInv

\* A change of context fells every envelope of another key: nothing active was of the
\* new one, so no plan and no lease survives the change.
LEMMA ContextKeeps ==
  ASSUME RegistryInv, NEW key \in Keys, NEW seq \in Nat, SetCurrentContext(key, seq),
         UNCHANGED validationVars
  PROVE  RegistryInv'
<1> DEFINE foreign == {v \in Active(envelopes) : envelopes[v].key # key}
           changed == Accepts(key, seq) /\ context # key
<1>1. PICK dead : dead = Expired(now) \cup (IF changed THEN foreign ELSE {})
      OBVIOUS
<1>2. InvalidateAll(dead)
      BY <1>1 DEF SetCurrentContext
<1>3. Fallen(dead)
      BY <1>2, InvalidationFells DEF RegistryInv
<1>4. /\ now' = now /\ locked' = locked /\ validation' = validation
      /\ context' = IF changed THEN key ELSE context
      BY DEF SetCurrentContext, validationVars
<1>5. now' \in Nat /\ (validation' # None => validation' \in Validations)
      BY <1>4 DEF RegistryInv, RegistryTyped
<1>6. CASE ~changed
  <2>1. context' = context
        BY <1>4, <1>6
  <2>2. QED
        BY <1>3, <1>4, <1>5, <2>1, FallKeeps
<1>7. CASE changed
  <2>1. context' = key /\ context # key
        BY <1>4, <1>7
  <2>2. \A v : Newest(v) => v \in dead
        BY <1>1, <1>7, <2>1 DEF Newest
  <2>3. LockedNewest'
    <3>1. ASSUME locked' # None, locked' \in Active(envelopes)' PROVE FALSE
      <4>1. locked \in Active(envelopes) /\ locked \notin dead
            BY <1>3, <1>4, <3>1 DEF Active, Fallen
      <4>2. QED
            BY <1>4, <2>2, <3>1, <4>1 DEF RegistryInv, LockedNewest
    <3>2. QED
          BY <3>1 DEF LockedNewest
  <2>4. PlansNewest'
    <3>1. ASSUME NEW p \in Active(plans)' PROVE FALSE
      <4>1. p \in Active(plans) /\ plans[p].envelope \notin dead
            BY <1>3, <3>1 DEF Active, Fallen
      <4>2. QED
            BY <2>2, <4>1 DEF RegistryInv, PlansNewest
    <3>2. QED
          BY <3>1 DEF PlansNewest
  <2>5. LeasesOfPlans'
        BY <1>3, FallKeepsReferences DEF RegistryInv
  <2>6. RegistryTyped'
        BY <1>3, <1>4, <1>5, <2>1, FallKeepsTypes DEF RegistryInv, RegistryTyped
  <2>7. QED
        BY <2>3, <2>4, <2>5, <2>6 DEF RegistryInv
<1>8. QED
      BY <1>6, <1>7

-----------------------------------------------------------------------------
\* The lock is taken on the newest envelope in force.
LEMMA LockKeeps ==
  ASSUME RegistryInv, Lock
  PROVE  RegistryInv'
<1>1. /\ locked' \in Validated(now) /\ validation' = validation
      /\ now' = now /\ context' = context
      BY DEF Lock, Expire, contextVars
<1> PICK dead : dead = Expired(now)
    OBVIOUS
<1>2. Fallen(dead)
      BY InvalidationFells DEF Lock, Expire, RegistryInv
<1>3. ASSUME Current(now) # {}
      PROVE  /\ locked' \in Current(now)
             /\ \A w \in Current(now) : w <= locked'
      BY <1>1, <1>3 DEF Validated
<1>4. Current(now) = {} => locked' = None
      BY <1>1 DEF Validated
<1>5. RegistryTyped'
  <2>1. locked' \in DOMAIN envelopes \cup {None}
        BY <1>3, <1>4 DEF Current, Active
  <2>2. QED
        BY <1>1, <1>2, <2>1, FallKeepsTypes DEF RegistryInv, RegistryTyped
<1>6. LockedNewest'
  <2> SUFFICES ASSUME locked' # None, locked' \in Active(envelopes)' PROVE Newest(locked)'
      BY DEF LockedNewest
  <2>1. Current(now) # {}
        BY <1>4
  <2>2. locked' \in Active(envelopes) /\ locked' \in DOMAIN envelopes /\ envelopes[locked'].key = context
        BY <1>3, <2>1 DEF Current, Active
  <2>3. ASSUME NEW w \in Active(envelopes)', envelopes'[w].key = context' PROVE w <= locked'
    <3>1. w \in Active(envelopes) /\ w \notin dead /\ envelopes[w].key = context
          BY <1>1, <1>2, <2>3 DEF Active, Fallen
    <3>2. w \in Current(now)
          BY <3>1 DEF Current
    <3>3. QED
          BY <1>3, <2>1, <3>2
  <2>4. QED
        BY <1>1, <1>2, <2>2, <2>3 DEF Newest, Fallen
<1>7. PlansNewest'
  <2> SUFFICES ASSUME NEW p \in Active(plans)' PROVE Newest(plans[p].envelope)'
      BY DEF PlansNewest
  <2>1. p \in Active(plans) /\ plans[p].envelope \notin dead /\ plans'[p].envelope = plans[p].envelope
        BY <1>2 DEF Active, Fallen
  <2>2. PICK v : v = plans[p].envelope
        OBVIOUS
  <2>3. Newest(v)'
        BY <1>1, <1>2, <2>1, <2>2, NewestStays DEF RegistryInv, PlansNewest
  <2>4. QED
        BY <2>1, <2>2, <2>3 DEF Newest
<1>8. LeasesOfPlans'
      BY <1>2, FallKeepsReferences DEF RegistryInv
<1>9. QED
      BY <1>5, <1>6, <1>7, <1>8 DEF RegistryInv

\* A plan is registered on the lock, if that is still in force.
LEMMA BindKeeps ==
  ASSUME RegistryInv, NEW plan \in Nat, BindPlan(plan)
  PROVE  RegistryInv'
<1> PICK dead : dead = Expired(now)
    OBVIOUS
<1> DEFINE record == [envelope |-> locked, active |-> TRUE]
<1>1. /\ envelopes' = Revoked(dead)
      /\ leases' = Without(leases, dead)
      /\ now' = now /\ context' = context /\ locked' = locked /\ validation' = validation
      /\ locked # None
      BY DEF BindPlan, RegisterDependentPlan, contextVars, validationVars
<1>2. \/ plans' = Without(plans, dead)
      \/ /\ plan \notin DOMAIN plans /\ IsCurrent(locked, now)
         /\ plans' = Extend(Without(plans, dead), plan, record)
      BY DEF BindPlan, RegisterDependentPlan
<1>3. now' \in Nat /\ (validation' # None => validation' \in Validations)
      BY <1>1 DEF RegistryInv, RegistryTyped
<1>4. CASE plans' = Without(plans, dead)
  <2>1. Fallen(dead)
        BY <1>1, <1>4, InvalidationFells DEF InvalidateAll, RegistryInv
  <2>2. QED
        BY <1>1, <1>3, <2>1, FallKeeps
<1>5. CASE /\ plan \notin DOMAIN plans /\ IsCurrent(locked, now)
           /\ plans' = Extend(Without(plans, dead), plan, record)
  <2>1. /\ DOMAIN envelopes' = DOMAIN envelopes
        /\ \A v \in DOMAIN envelopes :
             /\ envelopes'[v] \in EnvelopeRecords
             /\ envelopes'[v].key = envelopes[v].key
             /\ envelopes'[v].until = envelopes[v].until
             /\ envelopes'[v].active = (envelopes[v].active /\ v \notin dead)
        BY <1>1, RevokedFacts DEF RegistryInv
  <2>2. /\ DOMAIN plans' = DOMAIN plans \cup {plan}
        /\ plans'[plan] = record
        /\ \A p \in DOMAIN plans : plans'[p] = Without(plans, dead)[p]
        BY <1>5, PlansWithout DEF Extend, RegistryInv
  <2>3. \A p \in DOMAIN plans :
          /\ plans'[p] \in PlanRecords
          /\ plans'[p].envelope = plans[p].envelope
          /\ plans'[p].active = (plans[p].active /\ plans[p].envelope \notin dead)
        BY <2>2, PlansWithout DEF RegistryInv
  <2>4. /\ DOMAIN leases' = DOMAIN leases
        /\ \A l \in DOMAIN leases :
             /\ leases'[l] \in LeaseRecords
             /\ leases'[l].plan = leases[l].plan
             /\ leases'[l].envelope = leases[l].envelope
             /\ leases'[l].until = leases[l].until
             /\ leases'[l].active = (leases[l].active /\ leases[l].envelope \notin dead)
        BY <1>1, LeasesWithout DEF RegistryInv
  <2>5. locked \in Active(envelopes) /\ locked \notin dead /\ locked \in DOMAIN envelopes
        BY <1>5 DEF IsCurrent, Current, Active
  <2>6. record \in PlanRecords /\ record.envelope = locked /\ record.active
        BY <2>5 DEF PlanRecords
  <2> HIDE DEF record
  <2>7. PlanRecords' = PlanRecords /\ LeaseRecords' = LeaseRecords /\ EnvelopeRecords' = EnvelopeRecords
        BY <2>1 DEF PlanRecords, LeaseRecords, EnvelopeRecords, Keys
  <2>8. RegistryTyped'
        BY <1>1, <1>3, <2>1, <2>2, <2>3, <2>4, <2>6, <2>7 DEF RegistryInv, RegistryTyped
  <2>9. ASSUME NEW v, Newest(v), v \notin dead PROVE Newest(v)'
    <3>1. v \in Active(envelopes)' /\ v \in DOMAIN envelopes
          BY <2>1, <2>9 DEF Newest, Active
    <3>2. \A w \in Active(envelopes)' : w \in Active(envelopes) /\ envelopes'[w].key = envelopes[w].key
          BY <2>1 DEF Active
    <3>3. QED
          BY <1>1, <2>1, <2>9, <3>1, <3>2 DEF Newest
  <2>10. LockedNewest'
    <3>1. Newest(locked)
          BY <1>1, <2>5 DEF RegistryInv, LockedNewest
    <3>2. PICK v : v = locked
          OBVIOUS
    <3>3. Newest(v)'
          BY <2>5, <2>9, <3>1, <3>2
    <3>4. QED
          BY <1>1, <3>2, <3>3 DEF LockedNewest, Newest
  <2>11. PlansNewest'
    <3> SUFFICES ASSUME NEW p \in Active(plans)' PROVE Newest(plans[p].envelope)'
        BY DEF PlansNewest
    <3>1. PICK v : v = IF p = plan THEN locked ELSE plans[p].envelope
          OBVIOUS
    <3>2. plans'[p].envelope = v /\ v \notin dead /\ Newest(v)
      <4>1. CASE p = plan
            BY <1>1, <2>2, <2>5, <2>6, <3>1, <4>1 DEF RegistryInv, LockedNewest
      <4>2. CASE p # plan
        <5>1. p \in DOMAIN plans
              BY <2>2, <4>2 DEF Active
        <5>2. p \in Active(plans) /\ plans[p].envelope \notin dead
              BY <2>3, <5>1 DEF Active
        <5>3. QED
              BY <2>3, <3>1, <4>2, <5>1, <5>2 DEF RegistryInv, PlansNewest
      <4>3. QED
            BY <4>1, <4>2
    <3>3. Newest(v)'
          BY <2>9, <3>2
    <3>4. QED
          BY <3>2, <3>3 DEF Newest
  <2>12. LeasesOfPlans'
    <3> SUFFICES ASSUME NEW l \in Active(leases)'
                 PROVE  /\ leases'[l].plan \in Active(plans)'
                        /\ plans'[leases'[l].plan].envelope = leases'[l].envelope
                        /\ leases'[l].until <= envelopes'[leases'[l].envelope].until
        BY DEF LeasesOfPlans
    <3>1. l \in Active(leases) /\ leases[l].envelope \notin dead
          BY <2>4 DEF Active
    <3>2. /\ leases[l].plan \in Active(plans)
          /\ plans[leases[l].plan].envelope = leases[l].envelope
          /\ leases[l].until <= envelopes[leases[l].envelope].until
          BY <3>1 DEF RegistryInv, LeasesOfPlans
    <3>3. l \in DOMAIN leases /\ leases[l].plan \in DOMAIN plans
          BY <3>1, <3>2 DEF Active
    <3>4. leases[l].envelope \in DOMAIN envelopes
          BY <3>3 DEF RegistryInv, RegistryTyped, LeaseRecords
    <3>5. QED
          BY <2>1, <2>2, <2>3, <2>4, <3>1, <3>2, <3>3, <3>4 DEF Active
  <2>13. QED
        BY <2>8, <2>10, <2>11, <2>12 DEF RegistryInv
<1>6. QED
      BY <1>2, <1>4, <1>5

-----------------------------------------------------------------------------
\* An audit may fell the envelope it is about; the validation goes on or ends.
LEMMA AuditKeeps ==
  ASSUME RegistryInv, NEW deviation, AuditSample(deviation)
  PROVE  RegistryInv'
<1>1. PICK dead : InvalidateAll(dead)
      BY DEF AuditSample, Audit
<1>2. now' = now /\ context' = context /\ locked' = locked
      BY DEF AuditSample, Audit, End, contextVars
<1>3. validation' # None => validation' \in Validations
  <2>1. validation' = None \/ validation' = [validation EXCEPT !.audited = @ + 1]
        BY DEF AuditSample, End
  <2>2. validation \in Validations
        BY DEF AuditSample, RegistryInv, RegistryTyped
  <2>3. QED
        BY <2>1, <2>2 DEF Validations
<1>4. Fallen(dead)
      BY <1>1, InvalidationFells DEF RegistryInv
<1>5. QED
      BY <1>2, <1>3, <1>4, FallKeeps DEF RegistryInv, RegistryTyped

\* A lease ends before its envelope does.
LEMMA ExpiryBound ==
  ASSUME RegistryTyped, NEW moment \in Nat, NEW inputs \in Nat, locked \in DOMAIN envelopes
  PROVE  Expiry(moment, inputs) \in Int /\ Expiry(moment, inputs) <= envelopes[locked].until
<1> DEFINE until == envelopes[locked].until
           margin == Max({0, until - Margin})
<1>1. until \in Nat
      BY DEF RegistryTyped, EnvelopeRecords
<1>2. Margin \in Nat /\ ReuseTime \in Nat
      BY ValidationAssumption DEF ValidationAssumption
<1>3. margin \in Int /\ margin <= until
  <2>1. \E x \in {0, until - Margin} : \A y \in {0, until - Margin} : x >= y
    <3>1. CASE until - Margin >= 0
          BY <1>1, <1>2, <3>1
    <3>2. CASE ~(until - Margin >= 0)
          BY <1>1, <1>2, <3>2
    <3>3. QED
          BY <3>1, <3>2
  <2>2. margin \in {0, until - Margin}
    <3> HIDE DEF until
    <3>1. QED
          BY <2>1 DEF Max
  <2>3. QED
    <3> HIDE DEF until, margin
    <3>1. QED
          BY <1>1, <1>2, <2>2
<1> DEFINE ends == {moment + ReuseTime, inputs, margin}
<1>4. Expiry(moment, inputs) = Min(ends)
      BY DEF Expiry
<1> HIDE DEF margin, until
<1>5. \E x \in ends : \A y \in ends : x =< y
  <2> DEFINE a == moment + ReuseTime
  <2>1. a \in Int /\ inputs \in Int /\ margin \in Int
        BY <1>2, <1>3
  <2> HIDE DEF a
  <2>2. CASE a <= inputs /\ a <= margin
        BY <2>1, <2>2 DEF a
  <2>3. CASE inputs <= a /\ inputs <= margin
        BY <2>1, <2>3 DEF a
  <2>4. CASE margin <= a /\ margin <= inputs
        BY <2>1, <2>4 DEF a
  <2>5. QED
        BY <2>1, <2>2, <2>3, <2>4
<1>6. Min(ends) \in ends /\ \A y \in ends : Min(ends) =< y
  <2> HIDE DEF ends
  <2>1. QED
        BY <1>5 DEF Min
<1>7. margin \in ends /\ ends \subseteq Int
      BY <1>2, <1>3
<1>8. Min(ends) \in Int /\ Min(ends) <= margin
      BY <1>6, <1>7
<1>9. QED
      BY <1>1, <1>3, <1>4, <1>8 DEF until

\* The lease is registered for a plan that is still bound to the lock.
LEMMA IssueKeeps ==
  ASSUME RegistryInv, NEW inputs \in Nat, IssueLease(inputs)
  PROVE  RegistryInv'
<1> DEFINE until == Expiry(validation.at, inputs)
           record == [plan |-> validation.plan, envelope |-> locked, until |-> until, active |-> TRUE]
<1> PICK dead : dead = Expired(validation.at)
    OBVIOUS
<1>1. /\ now' = now /\ context' = context /\ locked' = locked
      /\ validation # None /\ validation' = None /\ validation \in Validations
      /\ validation.at \in Nat /\ validation.plan \in Nat
      BY DEF IssueLease, End, contextVars, RegistryInv, RegistryTyped, Validations
<1>2. \/ UNCHANGED registryVars
      \/ /\ envelopes' = Revoked(dead) /\ plans' = Without(plans, dead)
         /\ leases' = Without(leases, dead)
      \/ /\ envelopes' = Revoked(dead) /\ plans' = Without(plans, dead)
         /\ CanLease(nextLease, validation.plan, locked, validation.at)
         /\ leases' = Extend(Without(leases, dead), nextLease, record)
      BY DEF IssueLease
<1>3. CASE UNCHANGED registryVars
  <2>1. envelopes' = envelopes /\ plans' = plans /\ leases' = leases
        BY <1>3 DEF registryVars
  <2>2. QED
        BY <1>1, <2>1 DEF RegistryInv, RegistryTyped, LockedNewest, PlansNewest, LeasesOfPlans, Newest, Active,
                          EnvelopeRecords, PlanRecords, LeaseRecords, Keys
<1>4. CASE /\ envelopes' = Revoked(dead) /\ plans' = Without(plans, dead)
           /\ leases' = Without(leases, dead)
  <2>1. Fallen(dead)
        BY <1>4, InvalidationFells DEF InvalidateAll, RegistryInv
  <2>2. QED
        BY <1>1, <2>1, FallKeeps DEF RegistryInv, RegistryTyped
<1>5. CASE /\ envelopes' = Revoked(dead) /\ plans' = Without(plans, dead)
           /\ CanLease(nextLease, validation.plan, locked, validation.at)
           /\ leases' = Extend(Without(leases, dead), nextLease, record)
  <2>1. /\ locked \in Active(envelopes) /\ locked \in DOMAIN envelopes /\ locked \notin dead
        /\ nextLease \notin DOMAIN leases
        /\ validation.plan \in Active(plans) /\ plans[validation.plan].envelope = locked
        BY <1>5 DEF CanLease, IsCurrent, Current, Active
  <2>2. until \in Int /\ until <= envelopes[locked].until
        BY <1>1, <2>1, ExpiryBound DEF RegistryInv
  <2>3. /\ DOMAIN envelopes' = DOMAIN envelopes
        /\ \A v \in DOMAIN envelopes :
             /\ envelopes'[v] \in EnvelopeRecords
             /\ envelopes'[v].key = envelopes[v].key
             /\ envelopes'[v].until = envelopes[v].until
             /\ envelopes'[v].active = (envelopes[v].active /\ v \notin dead)
        BY <1>5, RevokedFacts DEF RegistryInv
  <2>4. /\ DOMAIN plans' = DOMAIN plans
        /\ \A p \in DOMAIN plans :
             /\ plans'[p] \in PlanRecords
             /\ plans'[p].envelope = plans[p].envelope
             /\ plans'[p].active = (plans[p].active /\ plans[p].envelope \notin dead)
        BY <1>5, PlansWithout DEF RegistryInv
  <2>5. /\ DOMAIN leases' = DOMAIN leases \cup {nextLease}
        /\ leases'[nextLease] = record
        /\ \A l \in DOMAIN leases : leases'[l] = Without(leases, dead)[l]
        BY <1>5, <2>1, LeasesWithout DEF Extend, RegistryInv
  <2>6. \A l \in DOMAIN leases :
          /\ leases'[l] \in LeaseRecords
          /\ leases'[l].plan = leases[l].plan
          /\ leases'[l].envelope = leases[l].envelope
          /\ leases'[l].until = leases[l].until
          /\ leases'[l].active = (leases[l].active /\ leases[l].envelope \notin dead)
        BY <2>5, LeasesWithout DEF RegistryInv
  <2>7. /\ record \in LeaseRecords /\ record.plan = validation.plan
        /\ record.envelope = locked /\ record.until = until
    <3> HIDE DEF until
    <3>1. QED
          BY <1>1, <2>1, <2>2 DEF LeaseRecords
  <2> HIDE DEF record, until
  <2>8. PlanRecords' = PlanRecords /\ LeaseRecords' = LeaseRecords /\ EnvelopeRecords' = EnvelopeRecords
        BY <2>3 DEF PlanRecords, LeaseRecords, EnvelopeRecords, Keys
  <2>9. RegistryTyped'
        BY <1>1, <2>3, <2>4, <2>5, <2>6, <2>7, <2>8 DEF RegistryInv, RegistryTyped
  <2>10. ASSUME NEW v, Newest(v), v \notin dead PROVE Newest(v)'
    <3>1. v \in Active(envelopes)' /\ v \in DOMAIN envelopes
          BY <2>3, <2>10 DEF Newest, Active
    <3>2. \A w \in Active(envelopes)' : w \in Active(envelopes) /\ envelopes'[w].key = envelopes[w].key
          BY <2>3 DEF Active
    <3>3. QED
          BY <1>1, <2>3, <2>10, <3>1, <3>2 DEF Newest
  <2>11. LockedNewest'
    <3> SUFFICES ASSUME locked' # None PROVE Newest(locked)'
        BY DEF LockedNewest
    <3>1. PICK v : v = locked
          OBVIOUS
    <3>2. Newest(v)'
          BY <1>1, <2>1, <2>10, <3>1 DEF RegistryInv, LockedNewest
    <3>3. QED
          BY <1>1, <3>1, <3>2 DEF Newest
  <2>12. PlansNewest'
    <3> SUFFICES ASSUME NEW p \in Active(plans)' PROVE Newest(plans[p].envelope)'
        BY DEF PlansNewest
    <3>1. p \in Active(plans) /\ plans[p].envelope \notin dead /\ plans'[p].envelope = plans[p].envelope
          BY <2>4 DEF Active
    <3>2. PICK v : v = plans[p].envelope
          OBVIOUS
    <3>3. Newest(v)'
          BY <2>10, <3>1, <3>2 DEF RegistryInv, PlansNewest
    <3>4. QED
          BY <3>1, <3>2, <3>3 DEF Newest
  <2>13. LeasesOfPlans'
    <3> SUFFICES ASSUME NEW l \in Active(leases)'
                 PROVE  /\ leases'[l].plan \in Active(plans)'
                        /\ plans'[leases'[l].plan].envelope = leases'[l].envelope
                        /\ leases'[l].until <= envelopes'[leases'[l].envelope].until
        BY DEF LeasesOfPlans
    <3>1. CASE l = nextLease
      <4>1. validation.plan \in DOMAIN plans /\ plans'[validation.plan].envelope = locked
            BY <2>1, <2>4 DEF Active
      <4>2. validation.plan \in Active(plans)'
            BY <2>1, <2>4, <4>1 DEF Active
      <4>3. envelopes'[locked].until = envelopes[locked].until
            BY <2>1, <2>3
      <4>4. QED
            BY <2>2, <2>5, <2>7, <3>1, <4>1, <4>2, <4>3
    <3>2. CASE l # nextLease
      <4>1. l \in DOMAIN leases
            BY <2>5, <3>2 DEF Active
      <4>2. l \in Active(leases) /\ leases[l].envelope \notin dead
            BY <2>6, <4>1 DEF Active
      <4>3. /\ leases[l].plan \in Active(plans)
            /\ plans[leases[l].plan].envelope = leases[l].envelope
            /\ leases[l].until <= envelopes[leases[l].envelope].until
            BY <4>2 DEF RegistryInv, LeasesOfPlans
      <4>4. leases[l].plan \in DOMAIN plans /\ leases[l].envelope \in DOMAIN envelopes
            BY <4>1, <4>3 DEF Active, RegistryInv, RegistryTyped, LeaseRecords
      <4>5. QED
            BY <2>3, <2>4, <2>6, <4>1, <4>2, <4>3, <4>4 DEF Active
    <3>3. QED
          BY <3>1, <3>2
  <2>14. QED
        BY <2>9, <2>11, <2>12, <2>13 DEF RegistryInv
<1>6. QED
      BY <1>2, <1>3, <1>4, <1>5

-----------------------------------------------------------------------------
LEMMA RegistryStarts == EnvelopeInit /\ ValidationInit => RegistryInv
<1> SUFFICES ASSUME EnvelopeInit, ValidationInit PROVE RegistryInv
    OBVIOUS
<1>1. DOMAIN envelopes = {} /\ DOMAIN plans = {} /\ DOMAIN leases = {}
      BY DEF EnvelopeInit
<1>2. Active(envelopes) = {} /\ Active(plans) = {} /\ Active(leases) = {}
      BY <1>1 DEF Active
<1>3. QED
      BY <1>1, <1>2 DEF EnvelopeInit, ValidationInit, RegistryInv, RegistryTyped, LockedNewest, PlansNewest, LeasesOfPlans

LEMMA RegistryKept ==
  ASSUME RegistryInv, [EnvelopeNext]_<<envelopeVars, validationVars>>
  PROVE  RegistryInv'
<1>1. CASE UNCHANGED <<registryVars, contextVars, validationVars>> /\ now' \in Nat
      BY <1>1 DEF registryVars, contextVars, validationVars, RegistryInv, RegistryTyped, LockedNewest, PlansNewest,
                  LeasesOfPlans, Newest, Active, EnvelopeRecords, PlanRecords, LeaseRecords, Keys,
                  Validations, Outcomes
<1>2. now \in Nat /\ ReuseTime \in Nat /\ MaxNow \in Nat /\ MaxContexts \in Nat
      BY EnvelopeAssumption, ValidationAssumption
      DEF EnvelopeAssumption, ValidationAssumption, RegistryInv, RegistryTyped
<1>3. CASE Advance /\ UNCHANGED validationVars
      BY <1>1, <1>2, <1>3 DEF Advance
<1>4. ASSUME NEW v \in 1..MaxEnvelopes, NEW k \in Keys, NEW until \in now + 1..MaxNow + 1,
             RegisterValidated(v, k, until), UNCHANGED validationVars
      PROVE  RegistryInv'
  <2>1. until \in Nat
        BY <1>2
  <2>2. QED
        BY <1>4, <2>1, RegistrationKeeps
<1>5. ASSUME NEW k \in Keys, NEW n \in 1..MaxContexts, SetCurrentContext(k, n), UNCHANGED validationVars
      PROVE  RegistryInv'
      BY <1>2, <1>5, ContextKeeps
<1>6. ASSUME NEW v, Invalidate(v), UNCHANGED validationVars PROVE RegistryInv'
  <2>1. Fallen({v})
        BY <1>6, InvalidationFells DEF Invalidate, RegistryInv
  <2>2. QED
        BY <1>6, <2>1, FallKeeps DEF Invalidate, contextVars, validationVars, RegistryInv, RegistryTyped
<1>7. CASE Lock
      BY <1>7, LockKeeps
<1>8. ASSUME NEW p \in 1..MaxPlans, BindPlan(p) PROVE RegistryInv'
      BY <1>8, BindKeeps
<1>9. ASSUME NEW p \in DOMAIN plans, NEW f, StartValidation(p, f) PROVE RegistryInv'
  <2>1. UNCHANGED <<envelopeVars, locked>>
        BY <1>9 DEF StartValidation
  <2>2. validation' # None => validation' \in Validations
    <3>1. \/ validation' = validation
          \/ /\ f \in Outcomes
             /\ validation' = [plan |-> p, at |-> now, failing |-> f, audited |-> 0]
          BY <1>9 DEF StartValidation, Outcomes
    <3>2. p \in Nat
          BY DEF RegistryInv, RegistryTyped
    <3>3. QED
          BY <1>2, <3>1, <3>2 DEF Validations, RegistryInv, RegistryTyped
  <2>3. QED
        BY <2>1, <2>2 DEF envelopeVars, registryVars, contextVars, RegistryInv, RegistryTyped, LockedNewest, PlansNewest,
                          LeasesOfPlans, Newest, Active, EnvelopeRecords, PlanRecords, LeaseRecords, Keys,
                          Validations, Outcomes
<1>10. ASSUME NEW d, AuditSample(d) PROVE RegistryInv'
       BY <1>10, AuditKeeps
<1>11. ASSUME NEW e \in ValidationInputs, IssueLease(e) PROVE RegistryInv'
  <2>1. e \in Nat
        BY <1>2 DEF ValidationInputs
  <2>2. QED
        BY <1>11, <2>1, IssueKeeps
<1>12. CASE UNCHANGED <<envelopeVars, validationVars>>
       BY <1>1, <1>2, <1>12 DEF envelopeVars
<1>13. QED
       BY <1>3, <1>4, <1>5, <1>6, <1>7, <1>8, <1>9, <1>10, <1>11, <1>12 DEF EnvelopeNext

\* The invariant says what a lease promises.
LEMMA LeaseInForce == RegistryInv => LeaseFollowsContext
<1> SUFFICES ASSUME RegistryInv, NEW l \in Active(leases)
             PROVE  /\ leases[l].plan \in Active(plans)
                    /\ leases[l].envelope \in Active(envelopes)
                    /\ envelopes[leases[l].envelope].key = context
                    /\ \A v \in Active(envelopes) : envelopes[v].key = context => v <= leases[l].envelope
                    /\ leases[l].until <= envelopes[leases[l].envelope].until
    BY DEF LeaseFollowsContext
<1>1. /\ leases[l].plan \in Active(plans)
      /\ plans[leases[l].plan].envelope = leases[l].envelope
      /\ leases[l].until <= envelopes[leases[l].envelope].until
      BY DEF RegistryInv, LeasesOfPlans
<1>2. Newest(leases[l].envelope)
      BY <1>1 DEF RegistryInv, PlansNewest
<1>3. QED
      BY <1>1, <1>2 DEF Newest

\* Contexts change, envelopes are replaced, expire or are found breached while a plan
\* is validated (plan_validity_evaluator.cpp:795): no lease in force is ever bound to
\* anything but the newest envelope of the context, or outlives it.
THEOREM LeasesFollowTheContext == ValidationSpec => []LeaseFollowsContext
<1>1. EnvelopeInit /\ ValidationInit => RegistryInv
      BY RegistryStarts
<1>2. RegistryInv /\ [EnvelopeNext]_<<envelopeVars, validationVars>> => RegistryInv'
      BY RegistryKept
<1>3. QED
      BY <1>1, <1>2, LeaseInForce, PTL DEF ValidationSpec

-----------------------------------------------------------------------------
(***************************************************************************)
(* The builder: for any motion primitives, domains, quantum and limits,    *)
(* every motion the primitives allow stays within some set of the search,  *)
(* by induction over the motion, and so within the envelope the search     *)
(* certifies.                                                              *)
(***************************************************************************)

\* The parts of a set that are ranges are ranges of numbers.
WellMade(set) ==
  /\ set.length \in 0..domain.maxLength
  /\ set.time[1] \in Int /\ set.time[2] \in Int
  /\ set.lag[1] \in Int /\ set.lag[2] \in Int
  /\ set.progress[1] \in Int /\ set.progress[2] \in Int
  /\ set.swept[1] \in Int /\ set.swept[2] \in Int
  /\ set.variance = VarianceAfter[set.length]

\* A motion that is applied to a set: it can stay in the domain and in the calibration.
Inside(p, m) ==
  /\ p.length + m.length <= domain.maxLength
  /\ p.time[1] + m.time[1] <= domain.maxTime
  /\ p.progress[1] < domain.end
  /\ LagAfter(p.lag[2], m) >= -MaxLag /\ LagAfter(p.lag[1], m) <= MaxLag

Tried(n, k) == n < at[1] \/ (n = at[1] /\ k < at[2])

\* Every motion tried so far on a set that was kept led out, or into a set that was kept.
Followed ==
  \A n \in DOMAIN retained, k \in DOMAIN domain.motions :
    Tried(n, k) /\ Inside(retained[n], domain.motions[k]) =>
      \E j \in DOMAIN retained : SetContains(retained[j], Cut(Moved(domain, retained[n], domain.motions[k])))

Searching ==
  /\ \E N \in Nat \ {0} : DOMAIN retained = 1..N /\ Len(retained) = N
  /\ retained = [n \in 1..Len(retained) |-> retained[n]]
  /\ \A n \in DOMAIN retained : WellMade(retained[n])
  /\ retained[1] = InitialSet(domain)
  /\ \E i, k \in Nat \ {0} : at = <<i, k>> /\ k <= Len(domain.motions)
  /\ Followed

BuilderInv ==
  /\ domain \in Domains
  /\ built \in BuiltEnvelopes \cup {NotBuilt}
  /\ BuildFails(domain) = {} /\ built = NotBuilt => Searching
  /\ EnvelopeCoversMotion

-----------------------------------------------------------------------------
(* Numbers                                                                 *)

LEMMA MaxIs ==
  ASSUME NEW S, S \subseteq Int, IsFiniteSet(S), S # {}
  PROVE  Max(S) \in S /\ \A x \in S : x <= Max(S)
<1>1. PICK x \in S : \A y \in S : y <= x
      BY LargestOf
<1>2. \A y \in S : x >= y
      BY <1>1
<1>3. QED
      BY <1>2 DEF Max

LEMMA LesserFacts ==
  ASSUME NEW a \in Int, NEW b \in Int
  PROVE  Min({a, b}) = (IF a <= b THEN a ELSE b) /\ Max({a, b}) = (IF a >= b THEN a ELSE b)
BY DEF Min, Max

LEMMA BoundedFacts ==
  ASSUME NEW x \in Int
  PROVE  Bounded(x, -MaxLag, MaxLag)
           = IF x < -MaxLag THEN -MaxLag ELSE IF x > MaxLag THEN MaxLag ELSE x
<1>1. MaxLag \in Nat
      BY LagAssumption
<1>2. Min({MaxLag, x}) = (IF MaxLag <= x THEN MaxLag ELSE x)
      BY <1>1, LesserFacts
<1>3. Min({MaxLag, x}) \in Int /\ -MaxLag \in Int
      BY <1>1, <1>2
<1>4. Max({-MaxLag, Min({MaxLag, x})})
        = IF -MaxLag >= Min({MaxLag, x}) THEN -MaxLag ELSE Min({MaxLag, x})
      BY <1>3, LesserFacts
<1>5. QED
      BY <1>1, <1>2, <1>4 DEF Bounded

\* A domain that passed the checks.
LEMMA DomainFacts ==
  ASSUME domain \in Domains, BuildFails(domain) = {}
  PROVE  WellFormed(domain)
<1>1. 3 \in DOMAIN BuildChecks /\ BuildChecks[3].check = "input"
      BY DEF BuildChecks
<1>2. "input" \notin domain.failed
      BY <1>1 DEF BuildFails
<1>3. QED
      BY <1>2, DomainAssumption

LEMMA MotionFacts ==
  ASSUME WellFormed(domain), NEW k \in DOMAIN domain.motions, NEW m, m = domain.motions[k]
  PROVE  /\ m.length \in Nat \ {0} /\ m.turn \in Int
         /\ m.time[1] \in Nat /\ m.time[2] \in Nat /\ m.time[1] <= m.time[2]
         /\ m.advance[1] \in Nat /\ m.advance[2] \in Nat /\ m.advance[1] <= m.advance[2]
<1>1. m \in MotionPrimitives
      BY DEF WellFormed
<1>2. m.time[1] <= m.time[2] /\ m.advance[1] <= m.advance[2]
      BY DEF WellFormed
<1>3. QED
      BY <1>1, <1>2 DEF MotionPrimitives

\* Less lag before a motion is less lag after it.
LEMMA LagKeepsOrder ==
  ASSUME WellFormed(domain), NEW m, m.length \in 0..domain.maxLength, m.turn \in Int,
         NEW a \in Int, NEW b \in Int, a <= b
  PROVE  LagAfter(a, m) \in Int /\ LagAfter(b, m) \in Int /\ LagAfter(a, m) <= LagAfter(b, m)
<1>1. DecayOver[m.length] \in Nat \ {0}
  <2>1. m.length \in DOMAIN DecayOver
        BY DEF WellFormed
  <2>2. QED
        BY <2>1, DecayAssumption
<1>2. PICK k \in Nat : k > 0 /\ k = DecayOver[m.length]
      BY <1>1
<1>3. a \div k \in Int /\ b \div k \in Int /\ a \div k <= b \div k
      BY <1>2
<1>4. QED
      BY <1>2, <1>3 DEF LagAfter

-----------------------------------------------------------------------------
(* Sets                                                                    *)

MadeBy(p, m, set) ==
  /\ set.length = p.length + m.length
  /\ set.time[1] = p.time[1] + m.time[1]
  /\ set.time[2] = Min({domain.maxTime, p.time[2] + m.time[2]})
  /\ set.lag[1] = Bounded(LagAfter(p.lag[1], m), -MaxLag, MaxLag)
  /\ set.lag[2] = Bounded(LagAfter(p.lag[2], m), -MaxLag, MaxLag)
  /\ set.progress[1] = Min({domain.end, p.progress[1] + m.advance[1]})
  /\ set.progress[2] = Min({domain.end, p.progress[2] + m.advance[2]})
  /\ set.swept[1] = p.progress[1]
  /\ set.swept[2] = Min({domain.end, p.progress[2] + m.advance[2]})

\* What a motion that is applied makes of a set.
LEMMA MovedFacts ==
  ASSUME WellFormed(domain), NEW p, WellMade(p), NEW k \in DOMAIN domain.motions,
         NEW m, m = domain.motions[k], Inside(p, m),
         NEW set, set = Cut(Moved(domain, p, m))
  PROVE  WellMade(set) /\ MadeBy(p, m, set)
<1>1. /\ m.length \in Nat /\ m.turn \in Int /\ m.time[1] \in Nat /\ m.time[2] \in Nat
      /\ m.advance[1] \in Nat /\ m.advance[2] \in Nat
      BY MotionFacts
<1>2. /\ domain.end \in Nat /\ domain.maxTime \in Nat /\ domain.maxLength \in Nat /\ MaxLag \in Nat
      BY LagAssumption DEF WellFormed
<1> DEFINE far == Min({domain.end, p.progress[2] + m.advance[2]})
           made == Moved(domain, p, m)
<1>3. /\ set.length = p.length + m.length
      /\ set.time = <<p.time[1] + m.time[1], Min({domain.maxTime, p.time[2] + m.time[2]})>>
      /\ set.progress = <<Min({domain.end, p.progress[1] + m.advance[1]}), far>>
      /\ set.swept = <<p.progress[1], far>>
      /\ set.variance = VarianceAfter[p.length + m.length]
      /\ set.lag = [i \in 1..2 |-> Bounded(LagAfter(p.lag[i], m), -MaxLag, MaxLag)]
  <2>1. /\ made.length = p.length + m.length
        /\ made.time = <<p.time[1] + m.time[1], Min({domain.maxTime, p.time[2] + m.time[2]})>>
        /\ made.progress = <<Min({domain.end, p.progress[1] + m.advance[1]}), far>>
        /\ made.swept = <<p.progress[1], far>>
        /\ made.variance = VarianceAfter[p.length + m.length]
        /\ made.lag = [i \in 1..2 |-> LagAfter(p.lag[i], m)]
        /\ DOMAIN made = {"length", "time", "heading", "lag", "progress", "swept", "variance"}
        BY DEF Moved
  <2> HIDE DEF made, far
  <2>2. set = [made EXCEPT !.lag = [i \in 1..2 |-> Bounded(made.lag[i], -MaxLag, MaxLag)]]
        BY DEF Cut, made
  <2>3. \A i \in 1..2 : made.lag[i] = LagAfter(p.lag[i], m)
        BY <2>1
  <2>4. QED
        BY <2>1, <2>2, <2>3
<1>4. \A i \in 1..2 : LagAfter(p.lag[i], m) \in Int
  <2>1. p.lag[1] \in Int /\ p.lag[2] \in Int
        BY DEF WellMade
  <2>2. m.length \in 0..domain.maxLength
        BY <1>1, <1>2 DEF Inside, WellMade
  <2>3. LagAfter(p.lag[1], m) \in Int /\ LagAfter(p.lag[2], m) \in Int
        BY <1>1, <2>1, <2>2, LagKeepsOrder
  <2>4. QED
        BY <2>3
<1>5. \A i \in 1..2 : set.lag[i] \in Int
  <2> TAKE i \in 1..2
  <2>1. set.lag[i] = Bounded(LagAfter(p.lag[i], m), -MaxLag, MaxLag)
        BY <1>3
  <2>2. QED
        BY <1>2, <1>4, <2>1, BoundedFacts
<1>6. /\ p.time[1] \in Int /\ p.time[2] \in Int /\ p.progress[1] \in Int /\ p.progress[2] \in Int
      /\ p.length \in Nat
      BY DEF WellMade
<1>7. /\ Min({domain.maxTime, p.time[2] + m.time[2]}) \in Int
      /\ Min({domain.end, p.progress[1] + m.advance[1]}) \in Int
      /\ far \in Int
  <2>1. /\ p.time[2] + m.time[2] \in Int /\ p.progress[1] + m.advance[1] \in Int
        /\ p.progress[2] + m.advance[2] \in Int /\ domain.maxTime \in Int /\ domain.end \in Int
        BY <1>1, <1>2, <1>6
  <2>2. QED
        BY <2>1, LesserFacts
<1>8. WellMade(set)
  <2>1. set.length \in 0..domain.maxLength /\ set.variance = VarianceAfter[set.length]
        BY <1>1, <1>2, <1>3, <1>6 DEF Inside
  <2>2. set.time[1] \in Int /\ set.time[2] \in Int
        BY <1>1, <1>3, <1>6, <1>7
  <2>3. set.lag[1] \in Int /\ set.lag[2] \in Int
        BY <1>5
  <2>4. /\ set.progress[1] \in Int /\ set.progress[2] \in Int
        /\ set.swept[1] \in Int /\ set.swept[2] \in Int
        BY <1>3, <1>6, <1>7
  <2>5. QED
        BY <2>1, <2>2, <2>3, <2>4 DEF WellMade
<1>9. MadeBy(p, m, set)
      BY <1>3 DEF MadeBy
<1>10. QED
       BY <1>8, <1>9

LEMMA ContainsItself ==
  ASSUME NEW set, WellMade(set), WellFormed(domain)
  PROVE  SetContains(set, set)
<1>1. set.variance \in Nat
  <2>1. set.length \in DOMAIN VarianceAfter
        BY DEF WellMade, WellFormed
  <2>2. QED
        BY <2>1, VarianceAssumption DEF WellMade
<1>2. QED
      BY <1>1 DEF SetContains, WellMade

\* The state of a robot is one of those a set stands for.
Holds(set, s) ==
  /\ s.length = set.length
  /\ set.time[1] <= s.time /\ s.time <= set.time[2]
  /\ set.lag[1] <= s.lag /\ s.lag <= set.lag[2]
  /\ set.progress[1] <= s.progress /\ s.progress <= set.progress[2]

States == [length : Nat, time : Int, lag : Int, progress : Int]

\* A motion takes the robot on by one of the domain's motions, in some time, by some way.
LEMMA DrivenBy ==
  ASSUME NEW s, NEW t \in DrivenFrom(domain, s)
  PROVE  \E k \in DOMAIN domain.motions, dt \in Int, da \in Int :
           /\ dt \in domain.motions[k].time[1]..domain.motions[k].time[2]
           /\ da \in domain.motions[k].advance[1]..domain.motions[k].advance[2]
           /\ t = [length |-> s.length + domain.motions[k].length, time |-> s.time + dt,
                   lag |-> LagAfter(s.lag, domain.motions[k]), progress |-> Min({domain.end, s.progress + da})]
<1>1. t \in UNION {EndsOf(domain, s, domain.motions[n]) : n \in DOMAIN domain.motions}
      BY DEF DrivenFrom
<1>2. PICK k \in DOMAIN domain.motions : t \in EndsOf(domain, s, domain.motions[k])
      BY <1>1
<1> DEFINE m == domain.motions[k]
<1>3. PICK da \in m.advance[1]..m.advance[2] :
        t \in {[length |-> s.length + m.length, time |-> s.time + dt, lag |-> LagAfter(s.lag, m),
                progress |-> Min({domain.end, s.progress + da})] : dt \in m.time[1]..m.time[2]}
      BY <1>2 DEF EndsOf
<1>4. PICK dt \in m.time[1]..m.time[2] :
        t = [length |-> s.length + m.length, time |-> s.time + dt, lag |-> LagAfter(s.lag, m),
             progress |-> Min({domain.end, s.progress + da})]
      BY <1>3
<1>5. dt \in Int /\ da \in Int
      BY <1>3, <1>4
<1>6. QED
      BY <1>3, <1>4, <1>5

\* A motion of the robot that starts in a set ends in the set made by that motion,
\* which sweeps the way.
LEMMA MotionStaysInSet ==
  ASSUME WellFormed(domain), NEW p, WellMade(p), NEW s \in States, Holds(p, s),
         NEW t \in DrivenFrom(domain, s)
  PROVE  \E k \in DOMAIN domain.motions :
           /\ Inside(p, domain.motions[k])
           /\ LET set == Cut(Moved(domain, p, domain.motions[k]))
              IN  /\ Holds(set, t)
                  /\ set.swept[1] <= s.progress /\ t.progress <= set.swept[2]
                  /\ WellMade(set)
         /\ t \in States /\ t.length \in 0..domain.maxLength
<1>1. PICK k \in DOMAIN domain.motions, dt \in Int, da \in Int :
        /\ dt \in domain.motions[k].time[1]..domain.motions[k].time[2]
        /\ da \in domain.motions[k].advance[1]..domain.motions[k].advance[2]
        /\ t = [length |-> s.length + domain.motions[k].length, time |-> s.time + dt,
                lag |-> LagAfter(s.lag, domain.motions[k]), progress |-> Min({domain.end, s.progress + da})]
      BY DrivenBy
<1>2. /\ s.progress < domain.end /\ t.length <= domain.maxLength /\ t.time <= domain.maxTime
      /\ -MaxLag <= t.lag /\ t.lag <= MaxLag
      BY DEF DrivenFrom
<1> DEFINE m == domain.motions[k]
           set == Cut(Moved(domain, p, m))
<1>3. /\ m.length \in Nat \ {0} /\ m.turn \in Int /\ m.time[1] \in Nat /\ m.time[2] \in Nat
      /\ m.advance[1] \in Nat /\ m.advance[2] \in Nat
      BY MotionFacts
<1>4. dt \in m.time[1]..m.time[2] /\ da \in m.advance[1]..m.advance[2]
      BY <1>1
<1>5. /\ t.length = s.length + m.length /\ t.time = s.time + dt /\ t.lag = LagAfter(s.lag, m)
      /\ t.progress = Min({domain.end, s.progress + da})
      /\ t = [length |-> t.length, time |-> t.time, lag |-> t.lag, progress |-> t.progress]
      BY <1>1
<1> HIDE DEF m
<1>6. /\ domain.end \in Nat /\ domain.maxTime \in Nat /\ domain.maxLength \in Nat /\ MaxLag \in Nat
      BY LagAssumption DEF WellFormed
<1>7. /\ s.length \in Nat /\ s.time \in Int /\ s.lag \in Int /\ s.progress \in Int
      BY DEF States
<1>8. /\ p.length = s.length
      /\ p.time[1] \in Int /\ p.time[2] \in Int /\ p.time[1] <= s.time /\ s.time <= p.time[2]
      /\ p.lag[1] \in Int /\ p.lag[2] \in Int /\ p.lag[1] <= s.lag /\ s.lag <= p.lag[2]
      /\ p.progress[1] \in Int /\ p.progress[2] \in Int
      /\ p.progress[1] <= s.progress /\ s.progress <= p.progress[2]
      BY DEF WellMade, Holds
<1>9. dt \in Int /\ da \in Int /\ m.time[1] <= dt /\ dt <= m.time[2]
      /\ m.advance[1] <= da /\ da <= m.advance[2]
      BY <1>3, <1>4
<1>10. m.length \in 0..domain.maxLength
       BY <1>2, <1>3, <1>5, <1>6, <1>7
<1>11. /\ LagAfter(p.lag[1], m) \in Int /\ LagAfter(p.lag[2], m) \in Int /\ t.lag \in Int
       /\ LagAfter(p.lag[1], m) <= t.lag /\ t.lag <= LagAfter(p.lag[2], m)
       BY <1>3, <1>5, <1>7, <1>8, <1>10, LagKeepsOrder
<1>12. Inside(p, m)
       BY <1>2, <1>3, <1>5, <1>6, <1>7, <1>8, <1>9, <1>11 DEF Inside
<1>13. WellMade(set) /\ MadeBy(p, m, set)
  <2>1. m = domain.motions[k] /\ set = Cut(Moved(domain, p, m))
        BY DEF m
  <2> HIDE DEF set
  <2>2. QED
        BY <1>12, <2>1, MovedFacts
<1> HIDE DEF set
<1>14. set.time[1] <= t.time /\ t.time <= set.time[2]
  <2>1. Min({domain.maxTime, p.time[2] + m.time[2]})
          = IF domain.maxTime <= p.time[2] + m.time[2] THEN domain.maxTime ELSE p.time[2] + m.time[2]
        BY <1>3, <1>6, <1>8, LesserFacts
  <2>2. QED
        BY <1>2, <1>3, <1>5, <1>6, <1>7, <1>8, <1>9, <1>13, <2>1 DEF MadeBy
<1>15. set.lag[1] <= t.lag /\ t.lag <= set.lag[2]
  <2>1. set.lag[1] = Bounded(LagAfter(p.lag[1], m), -MaxLag, MaxLag)
        /\ set.lag[2] = Bounded(LagAfter(p.lag[2], m), -MaxLag, MaxLag)
        BY <1>13 DEF MadeBy
  <2>2. QED
        BY <1>2, <1>6, <1>11, <2>1, BoundedFacts
<1>16. /\ t.progress \in Int
       /\ set.progress[1] <= t.progress /\ t.progress <= set.progress[2]
       /\ set.swept[1] <= s.progress /\ t.progress <= set.swept[2]
  <2>1. \A a \in Int : Min({domain.end, a}) = IF domain.end <= a THEN domain.end ELSE a
        BY <1>6, LesserFacts
  <2>2. /\ p.progress[1] + m.advance[1] \in Int /\ p.progress[2] + m.advance[2] \in Int
        /\ s.progress + da \in Int
        /\ p.progress[1] + m.advance[1] <= s.progress + da
        /\ s.progress + da <= p.progress[2] + m.advance[2]
        BY <1>3, <1>7, <1>8, <1>9
  <2>3. QED
        BY <1>5, <1>6, <1>8, <1>13, <2>1, <2>2 DEF MadeBy
<1>17. Holds(set, t)
       BY <1>5, <1>8, <1>13, <1>14, <1>15, <1>16 DEF Holds, MadeBy
<1>18. t \in States /\ t.length \in 0..domain.maxLength
  <2>1. t.length \in Nat /\ t.time \in Int
        BY <1>3, <1>5, <1>7, <1>9
  <2>2. QED
        BY <1>2, <1>5, <1>6, <1>11, <1>16, <2>1 DEF States
<1>19. QED
       BY <1>12, <1>13, <1>16, <1>17, <1>18 DEF set, m

\* What a set holds, a set that contains it holds.
LEMMA ContainingHolds ==
  ASSUME NEW outer, NEW inner, NEW s \in States, WellMade(outer), WellMade(inner),
         SetContains(outer, inner), Holds(inner, s)
  PROVE  /\ Holds(outer, s)
         /\ outer.swept[1] <= inner.swept[1] /\ inner.swept[2] <= outer.swept[2]
<1>1. /\ outer.length = inner.length
      /\ outer.time[1] <= inner.time[1] /\ inner.time[2] <= outer.time[2]
      /\ outer.lag[1] <= inner.lag[1] /\ inner.lag[2] <= outer.lag[2]
      /\ outer.progress[1] <= inner.progress[1] /\ inner.progress[2] <= outer.progress[2]
      /\ outer.swept[1] <= inner.swept[1] /\ inner.swept[2] <= outer.swept[2]
      BY DEF SetContains
<1>2. s.time \in Int /\ s.lag \in Int /\ s.progress \in Int
      BY DEF States
<1>3. QED
      BY <1>1, <1>2 DEF Holds, WellMade

\* When every motion was tried on every set, what a motion leads to is in a set, and a
\* set sweeps the way there.
LEMMA MotionIsSwept ==
  ASSUME WellFormed(domain), Searching, at[1] > Len(retained),
         NEW j \in DOMAIN retained, NEW s \in States, Holds(retained[j], s),
         NEW t \in DrivenFrom(domain, s)
  PROVE  /\ t \in States /\ t.length \in 0..domain.maxLength
         /\ \E i \in DOMAIN retained :
              /\ Holds(retained[i], t)
              /\ retained[i].swept[1] <= s.progress /\ t.progress <= retained[i].swept[2]
<1> DEFINE p == retained[j]
           set(k) == Cut(Moved(domain, p, domain.motions[k]))
<1>1. WellMade(p)
      BY DEF Searching
<1>2. PICK k \in DOMAIN domain.motions :
        /\ Inside(p, domain.motions[k])
        /\ Holds(set(k), t) /\ WellMade(set(k))
        /\ set(k).swept[1] <= s.progress /\ t.progress <= set(k).swept[2]
        /\ t \in States /\ t.length \in 0..domain.maxLength
  <2> HIDE DEF p
  <2>1. Holds(p, s)
        BY DEF p
  <2>2. QED
        BY <1>1, <2>1, MotionStaysInSet
<1>3. Tried(j, k)
  <2>1. j <= Len(retained) /\ j \in Int /\ Len(retained) \in Int
        BY DEF Searching
  <2>2. at[1] \in Int
        BY DEF Searching
  <2>3. QED
        BY <2>1, <2>2 DEF Tried
<1>4. PICK i \in DOMAIN retained : SetContains(retained[i], set(k))
      BY <1>2, <1>3 DEF Searching, Followed
<1>5. WellMade(retained[i])
      BY DEF Searching
<1> DEFINE outer == retained[i]
           inner == set(k)
<1>6. /\ WellMade(outer) /\ WellMade(inner) /\ SetContains(outer, inner) /\ Holds(inner, t)
      /\ inner.swept[1] <= s.progress /\ t.progress <= inner.swept[2] /\ t \in States
      BY <1>2, <1>4, <1>5
<1> HIDE DEF outer, inner
<1>7. Holds(outer, t) /\ outer.swept[1] <= inner.swept[1] /\ inner.swept[2] <= outer.swept[2]
      BY <1>6, ContainingHolds
<1>8. outer.swept[1] <= s.progress /\ t.progress <= outer.swept[2]
  <2>1. /\ outer.swept[1] \in Int /\ outer.swept[2] \in Int
        /\ inner.swept[1] \in Int /\ inner.swept[2] \in Int
        BY <1>6 DEF WellMade
  <2>2. s.progress \in Int /\ t.progress \in Int
        BY <1>6 DEF States
  <2>3. QED
        BY <1>6, <1>7, <2>1, <2>2
<1>9. QED
      BY <1>2, <1>7, <1>8 DEF outer

LEMMA DrivenTyped ==
  ASSUME WellFormed(domain), NEW s \in States, NEW t \in DrivenFrom(domain, s)
  PROVE  t \in States
<1>1. PICK k \in DOMAIN domain.motions, dt \in Int, da \in Int :
        /\ dt \in domain.motions[k].time[1]..domain.motions[k].time[2]
        /\ da \in domain.motions[k].advance[1]..domain.motions[k].advance[2]
        /\ t = [length |-> s.length + domain.motions[k].length, time |-> s.time + dt,
                lag |-> LagAfter(s.lag, domain.motions[k]), progress |-> Min({domain.end, s.progress + da})]
      BY DrivenBy
<1> DEFINE m == domain.motions[k]
<1>2. m.length \in Nat \ {0} /\ m.turn \in Int
      BY MotionFacts
<1>3. t.length <= domain.maxLength
      BY DEF DrivenFrom
<1>4. s.length \in Nat /\ s.time \in Int /\ s.lag \in Int /\ s.progress \in Int
      BY DEF States
<1>5. domain.end \in Nat /\ domain.maxLength \in Nat
      BY DEF WellFormed
<1>6. t.length = s.length + m.length /\ t.lag = LagAfter(s.lag, m)
      BY <1>1
<1> HIDE DEF m
<1>7. m.length \in 0..domain.maxLength
      BY <1>2, <1>3, <1>4, <1>5, <1>6
<1>8. LagAfter(s.lag, m) \in Int
      BY <1>2, <1>4, <1>7, LagKeepsOrder
<1>9. Min({domain.end, s.progress + da}) \in Int
      BY <1>4, <1>5, LesserFacts
<1>10. s.length + m.length \in Nat /\ s.time + dt \in Int
       BY <1>2, <1>4
<1>11. QED
       BY <1>1, <1>8, <1>9, <1>10 DEF States, m

\* Every state the robot can reach is in a set.
LEMMA DrivenIsHeld ==
  ASSUME WellFormed(domain), Searching, at[1] > Len(retained), NEW s \in Driven(domain)
  PROVE  s \in States /\ \E j \in DOMAIN retained : Holds(retained[j], s)
<1> DEFINE N == domain.maxLength
           Start == {[length |-> 0, time |-> 0, lag |-> l, progress |-> 0] : l \in domain.lag[1]..domain.lag[2]}
           V == SUBSET States
           Further(A) == A \cup UNION {DrivenFrom(domain, x) : x \in A}
           F == [A \in V |-> Further(A)]
           after == CHOOSE f : f = [n \in 0..N |-> IF n = 0 THEN Start ELSE Further(f[n - 1])]
           Held == {x \in States : \E j \in DOMAIN retained : Holds(retained[j], x)}
<1>1. N \in Nat
      BY DEF WellFormed
<1>2. Driven(domain) = after[N]
      BY DEF Driven
<1>3. Start \in V
  <2>1. domain.lag[1] \in Int /\ domain.lag[2] \in Int
        BY LagAssumption DEF WellFormed
  <2>2. QED
        BY <2>1 DEF States
<1>4. F \in [V -> V]
  <2>1. ASSUME NEW A \in V PROVE Further(A) \in V
        BY DrivenTyped
  <2> HIDE DEF Further, V
  <2>2. QED
        BY <2>1
<1>5. \E f : f = [n \in 0..N |-> IF n = 0 THEN Start ELSE Further(f[n - 1])]
  <2> HIDE DEF N, V, Start, F
  <2>1. PICK f \in [0..N -> V] : \A n \in 0..N : f[n] = IF n = 0 THEN Start ELSE F[f[n - 1]]
    <3>1. \E f \in [0..N -> V] : Iterates(f, N, Start, F)
          BY <1>1, <1>3, <1>4, RecursionOnNumbers
    <3>2. QED
          BY <3>1 DEF Iterates
  <2>2. ASSUME NEW n \in 0..N, n # 0 PROVE F[f[n - 1]] = Further(f[n - 1])
    <3>1. f[n - 1] \in V
          BY <1>1, <2>1, <2>2
    <3>2. QED
      <4> HIDE DEF Further
      <4>1. QED
            BY <3>1 DEF F
  <2> HIDE DEF Further
  <2>3. \A n \in 0..N : f[n] = IF n = 0 THEN Start ELSE Further(f[n - 1])
        BY <2>1, <2>2
  <2>4. f = [n \in 0..N |-> IF n = 0 THEN Start ELSE Further(f[n - 1])]
        BY <2>3
  <2>5. QED
        BY <2>4
<1>6. after = [n \in 0..N |-> IF n = 0 THEN Start ELSE Further(after[n - 1])]
  <2> HIDE DEF Further, Start, N
  <2>1. QED
        BY <1>5
<1> HIDE DEF after
<1> DEFINE P == {n \in Nat : n \in 0..N => after[n] \subseteq Held}
<1>7. 0 \in P
  <2>1. after[0] = Start
        BY <1>1, <1>6
  <2>2. ASSUME NEW x \in Start PROVE x \in Held
    <3>1. PICK l \in domain.lag[1]..domain.lag[2] :
            x = [length |-> 0, time |-> 0, lag |-> l, progress |-> 0]
          OBVIOUS
    <3>2. retained[1] = InitialSet(domain) /\ 1 \in DOMAIN retained
          BY DEF Searching
    <3>3. x \in States
          BY <1>3
    <3>4. Holds(retained[1], x)
          BY <3>1, <3>2 DEF Holds, InitialSet
    <3>5. QED
          BY <3>2, <3>3, <3>4
  <2>3. QED
        BY <2>1, <2>2
<1>8. ASSUME NEW n \in Nat, n \in P PROVE n + 1 \in P
  <2>1. SUFFICES ASSUME n + 1 \in 0..N, NEW x \in after[n + 1] PROVE x \in Held
        OBVIOUS
  <2>2. n \in 0..N /\ after[n] \subseteq Held
        BY <1>1, <1>8, <2>1
  <2>3. after[n + 1] = Further(after[n])
    <3> HIDE DEF Further, Start, N
    <3>1. \A k \in 0..N : after[k] = IF k = 0 THEN Start ELSE Further(after[k - 1])
          BY <1>6
    <3>2. n + 1 # 0 /\ (n + 1) - 1 = n
          OBVIOUS
    <3>3. QED
          BY <2>1, <3>1, <3>2
  <2>4. CASE x \in after[n]
        BY <2>2, <2>4
  <2>5. ASSUME NEW y \in after[n], x \in DrivenFrom(domain, y) PROVE x \in Held
    <3>1. PICK j \in DOMAIN retained : Holds(retained[j], y)
          BY <2>2
    <3>2. y \in States
          BY <2>2
    <3>3. x \in States /\ \E i \in DOMAIN retained : Holds(retained[i], x)
          BY <2>5, <3>1, <3>2, MotionIsSwept
    <3>4. QED
          BY <3>3
  <2>6. QED
        BY <2>1, <2>3, <2>4, <2>5
<1>9. N \in P
  <2> HIDE DEF P
  <2>1. QED
        BY <1>1, <1>7, <1>8, NumberInduction
<1>10. after[N] \subseteq Held
       BY <1>1, <1>9
<1>11. s \in Held
       BY <1>2, <1>10
<1>12. QED
       BY <1>11

-----------------------------------------------------------------------------
(* Stretches                                                               *)

\* The bound of a stretch is one for every set that sweeps it.
LEMMA SegmentCovers ==
  ASSUME WellFormed(domain), Searching, NEW i \in Nat \ {0}, NEW g, g = Segment(domain, retained, i)
  PROVE  /\ g \in [start : Nat, end : Nat, variance : Nat]
         /\ \A j \in DOMAIN retained :
              retained[j].swept[2] >= g.start /\ retained[j].swept[1] <= g.end =>
                g.variance >= VarianceAfter[retained[j].length]
<1> DEFINE first == (i - 1) * domain.bins.progress
           last == Min({domain.end, i * domain.bins.progress})
           over == {n \in DOMAIN retained : retained[n].swept[2] >= first /\ retained[n].swept[1] <= last}
           Variances == {retained[n].variance : n \in over}
           most == Max({0} \cup Variances)
<1>1. g = [start |-> first, end |-> last,
           variance |-> IF most = 0 THEN VarianceAfter[domain.maxLength] ELSE most]
      BY DEF Segment
<1>2. first \in Nat /\ last \in Nat
  <2>1. domain.bins.progress \in Nat /\ domain.end \in Nat
        BY DEF WellFormed
  <2>2. PICK w \in Nat : w = domain.bins.progress
        BY <2>1
  <2>3. (i - 1) * w \in Nat /\ i * w \in Nat
    <3>1. i - 1 \in Nat
          OBVIOUS
    <3>2. \A a, b \in Nat : a * b \in Nat
          OBVIOUS
    <3>3. QED
          BY <3>1, <3>2
  <2>4. last \in Nat
        BY <2>1, <2>2, <2>3, LesserFacts
  <2>5. QED
        BY <2>2, <2>3, <2>4
<1>3. \A n \in DOMAIN retained :
        /\ retained[n].variance \in Nat
        /\ retained[n].variance = VarianceAfter[retained[n].length]
        /\ VarianceAfter[retained[n].length] <= VarianceAfter[domain.maxLength]
  <2> TAKE n \in DOMAIN retained
  <2>1. WellMade(retained[n])
        BY DEF Searching
  <2>2. domain.maxLength \in Nat /\ 0..domain.maxLength \subseteq DOMAIN VarianceAfter
        BY DEF WellFormed
  <2>3. retained[n].length \in 0..domain.maxLength /\ retained[n].variance = VarianceAfter[retained[n].length]
        BY <2>1 DEF WellMade
  <2>4. QED
        BY <2>2, <2>3, VarianceAssumption
<1>4. VarianceAfter[domain.maxLength] \in Nat
  <2>1. domain.maxLength \in 0..domain.maxLength
        BY DEF WellFormed
  <2>2. QED
        BY <2>1, VarianceAssumption DEF WellFormed
<1>5. IsFiniteSet({0} \cup Variances)
  <2>1. IsFiniteSet(over)
    <3>1. PICK N \in Nat : DOMAIN retained = 1..N
          BY DEF Searching
    <3>2. IsFiniteSet(1..N)
          BY <3>1, FS_Interval
    <3>3. over \in SUBSET (1..N)
          BY <3>1
    <3> HIDE DEF over
    <3>4. QED
          BY <3>2, <3>3, FS_Subset
  <2> DEFINE f == [n \in over |-> retained[n].variance]
  <2>2. Variances = {f[n] : n \in over}
        OBVIOUS
  <2>3. IsFiniteSet({f[n] : n \in over})
    <3> HIDE DEF f, over
    <3>1. QED
          BY <2>1, ImageIsFinite
  <2>4. IsFiniteSet(Variances)
        BY <2>2, <2>3
  <2> HIDE DEF Variances
  <2>5. IsFiniteSet(Variances \cup {0})
        BY <2>4, FS_AddElement
  <2>6. Variances \cup {0} = {0} \cup Variances
        OBVIOUS
  <2>7. QED
        BY <2>5, <2>6
<1>6. most \in {0} \cup Variances /\ \A x \in {0} \cup Variances : x <= most
  <2> DEFINE T == {0} \cup Variances
  <2>1. T \subseteq Int /\ T # {}
        BY <1>3
  <2>2. IsFiniteSet(T)
        BY <1>5
  <2> HIDE DEF T
  <2>3. Max(T) \in T /\ \A x \in T : x <= Max(T)
        BY <2>1, <2>2, MaxIs
  <2>4. QED
        BY <2>3 DEF T
<1>7. most \in Nat
  <2>1. \A x \in {0} \cup Variances : x \in Nat
        BY <1>3
  <2> HIDE DEF Variances, most
  <2>2. QED
        BY <1>6, <2>1
<1>8. \A j \in DOMAIN retained :
        retained[j].swept[2] >= first /\ retained[j].swept[1] <= last => retained[j].variance <= most
      BY <1>6
<1> HIDE DEF first, last, most
<1>9. /\ g.start = first /\ g.end = last
      /\ g.variance = IF most = 0 THEN VarianceAfter[domain.maxLength] ELSE most
      BY <1>1
<1>10. g.variance \in Nat
       BY <1>4, <1>7, <1>9
<1>11. g \in [start : Nat, end : Nat, variance : Nat]
       BY <1>1, <1>2, <1>9, <1>10
<1>12. ASSUME NEW j \in DOMAIN retained, retained[j].swept[2] >= g.start, retained[j].swept[1] <= g.end
       PROVE  g.variance >= VarianceAfter[retained[j].length]
  <2>1. /\ retained[j].variance \in Nat /\ retained[j].variance = VarianceAfter[retained[j].length]
        /\ VarianceAfter[retained[j].length] <= VarianceAfter[domain.maxLength]
        BY <1>3
  <2>2. retained[j].variance <= most
        BY <1>8, <1>9, <1>12
  <2>3. QED
        BY <1>4, <1>7, <1>9, <2>1, <2>2
<1>13. QED
       BY <1>11, <1>12

-----------------------------------------------------------------------------
(* Steps                                                                   *)

LEMMA MinIs ==
  ASSUME NEW S, S \subseteq Int, IsFiniteSet(S), S # {}
  PROVE  Min(S) \in S
<1>1. PICK x \in S : \A y \in S : x <= y
      BY SmallestOf
<1>2. QED
      BY <1>1 DEF Min

LEMMA RefusalValidity ==
  ASSUME BuildFails(domain) # {}
  PROVE  BuildChecks[Min(BuildFails(domain))].validity
           \in {"dependency_mismatch", "sensor_mode_unapproved", "input_invalid"}
<1>1. DOMAIN BuildChecks = 1..4
      BY DEF BuildChecks
<1>2. BuildFails(domain) \in SUBSET (1..4)
      BY <1>1 DEF BuildFails
<1>3. IsFiniteSet(1..4)
  <2>1. \A N \in Nat : IsFiniteSet(1..N)
        BY FS_Interval
  <2>2. QED
        BY <2>1
<1>4. IsFiniteSet(BuildFails(domain))
      BY <1>2, <1>3, FS_Subset
<1>5. Min(BuildFails(domain)) \in BuildFails(domain)
      BY <1>2, <1>4, MinIs
<1>6. Min(BuildFails(domain)) \in 1..4
      BY <1>2, <1>5
<1>7. \A i \in 1..4 : BuildChecks[i].validity
                        \in {"dependency_mismatch", "sensor_mode_unapproved", "input_invalid"}
      BY DEF BuildChecks
<1>8. QED
      BY <1>6, <1>7

\* A build that fails promises nothing.
LEMMA FailKeeps ==
  ASSUME domain \in Domains, NEW validity, Fail(validity),
         validity \in {"resource_limit_exceeded", "dependency_mismatch", "sensor_mode_unapproved",
                       "input_invalid"}
  PROVE  BuilderInv'
<1>1. built' = [validity |-> validity, segments |-> <<>>] /\ domain' = domain
      BY DEF Fail
<1>2. <<>> \in Seq([start : Nat, end : Nat, variance : Nat])
      OBVIOUS
<1>3. built' \in BuiltEnvelopes /\ built'.validity # "valid"
      BY <1>1, <1>2 DEF BuiltEnvelopes
<1>4. built' # NotBuilt
      BY <1>3, NotBuiltAssumption
<1>5. QED
      BY <1>1, <1>3, <1>4 DEF BuilderInv, EnvelopeCoversMotion

\* Where a search is, in numbers.
LEMMA PlaceFacts ==
  ASSUME Searching, at[1] <= Len(retained)
  PROVE  /\ at[1] \in DOMAIN retained /\ at[2] \in DOMAIN domain.motions
         /\ at[1] \in Nat \ {0} /\ at[2] \in Nat \ {0} /\ at = <<at[1], at[2]>>
         /\ Len(retained) \in Nat \ {0} /\ DOMAIN retained = 1..Len(retained)
         /\ WellMade(Parent)
<1>1. PICK N \in Nat \ {0} : DOMAIN retained = 1..N /\ Len(retained) = N
      BY DEF Searching
<1>2. PICK i \in Nat \ {0}, k \in Nat \ {0} : at = <<i, k>> /\ k <= Len(domain.motions)
      BY DEF Searching
<1>3. at[1] = i /\ at[2] = k
      BY <1>2
<1>4. at[1] \in 1..N
      BY <1>1, <1>3
<1>5. WellMade(Parent)
      BY <1>1, <1>4 DEF Searching, Parent
<1>6. QED
      BY <1>1, <1>2, <1>3, <1>4, <1>5

LEMMA PlaceOfMotion ==
  ASSUME WellFormed(domain), Searching, at[1] <= Len(retained)
  PROVE  at[2] \in DOMAIN domain.motions /\ at[2] <= Len(domain.motions)
         /\ Len(domain.motions) \in Nat /\ DOMAIN domain.motions = 1..Len(domain.motions)
<1>1. Len(domain.motions) \in Nat /\ DOMAIN domain.motions = 1..Len(domain.motions)
      BY DEF WellFormed
<1>2. PICK i \in Nat \ {0}, k \in Nat \ {0} : at = <<i, k>> /\ k <= Len(domain.motions)
      BY DEF Searching
<1>3. at[2] = k
      BY <1>2
<1>4. QED
      BY <1>1, <1>2, <1>3

\* The motions that are not skipped are those that stay inside.
LEMMA InsideIsStaying ==
  ASSUME WellFormed(domain), Searching, at[1] <= Len(retained)
  PROVE  StaysInside <=> Inside(Parent, Motion)
<1>1. /\ WellMade(Parent) /\ at[2] \in DOMAIN domain.motions
      BY PlaceFacts, PlaceOfMotion
<1>2. /\ Motion.length \in Nat \ {0} /\ Motion.turn \in Int
      /\ Motion.time[1] \in Nat /\ Motion.time[2] \in Nat
      BY <1>1, MotionFacts DEF Motion
<1>3. /\ domain.end \in Nat /\ domain.maxTime \in Nat /\ domain.maxLength \in Nat /\ MaxLag \in Nat
      BY LagAssumption DEF WellFormed
<1>4. /\ Parent.length \in Nat /\ Parent.time[1] \in Int /\ Parent.progress[1] \in Int
      /\ Parent.lag[1] \in Int /\ Parent.lag[2] \in Int
      BY <1>1 DEF WellMade
<1>5. Made.lag[1] = LagAfter(Parent.lag[1], Motion) /\ Made.lag[2] = LagAfter(Parent.lag[2], Motion)
      BY DEF Made, Moved
<1>6. ~LeavesDomain <=> /\ Parent.length + Motion.length <= domain.maxLength
                        /\ Parent.time[1] + Motion.time[1] <= domain.maxTime
                        /\ Parent.progress[1] < domain.end
  <2>1. Parent.length + Motion.length \in Int /\ Parent.time[1] + Motion.time[1] \in Int
    <3> HIDE DEF Parent, Motion
    <3>1. QED
          BY <1>2, <1>4
  <2>2. \A a, b \in Int : ~(a > b) <=> a <= b
        OBVIOUS
  <2>3. \A a, b \in Int : ~(a >= b) <=> a < b
        OBVIOUS
  <2>4. /\ ~(Parent.length + Motion.length > domain.maxLength) <=> Parent.length + Motion.length <= domain.maxLength
        /\ ~(Parent.time[1] + Motion.time[1] > domain.maxTime) <=> Parent.time[1] + Motion.time[1] <= domain.maxTime
        /\ ~(Parent.progress[1] >= domain.end) <=> Parent.progress[1] < domain.end
    <3>1. domain.maxLength \in Int /\ domain.maxTime \in Int /\ domain.end \in Int /\ Parent.progress[1] \in Int
          BY <1>3, <1>4
    <3>2. QED
          BY <2>1, <2>2, <2>3, <3>1
  <2>5. QED
        BY <2>4 DEF LeavesDomain
<1>7. ASSUME Parent.length + Motion.length <= domain.maxLength
      PROVE  LagAfter(Parent.lag[1], Motion) \in Int /\ LagAfter(Parent.lag[2], Motion) \in Int
  <2>1. Motion.length \in 0..domain.maxLength
        BY <1>2, <1>3, <1>4, <1>7
  <2>2. QED
        BY <1>2, <1>4, <2>1, LagKeepsOrder
<1>8. ASSUME Parent.length + Motion.length <= domain.maxLength
      PROVE  ~LeavesCalibration <=> /\ LagAfter(Parent.lag[2], Motion) >= -MaxLag
                                    /\ LagAfter(Parent.lag[1], Motion) <= MaxLag
      BY <1>3, <1>5, <1>7, <1>8 DEF LeavesCalibration
<1>9. QED
      BY <1>6, <1>8 DEF StaysInside, Inside

\* What was tried once the search has moved on.
LEMMA OnwardTries ==
  ASSUME WellFormed(domain), Searching, at[1] <= Len(retained), Onward, domain' = domain
  PROVE  /\ \E i, k \in Nat \ {0} : at' = <<i, k>> /\ k <= Len(domain.motions)
         /\ at'[1] <= Len(retained) + 1
         /\ \A n \in Nat, k \in DOMAIN domain.motions :
              Tried(n, k)' => Tried(n, k) \/ (n = at[1] /\ k = at[2])
         /\ \A n \in Nat, k \in DOMAIN domain.motions : n = Len(retained) + 1 => ~Tried(n, k)'
<1>1. /\ at[1] \in Nat \ {0} /\ at[2] \in Nat \ {0} /\ at = <<at[1], at[2]>>
      /\ Len(retained) \in Nat \ {0}
      BY PlaceFacts
<1>2. /\ at[2] <= Len(domain.motions) /\ Len(domain.motions) \in Nat
      /\ DOMAIN domain.motions = 1..Len(domain.motions)
      BY PlaceOfMotion
<1>3. CASE at[2] < Len(domain.motions)
  <2>1. at' = <<at[1], at[2] + 1>>
        BY <1>3 DEF Onward
  <2>2. at'[1] = at[1] /\ at'[2] = at[2] + 1
        BY <2>1
  <2>3. at[2] + 1 \in Nat \ {0} /\ at[2] + 1 <= Len(domain.motions)
        BY <1>1, <1>2, <1>3
  <2>4. \A n \in Nat, k \in DOMAIN domain.motions :
          Tried(n, k)' <=> (n < at[1] \/ (n = at[1] /\ k < at[2] + 1))
        BY <2>2 DEF Tried
  <2>5. \A n \in Nat, k \in DOMAIN domain.motions :
          Tried(n, k)' => Tried(n, k) \/ (n = at[1] /\ k = at[2])
        BY <1>1, <1>2, <2>4 DEF Tried
  <2>6. \A n \in Nat, k \in DOMAIN domain.motions : n = Len(retained) + 1 => ~Tried(n, k)'
    <3>1. \A n \in Nat : n = Len(retained) + 1 => ~(n < at[1]) /\ n # at[1]
          BY <1>1
    <3>2. QED
          BY <2>4, <3>1
  <2>7. at'[1] <= Len(retained) + 1
        BY <1>1, <2>2
  <2>8. QED
        BY <1>1, <2>1, <2>3, <2>5, <2>6, <2>7
<1>4. CASE ~(at[2] < Len(domain.motions))
  <2>1. at' = <<at[1] + 1, 1>>
        BY <1>4 DEF Onward
  <2>2. at'[1] = at[1] + 1 /\ at'[2] = 1
        BY <2>1
  <2>3. at[1] + 1 \in Nat \ {0} /\ 1 <= Len(domain.motions)
        BY <1>1, <1>2
  <2>4. \A n \in Nat, k \in DOMAIN domain.motions :
          Tried(n, k)' <=> (n < at[1] + 1 \/ (n = at[1] + 1 /\ k < 1))
        BY <2>2 DEF Tried
  <2>5. \A n \in Nat, k \in DOMAIN domain.motions :
          Tried(n, k)' => Tried(n, k) \/ (n = at[1] /\ k = at[2])
    <3> SUFFICES ASSUME NEW n \in Nat, NEW k \in DOMAIN domain.motions, Tried(n, k)'
                 PROVE  Tried(n, k) \/ (n = at[1] /\ k = at[2])
          OBVIOUS
    <3>1. k \in Nat \ {0} /\ k <= Len(domain.motions) /\ at[2] = Len(domain.motions)
          BY <1>1, <1>2, <1>4
    <3>2. n <= at[1]
          BY <1>1, <2>4, <3>1
    <3>3. QED
          BY <1>1, <3>1, <3>2 DEF Tried
  <2>6. \A n \in Nat, k \in DOMAIN domain.motions : n = Len(retained) + 1 => ~Tried(n, k)'
    <3>1. \A n \in Nat : n = Len(retained) + 1 => ~(n < at[1] + 1)
          BY <1>1
    <3>2. \A k \in DOMAIN domain.motions : ~(k < 1)
          BY <1>2
    <3>3. QED
          BY <2>4, <3>1, <3>2
  <2>7. at'[1] <= Len(retained) + 1
        BY <1>1, <2>2
  <2>8. QED
        BY <1>1, <2>1, <2>3, <2>5, <2>6, <2>7
<1>5. QED
      BY <1>3, <1>4

\* A motion that adds no set: it leads out, or into a set there is.
LEMMA MovesOn ==
  ASSUME WellFormed(domain), Searching, at[1] <= Len(retained), Onward,
         domain' = domain, retained' = retained,
         Inside(Parent, Motion) => \E j \in DOMAIN retained : SetContains(retained[j], Cut(Made))
  PROVE  Searching'
<1>1. /\ \E i, k \in Nat \ {0} : at' = <<i, k>> /\ k <= Len(domain.motions)
      /\ \A n \in Nat, k \in DOMAIN domain.motions :
           Tried(n, k)' => Tried(n, k) \/ (n = at[1] /\ k = at[2])
      BY OnwardTries
<1>2. DOMAIN retained = 1..Len(retained) /\ Len(retained) \in Nat
      BY PlaceFacts
<1>3. ASSUME NEW n \in DOMAIN retained, NEW k \in DOMAIN domain.motions, Tried(n, k)',
             Inside(retained[n], domain.motions[k])
      PROVE  \E j \in DOMAIN retained :
               SetContains(retained[j], Cut(Moved(domain, retained[n], domain.motions[k])))
  <2>1. n \in Nat
        BY <1>2
  <2>2. CASE Tried(n, k)
        BY <1>3, <2>2 DEF Searching, Followed
  <2>3. CASE n = at[1] /\ k = at[2]
        BY <1>3, <2>3 DEF Parent, Motion, Made
  <2>4. QED
        BY <1>1, <1>3, <2>1, <2>2, <2>3
<1>4. Followed'
      BY <1>3 DEF Followed, Inside
<1>5. QED
      BY <1>1, <1>4 DEF Searching, WellMade

\* A motion that adds its set.
LEMMA Retains ==
  ASSUME WellFormed(domain), Searching, at[1] <= Len(retained), Onward,
         domain' = domain, Inside(Parent, Motion), retained' = Append(retained, Cut(Made))
  PROVE  Searching'
<1> DEFINE N == Len(retained)
           new == Cut(Made)
<1>1. /\ N \in Nat \ {0} /\ DOMAIN retained = 1..N
      /\ at[1] \in DOMAIN retained /\ at[2] \in DOMAIN domain.motions /\ WellMade(Parent)
      BY PlaceFacts, PlaceOfMotion
<1>2. WellMade(new)
      BY <1>1, MovedFacts DEF Made, Motion
<1>3. SetContains(new, new)
  <2> HIDE DEF new
  <2>1. QED
        BY <1>2, ContainsItself
<1>4. /\ DOMAIN retained' = 1..N + 1 /\ Len(retained') = N + 1
      /\ retained'[N + 1] = new /\ \A n \in 1..N : retained'[n] = retained[n]
      /\ retained' = [n \in 1..Len(retained') |-> retained'[n]]
  <2> DEFINE S == {retained[n] : n \in DOMAIN retained} \cup {new}
  <2>1. retained \in [1..N -> S]
        BY <1>1 DEF Searching
  <2> HIDE DEF S, new
  <2>2. retained \in Seq(S)
        BY <1>1, <2>1
  <2>3. retained' = Append(retained, new)
        BY DEF new
  <2>4. DOMAIN retained' = 1..N + 1 /\ Len(retained') = N + 1
        BY <1>1, <2>2, <2>3
  <2>5. retained'[N + 1] = new
        BY <1>1, <2>2, <2>3
  <2>6. \A n \in 1..N : retained'[n] = retained[n]
        BY <1>1, <2>2, <2>3
  <2>7. retained' \in Seq(S)
        BY <2>2, <2>3 DEF S
  <2>8. retained' = [n \in 1..Len(retained') |-> retained'[n]]
    <3>1. \A q \in Seq(S) : q = [n \in 1..Len(q) |-> q[n]]
          OBVIOUS
    <3> HIDE DEF N
    <3>2. QED
          BY <2>7, <3>1
  <2>9. QED
        BY <2>4, <2>5, <2>6, <2>8
<1>5. /\ \E i, k \in Nat \ {0} : at' = <<i, k>> /\ k <= Len(domain.motions)
      /\ \A n \in Nat, k \in DOMAIN domain.motions :
           Tried(n, k)' => Tried(n, k) \/ (n = at[1] /\ k = at[2])
      /\ \A n \in Nat, k \in DOMAIN domain.motions : n = N + 1 => ~Tried(n, k)'
      BY OnwardTries
<1>6. ASSUME NEW n \in 1..N + 1, NEW k \in DOMAIN domain.motions, Tried(n, k)',
             Inside(retained'[n], domain.motions[k])
      PROVE  \E j \in 1..N + 1 :
               SetContains(retained'[j], Cut(Moved(domain, retained'[n], domain.motions[k])))
  <2>1. n \in 1..N
    <3>1. n # N + 1
      <4>1. n \in Nat
            BY <1>1
      <4>2. QED
            BY <1>5, <1>6, <4>1
    <3>2. QED
          BY <1>1, <3>1
  <2>2. retained'[n] = retained[n]
        BY <1>4, <2>1
  <2>3. CASE Tried(n, k)
    <3>1. PICK j \in 1..N : SetContains(retained[j], Cut(Moved(domain, retained[n], domain.motions[k])))
          BY <1>1, <1>6, <2>1, <2>2, <2>3 DEF Searching, Followed
    <3>2. j \in 1..N + 1 /\ retained'[j] = retained[j]
          BY <1>1, <1>4, <3>1
    <3>3. QED
          BY <2>2, <3>1, <3>2
  <2>4. CASE n = at[1] /\ k = at[2]
    <3>1. Cut(Moved(domain, retained'[n], domain.motions[k])) = new
          BY <2>2, <2>4 DEF Parent, Motion, Made
    <3>2. N + 1 \in 1..N + 1
          BY <1>1
    <3>3. QED
          BY <1>3, <1>4, <3>1, <3>2
  <2>5. Tried(n, k) \/ (n = at[1] /\ k = at[2])
    <3>1. n \in Nat
          BY <1>1
    <3>2. QED
          BY <1>5, <1>6, <3>1
  <2>6. QED
        BY <2>3, <2>4, <2>5
<1>7. Followed'
      BY <1>4, <1>6 DEF Followed, Inside
<1>8. \A n \in 1..N + 1 : WellMade(retained'[n])
  <2> TAKE n \in 1..N + 1
  <2>1. CASE n \in 1..N
        BY <1>1, <1>4, <2>1 DEF Searching
  <2>2. CASE n = N + 1
        BY <1>2, <1>4, <2>2
  <2>3. QED
        BY <1>1, <2>1, <2>2
<1>9. retained'[1] = InitialSet(domain)
      BY <1>1, <1>4 DEF Searching
<1>10. QED
  <2> HIDE DEF N, new
  <2>1. N + 1 \in Nat \ {0}
        BY <1>1
  <2>2. QED
        BY <1>4, <1>5, <1>7, <1>8, <1>9, <2>1 DEF Searching, WellMade

-----------------------------------------------------------------------------
(* What is handed out                                                      *)

\* What is certified when the search is through covers every motion.
LEMMA CertifiedCovers ==
  ASSUME WellFormed(domain), Searching, at[1] > Len(retained), domain' = domain,
         built' = [validity |-> "valid",
                   segments |-> [i \in 1..SegmentCount(domain) |-> Segment(domain, retained, i)]]
  PROVE  built' \in BuiltEnvelopes /\ EnvelopeCoversMotion'
<1> DEFINE C == SegmentCount(domain)
           segments == [i \in 1..C |-> Segment(domain, retained, i)]
<1>1. C \in Nat
  <2>1. domain.end \in Nat \ {0} /\ domain.bins.progress \in Nat \ {0}
        BY DEF WellFormed
  <2>2. PICK w \in Nat \ {0} : w = domain.bins.progress
        BY <2>1
  <2>3. domain.end + w - 1 \in Nat
        BY <2>1
  <2>4. \A a \in Nat : a \div w \in Nat
        BY <2>2
  <2>5. QED
        BY <2>2, <2>3, <2>4 DEF SegmentCount
<1> HIDE DEF C
<1>2. \A i \in 1..C :
        /\ segments[i] \in [start : Nat, end : Nat, variance : Nat]
        /\ \A j \in DOMAIN retained :
             retained[j].swept[2] >= segments[i].start /\ retained[j].swept[1] <= segments[i].end =>
               segments[i].variance >= VarianceAfter[retained[j].length]
  <2> TAKE i \in 1..C
  <2>1. i \in Nat \ {0} /\ segments[i] = Segment(domain, retained, i)
        BY <1>1
  <2> HIDE DEF segments
  <2>2. QED
        BY <2>1, SegmentCovers
<1>3. built' = [validity |-> "valid", segments |-> segments] /\ DOMAIN segments = 1..C
      BY DEF C
<1> HIDE DEF segments
<1>4. segments \in [1..C -> [start : Nat, end : Nat, variance : Nat]]
      BY <1>2, <1>3 DEF segments
<1>5. built' \in BuiltEnvelopes
  <2> DEFINE R == [start : Nat, end : Nat, variance : Nat]
             V == {"valid", "resource_limit_exceeded", "dependency_mismatch", "sensor_mode_unapproved",
                   "input_invalid"}
             Q == Seq(R)
  <2>1. segments \in [1..C -> R]
        BY <1>4
  <2>2. BuiltEnvelopes = [validity : V, segments : Q] /\ "valid" \in V
        BY DEF BuiltEnvelopes
  <2> HIDE DEF R, V
  <2>3. segments \in Seq(R)
        BY <1>1, <2>1
  <2>4. segments \in Q
        BY <2>3
  <2> HIDE DEF Q
  <2>5. [validity |-> "valid", segments |-> segments] \in [validity : V, segments : Q]
        BY <2>2, <2>4
  <2>6. QED
        BY <1>3, <2>2, <2>5
<1>6. ASSUME NEW s \in Driven(domain), NEW t \in DrivenFrom(domain, s), NEW i \in 1..C,
             segments[i].start <= t.progress, s.progress <= segments[i].end
      PROVE  segments[i].variance >= VarianceAfter[t.length]
  <2>1. PICK j \in DOMAIN retained : s \in States /\ Holds(retained[j], s)
        BY DrivenIsHeld
  <2>2. PICK n \in DOMAIN retained :
          /\ t \in States /\ Holds(retained[n], t)
          /\ retained[n].swept[1] <= s.progress /\ t.progress <= retained[n].swept[2]
        BY <2>1, MotionIsSwept
  <2>3. WellMade(retained[n])
        BY DEF Searching
  <2>4. segments[i].start \in Int /\ segments[i].end \in Int
        BY <1>2
  <2>5. /\ retained[n].swept[1] \in Int /\ retained[n].swept[2] \in Int
        /\ s.progress \in Int /\ t.progress \in Int
        BY <2>1, <2>2, <2>3 DEF WellMade, States
  <2>6. retained[n].swept[2] >= segments[i].start /\ retained[n].swept[1] <= segments[i].end
        BY <1>6, <2>2, <2>4, <2>5
  <2>7. segments[i].variance >= VarianceAfter[retained[n].length]
        BY <1>2, <2>6
  <2>8. retained[n].length = t.length
        BY <2>2 DEF Holds
  <2>9. QED
        BY <2>7, <2>8
<1>7. EnvelopeCoversMotion'
  <2>1. built'.segments = segments
        BY <1>3
  <2>2. QED
        BY <1>3, <1>6, <2>1 DEF EnvelopeCoversMotion
<1>8. QED
      BY <1>5, <1>7

LEMMA BuilderStarts == domain \in Domains /\ BuilderInit => BuilderInv
<1>1. SUFFICES ASSUME domain \in Domains, BuilderInit PROVE BuilderInv
      OBVIOUS
<1>2. built = NotBuilt /\ at = <<1, 1>> /\ retained = <<InitialSet(domain)>>
      BY <1>1 DEF BuilderInit
<1>3. ASSUME BuildFails(domain) = {} PROVE Searching
  <2>1. WellFormed(domain)
        BY <1>1, <1>3, DomainFacts
  <2> DEFINE first == InitialSet(domain)
  <2>2. /\ first.length = 0 /\ first.time = <<0, 0>> /\ first.lag = domain.lag
        /\ first.progress = <<0, 0>> /\ first.swept = <<0, 0>> /\ first.variance = VarianceAfter[0]
        BY DEF InitialSet
  <2>3. /\ domain.maxLength \in Nat /\ domain.lag[1] \in Int /\ domain.lag[2] \in Int
        BY <2>1, LagAssumption DEF WellFormed
  <2>4. WellMade(first)
    <3> HIDE DEF first
    <3>1. QED
          BY <2>2, <2>3 DEF WellMade
  <2>5. DOMAIN retained = 1..1 /\ Len(retained) = 1 /\ retained[1] = first
        /\ retained = [n \in 1..Len(retained) |-> retained[n]]
    <3> HIDE DEF first
    <3>1. retained = <<first>>
          BY <1>2 DEF first
    <3>2. QED
          BY <3>1
  <2>6. 1 <= Len(domain.motions)
    <3>1. domain.motions \in Seq(MotionPrimitives) /\ domain.motions # <<>>
          BY <2>1 DEF WellFormed
    <3>2. QED
          BY <3>1
  <2>7. Followed
    <3>1. Len(domain.motions) \in Nat /\ DOMAIN domain.motions = 1..Len(domain.motions)
          BY <2>1 DEF WellFormed
    <3>2. at[1] = 1 /\ at[2] = 1
          BY <1>2
    <3>3. \A n \in 1..1, k \in DOMAIN domain.motions : ~Tried(n, k)
          BY <3>1, <3>2 DEF Tried
    <3>4. QED
          BY <2>5, <3>3 DEF Followed
  <2>8. QED
    <3> HIDE DEF first
    <3>1. \A n \in DOMAIN retained : WellMade(retained[n])
          BY <2>4, <2>5
    <3>2. 1 \in Nat \ {0}
          OBVIOUS
    <3>3. QED
          BY <1>2, <2>5, <2>6, <2>7, <3>1, <3>2 DEF Searching, first
<1>4. QED
      BY <1>1, <1>2, <1>3 DEF BuilderInv, EnvelopeCoversMotion

LEMMA BuilderKept == BuilderInv /\ [BuilderNext]_builderVars => BuilderInv'
<1>1. SUFFICES ASSUME BuilderInv, [BuilderNext]_builderVars PROVE BuilderInv'
      OBVIOUS
<1>2. domain \in Domains /\ (BuildFails(domain) = {} /\ built = NotBuilt => Searching)
      BY <1>1 DEF BuilderInv
<1>3. ASSUME BuildFails(domain) = {} PROVE WellFormed(domain)
      BY <1>2, <1>3, DomainFacts
<1>4. CASE RefuseBuild
  <2>1. BuildFails(domain) # {} /\ Fail(BuildChecks[Min(BuildFails(domain))].validity)
        BY <1>4 DEF RefuseBuild
  <2>2. BuildChecks[Min(BuildFails(domain))].validity
          \in {"dependency_mismatch", "sensor_mode_unapproved", "input_invalid"}
        BY <2>1, RefusalValidity
  <2>3. QED
        BY <1>2, <2>1, <2>2, FailKeeps
<1>5. ASSUME Building, domain' = domain, built' = built, Searching' PROVE BuilderInv'
      BY <1>1, <1>5 DEF BuilderInv, EnvelopeCoversMotion
<1>6. ASSUME Building
      PROVE  WellFormed(domain) /\ Searching /\ at[1] <= Len(retained)
             /\ (StaysInside <=> Inside(Parent, Motion))
      BY <1>2, <1>3, <1>6, InsideIsStaying DEF Building
<1>7. CASE SkipMotion
  <2>1. Building /\ ~StaysInside /\ Onward /\ domain' = domain /\ retained' = retained /\ built' = built
        BY <1>7 DEF SkipMotion
  <2>2. Searching'
        BY <1>6, <2>1, MovesOn
  <2>3. QED
        BY <1>5, <2>1, <2>2
<1>8. CASE LeaveOut
  <2>1. /\ Building /\ Covered(Cut(Made)) /\ Onward
        /\ domain' = domain /\ retained' = retained /\ built' = built
        BY <1>8 DEF LeaveOut
  <2>2. \E j \in DOMAIN retained : SetContains(retained[j], Cut(Made))
        BY <2>1 DEF Covered, Kept
  <2>3. Searching'
        BY <1>6, <2>1, <2>2, MovesOn
  <2>4. QED
        BY <1>5, <2>1, <2>3
<1>9. CASE Retain
  <2>1. Building /\ StaysInside
        BY <1>9 DEF Retain
  <2>2. CASE Fail("resource_limit_exceeded")
        BY <1>2, <2>2, FailKeeps
  <2>3. CASE /\ retained' = Append(retained, Cut(Made)) /\ Onward
             /\ domain' = domain /\ built' = built
    <3>1. Searching'
          BY <1>6, <2>1, <2>3, Retains
    <3>2. QED
          BY <1>5, <2>1, <2>3, <3>1
  <2>4. QED
        BY <1>9, <2>2, <2>3 DEF Retain
<1>10. CASE Certify
  <2>1. WellFormed(domain) /\ Searching /\ at[1] > Len(retained)
        BY <1>2, <1>3, <1>10 DEF Certify
  <2>2. CASE Fail("resource_limit_exceeded")
        BY <1>2, <2>2, FailKeeps
  <2>3. CASE /\ built' = [validity |-> "valid",
                          segments |-> [i \in 1..SegmentCount(domain) |-> Segment(domain, retained, i)]]
             /\ domain' = domain
    <3>1. built' \in BuiltEnvelopes /\ EnvelopeCoversMotion'
          BY <2>1, <2>3, CertifiedCovers
    <3>2. built' # NotBuilt
          BY <3>1, NotBuiltAssumption
    <3>3. QED
          BY <1>2, <2>3, <3>1, <3>2 DEF BuilderInv
  <2>4. QED
        BY <1>10, <2>2, <2>3 DEF Certify
<1>11. CASE UNCHANGED builderVars
  <2>1. domain' = domain /\ retained' = retained /\ at' = at /\ built' = built
        BY <1>11 DEF builderVars
  <2>2. Searching => Searching'
        BY <2>1 DEF Searching, Followed, Tried, WellMade, Inside
  <2>3. QED
        BY <1>1, <2>1, <2>2 DEF BuilderInv, EnvelopeCoversMotion
<1>12. QED
       BY <1>1, <1>4, <1>7, <1>8, <1>9, <1>10, <1>11 DEF BuilderNext

\* A certified envelope bounds every motion of its domain, for any domains, bins, motions
\* and any decay and growth that keep the order: no set that is left out, and no cut,
\* loses a motion.
THEOREM EnvelopesCoverMotion == BuilderSpec => []EnvelopeCoversMotion
<1>1. BuilderInv => EnvelopeCoversMotion
      BY DEF BuilderInv
<1>2. QED
      BY <1>1, BuilderStarts, BuilderKept, PTL DEF BuilderSpec
=============================================================================
