------------------------ MODULE ExecutionLeaseProofs ------------------------
(***************************************************************************)
(* The safety of ExecutionLease, for every set of callers and every bound. *)
(* The inductive invariant adds to the properties what the callers between *)
(* two critical sections rely on.                                          *)
(***************************************************************************)
EXTENDS ExecutionLease, TLAPS

\* A call made after its lease was revoked stays without hope: the lease is
\* still revoked, and the call did not get past isRevoked.
DoomedCallsFail ==
  \A t \in Threads : doomed[t] =>
    /\ InCall(t)
    /\ call[t].lease \in revoked
    /\ pc[t] \notin {"checked", "accepted", "granted"}

\* Whatever was accepted under a lease has the fingerprint on record for it.
GrantsOnRecord == \A g \in grants : observations[g[1]].profile = g[2]

AcceptedOnRecord ==
  \A t \in Threads : pc[t] \in {"accepted", "granted"} =>
    observations[call[t].lease].profile = call[t].profile

\* The last accepted evaluation is not above the watermarks it left.
LatestUnderWatermarks ==
  /\ latest.plan <= highestPlan
  /\ latest.lease <= highestLease
  /\ latest.feedback <= observations[latest.lease].feedback

IInv ==
  /\ TypeOK
  /\ DoomedCallsFail
  /\ GrantsOnRecord
  /\ AcceptedOnRecord
  /\ RefusalIsRevocation
  /\ LatestUnderWatermarks

-----------------------------------------------------------------------------
(* Lemmas about the arguments and the tests of a call                      *)

\* The fields of a call.
LEMMA CallTyped ==
  ASSUME NEW c \in Calls
  PROVE  /\ c.plan \in Plans /\ c.lease \in LeaseSeqs
         /\ c.profile \in Profiles /\ c.feedback \in Feedbacks
BY BoundsAssumption DEF Call

\* The larger of two numbers is one of them and at least both.
LEMMA LargerFacts ==
  ASSUME NEW a \in Nat, NEW b \in Nat
  PROVE  /\ Larger(a, b) \in {a, b}
         /\ Larger(a, b) >= a /\ Larger(a, b) >= b
BY DEF Larger

\* A revocation never shrinks the set of revoked leases and never adds lease 0.
LEMMA WithRevokedFacts ==
  ASSUME revoked \subseteq LeaseSeqs \ {0}, NEW s \in LeaseSeqs
  PROVE  /\ revoked \subseteq WithRevoked(s)
         /\ WithRevoked(s) \subseteq LeaseSeqs \ {0}
         /\ s = 0 \/ s \in WithRevoked(s)
BY DEF WithRevoked

-----------------------------------------------------------------------------
(* Type correctness                                                        *)

\* The monitor starts well typed.
LEMMA InitTypeOK == Init => TypeOK
BY BoundsAssumption
   DEF Init, TypeOK, Plans, LeaseSeqs, Feedbacks, Observation, InCall

\* Every critical section of every call keeps the types.
LEMMA StepTypeOK == TypeOK /\ [Next]_vars => TypeOK'
<1> SUFFICES ASSUME TypeOK, [Next]_vars PROVE TypeOK'
    OBVIOUS
<1> USE DEF TypeOK, InCall
<1>1. ASSUME NEW t \in Threads, Invoke(t) PROVE TypeOK'
      BY <1>1 DEF Invoke, monitorVars
<1>2. ASSUME NEW t \in Threads, Check(t) PROVE TypeOK'
      BY <1>2 DEF Check, monitorVars
<1>3. ASSUME NEW t \in Threads, FailCheck(t) PROVE TypeOK'
      BY <1>3 DEF FailCheck, monitorVars
<1>4. ASSUME NEW t \in Threads, Accept(t) PROVE TypeOK'
  <2> DEFINE c == call[t]
  <2>1. c \in Calls
        BY <1>4 DEF Accept
  <2>2. /\ c.plan \in Plans /\ c.lease \in LeaseSeqs
        /\ c.profile \in Profiles /\ c.feedback \in Feedbacks
        BY <2>1, CallTyped
  <2>3. observations[c.lease].feedback \in Feedbacks
        BY <2>2 DEF Observation
  <2>4. /\ Larger(highestPlan, c.plan) \in Plans
        /\ Larger(highestLease, c.lease) \in LeaseSeqs
        /\ Larger(observations[c.lease].feedback, c.feedback) \in Feedbacks
        BY <2>2, <2>3 DEF Larger
  <2>5. highestPlan' \in Plans /\ highestLease' \in LeaseSeqs
        BY <1>4, <2>4 DEF Accept
  <2>6. observations' \in [LeaseSeqs -> Observation]
        BY <1>4, <2>2, <2>4 DEF Accept, Observation
  <2>7. latest' \in [plan : Plans, lease : LeaseSeqs, feedback : Feedbacks]
        BY <1>4, <2>2 DEF Accept
  <2>8. QED
        BY <1>4, <2>5, <2>6, <2>7 DEF Accept
<1>5. ASSUME NEW t \in Threads, Refuse(t) PROVE TypeOK'
      BY <1>5 DEF Refuse, monitorVars
<1>6. ASSUME NEW t \in Threads, Grant(t) PROVE TypeOK'
  <2>1. call[t] \in Calls
        BY <1>6 DEF Grant
  <2>2. <<call[t].lease, call[t].profile>> \in LeaseSeqs \X Profiles
        BY <2>1, CallTyped
  <2>3. QED
        BY <1>6, <2>2 DEF Grant, monitorVars
<1>7. ASSUME NEW t \in Threads, Breach(t) PROVE TypeOK'
      BY <1>7 DEF Breach, monitorVars
<1>8. ASSUME NEW t \in Threads, Reject(t) PROVE TypeOK'
  <2>1. call[t].lease \in LeaseSeqs
        BY <1>8, CallTyped DEF Reject
  <2>2. revoked' \subseteq LeaseSeqs \ {0}
        BY <1>8, <2>1, WithRevokedFacts DEF Reject
  <2>3. QED
        BY <1>8, <2>2 DEF Reject
<1>9. ASSUME NEW t \in Threads, Return(t) PROVE TypeOK'
      BY <1>9 DEF Return, monitorVars, Outcomes
<1>10. ASSUME NEW s \in LeaseSeqs, RevokeLease(s) PROVE TypeOK'
  <2>1. revoked' \subseteq LeaseSeqs \ {0}
        BY <1>10, WithRevokedFacts DEF RevokeLease
  <2>2. QED
        BY <1>10, <2>1 DEF RevokeLease
<1>11. CASE UNCHANGED vars
       BY <1>11 DEF vars
<1>12. QED
       BY <1>1, <1>2, <1>3, <1>4, <1>5, <1>6, <1>7, <1>8, <1>9, <1>10, <1>11
       DEF Next, Evaluate

\* Every variable of the monitor and of its callers stays in its domain.
THEOREM TypeCorrect == Spec => []TypeOK
BY InitTypeOK, StepTypeOK, PTL DEF Spec

-----------------------------------------------------------------------------
(* The inductive invariant                                                 *)

\* The monitor starts within the invariant.
LEMMA InitIInv == Init => IInv
<1> SUFFICES ASSUME Init PROVE IInv
    OBVIOUS
<1>1. TypeOK
      BY InitTypeOK
<1>2. DoomedCallsFail /\ AcceptedOnRecord /\ RefusalIsRevocation
      BY DEF Init, DoomedCallsFail, AcceptedOnRecord, RefusalIsRevocation
<1>3. GrantsOnRecord
      BY DEF Init, GrantsOnRecord
<1>4. LatestUnderWatermarks
      BY BoundsAssumption DEF Init, LatestUnderWatermarks, LeaseSeqs
<1>5. QED
      BY <1>1, <1>2, <1>3, <1>4 DEF IInv

\* What the watermark block does to the watermarks: no recorded profile changes,
\* no recorded sample goes back, and the accepted call is what is now on record.
LEMMA AcceptEffect ==
  ASSUME TypeOK, NEW t \in Threads, Accept(t)
  PROVE  /\ call[t].lease \in LeaseSeqs /\ call[t].profile \in Profiles
         /\ \A s \in LeaseSeqs :
              /\ observations[s].profile \in Profiles =>
                   observations'[s].profile = observations[s].profile
              /\ observations'[s].feedback >= observations[s].feedback
         /\ observations'[call[t].lease].profile = call[t].profile
         /\ LatestUnderWatermarks'
<1> DEFINE c == call[t]
<1>1. c \in Calls
      BY DEF Accept, TypeOK, InCall
<1>2. /\ c.plan \in Plans /\ c.lease \in LeaseSeqs
      /\ c.profile \in Profiles /\ c.feedback \in Feedbacks
      BY <1>1, CallTyped
<1>3. /\ observations \in [LeaseSeqs -> Observation]
      /\ highestPlan \in Plans /\ highestLease \in LeaseSeqs
      BY DEF TypeOK
<1>4. \A s \in LeaseSeqs : observations[s].feedback \in Feedbacks
      BY <1>3 DEF Observation
<1>5. observations' =
        [observations EXCEPT ![c.lease] =
           [profile |-> c.profile,
            feedback |-> Larger(observations[c.lease].feedback, c.feedback)]]
      BY <1>2, <1>3 DEF Accept
<1>6. LET f == Larger(observations[c.lease].feedback, c.feedback)
      IN  f >= c.feedback /\ f >= observations[c.lease].feedback
      BY <1>2, <1>4, LargerFacts DEF Feedbacks
<1>7. observations[c.lease].profile \in {NoProfile, c.profile}
      BY DEF Accept, Supersedes, SameProfile
<1>8. ASSUME NEW s \in LeaseSeqs
      PROVE  /\ observations[s].profile \in Profiles =>
                  observations'[s].profile = observations[s].profile
             /\ observations'[s].feedback >= observations[s].feedback
  <2>1. CASE s = c.lease
        BY <2>1, <1>3, <1>5, <1>6, <1>7, BoundsAssumption
  <2>2. CASE s # c.lease
        BY <2>2, <1>3, <1>4, <1>5 DEF Feedbacks
  <2>3. QED
        BY <2>1, <2>2
<1>9. /\ observations'[c.lease].profile = c.profile
      /\ observations'[c.lease].feedback >= c.feedback
      BY <1>2, <1>3, <1>5, <1>6
<1>10. /\ latest' = [plan |-> c.plan, lease |-> c.lease, feedback |-> c.feedback]
       /\ highestPlan' = Larger(highestPlan, c.plan)
       /\ highestLease' = Larger(highestLease, c.lease)
       BY DEF Accept
<1>11. highestPlan' >= c.plan /\ highestLease' >= c.lease
       BY <1>2, <1>3, <1>10 DEF Larger, Plans, LeaseSeqs
<1>12. LatestUnderWatermarks'
       BY <1>2, <1>9, <1>10, <1>11
          DEF LatestUnderWatermarks, Plans, LeaseSeqs, Feedbacks
<1>13. QED
       BY <1>2, <1>8, <1>9, <1>12

\* Passing the watermark block keeps the invariant.
LEMMA AcceptIInv ==
  ASSUME IInv, TypeOK', NEW t \in Threads, Accept(t)
  PROVE  IInv'
<1> DEFINE c == call[t]
<1>t. TypeOK
      BY DEF IInv
<1>1. /\ c.lease \in LeaseSeqs /\ c.profile \in Profiles
      /\ \A s \in LeaseSeqs :
           observations[s].profile \in Profiles =>
             observations'[s].profile = observations[s].profile
      /\ observations'[c.lease].profile = c.profile
      /\ LatestUnderWatermarks'
      BY <1>t, AcceptEffect
<1>2. /\ UNCHANGED <<revoked, call, doomed, grants>>
      /\ pc[t] = "checked" /\ pc' = [pc EXCEPT ![t] = "accepted"]
      BY DEF Accept
<1>3. DoomedCallsFail'
      BY <1>2, <1>t DEF IInv, DoomedCallsFail, TypeOK, InCall
<1>4. GrantsOnRecord'
  <2> SUFFICES ASSUME NEW g \in grants PROVE observations'[g[1]].profile = g[2]
      BY <1>2 DEF GrantsOnRecord
  <2>1. g[1] \in LeaseSeqs /\ g[2] \in Profiles
        BY <1>t DEF TypeOK
  <2>2. QED
        BY <2>1, <1>1 DEF IInv, GrantsOnRecord
<1>5. AcceptedOnRecord'
  <2> SUFFICES ASSUME NEW u \in Threads, pc'[u] \in {"accepted", "granted"}
               PROVE  observations'[call[u].lease].profile = call[u].profile
      BY <1>2 DEF AcceptedOnRecord
  <2>1. CASE u = t
        BY <2>1, <1>1
  <2>2. CASE u # t
    <3>1. pc[u] \in {"accepted", "granted"} /\ InCall(u)
          BY <2>2, <1>2, <1>t DEF TypeOK, InCall
    <3>2. call[u].lease \in LeaseSeqs /\ call[u].profile \in Profiles
          BY <3>1, <1>t, CallTyped DEF TypeOK
    <3>3. QED
          BY <3>1, <3>2, <1>1 DEF IInv, AcceptedOnRecord
  <2>3. QED
        BY <2>1, <2>2
<1>6. RefusalIsRevocation'
      BY <1>2, <1>t DEF IInv, RefusalIsRevocation, TypeOK
<1>7. QED
      BY <1>1, <1>3, <1>4, <1>5, <1>6 DEF IInv

\* Every other step leaves the watermarks alone and only adds revocations.
LEMMA StepIInv == IInv /\ [Next]_vars => IInv'
<1> SUFFICES ASSUME IInv, [Next]_vars PROVE IInv'
    OBVIOUS
<1>t. TypeOK /\ TypeOK'
      BY StepTypeOK DEF IInv
<1> USE DEF IInv, DoomedCallsFail, AcceptedOnRecord, RefusalIsRevocation,
            GrantsOnRecord, LatestUnderWatermarks, InCall, monitorVars
<1>1. ASSUME NEW t \in Threads, Invoke(t) PROVE IInv'
      BY <1>1, <1>t DEF Invoke, TypeOK
<1>2. ASSUME NEW t \in Threads, Check(t) PROVE IInv'
      BY <1>2, <1>t DEF Check, TypeOK, NotRevoked
<1>3. ASSUME NEW t \in Threads, FailCheck(t) PROVE IInv'
      BY <1>3, <1>t DEF FailCheck, TypeOK
<1>4. ASSUME NEW t \in Threads, Refuse(t) PROVE IInv'
      BY <1>4, <1>t DEF Refuse, TypeOK
<1>5. ASSUME NEW t \in Threads, Breach(t) PROVE IInv'
      BY <1>5, <1>t DEF Breach, TypeOK
<1>6. ASSUME NEW t \in Threads, Return(t) PROVE IInv'
      BY <1>6, <1>t DEF Return, TypeOK, Outcomes
<1>7. ASSUME NEW t \in Threads, Grant(t) PROVE IInv'
  <2>1. GrantsOnRecord'
        BY <1>7, <1>t DEF Grant, TypeOK
  <2>2. QED
        BY <1>7, <1>t, <2>1 DEF Grant, TypeOK
<1>8. ASSUME NEW t \in Threads, Reject(t) PROVE IInv'
  <2>1. call[t].lease \in LeaseSeqs
        BY <1>8, <1>t, CallTyped DEF Reject, TypeOK
  <2>2. /\ revoked \subseteq revoked'
        /\ call[t].lease = 0 \/ call[t].lease \in revoked'
        BY <1>8, <1>t, <2>1, WithRevokedFacts DEF Reject, TypeOK
  <2>3. QED
        BY <1>8, <1>t, <2>2 DEF Reject, TypeOK
<1>9. ASSUME NEW s \in LeaseSeqs, RevokeLease(s) PROVE IInv'
  <2>1. revoked \subseteq revoked'
        BY <1>9, <1>t, WithRevokedFacts DEF RevokeLease, TypeOK
  <2>2. QED
        BY <1>9, <1>t, <2>1 DEF RevokeLease, TypeOK
<1>10. CASE UNCHANGED vars
       BY <1>10, <1>t DEF vars
<1>11. ASSUME NEW t \in Threads, Accept(t) PROVE IInv'
       BY <1>11, <1>t, AcceptIInv
<1>12. QED
       BY <1>1, <1>2, <1>3, <1>4, <1>5, <1>6, <1>7, <1>8, <1>9, <1>10, <1>11
       DEF Next, Evaluate

\* Every reachable state satisfies the inductive invariant.
THEOREM Invariance == Spec => []IInv
BY InitIInv, StepIInv, PTL DEF Spec

-----------------------------------------------------------------------------
(* The properties of ExecutionLease                                        *)

\* An evaluation made after its lease was revoked never passes the monitor.
THEOREM RevokedBeforeCall == Spec => []RevokedBeforeCallNeverGranted
<1>1. IInv => RevokedBeforeCallNeverGranted
      BY DEF IInv, DoomedCallsFail, RevokedBeforeCallNeverGranted
<1>2. QED
      BY <1>1, Invariance, PTL

\* All authorizations reported under a lease carry one execution profile.
THEOREM ProfileOfLease == Spec => []OneProfilePerLease
<1>1. IInv => OneProfilePerLease
      BY DEF IInv, GrantsOnRecord, OneProfilePerLease
<1>2. QED
      BY <1>1, Invariance, PTL

\* A caller that is told to revoke and stop finds the lease revoked for everybody.
THEOREM RefusalRevokes == Spec => []RefusalIsRevocation
<1>1. IInv => RefusalIsRevocation
      BY DEF IInv
<1>2. QED
      BY <1>1, Invariance, PTL

\* What passes the watermark block never goes backwards.
THEOREM AcceptedOrderHolds == Spec => AcceptedOrder
<1> DEFINE Ordered ==
      /\ latest'.plan >= latest.plan
      /\ latest'.lease >= latest.lease
      /\ latest'.lease = latest.lease /\ latest'.feedback # 0
           => latest'.feedback >= latest.feedback
<1>1. IInv /\ [Next]_vars => [Ordered]_latest
  <2> SUFFICES ASSUME IInv, [Next]_vars, latest' # latest PROVE Ordered
      OBVIOUS
  <2>1. PICK t \in Threads : Accept(t)
        BY DEF Next, Evaluate, Invoke, Check, FailCheck, Refuse, Grant, Breach,
               Reject, Return, RevokeLease, vars
  <2> DEFINE c == call[t]
  <2>2. c \in Calls
        BY <2>1 DEF IInv, TypeOK, InCall, Accept
  <2>3. /\ c.plan \in Plans /\ c.lease \in LeaseSeqs /\ c.feedback \in Feedbacks
        BY <2>2, CallTyped
  <2>4. /\ latest' = [plan |-> c.plan, lease |-> c.lease, feedback |-> c.feedback]
        /\ c.plan >= highestPlan /\ c.lease >= highestLease
        /\ c.feedback = 0 \/ c.feedback >= observations[c.lease].feedback
        BY <2>1 DEF Accept, Supersedes, InPlanOrder, InLeaseOrder, InFeedbackOrder
  <2>5. /\ latest.plan \in Plans /\ latest.lease \in LeaseSeqs
        /\ latest.feedback \in Feedbacks
        /\ highestPlan \in Plans /\ highestLease \in LeaseSeqs
        BY DEF IInv, TypeOK
  <2>6. observations[latest.lease].feedback \in Feedbacks
        BY <2>5 DEF IInv, TypeOK, Observation
  <2>7. /\ latest.plan <= highestPlan /\ latest.lease <= highestLease
        /\ latest.feedback <= observations[latest.lease].feedback
        BY DEF IInv, LatestUnderWatermarks
  <2>8. QED
        BY <2>3, <2>4, <2>5, <2>6, <2>7 DEF Plans, LeaseSeqs, Feedbacks
<1>2. Spec => [][Ordered]_latest
      BY <1>1, Invariance, PTL DEF Spec
<1>3. QED
      BY <1>2 DEF AcceptedOrder
=============================================================================
