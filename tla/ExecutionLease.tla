--------------------------- MODULE ExecutionLease ---------------------------
(***************************************************************************)
(* ExecutionLeaseMonitor (execution_lease_monitor.cpp): the object that    *)
(* turns a plan, a lease and one feedback sample into an authorization, or *)
(* into a revocation of the lease.  It is called from the feedback path    *)
(* (evaluate) and from the planning loop and the safety supervisor         *)
(* (revokeLease, isRevoked), so every call is split here at its critical   *)
(* sections: isRevoked takes the mutex, the watermark block takes it       *)
(* again, and revokeLease takes it a third time.                           *)
(*                                                                         *)
(* The monitor owns no clock.  Expiry, feedback age, dependency versions,  *)
(* profile shape and finiteness are predicates of a call's arguments that  *)
(* no other step reads, so whether they hold is decided at the step that   *)
(* tests them; likewise whether the sample stays inside the tracking       *)
(* bounds.                                                                 *)
(***************************************************************************)
EXTENDS Integers, FiniteSets

CONSTANTS
  Threads,      \* callers of evaluate
  MaxPlan,      \* plan sequence numbers are 0..MaxPlan, 0 is "unset"
  MaxLease,     \* lease sequence numbers are 0..MaxLease, 0 is "unset"
  MaxFeedback,  \* feedback sequence numbers are 0..MaxFeedback, 0 is "unset"
  Profiles,     \* execution profile contents, as told apart by the fingerprint
  LeasePlan,    \* the plan each lease was issued for
  Calls,        \* the calls of evaluate that callers make
  NoProfile,    \* fingerprint_set = false
  NoCall        \* a thread outside evaluate

VARIABLES
  highestPlan,   \* highest_plan_sequence_
  highestLease,  \* highest_lease_sequence_
  observations,  \* observations_: lease -> profile fingerprint, last feedback
  revoked,       \* revoked_
  pc,            \* where each caller is inside evaluateAt
  call,          \* the arguments of each caller's evaluation
  doomed,        \* history: was the lease revoked when the call was made?
  latest,        \* history: the last evaluation the watermark block accepted
  grants         \* history: every <<lease, profile>> reported authorized

monitorVars == <<highestPlan, highestLease, observations, revoked>>
callVars == <<pc, call, doomed>>
vars == <<highestPlan, highestLease, observations, revoked, pc, call, doomed,
          latest, grants>>

Plans == 0..MaxPlan
LeaseSeqs == 0..MaxLease
Feedbacks == 0..MaxFeedback

Observation == [profile : Profiles \cup {NoProfile}, feedback : Feedbacks]

\* The arguments of one evaluation.
Call == [plan : Plans, lease : LeaseSeqs, profile : Profiles,
         feedback : Feedbacks]

ASSUME BoundsAssumption ==
  /\ MaxPlan \in Nat
  /\ MaxLease \in Nat
  /\ MaxFeedback \in Nat
  /\ LeasePlan \in [0..MaxLease -> 0..MaxPlan]
  /\ NoProfile \notin Profiles
  /\ Calls \subseteq Call

Outcomes == {"granted", "rejected"}

Larger(a, b) == IF a < b THEN b ELSE a

Init ==
  /\ highestPlan = 0
  /\ highestLease = 0
  /\ observations = [s \in LeaseSeqs |-> [profile |-> NoProfile, feedback |-> 0]]
  /\ revoked = {}
  /\ pc = [t \in Threads |-> "idle"]
  /\ call = [t \in Threads |-> NoCall]
  /\ doomed = [t \in Threads |-> FALSE]
  /\ latest = [plan |-> 0, lease |-> 0, feedback |-> 0]
  /\ grants = {}

-----------------------------------------------------------------------------
(* Faults the runs must notice: a test that is not made, a refusal that     *)
(* forgets to revoke, type confusion of the unset sequence.                 *)

NoTest(c) == TRUE
ForgottenRevocation(s) == revoked
RevokedUnset(s) == revoked \cup {s}

-----------------------------------------------------------------------------
(* The tests of evaluateAt                                                 *)

\* PLAN_LEASE_MISMATCH: unset sequences, or a lease issued for another plan.
Paired(c) == c.lease # 0 /\ c.plan # 0 /\ LeasePlan[c.lease] = c.plan

\* isRevoked, tested after the pairing and before the checks on time and content.
NotRevoked(c) == c.lease \notin revoked

\* The four tests of the watermark block.
InPlanOrder(c) == c.plan >= highestPlan
InLeaseOrder(c) == c.lease >= highestLease
SameProfile(c) ==
  observations[c.lease].profile \in {NoProfile, c.profile}
InFeedbackOrder(c) ==
  c.feedback = 0 \/ c.feedback >= observations[c.lease].feedback

Supersedes(c) ==
  InPlanOrder(c) /\ InLeaseOrder(c) /\ SameProfile(c) /\ InFeedbackOrder(c)

\* revokeLease(0) returns at once; revoking twice keeps the first reason.
WithRevoked(s) == IF s = 0 THEN revoked ELSE revoked \cup {s}

-----------------------------------------------------------------------------
(* One evaluation, step by step                                            *)

\* A caller enters evaluate.
Invoke(t) ==
  /\ pc[t] = "idle"
  /\ \E c \in Calls :
       /\ call' = [call EXCEPT ![t] = c]
       /\ doomed' = [doomed EXCEPT ![t] = c.lease \in revoked]
  /\ pc' = [pc EXCEPT ![t] = "called"]
  /\ UNCHANGED <<monitorVars, latest, grants>>

\* Pairing, isRevoked (its own critical section), and the checks on the
\* arguments alone, all of them passed.
Check(t) ==
  /\ pc[t] = "called"
  /\ Paired(call[t])
  /\ NotRevoked(call[t])
  /\ pc' = [pc EXCEPT ![t] = "checked"]
  /\ UNCHANGED <<monitorVars, call, doomed, latest, grants>>

\* One of them failed.  The checks on time, feedback age, dependencies, profile
\* and finiteness may fail for any arguments.
FailCheck(t) ==
  /\ pc[t] = "called"
  /\ pc' = [pc EXCEPT ![t] = "rejecting"]
  /\ UNCHANGED <<monitorVars, call, doomed, latest, grants>>

\* The watermark block, accepting: the watermarks move whatever the tracking
\* test that follows it will say.
Accept(t) ==
  /\ pc[t] = "checked"
  /\ Supersedes(call[t])
  /\ LET c == call[t] IN
       /\ highestPlan' = Larger(highestPlan, c.plan)
       /\ highestLease' = Larger(highestLease, c.lease)
       /\ observations' = [observations EXCEPT ![c.lease] =
            [profile |-> c.profile, feedback |-> Larger(@.feedback, c.feedback)]]
       /\ latest' = [plan |-> c.plan, lease |-> c.lease, feedback |-> c.feedback]
  /\ pc' = [pc EXCEPT ![t] = "accepted"]
  /\ UNCHANGED <<revoked, call, doomed, grants>>

\* The watermark block, refusing an older plan, lease or sample or a changed profile.
Refuse(t) ==
  /\ pc[t] = "checked"
  /\ ~Supersedes(call[t])
  /\ pc' = [pc EXCEPT ![t] = "rejecting"]
  /\ UNCHANGED <<monitorVars, call, doomed, latest, grants>>

\* The tracking test holds: authorized, or renewal_required inside the margin.
Grant(t) ==
  /\ pc[t] = "accepted"
  /\ pc' = [pc EXCEPT ![t] = "granted"]
  /\ grants' = grants \cup {<<call[t].lease, call[t].profile>>}
  /\ UNCHANGED <<monitorVars, call, doomed, latest>>

\* The measured sample left the bounds of the profile or of the lease.
Breach(t) ==
  /\ pc[t] = "accepted"
  /\ pc' = [pc EXCEPT ![t] = "rejecting"]
  /\ UNCHANGED <<monitorVars, call, doomed, latest, grants>>

\* reject(): revokeLease, then return revoke_and_controlled_stop.
Reject(t) ==
  /\ pc[t] = "rejecting"
  /\ revoked' = WithRevoked(call[t].lease)
  /\ pc' = [pc EXCEPT ![t] = "rejected"]
  /\ UNCHANGED <<highestPlan, highestLease, observations, call, doomed, latest,
                 grants>>

\* The caller has the answer.
Return(t) ==
  /\ pc[t] \in Outcomes
  /\ pc' = [pc EXCEPT ![t] = "idle"]
  /\ call' = [call EXCEPT ![t] = NoCall]
  /\ doomed' = [doomed EXCEPT ![t] = FALSE]
  /\ UNCHANGED <<monitorVars, latest, grants>>

\* revokeLease, called by the planning loop or the safety supervisor.
RevokeLease(s) ==
  /\ revoked' = WithRevoked(s)
  /\ UNCHANGED <<highestPlan, highestLease, observations, pc, call, doomed,
                 latest, grants>>

Evaluate(t) ==
  \/ Invoke(t) \/ Check(t) \/ FailCheck(t) \/ Accept(t) \/ Refuse(t)
  \/ Grant(t) \/ Breach(t) \/ Reject(t) \/ Return(t)

Next ==
  \/ \E t \in Threads : Evaluate(t)
  \/ \E s \in LeaseSeqs : RevokeLease(s)

Spec == Init /\ [][Next]_vars

-----------------------------------------------------------------------------
(* Properties                                                              *)

InCall(t) == pc[t] # "idle"

\* Every variable stays in its domain, and a thread has arguments exactly
\* while it is inside evaluate.
TypeOK ==
  /\ highestPlan \in Plans
  /\ highestLease \in LeaseSeqs
  /\ observations \in [LeaseSeqs -> Observation]
  /\ revoked \subseteq LeaseSeqs \ {0}
  /\ pc \in [Threads -> {"idle", "called", "checked", "accepted", "rejecting",
                         "granted", "rejected"}]
  /\ call \in [Threads -> Calls \cup {NoCall}]
  /\ \A t \in Threads : InCall(t) => call[t] \in Calls
  /\ doomed \in [Threads -> BOOLEAN]
  /\ latest \in [plan : Plans, lease : LeaseSeqs, feedback : Feedbacks]
  /\ grants \subseteq LeaseSeqs \X Profiles

\* revokeLease's contract for calls that do not overlap: an evaluation that is
\* invoked after its lease was revoked never passes the monitor, however old the
\* sample it carries and whatever other evaluations do meanwhile.
RevokedBeforeCallNeverGranted ==
  \A t \in Threads : doomed[t] => pc[t] \notin {"checked", "accepted", "granted"}

\* One lease authorizes one execution profile: all authorizations ever reported
\* under a lease carry the same profile content, also those of callers that
\* raced each other through the watermark block.
OneProfilePerLease ==
  \A g, h \in grants : g[1] = h[1] => g[2] = h[2]

\* A refusal reaches its caller only once the lease is dead for everybody: no
\* caller can be told "revoke and stop" while another can still be granted a
\* new evaluation of the same lease.
RefusalIsRevocation ==
  \A t \in Threads :
    pc[t] = "rejected" => call[t].lease = 0 \/ call[t].lease \in revoked

\* An older plan, lease or sample never supersedes a newer accepted one: what
\* passes the watermark block never goes backwards, in whatever order concurrent
\* evaluations reach it (feedback sequence 0 means "not numbered").
AcceptedOrder ==
  [][/\ latest'.plan >= latest.plan
     /\ latest'.lease >= latest.lease
     /\ latest'.lease = latest.lease /\ latest'.feedback # 0
          => latest'.feedback >= latest.feedback]_latest

\* The claim of the header, "Once revoked, a lease sequence cannot be accepted
\* again, even if a delayed feedback message arrives": no evaluation passes the
\* watermark block while its lease is revoked.
RevokedNeverAccepted ==
  [][\A t \in Threads :
       pc[t] = "checked" /\ pc'[t] = "accepted" => call[t].lease \notin revoked]_vars
=============================================================================
