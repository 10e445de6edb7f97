-------------------------- MODULE MCExecutionLease --------------------------
(* Instance of ExecutionLease for TLC: two callers, two plans, three leases, *)
(* of which the second renews plan 1 and the third belongs to plan 2.        *)
EXTENDS ExecutionLease, TLC

MCLeasePlan == [s \in 0..MaxLease |-> IF s < MaxLease THEN 1 ELSE 2]

\* Two numbered samples and an unnumbered one under the first lease, one sample
\* under each later lease, and an unset and a mispaired lease.
MCCalls ==
  {c \in Call : Paired(c) /\ (c.lease = 1 \/ c.feedback = 1)} \cup
  {c \in Call : ~Paired(c) /\ c.plan = 2 /\ c.lease < 2 /\ c.feedback = 0}

Symmetry == Permutations(Threads) \cup Permutations(Profiles)
=============================================================================
