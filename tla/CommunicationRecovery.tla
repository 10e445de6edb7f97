------------------------ MODULE CommunicationRecovery ------------------------
(***************************************************************************)
(* CommunicationRecoveryGate (communication_recovery.cpp) over a message   *)
(* gate that keeps receiving.  Both functions ask the gate for one         *)
(* watermark at a time, each under the gate's own mutex, so messages       *)
(* arrive between two readings.                                            *)
(*                                                                         *)
(* Abstracted: the synchronized inputs, the plan and the lease of a call   *)
(* are the sequence number they hold for each stream (the context), which  *)
(* is chosen when it is compared; whether the authorization is valid (the  *)
(* lease above the one at the boundary, alive, confirmed by the execution  *)
(* monitor) is one choice.                                                 *)
(***************************************************************************)
EXTENDS MessageGate, Sequences

CONSTANTS
  Required     \* required_recovery_streams, in order

ASSUME RequiredAssumption == Required \in Seq(Streams) \ {<<>>}

VARIABLES
  recovering,  \* recovering_
  restoredAt,  \* restored_at_
  baseline,    \* baselines_
  step,        \* what the running call is reading
  next,        \* index of the stream it reads next
  context,     \* sequence numbers the caller of evaluate holds, 0 before compared
  result,      \* status of the last evaluate
  before       \* history: what had been handed over when the baseline was begun

recoveryVars == <<recovering, restoredAt, baseline, step, next, context,
                  result, before>>
communicationVars == <<gateVars, linkVars, recoveryVars>>

RequiredStreams == {Required[i] : i \in DOMAIN Required}
Steps == {"idle", "baselines", "advanced", "matching"}
Statuses == {"none", "awaiting_resynchronization", "context_mismatch",
             "authorization_invalid", "authorized"}
Numbers == UNION {0..LastSeq[s] : s \in RequiredStreams}
Contexts == [RequiredStreams -> Numbers]

CommunicationInit ==
  /\ GateInit
  /\ recovering = FALSE
  /\ restoredAt = 0
  /\ baseline = [s \in RequiredStreams |-> Nothing]
  /\ step = "idle"
  /\ next = 1
  /\ context = [s \in RequiredStreams |-> 0]
  /\ result = "none"
  /\ before = [s \in RequiredStreams |-> {}]

-----------------------------------------------------------------------------
(* Faults the runs must notice                                             *)

AnyProgress(s) == watermark[s] # Nothing

-----------------------------------------------------------------------------
(* begin_resynchronization                                                 *)

BeginResynchronization ==
  /\ step = "idle"
  /\ recovering' = TRUE
  /\ restoredAt' = linkClock
  /\ step' = "baselines"
  /\ next' = 1
  /\ result' = "none"
  /\ before' = [s \in RequiredStreams |-> ready[s]]
  /\ UNCHANGED <<baseline, context>>

ReadBaseline ==
  /\ step = "baselines"
  /\ baseline' = [baseline EXCEPT ![Required[next]] = watermark[Required[next]]]
  /\ next' = next + 1
  /\ step' = IF next = Len(Required) THEN "idle" ELSE "baselines"
  /\ UNCHANGED <<recovering, restoredAt, context, result, before>>

-----------------------------------------------------------------------------
(* evaluate                                                                *)

\* A call before any boundary is refused; one at a time before the boundary too.
BeginEvaluate ==
  /\ step = "idle"
  /\ recovering
  /\ context' = [s \in RequiredStreams |-> 0]
  /\ step' = "advanced"
  /\ next' = 1
  /\ result' = "none"
  /\ UNCHANGED <<recovering, restoredAt, baseline, before>>

Answer(status) == step' = "idle" /\ result' = status

\* The stream has a message from after the restoration and beyond its baseline.
Advanced(s) ==
  /\ watermark[s] # Nothing
  /\ watermark[s].at >= restoredAt
  /\ baseline[s] # Nothing => watermark[s].seq > baseline[s].seq

\* The first pass; one stream that has not advanced decides the answer.
ReadAdvanced ==
  /\ step = "advanced"
  /\ next' = next + 1
  /\ LET s == Required[next] IN
       \/ ~Advanced(s) /\ Answer("awaiting_resynchronization")
       \/ /\ Advanced(s)
          /\ next < Len(Required)
          /\ UNCHANGED <<step, result>>
  /\ UNCHANGED <<recovering, restoredAt, baseline, context, before>>

\* The last stream of the first pass: the second pass begins.
ReadLastAdvanced ==
  /\ step = "advanced"
  /\ next = Len(Required)
  /\ Advanced(Required[next])
  /\ next' = 1
  /\ step' = "matching"
  /\ UNCHANGED <<recovering, restoredAt, baseline, context, result, before>>

\* The second pass reads every watermark again, without the tests of the first.
ReadMatching ==
  /\ step = "matching"
  /\ next' = next + 1
  /\ LET s == Required[next] IN
       \/ Answer("context_mismatch") /\ UNCHANGED context
       \/ /\ context' = [context EXCEPT ![s] = watermark[s].seq]
          /\ \/ next < Len(Required) /\ UNCHANGED <<step, result>>
             \/ /\ next = Len(Required)
                /\ Answer("authorization_invalid") \/ Answer("authorized")
  /\ UNCHANGED <<recovering, restoredAt, baseline, before>>

RecoveryNext ==
  /\ \/ BeginResynchronization \/ ReadBaseline
     \/ BeginEvaluate \/ ReadAdvanced \/ ReadLastAdvanced \/ ReadMatching
  /\ UNCHANGED <<gateVars, linkVars>>

CommunicationNext ==
  \/ (LinkNext \/ GateNext) /\ UNCHANGED recoveryVars
  \/ RecoveryNext

CommunicationSpec == CommunicationInit /\ [][CommunicationNext]_communicationVars

-----------------------------------------------------------------------------
(* Properties                                                              *)

\* The gate and the recovery stay in their domains.
CommunicationTypeOK ==
  /\ GateTypeOK
  /\ recovering \in BOOLEAN
  /\ restoredAt \in Instants
  /\ \A s \in RequiredStreams : baseline[s] \in Message(s) \cup {Nothing}
  /\ step \in Steps
  /\ next \in 1..Len(Required) + 1
  /\ context \in Contexts
  /\ result \in Statuses

\* Communication never recovers on evidence from before the boundary: whatever
\* arrives while baselines and watermarks are read one by one, each stream of the
\* authorized context was handed over after the boundary was begun, and generated
\* after the restoration.
RecoveryOnNewEvidence ==
  result = "authorized" =>
    \A s \in RequiredStreams :
      \E m \in ready[s] \ before[s] : m.seq = context[s] /\ m.at >= restoredAt
=============================================================================
