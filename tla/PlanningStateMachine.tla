------------------------ MODULE PlanningStateMachine ------------------------
(***************************************************************************)
(* PlanningStateMachine::dispatch (planning_state_machine.cpp): one event  *)
(* and one immutable context in, one decision out.  Ordinary events must   *)
(* arrive in order; safety events are acted on whenever they arrive.       *)
(*                                                                         *)
(* Abstracted: assess_safe_stop to whether the controlled stop is feasible *)
(* (missing or invalid evidence is not), the outage to its class, and the  *)
(* three flags of a RecoveryAuthorization to whether all of them hold.     *)
(***************************************************************************)
EXTENDS Integers, Sequences

CONSTANTS
  MaxEvent,      \* event sequence numbers are 0..MaxEvent, 0 is "unset"
  MaxTime,       \* event times are -1..MaxTime, -1 is invalid
  MaxEvidence,   \* source revisions and lease numbers are 0..MaxEvidence
  MaxMap,        \* map sequence numbers are 0..MaxMap, 0 is "unset"
  Period,        \* planning_period
  FailureLimit,  \* maximum_consecutive_failures
  None           \* std::nullopt

ASSUME BoundsAssumption ==
  /\ {MaxEvent, MaxTime, MaxEvidence, MaxMap} \subseteq Nat
  /\ {Period, FailureLimit} \subseteq Nat \ {0}
  /\ None \notin -1..MaxTime

VARIABLES
  configValid,      \* config_ passes the checks at the top of dispatch
  state,            \* state_
  lastTrigger,      \* last_plan_trigger_at_
  lastEvent,        \* last_event_at_
  highestEvent,     \* highest_event_sequence_
  highestRevision,  \* highest_source_revision_
  highestLease,     \* highest_lease_sequence_
  highestMap,       \* highest_map_sequence_
  failures,         \* consecutive_failures_
  decision,         \* the last PlanningDecision
  emergency         \* history: an emergency stop was requested and not cleared

vars == <<configValid, state, lastTrigger, lastEvent, highestEvent, highestRevision,
          highestLease, highestMap, failures, decision, emergency>>
evidenceVars == <<highestRevision, highestLease>>

-----------------------------------------------------------------------------
(* Events and what they ask for                                            *)

\* Events that stop the robot and leave a state behind: which, and whether the
\* planner is started as well.
Stopping ==
  [reference_line_changed       |-> [state |-> "normal_planning", replan |-> TRUE],
   robot_operating_area_changed |-> [state |-> "normal_planning", replan |-> TRUE],
   robot_state_changed          |-> [state |-> "normal_planning", replan |-> TRUE],
   path_invalidated             |-> [state |-> "normal_planning", replan |-> TRUE],
   lease_invalidated            |-> [state |-> "normal_planning", replan |-> TRUE],
   localization_invalid         |-> [state |-> "input_invalid", replan |-> FALSE],
   covariance_envelope_breached |-> [state |-> "covariance_envelope_breach",
                                     replan |-> FALSE],
   input_invalid                |-> [state |-> "input_invalid", replan |-> FALSE],
   map_expired                  |-> [state |-> "map_expired", replan |-> FALSE]]

\* Failures of the planner that count towards the takeover limit.
Failing ==
  [planning_failed                 |-> "no_solution",
   covariance_solution_unavailable |-> "no_solution_under_covariance_envelope"]

\* Events that let the robot move on new evidence, and stop it without.
Authorizing ==
  [planning_succeeded     |-> [granted |-> "success", refused |-> "input_invalid",
                               action |-> "continue_authorized_path",
                               directives |-> <<"continue_authorized_path">>],
   planning_with_caution  |-> [granted |-> "planning_with_caution",
                               refused |-> "input_invalid",
                               action |-> "reduce_speed",
                               directives |-> <<"switch_to_cautious_profile">>],
   planning_timed_out     |-> [granted |-> "timeout", refused |-> "timeout",
                               action |-> "continue_authorized_path",
                               directives |-> <<"continue_authorized_path">>],
   communication_restored |-> [granted |-> "path_valid",
                               refused |-> "communication_degraded",
                               action |-> "continue_authorized_path",
                               directives |-> <<"continue_authorized_path",
                                                "start_planning">>]]

\* The locked state each release event releases.
Releasing ==
  [manual_control_released |-> "manual_override",
   emergency_stop_cleared  |-> "emergency_stop"]

EmergencyEvents == {"emergency_stop_requested", "critical_system_failure"}

EventTypes ==
  DOMAIN Stopping \cup DOMAIN Failing \cup DOMAIN Authorizing \cup DOMAIN Releasing
  \cup EmergencyEvents
  \cup {"periodic_tick", "new_map", "communication_lost", "waiting_for_map",
        "scout_requested", "lease_renewal_required", "manual_override_requested"}

\* safety_event_overrides_ordering
SafetyEvents ==
  EmergencyEvents \cup
  {"path_invalidated", "communication_lost", "localization_invalid",
   "lease_invalidated", "covariance_envelope_breached", "input_invalid",
   "map_expired"}

States ==
  {"init", "normal_planning", "planning_with_caution", "success", "path_valid",
   "waiting_map", "request_scout", "no_solution",
   "no_solution_under_covariance_envelope", "covariance_envelope_breach",
   "input_invalid", "map_expired", "timeout", "communication_degraded",
   "manual_override", "emergency_stop"}

Locked == {"manual_override", "emergency_stop"}

Event == [type : EventTypes, sequence : 0..MaxEvent, at : -1..MaxTime]
Evidence == [revision : 0..MaxEvidence, lease : 0..MaxEvidence, sound : BOOLEAN]

NoDecision ==
  [event |-> "none", accepted |-> FALSE, action |-> "none", directives |-> <<>>]

Init ==
  /\ configValid \in BOOLEAN
  /\ state = "init"
  /\ lastTrigger = None
  /\ lastEvent = None
  /\ highestEvent = 0
  /\ highestRevision = 0
  /\ highestLease = 0
  /\ highestMap = 0
  /\ failures = 0
  /\ decision = NoDecision
  /\ emergency = FALSE

-----------------------------------------------------------------------------
(* Faults the runs must notice: ordering that delays or ignores safety     *)
(* events, a stop before the revocation, evidence that is not new.         *)

AlwaysNewest(e) == TRUE
NeverPasses(e) == FALSE
AnyEvidence(r) == r.sound
StopBeforeRevoke(feasible) ==
  IF feasible THEN <<"request_controlled_stop", "revoke_current_lease">>
  ELSE <<"request_emergency_stop", "revoke_current_lease">>

-----------------------------------------------------------------------------
(* Admission                                                               *)

\* A safety event is acted on in any order.
OverridesOrdering(e) == e.type \in SafetyEvents

\* Newer in sequence, and not older in time, than everything before.
Newer(e) ==
  /\ e.sequence > highestEvent
  /\ e.at >= 0
  /\ lastEvent # None => e.at >= lastEvent

Admitted(e) == OverridesOrdering(e) \/ Newer(e)

\* Only a newer event moves the watermarks.
MovesWatermark(e) == Newer(e)

Recorded(e) ==
  /\ highestEvent' = IF MovesWatermark(e) THEN e.sequence ELSE highestEvent
  /\ lastEvent' = IF MovesWatermark(e) THEN e.at ELSE lastEvent

\* has_fresh_authorization
Fresh(r) ==
  /\ r.sound
  /\ r.revision > highestRevision
  /\ r.lease > highestLease

\* The context may hold no authorization, or one that is not fresh.
LacksEvidence == \E r \in Evidence \cup {None} : r # None => ~Fresh(r)

\* record_authorization
Consume(r) == highestRevision' = r.revision /\ highestLease' = r.lease

-----------------------------------------------------------------------------
(* Decisions                                                               *)

Decide(e, s, action, directives) ==
  /\ state' = s
  /\ decision' = [event |-> e.type, accepted |-> TRUE, action |-> action,
                  directives |-> directives]
  /\ emergency' = \/ \E i \in DOMAIN directives :
                       directives[i] = "request_emergency_stop"
                  \/ emergency /\ ~(e.type = "emergency_stop_cleared" /\ s \notin Locked)

\* append_urgent_stop: the stop channel depends on the safe-stop evidence.
StopDirectives(feasible) ==
  IF feasible THEN <<"revoke_current_lease", "request_controlled_stop">>
  ELSE <<"revoke_current_lease", "request_emergency_stop">>

UrgentStop(e, s, followUp) ==
  \E feasible \in BOOLEAN :
    Decide(e, IF feasible THEN s ELSE "emergency_stop",
           IF feasible THEN "controlled_stop" ELSE "emergency_stop",
           StopDirectives(feasible) \o followUp)

\* hold_locked_state
Hold(e) ==
  \/ /\ state = "manual_override"
     /\ Decide(e, state, "manual_takeover",
               <<"stop_automatic_planning", "request_manual_takeover">>)
  \/ /\ state = "emergency_stop"
     /\ Decide(e, state, "emergency_stop",
               <<"revoke_current_lease", "request_emergency_stop">>)

\* accepted = false
Reject(e) ==
  /\ decision' = [event |-> e.type, accepted |-> FALSE, action |-> "none",
                  directives |-> <<>>]
  /\ UNCHANGED <<state, lastTrigger, evidenceVars, highestMap, failures, emergency>>

\* An admitted event in a state that lets it through.
Open(e) == configValid /\ Admitted(e) /\ state \notin Locked

-----------------------------------------------------------------------------
(* The branches of dispatch                                                *)

\* Every event of a machine with an unusable configuration stops the robot.
InvalidConfig(e) ==
  /\ ~configValid
  /\ Decide(e, "input_invalid", "emergency_stop",
            <<"revoke_current_lease", "request_emergency_stop">>)
  /\ UNCHANGED <<configValid, lastTrigger, lastEvent, highestEvent, evidenceVars,
                 highestMap, failures>>

RejectUnordered(e) ==
  /\ configValid
  /\ ~Admitted(e)
  /\ Reject(e)
  /\ UNCHANGED <<configValid, lastEvent, highestEvent>>

\* A map event without a map sequence does not even count as seen.
RejectUnsetMap(e) ==
  /\ configValid
  /\ Admitted(e)
  /\ e.type = "new_map"
  /\ Reject(e)
  /\ UNCHANGED <<configValid, lastEvent, highestEvent>>

\* emergency_stop lets nothing but its release through, manual_override nothing
\* but its release and safety events.
HoldLocked(e) ==
  /\ configValid
  /\ Admitted(e)
  /\ \/ state = "emergency_stop" /\ e.type # "emergency_stop_cleared"
     \/ /\ state = "manual_override"
        /\ e.type # "manual_control_released"
        /\ ~OverridesOrdering(e)
  /\ Hold(e)
  /\ Recorded(e)
  /\ UNCHANGED <<configValid, lastTrigger, evidenceVars, highestMap, failures>>

\* A safety event during manual override stops, perhaps into emergency_stop.
StopDuringManual(e) ==
  /\ configValid
  /\ Admitted(e)
  /\ state = "manual_override"
  /\ OverridesOrdering(e)
  /\ e.type \notin EmergencyEvents
  /\ UrgentStop(e, state, <<>>)
  /\ Recorded(e)
  /\ UNCHANGED <<configValid, lastTrigger, evidenceVars, highestMap, failures>>

\* The first tick, while still in init, or a tick a period after the last one
\* that started planning.
Due(e) ==
  \/ state = "init"
  \/ lastTrigger # None /\ e.at - lastTrigger >= Period

PeriodicTick(e) ==
  /\ e.type = "periodic_tick"
  /\ Open(e)
  /\ \/ /\ Due(e)
        /\ Decide(e, "normal_planning", "begin_planning", <<"start_planning">>)
        /\ lastTrigger' = e.at
     \/ /\ ~Due(e)
        /\ Decide(e, state, "none", <<>>)
        /\ UNCHANGED lastTrigger
  /\ Recorded(e)
  /\ UNCHANGED <<configValid, evidenceVars, highestMap, failures>>

NewMap(e) ==
  /\ e.type = "new_map"
  /\ Open(e)
  /\ \E map \in 1..MaxMap :
       \/ /\ map > highestMap
          /\ highestMap' = map
          /\ UrgentStop(e, "normal_planning", <<"start_planning">>)
       \/ /\ map <= highestMap
          /\ UNCHANGED highestMap
          /\ Decide(e, state, "none", <<>>)
  /\ Recorded(e)
  /\ UNCHANGED <<configValid, lastTrigger, evidenceVars, failures>>

StopFor(e) ==
  /\ e.type \in DOMAIN Stopping
  /\ Open(e)
  /\ UrgentStop(e, Stopping[e.type].state,
                IF Stopping[e.type].replan THEN <<"start_planning">> ELSE <<>>)
  /\ Recorded(e)
  /\ UNCHANGED <<configValid, lastTrigger, evidenceVars, highestMap, failures>>

\* A short outage keeps the path under a live lease and an approved sensor mode, a
\* medium one the cautious profile under its lease; any other one stops.
CommunicationLost(e) ==
  /\ e.type = "communication_lost"
  /\ Open(e)
  /\ \/ Decide(e, "communication_degraded", "continue_authorized_path",
               <<"continue_authorized_path">>)
     \/ Decide(e, "communication_degraded", "reduce_speed",
               <<"switch_to_cautious_profile">>)
     \/ UrgentStop(e, "communication_degraded", <<>>)
  /\ Recorded(e)
  /\ UNCHANGED <<configValid, lastTrigger, evidenceVars, highestMap, failures>>

\* Success and caution also end a series of failures.
Authorize(e) ==
  /\ e.type \in DOMAIN Authorizing
  /\ Open(e)
  /\ LET a == Authorizing[e.type] IN
       \/ \E r \in Evidence :
            /\ Fresh(r)
            /\ Consume(r)
            /\ failures' = IF e.type \in {"planning_succeeded", "planning_with_caution"}
                           THEN 0 ELSE failures
            /\ Decide(e, a.granted, a.action, a.directives)
       \/ /\ LacksEvidence
          /\ UrgentStop(e, a.refused, <<>>)
          /\ UNCHANGED <<evidenceVars, failures>>
  /\ Recorded(e)
  /\ UNCHANGED <<configValid, lastTrigger, highestMap>>

\* Waiting for a map or asking for a scout: slowly under a live cautious lease,
\* else stopped; the scout is requested either way.
WaitForScout(e) ==
  /\ \E s \in {"waiting_map", "request_scout"} :
       /\ e.type = IF s = "waiting_map" THEN "waiting_for_map" ELSE "scout_requested"
       /\ Open(e)
       /\ \/ Decide(e, s, "reduce_speed",
                    <<"request_scout", "switch_to_cautious_profile">>)
          \/ UrgentStop(e, s, <<"request_scout">>)
  /\ Recorded(e)
  /\ UNCHANGED <<configValid, lastTrigger, evidenceVars, highestMap, failures>>

RenewLease(e) ==
  /\ e.type = "lease_renewal_required"
  /\ Open(e)
  /\ \/ Decide(e, "normal_planning", "continue_authorized_path",
               <<"continue_authorized_path", "start_planning">>)
     \/ UrgentStop(e, "normal_planning", <<"start_planning">>)
  /\ Recorded(e)
  /\ UNCHANGED <<configValid, lastTrigger, evidenceVars, highestMap, failures>>

RequestManual(e) ==
  /\ e.type = "manual_override_requested"
  /\ Open(e)
  /\ Decide(e, "manual_override", "manual_takeover",
            <<"revoke_current_lease", "stop_automatic_planning",
              "request_manual_takeover">>)
  /\ Recorded(e)
  /\ UNCHANGED <<configValid, lastTrigger, evidenceVars, highestMap, failures>>

\* A release, in the state it releases, with new evidence.
Release(e) ==
  /\ e.type \in DOMAIN Releasing
  /\ configValid
  /\ Admitted(e)
  /\ state = Releasing[e.type]
  /\ \/ \E r \in Evidence :
          /\ Fresh(r)
          /\ Consume(r)
          /\ Decide(e, "path_valid", "continue_authorized_path",
                    <<"continue_authorized_path">>)
     \/ /\ LacksEvidence
        /\ Hold(e)
        /\ UNCHANGED evidenceVars
  /\ Recorded(e)
  /\ UNCHANGED <<configValid, lastTrigger, highestMap, failures>>

\* A release where nothing is locked is refused, but counts as seen.
RejectRelease(e) ==
  /\ e.type \in DOMAIN Releasing
  /\ Open(e)
  /\ Reject(e)
  /\ Recorded(e)
  /\ UNCHANGED configValid

RequestEmergencyStop(e) ==
  /\ configValid
  /\ e.type \in EmergencyEvents
  /\ state # "emergency_stop"
  /\ Decide(e, "emergency_stop", "emergency_stop",
            <<"revoke_current_lease", "request_emergency_stop">>)
  /\ Recorded(e)
  /\ UNCHANGED <<configValid, lastTrigger, evidenceVars, highestMap, failures>>

\* A failure of the planner stops; at the limit the state becomes manual_override
\* whatever the stop made of it.
PlanningFails(e) ==
  /\ e.type \in DOMAIN Failing
  /\ Open(e)
  /\ failures' = failures + 1
  /\ \/ /\ failures' < FailureLimit
        /\ UrgentStop(e, Failing[e.type], <<>>)
     \/ /\ failures' >= FailureLimit
        /\ \E feasible \in BOOLEAN :
             Decide(e, "manual_override", "manual_takeover",
                    Append(StopDirectives(feasible), "request_manual_takeover"))
  /\ Recorded(e)
  /\ UNCHANGED <<configValid, lastTrigger, evidenceVars, highestMap>>

Dispatch(e) ==
  \/ InvalidConfig(e) \/ RejectUnordered(e) \/ RejectUnsetMap(e) \/ HoldLocked(e)
  \/ StopDuringManual(e) \/ PeriodicTick(e) \/ NewMap(e) \/ StopFor(e)
  \/ CommunicationLost(e) \/ Authorize(e) \/ WaitForScout(e) \/ RenewLease(e)
  \/ RequestManual(e) \/ Release(e) \/ RejectRelease(e) \/ RequestEmergencyStop(e)
  \/ PlanningFails(e)

Next == \E e \in Event : Dispatch(e)

Spec == Init /\ [][Next]_vars

-----------------------------------------------------------------------------
(* Properties                                                              *)

Directives ==
  {"revoke_current_lease", "request_controlled_stop", "request_emergency_stop",
   "start_planning", "continue_authorized_path", "switch_to_cautious_profile",
   "request_scout", "request_manual_takeover", "stop_automatic_planning"}

Actions ==
  {"none", "continue_authorized_path", "begin_planning", "reduce_speed",
   "controlled_stop", "emergency_stop", "manual_takeover"}

Ordered(d) == {d.directives[i] : i \in DOMAIN d.directives}
Stops == {"request_controlled_stop", "request_emergency_stop"}
Moves == {"continue_authorized_path", "switch_to_cautious_profile"}

\* Every variable stays in its domain, and the event watermarks are set together.
TypeOK ==
  /\ configValid \in BOOLEAN
  /\ state \in States
  /\ lastTrigger \in 0..MaxTime \cup {None}
  /\ lastEvent \in 0..MaxTime \cup {None}
  /\ highestEvent \in 0..MaxEvent
  /\ highestRevision \in 0..MaxEvidence
  /\ highestLease \in 0..MaxEvidence
  /\ highestMap \in 0..MaxMap
  /\ failures \in Nat
  /\ decision \in [event : EventTypes \cup {"none"}, accepted : BOOLEAN,
                   action : Actions, directives : Seq(Directives)]
  /\ emergency \in BOOLEAN
  /\ (highestEvent = 0) <=> (lastEvent = None)

\* Reordering cannot keep a safety event from stopping the robot: in every state,
\* however old its number or time, its decision revokes and stops, except for a
\* lost link that the degraded lease covers.
SafetyEventsStop ==
  decision.event \in SafetyEvents =>
    /\ decision.accepted
    /\ \/ {"revoke_current_lease"} \subseteq Ordered(decision)
          /\ Ordered(decision) \cap Stops # {}
          /\ Ordered(decision) \cap Moves = {}
       \/ decision.event = "communication_lost" /\ Ordered(decision) \cap Moves # {}

\* Consumers execute directives in order, so a lease is revoked before anything
\* else a stopping decision asks for, and no decision both stops and moves.
StopsRevokeFirst ==
  Ordered(decision) \cap Stops # {} =>
    /\ decision.directives[1] = "revoke_current_lease"
    /\ Ordered(decision) \cap Moves = {}

\* A locked state is left only by its own release event and with a lease number
\* never used before, or from manual override into emergency stop; in particular
\* no planning result, tick or map leaves it.
LockedUntilReleased ==
  [][(configValid /\ state \in Locked /\ state' # state) =>
       \/ state = "manual_override" /\ state' = "emergency_stop"
       \/ /\ decision'.event \in DOMAIN Releasing
          /\ state = Releasing[decision'.event]
          /\ state' = "path_valid"
          /\ highestLease' > highestLease /\ highestRevision' > highestRevision]_vars

\* No event, in particular no old safety event, moves a watermark back, and two
\* motion authorizations never rest on the same evidence.
WatermarksNeverRegress ==
  [][/\ highestEvent' >= highestEvent
     /\ lastEvent # None => lastEvent' >= lastEvent
     /\ highestMap' >= highestMap
     /\ decision'.event \in DOMAIN Authorizing \cup DOMAIN Releasing
          /\ Ordered(decision') \cap Moves # {}
          => highestLease' > highestLease /\ highestRevision' > highestRevision]_vars

\* "MANUAL_OVERRIDE and EMERGENCY_STOP are locked states ... they need
\* manual_control_released or emergency_stop_cleared respectively": once a decision
\* requested an emergency stop, the machine is in emergency_stop until it is cleared.
EmergencyStopLatched ==
  configValid /\ emergency => state = "emergency_stop"

\* "Explicit replanning triggers: the first periodic_tick, and a tick one
\* planning_period after the last planning trigger": a tick in an unlocked state
\* starts planning when no tick ever did.
FirstTickPlans ==
  [][(configValid /\ state \notin Locked /\ lastTrigger = None
        /\ decision'.event = "periodic_tick" /\ decision'.accepted)
       => "start_planning" \in Ordered(decision')]_vars
=============================================================================
