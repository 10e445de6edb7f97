--------------------- MODULE PlanningStateMachineProofs ---------------------
(***************************************************************************)
(* The safety of PlanningStateMachine for every bound: what a decision may *)
(* contain, that locks hold and that watermarks never move back.           *)
(***************************************************************************)
EXTENDS PlanningStateMachine, SequenceTheorems, TLAPS

Decisions ==
  [event : EventTypes \cup {"none"}, accepted : BOOLEAN, action : Actions,
   directives : Seq(Directives)]

\* What SafetyEventsStop and StopsRevokeFirst say of one decision.
StopsOnSafetyEvent(d) ==
  d.event \in SafetyEvents =>
    /\ d.accepted
    /\ \/ {"revoke_current_lease"} \subseteq Ordered(d)
          /\ Ordered(d) \cap Stops # {}
          /\ Ordered(d) \cap Moves = {}
       \/ d.event = "communication_lost" /\ Ordered(d) \cap Moves # {}

RevokesFirst(d) ==
  Ordered(d) \cap Stops # {} =>
    /\ d.directives[1] = "revoke_current_lease"
    /\ Ordered(d) \cap Moves = {}

Sound(d) == d \in Decisions /\ StopsOnSafetyEvent(d) /\ RevokesFirst(d)

\* What may follow a stop: anything that does not move.
Still == Directives \ Moves

\* The shape of every stopping sequence of directives.
StopsFirst(ds) ==
  /\ ds \in Seq(Still)
  /\ Len(ds) >= 2
  /\ ds[1] = "revoke_current_lease"
  /\ ds[2] \in Stops

-----------------------------------------------------------------------------
(* Lemmas about directives                                                 *)

\* append_urgent_stop revokes first and stops second, on either channel.
LEMMA StopDirectivesStopFirst ==
  ASSUME NEW feasible \in BOOLEAN
  PROVE  StopsFirst(StopDirectives(feasible))
<1> DEFINE stop == IF feasible THEN "request_controlled_stop"
                   ELSE "request_emergency_stop"
<1>1. StopDirectives(feasible) = <<"revoke_current_lease", stop>>
      BY DEF StopDirectives
<1>2. stop \in Stops /\ stop \in Still /\ "revoke_current_lease" \in Still
      BY DEF Stops, Still, Directives, Moves
<1> HIDE DEF stop
<1>3. QED
      BY <1>1, <1>2 DEF StopsFirst

\* What is appended to a stop cannot undo it.
LEMMA ConcatStopsFirst ==
  ASSUME NEW s, StopsFirst(s), NEW f \in Seq(Still)
  PROVE  StopsFirst(s \o f)
<1>1. s \in Seq(Still) /\ Len(s) \in Nat /\ Len(f) \in Nat /\ Len(s) >= 2
      BY LenProperties DEF StopsFirst
<1>2. /\ s \o f \in Seq(Still)
      /\ Len(s \o f) = Len(s) + Len(f)
      /\ \A i \in 1 .. Len(s) + Len(f) :
           (s \o f)[i] = IF i <= Len(s) THEN s[i] ELSE f[i - Len(s)]
      BY <1>1, ConcatProperties
<1>3. (s \o f)[1] = s[1] /\ (s \o f)[2] = s[2]
      BY <1>1, <1>2
<1>4. QED
      BY <1>1, <1>2, <1>3 DEF StopsFirst

\* A stopping sequence is a sound answer to any event.
LEMMA StoppingIsSound ==
  ASSUME NEW t \in EventTypes, NEW a \in Actions, NEW ds, StopsFirst(ds)
  PROVE  LET d == [event |-> t, accepted |-> TRUE, action |-> a, directives |-> ds]
         IN  Sound(d) /\ Ordered(d) \cap Moves = {}
<1> DEFINE d == [event |-> t, accepted |-> TRUE, action |-> a, directives |-> ds]
<1>1. /\ DOMAIN ds = 1..Len(ds) /\ Len(ds) \in Nat
      /\ \A i \in 1..Len(ds) : ds[i] \in Still
      /\ ds \in Seq(Directives)
      BY LenProperties, ElementOfSeq, SeqMonotonic DEF StopsFirst, Still
<1>2. d \in Decisions
      BY <1>1 DEF Decisions
<1>3. /\ Ordered(d) = {ds[i] : i \in DOMAIN ds}
      /\ d.directives = ds /\ d.accepted
      BY DEF Ordered
<1>4. 1 \in DOMAIN ds /\ 2 \in DOMAIN ds
      BY <1>1 DEF StopsFirst
<1>5. ds[1] \in Ordered(d) /\ ds[2] \in Ordered(d)
      BY <1>3, <1>4
<1>6. Ordered(d) \cap Moves = {}
      BY <1>1, <1>3 DEF Still
<1> HIDE DEF d
<1>7. /\ ds[1] = "revoke_current_lease" /\ ds[2] \in Stops
      BY DEF StopsFirst
<1>8. Sound(d)
      BY <1>2, <1>3, <1>5, <1>6, <1>7 DEF Sound, StopsOnSafetyEvent, RevokesFirst
<1>9. QED
      BY <1>6, <1>8 DEF d

\* Directives without a stop are sound for events that are not safety events.
LEMMA QuietIsSound ==
  ASSUME NEW t \in EventTypes \ SafetyEvents, NEW a \in Actions,
         NEW ds \in Seq(Directives), NEW b \in BOOLEAN,
         \A i \in DOMAIN ds : ds[i] \notin Stops
  PROVE  Sound([event |-> t, accepted |-> b, action |-> a, directives |-> ds])
<1> DEFINE d == [event |-> t, accepted |-> b, action |-> a, directives |-> ds]
<1>1. d \in Decisions
      BY DEF Decisions
<1>2. Ordered(d) \cap Stops = {}
      BY DEF Ordered
<1>3. QED
      BY <1>1, <1>2 DEF Sound, StopsOnSafetyEvent, RevokesFirst

\* One directive that moves is sound for a lost link.
LEMMA DegradedIsSound ==
  ASSUME NEW a \in Actions, NEW m \in Moves
  PROVE  Sound([event |-> "communication_lost", accepted |-> TRUE, action |-> a,
                directives |-> <<m>>])
<1> DEFINE d == [event |-> "communication_lost", accepted |-> TRUE, action |-> a,
                 directives |-> <<m>>]
<1>1. d \in Decisions
      BY DEF Decisions, EventTypes, Moves, Directives
<1>2. Ordered(d) = {m} /\ d.accepted /\ d.event = "communication_lost"
      BY DEF Ordered
<1>3. Ordered(d) \cap Stops = {} /\ Ordered(d) \cap Moves # {}
      BY <1>2 DEF Stops, Moves
<1>4. QED
      BY <1>1, <1>2, <1>3 DEF Sound, StopsOnSafetyEvent, RevokesFirst

-----------------------------------------------------------------------------
(* Lemmas about the helpers the branches are made of                       *)

\* What every branch leaves behind.
Outcome(e) ==
  /\ Sound(decision') /\ decision'.event = e.type
  /\ state' \in States
  /\ emergency' \in BOOLEAN

NeverMoves == Ordered(decision') \cap Moves = {}

\* The event types of the four tables.
LEMMA EventTypesFacts ==
  /\ DOMAIN Stopping =
       {"reference_line_changed", "robot_operating_area_changed",
        "robot_state_changed", "path_invalidated", "lease_invalidated",
        "localization_invalid", "covariance_envelope_breached", "input_invalid",
        "map_expired"}
  /\ DOMAIN Failing = {"planning_failed", "covariance_solution_unavailable"}
  /\ DOMAIN Authorizing = {"planning_succeeded", "planning_with_caution",
                           "planning_timed_out", "communication_restored"}
  /\ DOMAIN Releasing = {"manual_control_released", "emergency_stop_cleared"}
BY DEF Stopping, Failing, Authorizing, Releasing

\* What every decision sets.
LEMMA DecideFacts ==
  ASSUME NEW e \in Event, NEW s \in States, NEW a, NEW ds, Decide(e, s, a, ds)
  PROVE  /\ state' = s /\ state' \in States
         /\ decision' = [event |-> e.type, accepted |-> TRUE, action |-> a,
                         directives |-> ds]
         /\ decision'.event = e.type
         /\ emergency' \in BOOLEAN
         /\ e.type \in EventTypes
BY DEF Decide, Event

\* A decision with stopping directives is sound for every event.
LEMMA DecideStops ==
  ASSUME NEW e \in Event, NEW s \in States, NEW a \in Actions, NEW ds,
         StopsFirst(ds), Decide(e, s, a, ds)
  PROVE  Outcome(e) /\ NeverMoves /\ state' = s
BY DecideFacts, StoppingIsSound DEF Outcome, NeverMoves

\* A decision without a stop is sound for an event that is not a safety event.
LEMMA DecideQuietly ==
  ASSUME NEW e \in Event, e.type \notin SafetyEvents, NEW s \in States,
         NEW a \in Actions, NEW ds \in Seq(Directives),
         \A i \in DOMAIN ds : ds[i] \notin Stops, Decide(e, s, a, ds)
  PROVE  Outcome(e) /\ state' = s
BY DecideFacts, QuietIsSound DEF Outcome

\* append_urgent_stop: sound for every event, and either the state asked for or
\* emergency_stop.
LEMMA UrgentStopFacts ==
  ASSUME NEW e \in Event, NEW s \in States, NEW f \in Seq(Still), UrgentStop(e, s, f)
  PROVE  Outcome(e) /\ NeverMoves /\ state' \in {s, "emergency_stop"}
<1>1. PICK feasible \in BOOLEAN :
        Decide(e, IF feasible THEN s ELSE "emergency_stop",
               IF feasible THEN "controlled_stop" ELSE "emergency_stop",
               StopDirectives(feasible) \o f)
      BY DEF UrgentStop
<1>2. StopsFirst(StopDirectives(feasible) \o f)
      BY StopDirectivesStopFirst, ConcatStopsFirst
<1>3. /\ (IF feasible THEN s ELSE "emergency_stop") \in States
      /\ (IF feasible THEN "controlled_stop" ELSE "emergency_stop") \in Actions
      BY DEF States, Actions
<1>4. QED
      BY <1>1, <1>2, <1>3, DecideStops

\* What the branches append to a stop does not move.
LEMMA FollowUpsAreStill ==
  /\ <<>> \in Seq(Still)
  /\ <<"start_planning">> \in Seq(Still)
  /\ <<"request_scout">> \in Seq(Still)
BY DEF Still, Directives, Moves

\* The directives of an emergency stop decided without a look at the context.
LEMMA EmergencyStopsFirst ==
  StopsFirst(<<"revoke_current_lease", "request_emergency_stop">>)
BY StopDirectivesStopFirst DEF StopDirectives

\* hold_locked_state keeps the state and never moves.
LEMMA HoldFacts ==
  ASSUME NEW e \in Event, Hold(e),
         state = "emergency_stop" \/ e.type \notin SafetyEvents
  PROVE  Outcome(e) /\ NeverMoves /\ state' = state
<1>1. CASE state = "emergency_stop"
  <2>1. Decide(e, state, "emergency_stop",
               <<"revoke_current_lease", "request_emergency_stop">>)
        BY <1>1 DEF Hold
  <2>2. state \in States /\ "emergency_stop" \in Actions
        BY <1>1 DEF States, Actions
  <2>3. QED
        BY <2>1, <2>2, DecideStops, EmergencyStopsFirst
<1>2. CASE state # "emergency_stop"
  <2> DEFINE ds == <<"stop_automatic_planning", "request_manual_takeover">>
  <2>1. state = "manual_override" /\ Decide(e, state, "manual_takeover", ds)
        BY <1>2 DEF Hold
  <2>2. /\ ds \in Seq(Directives)
        /\ \A i \in DOMAIN ds : ds[i] \notin Stops /\ ds[i] \notin Moves
        BY DEF Directives, Stops, Moves
  <2>3. state \in States /\ "manual_takeover" \in Actions
        BY <2>1 DEF States, Actions
  <2>4. decision'.directives = ds
        BY <2>1, <2>3, DecideFacts
  <2> HIDE DEF ds
  <2>5. Outcome(e) /\ state' = state
        BY <1>2, <2>1, <2>2, <2>3, DecideQuietly
  <2>6. NeverMoves
        BY <2>2, <2>4 DEF NeverMoves, Ordered
  <2>7. QED
        BY <2>5, <2>6
<1>3. QED
      BY <1>1, <1>2

\* A refusal is sound for an event that is not a safety event.
LEMMA RejectFacts ==
  ASSUME NEW e \in Event, TypeOK, e.type \notin SafetyEvents, Reject(e)
  PROVE  Outcome(e) /\ NeverMoves
<1>1. decision' = [event |-> e.type, accepted |-> FALSE, action |-> "none",
                   directives |-> <<>>]
      BY DEF Reject
<1>2. e.type \in EventTypes \ SafetyEvents /\ "none" \in Actions
      BY DEF Event, Actions
<1>3. <<>> \in Seq(Directives) /\ DOMAIN <<>> = {}
      OBVIOUS
<1>4. Sound(decision')
      BY <1>1, <1>2, <1>3, QuietIsSound
<1>5. NeverMoves
      BY <1>1, <1>3 DEF NeverMoves, Ordered
<1>6. QED
      BY <1>1, <1>4, <1>5 DEF Outcome, Reject, TypeOK

\* An event that is not a safety event is admitted only when it is newer.
LEMMA AdmittedIsNewer ==
  ASSUME NEW e, e.type \notin SafetyEvents, Admitted(e)
  PROVE  Newer(e)
BY DEF Admitted, OverridesOrdering

\* Recording an event never moves a watermark back.
LEMMA RecordedFacts ==
  ASSUME NEW e \in Event, TypeOK, Recorded(e)
  PROVE  /\ highestEvent' \in 0..MaxEvent /\ highestEvent' >= highestEvent
         /\ lastEvent' \in 0..MaxTime \cup {None}
         /\ lastEvent # None => lastEvent' >= lastEvent
         /\ (highestEvent' = 0) <=> (lastEvent' = None)
<1>1. e.sequence \in 0..MaxEvent /\ e.at \in -1..MaxTime
      BY DEF Event
<1>2. CASE Newer(e)
  <2>1. highestEvent' = e.sequence /\ lastEvent' = e.at
        BY <1>2 DEF Recorded, MovesWatermark
  <2>2. e.at \in 0..MaxTime /\ e.at # None
        BY <1>1, <1>2, BoundsAssumption DEF Newer
  <2>3. QED
        BY <1>1, <1>2, <2>1, <2>2, BoundsAssumption DEF Newer, TypeOK
<1>3. CASE ~Newer(e)
  <2>1. highestEvent' = highestEvent /\ lastEvent' = lastEvent
        BY <1>3 DEF Recorded, MovesWatermark
  <2>2. QED
        BY <2>1, BoundsAssumption DEF TypeOK
<1>4. QED
      BY <1>2, <1>3

\* New evidence is strictly newer in both numbers.
LEMMA ConsumeFacts ==
  ASSUME NEW r \in Evidence, TypeOK, Fresh(r), Consume(r)
  PROVE  /\ highestRevision' \in 0..MaxEvidence /\ highestRevision' > highestRevision
         /\ highestLease' \in 0..MaxEvidence /\ highestLease' > highestLease
BY DEF Fresh, Consume, Evidence, TypeOK

-----------------------------------------------------------------------------
(* Every branch decides soundly                                            *)

\* Directives of the decisions that do not stop.
LEMMA QuietDirectives ==
  \A ds \in {<<>>, <<"start_planning">>, <<"continue_authorized_path">>,
             <<"continue_authorized_path", "start_planning">>,
             <<"switch_to_cautious_profile">>,
             <<"request_scout", "switch_to_cautious_profile">>} :
    ds \in Seq(Directives) /\ \A i \in DOMAIN ds : ds[i] \notin Stops
<1>1. <<>> \in Seq(Directives) /\ DOMAIN <<>> = {}
      OBVIOUS
<1>2. \A x \in Directives \ Stops :
        <<x>> \in Seq(Directives) /\ \A i \in DOMAIN <<x>> : <<x>>[i] \notin Stops
      OBVIOUS
<1>3. \A x, y \in Directives \ Stops :
        /\ <<x, y>> \in Seq(Directives)
        /\ \A i \in DOMAIN <<x, y>> : <<x, y>>[i] \notin Stops
      OBVIOUS
<1>4. {"start_planning", "continue_authorized_path", "switch_to_cautious_profile",
       "request_scout"} \subseteq Directives \ Stops
      BY DEF Directives, Stops
<1>5. QED
      BY <1>1, <1>2, <1>3, <1>4

\* At the failure limit the takeover directive follows the stop.
LEMMA PlanningFailsOutcome ==
  ASSUME NEW e \in Event, TypeOK, PlanningFails(e)
  PROVE  Outcome(e) /\ NeverMoves
<1>1. CASE UrgentStop(e, Failing[e.type], <<>>)
  <2>1. Failing[e.type] \in States
        BY EventTypesFacts DEF PlanningFails, Failing, States
  <2>2. QED
        BY <1>1, <2>1, UrgentStopFacts, FollowUpsAreStill
<1>2. ASSUME NEW feasible \in BOOLEAN,
             Decide(e, "manual_override", "manual_takeover",
                    Append(StopDirectives(feasible), "request_manual_takeover"))
      PROVE  Outcome(e) /\ NeverMoves
  <2> DEFINE s == StopDirectives(feasible)
             ds == Append(s, "request_manual_takeover")
  <2>1. s \in Seq(Still) /\ Len(s) >= 2 /\ Len(s) \in Nat
        BY StopDirectivesStopFirst, LenProperties DEF StopsFirst
  <2>2. "request_manual_takeover" \in Still
        BY DEF Still, Directives, Moves
  <2>3. <<"request_manual_takeover">> \in Seq(Still)
        BY <2>2
  <2>4. ds = s \o <<"request_manual_takeover">>
        BY <2>1, <2>2, AppendIsConcat
  <2>5. StopsFirst(ds)
        BY <2>3, <2>4, StopDirectivesStopFirst, ConcatStopsFirst
  <2>6. "manual_override" \in States /\ "manual_takeover" \in Actions
        BY DEF States, Actions
  <2> HIDE DEF ds
  <2>7. Decide(e, "manual_override", "manual_takeover", ds)
        BY <1>2 DEF ds
  <2>8. QED
        BY <2>5, <2>6, <2>7, DecideStops
<1>3. QED
      BY <1>1, <1>2 DEF PlanningFails

\* New evidence lets the robot move; without it the branch stops.
LEMMA AuthorizeOutcome ==
  ASSUME NEW e \in Event, TypeOK, Authorize(e)
  PROVE  /\ Outcome(e)
         /\ \/ NeverMoves /\ UNCHANGED evidenceVars
            \/ \E r \in Evidence : Fresh(r) /\ Consume(r)
<1> DEFINE a == Authorizing[e.type]
<1>1. e.type \in DOMAIN Authorizing /\ e.type \notin SafetyEvents
      BY EventTypesFacts DEF Authorize, SafetyEvents, EmergencyEvents
<1>2. /\ a.granted \in States /\ a.refused \in States /\ a.action \in Actions
      /\ a.directives \in {<<"continue_authorized_path">>,
                           <<"continue_authorized_path", "start_planning">>,
                           <<"switch_to_cautious_profile">>}
      BY <1>1, EventTypesFacts DEF Authorizing, States, Actions
<1> HIDE DEF a
<1>3. ASSUME NEW r \in Evidence, Fresh(r), Consume(r),
             Decide(e, a.granted, a.action, a.directives)
      PROVE  Outcome(e)
      BY <1>1, <1>2, <1>3, QuietDirectives, DecideQuietly
<1>4. ASSUME UrgentStop(e, a.refused, <<>>)
      PROVE  Outcome(e) /\ NeverMoves
      BY <1>2, <1>4, UrgentStopFacts, FollowUpsAreStill
<1>5. \/ \E r \in Evidence :
           Fresh(r) /\ Consume(r) /\ Decide(e, a.granted, a.action, a.directives)
      \/ UrgentStop(e, a.refused, <<>>) /\ UNCHANGED evidenceVars
      BY DEF Authorize, a
<1>6. QED
      BY <1>3, <1>4, <1>5

\* A release takes the robot to path_valid on new evidence, and holds without.
LEMMA ReleaseOutcome ==
  ASSUME NEW e \in Event, TypeOK, Release(e)
  PROVE  /\ Outcome(e)
         /\ \/ NeverMoves /\ state' = state /\ UNCHANGED evidenceVars
            \/ state' = "path_valid" /\ \E r \in Evidence : Fresh(r) /\ Consume(r)
<1>1. e.type \notin SafetyEvents
      BY EventTypesFacts DEF Release, SafetyEvents, EmergencyEvents
<1>2. ASSUME NEW r \in Evidence, Fresh(r), Consume(r),
             Decide(e, "path_valid", "continue_authorized_path",
                    <<"continue_authorized_path">>)
      PROVE  Outcome(e) /\ state' = "path_valid"
  <2>1. "path_valid" \in States /\ "continue_authorized_path" \in Actions
        BY DEF States, Actions
  <2>2. QED
        BY <1>1, <1>2, <2>1, QuietDirectives, DecideQuietly
<1>3. ASSUME Hold(e)
      PROVE  Outcome(e) /\ NeverMoves /\ state' = state
      BY <1>1, <1>3, HoldFacts
<1>4. QED
      BY <1>2, <1>3 DEF Release

\* A tick starts planning or does nothing.
LEMMA PeriodicTickOutcome ==
  ASSUME NEW e \in Event, TypeOK, PeriodicTick(e)
  PROVE  Outcome(e)
<1>1. e.type \notin SafetyEvents
      BY DEF PeriodicTick, SafetyEvents, EmergencyEvents
<1>2. /\ state \in States /\ "normal_planning" \in States
      /\ "begin_planning" \in Actions /\ "none" \in Actions
      BY DEF TypeOK, States, Actions
<1>3. \/ Decide(e, "normal_planning", "begin_planning", <<"start_planning">>)
      \/ Decide(e, state, "none", <<>>)
      BY DEF PeriodicTick
<1>4. QED
      BY <1>1, <1>2, <1>3, QuietDirectives, DecideQuietly

\* A newer map stops and starts planning, an older one does nothing.
LEMMA NewMapOutcome ==
  ASSUME NEW e \in Event, TypeOK, NewMap(e)
  PROVE  Outcome(e)
<1>1. e.type \notin SafetyEvents
      BY DEF NewMap, SafetyEvents, EmergencyEvents
<1>2. state \in States /\ "normal_planning" \in States /\ "none" \in Actions
      BY DEF TypeOK, States, Actions
<1>3. \/ UrgentStop(e, "normal_planning", <<"start_planning">>)
      \/ Decide(e, state, "none", <<>>)
      BY DEF NewMap
<1>4. QED
      BY <1>1, <1>2, <1>3, QuietDirectives, DecideQuietly, UrgentStopFacts,
         FollowUpsAreStill

\* The events that always stop.
LEMMA StopForOutcome ==
  ASSUME NEW e \in Event, TypeOK, StopFor(e)
  PROVE  Outcome(e)
<1>1. Stopping[e.type].state \in States
      BY EventTypesFacts DEF StopFor, Stopping, States
<1>2. (IF Stopping[e.type].replan THEN <<"start_planning">> ELSE <<>>) \in Seq(Still)
      BY FollowUpsAreStill
<1>3. QED
      BY <1>1, <1>2, UrgentStopFacts DEF StopFor

\* A lost link may leave the robot moving, under a lease that covers it.
LEMMA CommunicationLostOutcome ==
  ASSUME NEW e \in Event, TypeOK, CommunicationLost(e)
  PROVE  Outcome(e)
<1>1. ASSUME NEW a \in Actions, NEW m \in Moves,
             Decide(e, "communication_degraded", a, <<m>>)
      PROVE  Outcome(e)
  <2>1. e.type = "communication_lost" /\ "communication_degraded" \in States
        BY DEF CommunicationLost, States
  <2>2. QED
        BY <1>1, <2>1, DecideFacts, DegradedIsSound DEF Outcome
<1>2. CASE UrgentStop(e, "communication_degraded", <<>>)
      BY <1>2, UrgentStopFacts, FollowUpsAreStill DEF States
<1>3. /\ {"continue_authorized_path", "switch_to_cautious_profile"} \subseteq Moves
      /\ {"continue_authorized_path", "reduce_speed"} \subseteq Actions
      BY DEF Moves, Actions
<1>4. QED
      BY <1>1, <1>2, <1>3 DEF CommunicationLost

\* Waiting for a scout, slowly or stopped.
LEMMA WaitForScoutOutcome ==
  ASSUME NEW e \in Event, TypeOK, WaitForScout(e)
  PROVE  Outcome(e)
<1>1. PICK s \in {"waiting_map", "request_scout"} :
        /\ e.type = IF s = "waiting_map" THEN "waiting_for_map" ELSE "scout_requested"
        /\ \/ Decide(e, s, "reduce_speed",
                     <<"request_scout", "switch_to_cautious_profile">>)
           \/ UrgentStop(e, s, <<"request_scout">>)
      BY DEF WaitForScout
<1>2. e.type \notin SafetyEvents /\ s \in States /\ "reduce_speed" \in Actions
      BY <1>1 DEF SafetyEvents, EmergencyEvents, States, Actions
<1>3. QED
      BY <1>1, <1>2, QuietDirectives, DecideQuietly, UrgentStopFacts, FollowUpsAreStill

\* Planning for a renewal, moving or stopped.
LEMMA RenewLeaseOutcome ==
  ASSUME NEW e \in Event, TypeOK, RenewLease(e)
  PROVE  Outcome(e)
<1>1. /\ e.type \notin SafetyEvents /\ "normal_planning" \in States
      /\ "continue_authorized_path" \in Actions
      BY DEF RenewLease, SafetyEvents, EmergencyEvents, States, Actions
<1>2. QED
      BY <1>1, QuietDirectives, DecideQuietly, UrgentStopFacts, FollowUpsAreStill
      DEF RenewLease

\* The operator takes over; this revokes but requests no stop.
LEMMA RequestManualOutcome ==
  ASSUME NEW e \in Event, TypeOK, RequestManual(e)
  PROVE  Outcome(e)
<1> DEFINE ds == <<"revoke_current_lease", "stop_automatic_planning",
                   "request_manual_takeover">>
<1>1. ds \in Seq(Directives) /\ \A i \in DOMAIN ds : ds[i] \notin Stops
      BY DEF Directives, Stops
<1>2. /\ e.type \notin SafetyEvents /\ "manual_override" \in States
      /\ "manual_takeover" \in Actions
      BY DEF RequestManual, SafetyEvents, EmergencyEvents, States, Actions
<1>3. Decide(e, "manual_override", "manual_takeover", ds)
      BY DEF RequestManual
<1> HIDE DEF ds
<1>4. QED
      BY <1>1, <1>2, <1>3, DecideQuietly

\* An emergency stop asked for outright, or for want of a usable configuration.
LEMMA EmergencyOutcome ==
  ASSUME NEW e \in Event, InvalidConfig(e) \/ RequestEmergencyStop(e)
  PROVE  Outcome(e) /\ NeverMoves
<1>1. /\ "input_invalid" \in States /\ "emergency_stop" \in States
      /\ "emergency_stop" \in Actions
      BY DEF States, Actions
<1>2. QED
      BY <1>1, EmergencyStopsFirst, DecideStops DEF InvalidConfig, RequestEmergencyStop

\* In a locked state nothing moves, whether the event is held or stops again.
LEMMA LockedOutcome ==
  ASSUME NEW e \in Event, HoldLocked(e) \/ StopDuringManual(e)
  PROVE  /\ Outcome(e) /\ NeverMoves
         /\ state' = state \/ (state = "manual_override" /\ state' = "emergency_stop")
<1>1. CASE HoldLocked(e)
      BY <1>1, HoldFacts DEF HoldLocked, OverridesOrdering
<1>2. CASE StopDuringManual(e)
      BY <1>2, UrgentStopFacts, FollowUpsAreStill DEF StopDuringManual, States
<1>3. QED
      BY <1>1, <1>2

\* The three refusals.
LEMMA RejectOutcome ==
  ASSUME NEW e \in Event, TypeOK,
         RejectUnordered(e) \/ RejectUnsetMap(e) \/ RejectRelease(e)
  PROVE  Outcome(e) /\ NeverMoves
<1>1. e.type \notin SafetyEvents
      BY EventTypesFacts DEF RejectUnordered, RejectUnsetMap, RejectRelease, Admitted,
         OverridesOrdering, SafetyEvents, EmergencyEvents
<1>2. QED
      BY <1>1, RejectFacts DEF RejectUnordered, RejectUnsetMap, RejectRelease

\* Every branch of dispatch decides soundly.
LEMMA StepOutcome ==
  ASSUME NEW e \in Event, TypeOK, Dispatch(e)
  PROVE  Outcome(e)
BY EmergencyOutcome, RejectOutcome, LockedOutcome, PeriodicTickOutcome, NewMapOutcome,
   StopForOutcome, CommunicationLostOutcome, AuthorizeOutcome, WaitForScoutOutcome,
   RenewLeaseOutcome, RequestManualOutcome, ReleaseOutcome, PlanningFailsOutcome
DEF Dispatch

-----------------------------------------------------------------------------
(* Every branch keeps the other variables in order                         *)

\* An event that is recorded, and branches that record no event.
RecordsOrIgnores(e) == Recorded(e) \/ UNCHANGED <<lastEvent, highestEvent>>

\* No branch moves the event watermarks back, and they are set together.
LEMMA StepRecords ==
  ASSUME NEW e \in Event, TypeOK, Dispatch(e)
  PROVE  /\ configValid' = configValid
         /\ lastEvent' \in 0..MaxTime \cup {None}
         /\ lastEvent # None => lastEvent' >= lastEvent
         /\ highestEvent' \in 0..MaxEvent /\ highestEvent' >= highestEvent
         /\ (highestEvent' = 0) <=> (lastEvent' = None)
<1>1. configValid' = configValid /\ RecordsOrIgnores(e)
      BY DEF Dispatch, RecordsOrIgnores, InvalidConfig, RejectUnordered,
         RejectUnsetMap, HoldLocked, StopDuringManual, PeriodicTick, NewMap, StopFor,
         CommunicationLost, Authorize, WaitForScout, RenewLease, RequestManual,
         Release, RejectRelease, RequestEmergencyStop, PlanningFails
<1>2. CASE Recorded(e)
      BY <1>1, <1>2, RecordedFacts
<1>3. CASE UNCHANGED <<lastEvent, highestEvent>>
      BY <1>1, <1>3, BoundsAssumption DEF TypeOK
<1>4. QED
      BY <1>1, <1>2, <1>3 DEF RecordsOrIgnores

\* Only an ordered tick, which has a valid time, sets the planning trigger.
LEMMA StepTriggers ==
  ASSUME NEW e \in Event, TypeOK, Dispatch(e)
  PROVE  lastTrigger' \in 0..MaxTime \cup {None}
<1>1. CASE UNCHANGED lastTrigger
      BY <1>1 DEF TypeOK
<1>2. CASE PeriodicTick(e)
  <2>1. e.type \notin SafetyEvents
        BY <1>2 DEF PeriodicTick, SafetyEvents, EmergencyEvents
  <2>2. e.at \in 0..MaxTime
        BY <1>2, <2>1, AdmittedIsNewer, BoundsAssumption
        DEF PeriodicTick, Open, Newer, Event
  <2>3. QED
        BY <1>2, <2>2 DEF PeriodicTick, TypeOK
<1>3. QED
      BY <1>1, <1>2 DEF Dispatch, InvalidConfig, RejectUnordered, RejectUnsetMap,
         HoldLocked, StopDuringManual, NewMap, StopFor, CommunicationLost, Authorize,
         WaitForScout, RenewLease, RequestManual, Release, RejectRelease,
         RequestEmergencyStop, PlanningFails, Reject

\* Only a newer map moves the map watermark.
LEMMA StepMaps ==
  ASSUME NEW e \in Event, TypeOK, Dispatch(e)
  PROVE  highestMap' \in 0..MaxMap /\ highestMap' >= highestMap
<1>1. CASE UNCHANGED highestMap
      BY <1>1, BoundsAssumption DEF TypeOK
<1>2. CASE NewMap(e)
      BY <1>2, BoundsAssumption DEF NewMap, TypeOK
<1>3. QED
      BY <1>1, <1>2 DEF Dispatch, InvalidConfig, RejectUnordered, RejectUnsetMap,
         HoldLocked, StopDuringManual, PeriodicTick, StopFor, CommunicationLost,
         Authorize, WaitForScout, RenewLease, RequestManual, Release, RejectRelease,
         RequestEmergencyStop, PlanningFails, Reject

\* Evidence is used up only by the two branches that let the robot move on it.
LEMMA StepEvidence ==
  ASSUME NEW e \in Event, TypeOK, Dispatch(e)
  PROVE  \/ UNCHANGED evidenceVars
         \/ /\ highestRevision' \in 0..MaxEvidence /\ highestRevision' > highestRevision
            /\ highestLease' \in 0..MaxEvidence /\ highestLease' > highestLease
<1>1. CASE Authorize(e) \/ Release(e)
      BY <1>1, AuthorizeOutcome, ReleaseOutcome, ConsumeFacts
<1>2. QED
      BY <1>1 DEF Dispatch, InvalidConfig, RejectUnordered, RejectUnsetMap,
         HoldLocked, StopDuringManual, PeriodicTick, NewMap, StopFor,
         CommunicationLost, WaitForScout, RenewLease, RequestManual, RejectRelease,
         RequestEmergencyStop, PlanningFails, Reject

\* Failures are counted or reset, nothing else.
LEMMA StepFailures ==
  ASSUME NEW e \in Event, TypeOK, Dispatch(e)
  PROVE  failures' \in Nat
BY DEF TypeOK, Dispatch, InvalidConfig, RejectUnordered, RejectUnsetMap, HoldLocked,
       StopDuringManual, PeriodicTick, NewMap, StopFor, CommunicationLost, Authorize,
       WaitForScout, RenewLease, RequestManual, Release, RejectRelease,
       RequestEmergencyStop, PlanningFails, Reject

\* An authorizing or releasing event makes the robot move on new evidence only.
LEMMA StepMovesOnNewEvidence ==
  ASSUME NEW e \in Event, TypeOK, Dispatch(e),
         decision'.event \in DOMAIN Authorizing \cup DOMAIN Releasing, ~NeverMoves
  PROVE  highestLease' > highestLease /\ highestRevision' > highestRevision
<1>1. e.type \in DOMAIN Authorizing \cup DOMAIN Releasing
      BY StepOutcome DEF Outcome
<1>2. /\ e.type \notin DOMAIN Stopping \cup DOMAIN Failing \cup SafetyEvents
      /\ e.type \notin {"periodic_tick", "new_map", "communication_lost",
                        "waiting_for_map", "scout_requested",
                        "lease_renewal_required", "manual_override_requested"}
      BY <1>1, EventTypesFacts DEF SafetyEvents, EmergencyEvents
<1>3. Authorize(e) \/ Release(e)
  <2>1. ~(\/ InvalidConfig(e) \/ RequestEmergencyStop(e) \/ RejectUnordered(e)
          \/ RejectUnsetMap(e) \/ RejectRelease(e) \/ HoldLocked(e)
          \/ StopDuringManual(e) \/ PlanningFails(e))
        BY EmergencyOutcome, RejectOutcome, LockedOutcome, PlanningFailsOutcome
  <2>2. ~(\/ PeriodicTick(e) \/ NewMap(e) \/ StopFor(e) \/ CommunicationLost(e)
          \/ RenewLease(e) \/ RequestManual(e) \/ WaitForScout(e))
        BY <1>2 DEF PeriodicTick, NewMap, StopFor, CommunicationLost, RenewLease,
           RequestManual, WaitForScout
  <2>3. QED
        BY <2>1, <2>2 DEF Dispatch
<1>4. QED
      BY <1>3, AuthorizeOutcome, ReleaseOutcome, ConsumeFacts

\* A locked state survives every branch but its release and an emergency.
LEMMA StepKeepsLock ==
  ASSUME NEW e \in Event, TypeOK, Dispatch(e), configValid, state \in Locked,
         state' # state
  PROVE  \/ state = "manual_override" /\ state' = "emergency_stop"
         \/ /\ decision'.event \in DOMAIN Releasing
            /\ state = Releasing[decision'.event]
            /\ state' = "path_valid"
            /\ highestLease' > highestLease /\ highestRevision' > highestRevision
<1>1. decision'.event = e.type
      BY StepOutcome DEF Outcome
<1>2. CASE HoldLocked(e) \/ StopDuringManual(e)
      BY <1>2, LockedOutcome
<1>3. CASE RequestEmergencyStop(e)
      BY <1>3, DecideFacts DEF RequestEmergencyStop, Locked, States
<1>4. CASE Release(e)
  <2>1. e.type \in DOMAIN Releasing /\ state = Releasing[e.type]
        BY <1>4 DEF Release
  <2>2. QED
        BY <1>1, <1>4, <2>1, ReleaseOutcome, ConsumeFacts
<1>5. QED
      BY <1>2, <1>3, <1>4 DEF Dispatch, InvalidConfig, RejectUnordered, RejectUnsetMap,
         RejectRelease, PeriodicTick, NewMap, StopFor, CommunicationLost, Authorize,
         WaitForScout, RenewLease, RequestManual, PlanningFails, Open, Reject

-----------------------------------------------------------------------------
(* The inductive invariant                                                 *)

IInv == TypeOK /\ SafetyEventsStop /\ StopsRevokeFirst

\* The machine starts within the invariant.
LEMMA InitIInv ==
  Init => IInv
<1> SUFFICES ASSUME Init PROVE IInv
    OBVIOUS
<1>1. decision = NoDecision /\ decision.event = "none" /\ decision.directives = <<>>
      BY DEF Init, NoDecision
<1>2. <<>> \in Seq(Directives) /\ DOMAIN <<>> = {}
      OBVIOUS
<1>3. decision \in [event : EventTypes \cup {"none"}, accepted : BOOLEAN,
                    action : Actions, directives : Seq(Directives)]
      BY <1>1, <1>2 DEF NoDecision, Actions
<1>4. TypeOK
  <2>1. configValid \in BOOLEAN /\ emergency \in BOOLEAN
        BY DEF Init
  <2>2. /\ state \in States /\ lastTrigger = None /\ lastEvent = None
        /\ highestEvent = 0 /\ highestRevision = 0 /\ highestLease = 0
        /\ highestMap = 0 /\ failures = 0
        BY DEF Init, States
  <2>3. 0 \in 0..MaxEvent /\ 0 \in 0..MaxEvidence /\ 0 \in 0..MaxMap
        BY BoundsAssumption
  <2>4. QED
        BY <1>3, <2>1, <2>2, <2>3 DEF TypeOK
<1>5. SafetyEventsStop
      BY <1>1 DEF SafetyEventsStop, SafetyEvents, EmergencyEvents
<1>6. StopsRevokeFirst
      BY <1>1, <1>2 DEF StopsRevokeFirst, Ordered
<1>7. QED
      BY <1>4, <1>5, <1>6 DEF IInv

\* Every event keeps the invariant.
LEMMA NextIInv ==
  IInv /\ [Next]_vars => IInv'
<1> SUFFICES ASSUME IInv, [Next]_vars PROVE IInv'
    OBVIOUS
<1>1. CASE Next
  <2>1. PICK e \in Event : Dispatch(e)
        BY <1>1 DEF Next
  <2>2. TypeOK
        BY DEF IInv
  <2>3. Outcome(e)
        BY <2>1, <2>2, StepOutcome
  <2>4. /\ highestRevision' \in 0..MaxEvidence
        /\ highestLease' \in 0..MaxEvidence
        BY <2>1, <2>2, StepEvidence DEF TypeOK, evidenceVars
  <2>5. decision' \in Decisions /\ state' \in States /\ emergency' \in BOOLEAN
        BY <2>3 DEF Outcome, Sound
  <2>6. TypeOK'
        BY <2>1, <2>2, <2>4, <2>5, StepRecords, StepTriggers, StepMaps, StepFailures
        DEF TypeOK, Decisions
  <2>7. SafetyEventsStop' /\ StopsRevokeFirst'
        BY <2>3 DEF Outcome, Sound, StopsOnSafetyEvent, RevokesFirst,
           SafetyEventsStop, StopsRevokeFirst
  <2>8. QED
        BY <2>6, <2>7 DEF IInv
<1>2. CASE UNCHANGED vars
      BY <1>2 DEF IInv, TypeOK, SafetyEventsStop, StopsRevokeFirst, vars
<1>3. QED
      BY <1>1, <1>2

-----------------------------------------------------------------------------
(* The theorems                                                            *)

\* Every variable stays in its domain and the event watermarks are set together,
\* whatever events dispatch is given.
THEOREM TypeCorrect ==
  Spec => []TypeOK
<1>1. IInv => TypeOK
      BY DEF IInv
<1>2. QED
      BY <1>1, InitIInv, NextIInv, PTL DEF Spec

\* A safety event of dispatch revokes and stops in every state and every order.
THEOREM SafetyEventsAlwaysStop ==
  Spec => []SafetyEventsStop
<1>1. IInv => SafetyEventsStop
      BY DEF IInv
<1>2. QED
      BY <1>1, InitIInv, NextIInv, PTL DEF Spec

\* append_urgent_stop and the emergency branches revoke the lease before they ask
\* for a stop, and never let the robot move in the same decision.
THEOREM StopsAlwaysRevokeFirst ==
  Spec => []StopsRevokeFirst
<1>1. IInv => StopsRevokeFirst
      BY DEF IInv
<1>2. QED
      BY <1>1, InitIInv, NextIInv, PTL DEF Spec

\* A locked state of the machine is left only by its own release on new evidence,
\* or from manual override into emergency stop.
THEOREM LocksHold ==
  Spec => LockedUntilReleased
<1> DEFINE Kept ==
      (configValid /\ state \in Locked /\ state' # state) =>
        \/ state = "manual_override" /\ state' = "emergency_stop"
        \/ /\ decision'.event \in DOMAIN Releasing
           /\ state = Releasing[decision'.event]
           /\ state' = "path_valid"
           /\ highestLease' > highestLease /\ highestRevision' > highestRevision
<1>1. ASSUME IInv, Next PROVE Kept
  <2>1. PICK e \in Event : Dispatch(e)
        BY <1>1 DEF Next
  <2>2. QED
        BY <1>1, <2>1, StepKeepsLock DEF IInv
<1>2. IInv /\ [Next]_vars => [Kept]_vars
      BY <1>1
<1>3. QED
      BY <1>2, InitIInv, NextIInv, PTL DEF Spec, LockedUntilReleased

\* No event moves a watermark of the machine back, and no two motion
\* authorizations rest on the same evidence.
THEOREM WatermarksOnlyAdvance ==
  Spec => WatermarksNeverRegress
<1> DEFINE Advance ==
      /\ highestEvent' >= highestEvent
      /\ lastEvent # None => lastEvent' >= lastEvent
      /\ highestMap' >= highestMap
      /\ decision'.event \in DOMAIN Authorizing \cup DOMAIN Releasing
           /\ Ordered(decision') \cap Moves # {}
           => highestLease' > highestLease /\ highestRevision' > highestRevision
<1>1. ASSUME IInv, Next PROVE Advance
  <2>1. PICK e \in Event : Dispatch(e)
        BY <1>1 DEF Next
  <2>2. TypeOK
        BY <1>1 DEF IInv
  <2>3. /\ highestEvent' >= highestEvent
        /\ lastEvent # None => lastEvent' >= lastEvent
        /\ highestMap' >= highestMap
        BY <2>1, <2>2, StepRecords, StepMaps
  <2>4. ASSUME decision'.event \in DOMAIN Authorizing \cup DOMAIN Releasing,
               Ordered(decision') \cap Moves # {}
        PROVE  highestLease' > highestLease /\ highestRevision' > highestRevision
        BY <2>1, <2>2, <2>4, StepMovesOnNewEvidence DEF NeverMoves
  <2>5. QED
        BY <2>3, <2>4
<1>2. IInv /\ [Next]_vars => [Advance]_vars
      BY <1>1
<1>3. QED
      BY <1>2, InitIInv, NextIInv, PTL DEF Spec, WatermarksNeverRegress
=============================================================================
