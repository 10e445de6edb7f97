----------------------------- MODULE MCExchange -----------------------------
(***************************************************************************)
(* The parts that exchange messages and maps, each in a scenario of its    *)
(* own: in "stream" scenarios one stream of each kind at length, in        *)
(* "recovery" the recovery over two streams; the parts that exchange maps  *)
(* share the clock and the map versions, and no other state.  Streams      *)
(* share nothing in the gate, so what holds of a stream alone holds beside *)
(* others.                                                                 *)
(***************************************************************************)
EXTENDS CommunicationRecovery, SynchronizedCapture, ScoutCoordination

VARIABLES
  scenario,
  sending     \* the streams whose senders send

Scenarios == {"stream", "recovery", "snapshots", "capture", "requests", "urgency", "distance", "scan"}

-----------------------------------------------------------------------------
(* Messages                                                                *)

MCStreams == {"map_update", "robot_state", "planning_result", "validation_lease"}
MCKind == [map_update       |-> "map_id_and_sequence",
           robot_state      |-> "message_id",
           planning_result  |-> "plan_sequence",
           validation_lease |-> "lease_sequence"]
MCWindow == [map_update |-> 3, robot_state |-> 2, planning_result |-> 2,
             validation_lease |-> 2]
MCLastSeq == [map_update |-> 4, robot_state |-> 4, planning_result |-> 2,
              validation_lease |-> 2]
MCLastVersion == [map_update |-> 2, robot_state |-> 1, planning_result |-> 1,
                  validation_lease |-> 1]
MCNames == [map_update |-> {"m"}, robot_state |-> {"a", "b"},
            planning_result |-> {"p"}, validation_lease |-> {"l"}]
MCRequired == <<"planning_result", "validation_lease">>

-----------------------------------------------------------------------------
(* Maps                                                                    *)

MCAges == [i \in Sensors |-> 0]

\* What a scan may find along the line, and at one point of a detour.
Cells == {"known", "unknown", "low_confidence"}
Lines == {[n \in 1..4 |-> [progress |-> Interval * (n - 1), class |-> c[n]]] : c \in [1..4 -> Cells]}
Detours == {<<>>} \cup {<<[progress |-> p, y |-> y, class |-> c]>> : p \in 0..4, y \in {0, 4}, c \in Cells}

\* While frames are captured, payloads do not matter, and one step of time makes data too old.
OnePayload ==
  /\ clock' <= 1
  /\ latest' # latest => latest'.cells = "p" /\ \A x \in Parts : latest'.payload[x] = "p"

-----------------------------------------------------------------------------

MCInit ==
  /\ CommunicationInit
  /\ Init
  /\ scenario \in Scenarios
  /\ ground \in IF scenario = "scan" THEN [line : Lines, detour : Detours]
                ELSE [line : {<<>>}, detour : {<<>>}]
  /\ ScoutInit
  /\ sending \in CASE scenario = "stream" -> {{"map_update"}, {"robot_state"}}
                  [] scenario = "recovery" -> {RequiredStreams}
                  [] OTHER -> {{}}

MessageNext ==
  /\ \/ (LinkNext \/ GateNext) /\ UNCHANGED recoveryVars
     \/ scenario = "recovery" /\ RecoveryNext
  /\ \A s \in Streams \ sending : sent'[s] = sent[s]

MapNext ==
  \/ scenario = "snapshots" /\ (InstallSnapshot \/ Tick) /\ UNCHANGED scoutVars
  \/ scenario = "capture" /\ Next /\ OnePayload /\ UNCHANGED scoutVars
  \/ scenario = "requests" /\ RequestNext /\ UNCHANGED vars
  \/ scenario = "requests" /\ Tick /\ UNCHANGED scoutVars
  \/ /\ scenario = "urgency"
     /\ \/ \E g \in Gaps, i \in Measures : Assess(g, i)
        \/ ClearHysteresis
     /\ UNCHANGED vars
  \/ /\ scenario = "distance"
     /\ AssessWithoutPose \/ \E sep \in 0..Furthest + 1 : AssessDistance(sep)
     /\ UNCHANGED vars
  \/ scenario = "scan" /\ Scan /\ UNCHANGED vars

MCNext ==
  /\ UNCHANGED <<scenario, sending>>
  /\ \/ sending # {} /\ MessageNext /\ UNCHANGED <<vars, scoutVars>>
     \/ sending = {} /\ MapNext /\ UNCHANGED communicationVars

MCSpec == MCInit /\ [][MCNext]_<<communicationVars, vars, scoutVars, scenario, sending>>

TypeOK == CommunicationTypeOK /\ CaptureTypeOK /\ ScoutTypeOK
=============================================================================
