----------------------------- MODULE ScoutProofs -----------------------------
(***************************************************************************)
(* What the scout side never does, for any gaps, scouts, planners,         *)
(* objects, streams, messages and search tasks.                            *)
(***************************************************************************)
EXTENDS ScoutCoordination, ScoutContext, ScoutSearch, Induction

-----------------------------------------------------------------------------
(***************************************************************************)
(* The coordinator of scout requests: a gap has one request at a time,     *)
(* requests only advance, and an urgency is held until a measure has       *)
(* crossed its threshold back.                                             *)
(***************************************************************************)

Switches == [from : Urgencies, inputs : Measures]

RequestsTyped ==
  /\ ScoutTypeOK
  /\ clock \in Times
  /\ switch \in [Gaps -> Switches \cup {None}]
  /\ far \in BOOLEAN

\* The last change of an urgency led to the urgency there is, past its threshold.
SwitchesLedHere ==
  \A g \in Gaps :
    switch[g] # None =>
      /\ previous[g] \in Urgencies \ {switch[g].from}
      /\ previous[g] = Candidate(switch[g].inputs)
      /\ Crossed(switch[g].from, previous[g], switch[g].inputs)

FarIsHeld == (far => hold) /\ HeldUntilNear

ScoutInv == RequestsTyped /\ OneRequestPerGap /\ SwitchesLedHere /\ FarIsHeld

-----------------------------------------------------------------------------
(* Requests                                                                *)

LEMMA RequestFields ==
  ASSUME NEW r \in Requests
  PROVE  /\ r = [gap |-> r.gap, status |-> r.status, revision |-> r.revision,
                 requestedAt |-> r.requestedAt, expiresAt |-> r.expiresAt,
                 associated |-> r.associated, action |-> r.action]
         /\ r.gap \in GapKeys /\ r.revision \in Nat /\ r.expiresAt \in Nat
         /\ r.requestedAt \in Times /\ r.associated \in MapVersions \cup {None}
BY DEF Requests

\* Time runs out for a request once, and changes nothing of what it was for.
LEMMA TimeOutFacts ==
  ASSUME NEW r \in Requests
  PROVE  /\ TimeOut(r) \in Requests
         /\ TimeOut(r).gap = r.gap /\ TimeOut(r).associated = r.associated
         /\ TimeOut(r).status = "timed_out" /\ TimeOut(r).revision = r.revision + 1
<1>1. r.revision + 1 \in Nat /\ "stop_and_wait_for_map" \in Actions
      BY RequestFields DEF Actions
<1>2. TimeOut(r) \in Requests
      BY <1>1 DEF TimeOut, Requests
<1>3. /\ TimeOut(r).gap = r.gap /\ TimeOut(r).associated = r.associated
      /\ TimeOut(r).status = "timed_out" /\ TimeOut(r).revision = r.revision + 1
      BY DEF TimeOut, Requests
<1>4. QED
      BY <1>2, <1>3

\* Ending requests that run and erasing the entries of their gaps keeps requests and
\* index in agreement.
LEMMA EndingKeeps ==
  ASSUME RequestsTyped, OneRequestPerGap,
         NEW ended \in SUBSET {n \in DOMAIN requests : Awaiting(n)},
         NEW left \in Seq(Requests), Len(left) = Len(requests),
         NEW index, index = WithoutEntries(active, ended),
         \A n \in DOMAIN requests :
           /\ left[n].gap = requests[n].gap
           /\ n \in ended => left[n].status # "awaiting_map_update"
           /\ n \notin ended => left[n].status = requests[n].status
  PROVE  /\ index \in [GapKeys -> 0..Len(left)]
         /\ \A k \in GapKeys :
              index[k] # 0 => left[index[k]].status = "awaiting_map_update" /\ left[index[k]].gap = k
         /\ \A n \in DOMAIN left :
              left[n].status = "awaiting_map_update" => index[left[n].gap] = n
<1>1. /\ requests \in Seq(Requests) /\ active \in [GapKeys -> 0..Len(requests)]
      /\ DOMAIN requests = 1..Len(requests) /\ DOMAIN left = DOMAIN requests
      BY DEF RequestsTyped, ScoutTypeOK
<1>2. index \in [GapKeys -> 0..Len(left)]
      BY <1>1 DEF WithoutEntries
<1>3. ASSUME NEW k \in GapKeys, index[k] # 0
      PROVE  left[index[k]].status = "awaiting_map_update" /\ left[index[k]].gap = k
  <2>1. index[k] = active[k] /\ \A n \in ended : requests[n].gap # k
        BY <1>3 DEF WithoutEntries
  <2>2. active[k] \in DOMAIN requests
        BY <1>1, <1>3, <2>1
  <2>3. requests[active[k]].status = "awaiting_map_update" /\ requests[active[k]].gap = k
        BY <1>3, <2>1 DEF OneRequestPerGap, Awaiting
  <2>4. QED
        BY <2>1, <2>2, <2>3
<1>4. ASSUME NEW n \in DOMAIN left, left[n].status = "awaiting_map_update"
      PROVE  index[left[n].gap] = n
  <2>1. n \in DOMAIN requests /\ n \notin ended /\ Awaiting(n) /\ left[n].gap = requests[n].gap
        BY <1>1, <1>4 DEF Awaiting
  <2>2. active[requests[n].gap] = n
        BY <2>1 DEF OneRequestPerGap
  <2>3. \A m \in ended : requests[m].gap # requests[n].gap
        BY <2>1, <2>2 DEF OneRequestPerGap
  <2>4. requests[n].gap \in GapKeys
        BY <1>1, <2>1, RequestFields
  <2>5. QED
        BY <2>1, <2>2, <2>3, <2>4 DEF WithoutEntries
<1>5. QED
      BY <1>2, <1>3, <1>4

\* What expiry leaves: the requests that are due have timed out.
LEMMA TimedOutFacts ==
  ASSUME RequestsTyped
  PROVE  /\ AllDue \in SUBSET {n \in DOMAIN requests : Awaiting(n)}
         /\ WithTimedOut(AllDue) \in Seq(Requests)
         /\ Len(WithTimedOut(AllDue)) = Len(requests)
         /\ \A n \in DOMAIN requests :
              WithTimedOut(AllDue)[n] = IF n \in AllDue THEN TimeOut(requests[n]) ELSE requests[n]
<1>1. requests \in Seq(Requests) /\ DOMAIN requests = 1..Len(requests) /\ Len(requests) \in Nat
      BY DEF RequestsTyped, ScoutTypeOK
<1>2. \A n \in DOMAIN requests : requests[n] \in Requests /\ TimeOut(requests[n]) \in Requests
      BY <1>1, TimeOutFacts
<1> DEFINE left == WithTimedOut(AllDue)
<1>3. left = [n \in 1..Len(requests) |-> IF n \in AllDue THEN TimeOut(requests[n]) ELSE requests[n]]
      BY <1>1 DEF WithTimedOut
<1>4. \A n \in 1..Len(requests) : left[n] = IF n \in AllDue THEN TimeOut(requests[n]) ELSE requests[n]
      BY <1>3
<1> HIDE DEF left
<1>5. left \in [1..Len(requests) -> Requests]
      BY <1>1, <1>2, <1>3
<1>6. left \in Seq(Requests) /\ Len(left) = Len(requests)
      BY <1>1, <1>5
<1>7. QED
      BY <1>1, <1>4, <1>6 DEF AllDue, Due, left

\* One of the requests changes in place.
LEMMA ReplacingKeeps ==
  ASSUME RequestsTyped, OneRequestPerGap, NEW n \in DOMAIN requests, Awaiting(n),
         NEW r \in Requests, r.gap = requests[n].gap,
         requests' = [requests EXCEPT ![n] = r],
         \/ r.status = "awaiting_map_update" /\ active' = active
         \/ r.status # "awaiting_map_update" /\ active' = WithoutEntries(active, {n})
  PROVE  requests' \in Seq(Requests) /\ Len(requests') = Len(requests)
         /\ active' \in [GapKeys -> 0..Len(requests')] /\ OneRequestPerGap'
<1>1. requests \in Seq(Requests) /\ DOMAIN requests = 1..Len(requests) /\ Len(requests) \in Nat
      BY DEF RequestsTyped, ScoutTypeOK
<1>2. requests' \in Seq(Requests) /\ Len(requests') = Len(requests) /\ DOMAIN requests' = DOMAIN requests
      BY <1>1
<1>3. \A m \in DOMAIN requests : requests'[m] = IF m = n THEN r ELSE requests[m]
      BY <1>1
<1> DEFINE ended == IF r.status = "awaiting_map_update" THEN {} ELSE {n}
<1>4. ended \in SUBSET {m \in DOMAIN requests : Awaiting(m)}
      OBVIOUS
<1>5. active' = WithoutEntries(active, ended)
  <2>1. active \in [GapKeys -> 0..Len(requests)]
        BY DEF RequestsTyped, ScoutTypeOK
  <2>2. CASE r.status = "awaiting_map_update"
    <3>1. WithoutEntries(active, {}) = active
          BY <2>1 DEF WithoutEntries
    <3>2. QED
          BY <2>2, <3>1
  <2>3. QED
        BY <2>2
<1>6. \A m \in DOMAIN requests :
        /\ requests'[m].gap = requests[m].gap
        /\ m \in ended => requests'[m].status # "awaiting_map_update"
        /\ m \notin ended => requests'[m].status = requests[m].status
      BY <1>3 DEF Awaiting
<1>7. /\ active' \in [GapKeys -> 0..Len(requests')]
      /\ \A k \in GapKeys : active'[k] # 0 =>
           requests'[active'[k]].status = "awaiting_map_update" /\ requests'[active'[k]].gap = k
      /\ \A m \in DOMAIN requests' :
           requests'[m].status = "awaiting_map_update" => active'[requests'[m].gap] = m
  <2> DEFINE left == requests'
             index == active'
  <2>1. left \in Seq(Requests) /\ Len(left) = Len(requests) /\ index = WithoutEntries(active, ended)
        BY <1>2, <1>5
  <2>2. \A m \in DOMAIN requests :
          /\ left[m].gap = requests[m].gap
          /\ m \in ended => left[m].status # "awaiting_map_update"
          /\ m \notin ended => left[m].status = requests[m].status
        BY <1>6
  <2> HIDE DEF ended, left, index
  <2>3. /\ index \in [GapKeys -> 0..Len(left)]
        /\ \A k \in GapKeys :
             index[k] # 0 => left[index[k]].status = "awaiting_map_update" /\ left[index[k]].gap = k
        /\ \A m \in DOMAIN left :
             left[m].status = "awaiting_map_update" => index[left[m].gap] = m
        BY <1>4, <2>1, <2>2, EndingKeeps
  <2>4. QED
        BY <2>3 DEF left, index
<1>8. QED
      BY <1>2, <1>7 DEF OneRequestPerGap, Awaiting

\* What never changes while requests do.
LEMMA OthersStand ==
  ASSUME ScoutInv, UNCHANGED <<urgencyVars, distanceVars>>, clock' \in Times,
         requests' \in Seq(Requests), active' \in [GapKeys -> 0..Len(requests')],
         told' \subseteq DOMAIN requests', OneRequestPerGap'
  PROVE  ScoutInv'
<1>1. ScoutTypeOK'
      BY DEF ScoutInv, RequestsTyped, ScoutTypeOK, urgencyVars, distanceVars
<1>2. RequestsTyped'
      BY <1>1 DEF ScoutInv, RequestsTyped, urgencyVars, distanceVars
<1>3. SwitchesLedHere'
      BY DEF ScoutInv, SwitchesLedHere, urgencyVars
<1>4. FarIsHeld'
      BY DEF ScoutInv, FarIsHeld, HeldUntilNear, distanceVars
<1>5. QED
      BY <1>2, <1>3, <1>4 DEF ScoutInv

\* What expiry leaves agrees, for whoever starts it.
LEMMA ExpiryKeeps ==
  ASSUME RequestsTyped, OneRequestPerGap, NEW left, NEW index,
         left = WithTimedOut(AllDue), index = WithoutEntries(active, AllDue)
  PROVE  /\ left \in Seq(Requests) /\ Len(left) = Len(requests)
         /\ index \in [GapKeys -> 0..Len(left)]
         /\ \A k \in GapKeys :
              index[k] # 0 => left[index[k]].status = "awaiting_map_update" /\ left[index[k]].gap = k
         /\ \A n \in DOMAIN left :
              left[n].status = "awaiting_map_update" => index[left[n].gap] = n
<1> DEFINE ended == AllDue
<1>1. /\ ended \in SUBSET {n \in DOMAIN requests : Awaiting(n)}
      /\ left \in Seq(Requests) /\ Len(left) = Len(requests)
      /\ \A n \in DOMAIN requests : left[n] = IF n \in ended THEN TimeOut(requests[n]) ELSE requests[n]
      BY TimedOutFacts
<1>2. \A n \in DOMAIN requests : requests[n] \in Requests
      BY DEF RequestsTyped, ScoutTypeOK
<1>3. index = WithoutEntries(active, ended)
      OBVIOUS
<1> HIDE DEF ended
<1>4. \A n \in DOMAIN requests :
        /\ left[n].gap = requests[n].gap
        /\ n \in ended => left[n].status # "awaiting_map_update"
        /\ n \notin ended => left[n].status = requests[n].status
      BY <1>1, <1>2, TimeOutFacts
<1>5. QED
      BY <1>1, <1>3, <1>4, EndingKeeps

LEMMA ExpireKeeps ==
  ASSUME ScoutInv, ExpireRequests, clock' = clock
  PROVE  ScoutInv'
<1>1. RequestsTyped /\ OneRequestPerGap
      BY DEF ScoutInv
<1> DEFINE left == requests'
           index == active'
<1>2. left = WithTimedOut(AllDue) /\ index = WithoutEntries(active, AllDue)
      BY DEF ExpireRequests
<1>3. told' = told \cup AllDue /\ UNCHANGED <<urgencyVars, distanceVars>>
      BY DEF ExpireRequests
<1> HIDE DEF left, index
<1>4. /\ left \in Seq(Requests) /\ Len(left) = Len(requests)
      /\ index \in [GapKeys -> 0..Len(left)]
      /\ \A k \in GapKeys :
           index[k] # 0 => left[index[k]].status = "awaiting_map_update" /\ left[index[k]].gap = k
      /\ \A n \in DOMAIN left :
           left[n].status = "awaiting_map_update" => index[left[n].gap] = n
      BY <1>1, <1>2, ExpiryKeeps
<1>5. /\ requests' \in Seq(Requests) /\ Len(requests') = Len(requests)
      /\ active' \in [GapKeys -> 0..Len(requests')] /\ OneRequestPerGap'
      BY <1>4 DEF OneRequestPerGap, Awaiting, left, index
<1>6. told' \subseteq DOMAIN requests'
      BY <1>1, <1>3, <1>5, TimedOutFacts DEF RequestsTyped, ScoutTypeOK
<1>7. clock' \in Times
      BY <1>1 DEF RequestsTyped
<1>8. QED
      BY <1>3, <1>5, <1>6, <1>7, OthersStand

LEMMA IssueKeeps ==
  ASSUME ScoutInv, NEW gap \in GapKeys, NEW urgency \in Urgencies,
         IssueRequest(gap, urgency), clock' = clock
  PROVE  ScoutInv'
<1>1. RequestsTyped /\ OneRequestPerGap
      BY DEF ScoutInv
<1> DEFINE left == WithTimedOut(AllDue)
           index == WithoutEntries(active, AllDue)
           running == index[gap] # 0 /\ left[index[gap]].status = "awaiting_map_update"
           request == [gap |-> gap, status |-> "awaiting_map_update", revision |-> 1,
                       requestedAt |-> clock, expiresAt |-> clock + Timeout,
                       associated |-> None, action |-> FirstAction(urgency)]
<1>2. UNCHANGED <<told, urgencyVars, distanceVars>>
      BY DEF IssueRequest
<1>3. \/ running /\ requests' = left /\ active' = index
      \/ /\ ~running
         /\ requests' = Append(left, request)
         /\ active' = [index EXCEPT ![gap] = Len(requests) + 1]
      BY DEF IssueRequest
<1>4. left = WithTimedOut(AllDue) /\ index = WithoutEntries(active, AllDue)
      OBVIOUS
<1>5. request \in Requests /\ request.gap = gap /\ request.status = "awaiting_map_update"
  <2>1. clock \in Times /\ clock \in Nat /\ Timeout \in Nat
        BY <1>1, ScoutAssumption, SnapshotAssumption DEF RequestsTyped, Times
  <2>2. FirstAction(urgency) \in Actions
        BY DEF FirstAction, Actions, Urgencies
  <2>3. QED
        BY <2>1, <2>2 DEF Requests
<1> HIDE DEF left, index, request
<1>6. /\ left \in Seq(Requests) /\ Len(left) = Len(requests)
      /\ index \in [GapKeys -> 0..Len(left)]
      /\ \A k \in GapKeys :
           index[k] # 0 => left[index[k]].status = "awaiting_map_update" /\ left[index[k]].gap = k
      /\ \A n \in DOMAIN left :
           left[n].status = "awaiting_map_update" => index[left[n].gap] = n
      BY <1>1, <1>4, ExpiryKeeps
<1>7. /\ requests' \in Seq(Requests) /\ Len(requests') >= Len(requests)
      /\ active' \in [GapKeys -> 0..Len(requests')] /\ OneRequestPerGap'
  <2>1. CASE requests' = left /\ active' = index
        BY <1>6, <2>1 DEF OneRequestPerGap, Awaiting
  <2>2. CASE /\ ~running
             /\ requests' = Append(left, request)
             /\ active' = [index EXCEPT ![gap] = Len(requests) + 1]
    <3>1. index[gap] = 0
          BY <1>6, <2>2
    <3>2. /\ requests' \in Seq(Requests) /\ Len(requests') = Len(left) + 1
          /\ Len(left) \in Nat /\ DOMAIN left = 1..Len(left) /\ DOMAIN requests' = 1..Len(left) + 1
          /\ requests'[Len(left) + 1] = request
          /\ \A n \in DOMAIN left : requests'[n] = left[n]
          BY <1>5, <1>6, <2>2
    <3>3. /\ active' \in [GapKeys -> 0..Len(requests')]
          /\ \A k \in GapKeys : active'[k] = IF k = gap THEN Len(left) + 1 ELSE index[k]
          BY <1>6, <2>2, <3>2
    <3>4. ASSUME NEW k \in GapKeys, active'[k] # 0
          PROVE  requests'[active'[k]].status = "awaiting_map_update" /\ requests'[active'[k]].gap = k
      <4>1. CASE k = gap
            BY <1>5, <3>2, <3>3, <4>1
      <4>2. CASE k # gap
        <5>1. active'[k] = index[k] /\ index[k] # 0 /\ index[k] \in 0..Len(left)
              BY <1>6, <3>3, <3>4, <4>2
        <5>2. index[k] \in DOMAIN left
              BY <3>2, <5>1
        <5>3. QED
              BY <1>6, <3>2, <5>1, <5>2
      <4>3. QED
            BY <4>1, <4>2
    <3>5. ASSUME NEW n \in DOMAIN requests', requests'[n].status = "awaiting_map_update"
          PROVE  active'[requests'[n].gap] = n
      <4>1. CASE n = Len(left) + 1
            BY <1>5, <3>2, <3>3, <4>1
      <4>2. CASE n \in DOMAIN left
        <5>1. index[left[n].gap] = n /\ requests'[n] = left[n] /\ n # 0
              BY <1>6, <3>2, <3>5, <4>2
        <5>2. left[n] \in Requests
              BY <1>6, <4>2
        <5>3. left[n].gap \in GapKeys
              BY <5>2, RequestFields
        <5>4. QED
              BY <3>1, <3>3, <5>1, <5>3
      <4>3. QED
            BY <3>2, <4>1, <4>2
    <3>6. Len(requests') >= Len(requests)
          BY <1>6, <3>2
    <3>7. QED
          BY <3>2, <3>3, <3>4, <3>5, <3>6 DEF OneRequestPerGap, Awaiting
  <2>3. QED
        BY <1>3, <2>1, <2>2
<1>8. told' \subseteq DOMAIN requests'
  <2>1. DOMAIN requests = 1..Len(requests) /\ DOMAIN requests' = 1..Len(requests')
        /\ Len(requests) \in Nat /\ Len(requests') \in Nat
        BY <1>1, <1>7 DEF RequestsTyped, ScoutTypeOK
  <2>2. DOMAIN requests \subseteq DOMAIN requests'
        BY <1>7, <2>1
  <2>3. QED
        BY <1>1, <1>2, <2>2 DEF RequestsTyped, ScoutTypeOK
<1>9. clock' \in Times
      BY <1>1 DEF RequestsTyped
<1>10. QED
       BY <1>2, <1>7, <1>8, <1>9, OthersStand

LEMMA CorrelateLateKeeps ==
  ASSUME ScoutInv, NEW n \in DOMAIN requests, CorrelateLate(n), clock' = clock
  PROVE  ScoutInv'
<1>1. RequestsTyped /\ OneRequestPerGap /\ requests[n] \in Requests /\ Awaiting(n) /\ clock' \in Times
      BY DEF ScoutInv, RequestsTyped, ScoutTypeOK, CorrelateLate, Due
<1> DEFINE r == TimeOut(requests[n])
<1>2. r \in Requests /\ r.gap = requests[n].gap /\ r.status = "timed_out"
      BY <1>1, TimeOutFacts
<1>3. /\ requests' = [requests EXCEPT ![n] = r] /\ active' = WithoutEntries(active, {n})
      /\ told' = told \cup {n} /\ UNCHANGED <<urgencyVars, distanceVars>>
      BY DEF CorrelateLate
<1> HIDE DEF r
<1>4. /\ requests' \in Seq(Requests) /\ Len(requests') = Len(requests)
      /\ active' \in [GapKeys -> 0..Len(requests')] /\ OneRequestPerGap'
      BY <1>1, <1>2, <1>3, ReplacingKeeps
<1>5. told' \subseteq DOMAIN requests'
      BY <1>1, <1>3, <1>4 DEF RequestsTyped, ScoutTypeOK
<1>6. QED
      BY <1>1, <1>3, <1>4, <1>5, OthersStand

LEMMA CorrelateKeeps ==
  ASSUME ScoutInv, NEW n \in DOMAIN requests, NEW map \in MapVersions,
         Correlate(n, map), clock' = clock
  PROVE  ScoutInv'
<1>1. RequestsTyped /\ OneRequestPerGap /\ requests[n] \in Requests /\ Awaiting(n) /\ clock' \in Times
      BY DEF ScoutInv, RequestsTyped, ScoutTypeOK, Correlate
<1>2. PICK r \in Requests :
        /\ r.gap = requests[n].gap /\ requests' = [requests EXCEPT ![n] = r]
        /\ \/ r.status = "awaiting_map_update" /\ active' = active
           \/ r.status # "awaiting_map_update" /\ active' = WithoutEntries(active, {n})
  <2>1. CASE /\ requests' = [requests EXCEPT ![n].associated = map, ![n].revision = @ + 1]
             /\ UNCHANGED <<active, told>>
    <3> DEFINE r == [requests[n] EXCEPT !.associated = map, !.revision = @ + 1]
    <3>1. r \in Requests /\ r.gap = requests[n].gap /\ r.status = "awaiting_map_update"
      <4>1. requests[n].revision + 1 \in Nat
            BY <1>1, RequestFields
      <4>2. r \in Requests
            BY <1>1, <4>1 DEF Requests
      <4>3. r.gap = requests[n].gap /\ r.status = requests[n].status
            BY <1>1 DEF Requests
      <4>4. QED
            BY <1>1, <4>2, <4>3 DEF Awaiting
    <3>2. requests' = [requests EXCEPT ![n] = r]
          BY <1>1, <2>1 DEF RequestsTyped, ScoutTypeOK
    <3> HIDE DEF r
    <3>3. QED
          BY <2>1, <3>1, <3>2
  <2>2. CASE /\ requests' = [requests EXCEPT ![n].associated = map, ![n].revision = @ + 1,
                              ![n].status = "completed",
                              ![n].action = "trigger_replan_with_new_map"]
             /\ active' = WithoutEntries(active, {n})
    <3> DEFINE r == [requests[n] EXCEPT !.associated = map, !.revision = @ + 1,
                       !.status = "completed", !.action = "trigger_replan_with_new_map"]
    <3>1. r \in Requests /\ r.gap = requests[n].gap /\ r.status = "completed"
      <4>1. requests[n].revision + 1 \in Nat /\ "trigger_replan_with_new_map" \in Actions
            BY <1>1, RequestFields DEF Actions
      <4>2. r \in Requests
            BY <1>1, <4>1 DEF Requests
      <4>3. r.gap = requests[n].gap /\ r.status = "completed"
            BY <1>1 DEF Requests
      <4>4. QED
            BY <4>2, <4>3
    <3>2. requests' = [requests EXCEPT ![n] = r]
          BY <1>1, <2>2 DEF RequestsTyped, ScoutTypeOK
    <3> HIDE DEF r
    <3>3. QED
          BY <2>2, <3>1, <3>2
  <2>3. QED
        BY <2>1, <2>2 DEF Correlate
<1>3. told' \in SUBSET (told \cup {n}) /\ UNCHANGED <<urgencyVars, distanceVars>>
      BY DEF Correlate
<1>4. /\ requests' \in Seq(Requests) /\ Len(requests') = Len(requests)
      /\ active' \in [GapKeys -> 0..Len(requests')] /\ OneRequestPerGap'
      BY <1>1, <1>2, ReplacingKeeps
<1>5. told' \subseteq DOMAIN requests'
      BY <1>1, <1>3, <1>4 DEF RequestsTyped, ScoutTypeOK
<1>6. QED
      BY <1>1, <1>3, <1>4, <1>5, OthersStand

-----------------------------------------------------------------------------
(* Urgency and distance                                                    *)

LEMMA Thresholds ==
  /\ MinimumSafe \in Nat /\ HysteresisDistance \in Nat /\ LeadTime \in Nat
  /\ HorizonTime \in Nat /\ HysteresisTime \in Nat
  /\ Desired \in Nat /\ Continue \in Nat /\ Stop \in Nat /\ Furthest \in Nat
BY ScoutAssumption

LEMMA CandidateFacts ==
  ASSUME NEW i \in Measures
  PROVE  Candidate(i) \in Urgencies /\ Candidate(i) # None
BY NoUrgencyAssumption DEF Candidate, Urgencies

\* What an assessment does to the urgency of its gap.
LEMMA AssessEffect ==
  ASSUME ScoutInv, NEW g \in Gaps, NEW i \in Measures, Assess(g, i)
  PROVE  \/ /\ previous[g] = None
            /\ previous' = [previous EXCEPT ![g] = Candidate(i)]
            /\ switch' = switch
         \/ /\ previous[g] \in Urgencies \ {Candidate(i)}
            /\ Crossed(previous[g], Candidate(i), i)
            /\ previous' = [previous EXCEPT ![g] = Candidate(i)]
            /\ switch' = [switch EXCEPT ![g] = [from |-> previous[g], inputs |-> i]]
BY DEF Assess, ScoutInv, RequestsTyped, ScoutTypeOK

LEMMA AssessKeeps ==
  ASSUME ScoutInv, NEW g \in Gaps, NEW i \in Measures, Assess(g, i), clock' = clock
  PROVE  ScoutInv'
<1>1. /\ previous \in [Gaps -> Urgencies \cup {None}] /\ switch \in [Gaps -> Switches \cup {None}]
      /\ SwitchesLedHere
      BY DEF ScoutInv, RequestsTyped, ScoutTypeOK
<1>2. Candidate(i) \in Urgencies /\ Candidate(i) # None
      BY CandidateFacts
<1>3. /\ previous' \in [Gaps -> Urgencies \cup {None}]
      /\ switch' \in [Gaps -> Switches \cup {None}]
      /\ \A h \in Gaps : h # g => previous'[h] = previous[h] /\ switch'[h] = switch[h]
      /\ previous'[g] = Candidate(i)
      /\ \/ previous[g] = None /\ switch'[g] = switch[g]
         \/ /\ previous[g] \in Urgencies \ {Candidate(i)}
            /\ Crossed(previous[g], Candidate(i), i)
            /\ switch'[g] = [from |-> previous[g], inputs |-> i]
  <2>1. CASE /\ previous[g] = None
             /\ previous' = [previous EXCEPT ![g] = Candidate(i)]
             /\ switch' = switch
        BY <1>1, <1>2, <2>1
  <2>2. CASE /\ previous[g] \in Urgencies \ {Candidate(i)}
             /\ Crossed(previous[g], Candidate(i), i)
             /\ previous' = [previous EXCEPT ![g] = Candidate(i)]
             /\ switch' = [switch EXCEPT ![g] = [from |-> previous[g], inputs |-> i]]
    <3>1. [from |-> previous[g], inputs |-> i] \in Switches
          BY <2>2 DEF Switches
    <3>2. QED
          BY <1>1, <1>2, <2>2, <3>1
  <2>3. QED
        BY <2>1, <2>2, AssessEffect
<1>4. SwitchesLedHere'
  <2>1. SUFFICES ASSUME NEW h \in Gaps, switch'[h] # None
                 PROVE  /\ previous'[h] \in Urgencies \ {switch'[h].from}
                        /\ previous'[h] = Candidate(switch'[h].inputs)
                        /\ Crossed(switch'[h].from, previous'[h], switch'[h].inputs)
        BY DEF SwitchesLedHere, Candidate, Crossed
  <2>2. CASE h # g
        BY <1>1, <1>3, <2>1, <2>2 DEF SwitchesLedHere
  <2>3. CASE h = g
    <3>1. previous[g] # None
          BY <1>1, <1>3, <2>1, <2>3, NoUrgencyAssumption DEF SwitchesLedHere
    <3>2. QED
          BY <1>2, <1>3, <2>3, <3>1
  <2>4. QED
        BY <2>2, <2>3
<1>5. QED
  <2>1. UNCHANGED <<requests, active, told, hold, directive, far, clock>>
        BY DEF Assess, requestVars, distanceVars
  <2>2. RequestsTyped' /\ OneRequestPerGap' /\ FarIsHeld'
        BY <1>3, <2>1 DEF ScoutInv, RequestsTyped, ScoutTypeOK, OneRequestPerGap, Awaiting, FarIsHeld,
          HeldUntilNear
  <2>3. QED
        BY <1>4, <2>2 DEF ScoutInv

LEMMA ClearKeeps ==
  ASSUME ScoutInv, ClearHysteresis, clock' = clock
  PROVE  ScoutInv'
<1>1. UNCHANGED <<requests, active, told, directive, clock>>
      BY DEF ClearHysteresis, requestVars
<1>2. /\ previous' = [k \in Gaps |-> None] /\ switch' = [k \in Gaps |-> None]
      /\ hold' = FALSE /\ far' = FALSE
      BY DEF ClearHysteresis
<1>3. RequestsTyped' /\ OneRequestPerGap'
      BY <1>1, <1>2 DEF ScoutInv, RequestsTyped, ScoutTypeOK, OneRequestPerGap, Awaiting
<1>4. SwitchesLedHere' /\ FarIsHeld'
      BY <1>2 DEF SwitchesLedHere, FarIsHeld, HeldUntilNear
<1>5. QED
      BY <1>3, <1>4 DEF ScoutInv

\* The distance is graded: what is held is held until it is near.
LEMMA DistanceKeeps ==
  ASSUME ScoutInv, clock' = clock, UNCHANGED <<requestVars, urgencyVars>>,
         hold' \in BOOLEAN, far' \in BOOLEAN, directive' \in Directives,
         far' => hold', hold' => directive' \in {"hold_position", "recover_communication", "input_invalid"}
  PROVE  ScoutInv'
<1>1. RequestsTyped' /\ OneRequestPerGap'
      BY DEF ScoutInv, RequestsTyped, ScoutTypeOK, OneRequestPerGap, Awaiting, requestVars, urgencyVars
<1>2. SwitchesLedHere'
      BY DEF ScoutInv, SwitchesLedHere, urgencyVars
<1>3. FarIsHeld'
      BY DEF FarIsHeld, HeldUntilNear
<1>4. QED
      BY <1>1, <1>2, <1>3 DEF ScoutInv

LEMMA AssessDistanceKeeps ==
  ASSUME ScoutInv, NEW sep \in Nat, AssessDistance(sep), clock' = clock
  PROVE  ScoutInv'
<1>1. hold \in BOOLEAN /\ far \in BOOLEAN /\ (far => hold)
      BY DEF ScoutInv, RequestsTyped, ScoutTypeOK, FarIsHeld
<1>2. /\ hold' = (sep > Stop \/ (hold /\ sep >= Continue))
      /\ far' = (sep > Stop \/ (far /\ sep >= Continue))
      /\ UNCHANGED <<requestVars, urgencyVars>>
      BY DEF AssessDistance, StartsHold
<1>3. directive' = CASE sep > Furthest                   -> "recover_communication"
                     [] sep <= Furthest /\ hold'          -> "hold_position"
                     [] ~hold' /\ (hold \/ sep < Desired) -> "advance"
                     [] OTHER                             -> "maintain_desired_spacing"
      BY DEF AssessDistance
<1>4. hold' \in BOOLEAN /\ far' \in BOOLEAN /\ (far' => hold')
      BY <1>1, <1>2
<1>5. sep > Furthest \/ sep <= Furthest
      BY Thresholds
<1>6. sep > Furthest => hold'
  <2>1. sep > Furthest => sep > Stop
        BY Thresholds, ScoutAssumption
  <2>2. QED
        BY <1>2, <2>1
<1>7. directive' \in Directives
      BY <1>3 DEF Directives
<1>8. hold' => directive' \in {"hold_position", "recover_communication", "input_invalid"}
      BY <1>3, <1>5
<1>9. QED
      BY <1>2, <1>4, <1>7, <1>8, DistanceKeeps

-----------------------------------------------------------------------------
(* Every step                                                              *)

LEMMA RequestsStart == clock = 0 /\ ScoutInit => ScoutInv
<1>1. SUFFICES ASSUME clock = 0, ScoutInit PROVE ScoutInv
      OBVIOUS
<1>2. requests = <<>> /\ <<>> \in Seq(Requests) /\ Len(requests) = 0 /\ DOMAIN requests = {}
      BY <1>1 DEF ScoutInit
<1>3. active \in [GapKeys -> 0..0] /\ \A k \in GapKeys : active[k] = 0
      BY <1>1 DEF ScoutInit
<1>4. ScoutTypeOK
      BY <1>1, <1>2, <1>3 DEF ScoutInit, ScoutTypeOK
<1>5. RequestsTyped
  <2>1. clock \in Times
        BY <1>1, SnapshotAssumption DEF Times
  <2>2. switch \in [Gaps -> Switches \cup {None}] /\ far \in BOOLEAN
        BY <1>1 DEF ScoutInit
  <2>3. QED
        BY <1>4, <2>1, <2>2 DEF RequestsTyped
<1>6. OneRequestPerGap
      BY <1>2, <1>3 DEF OneRequestPerGap
<1>7. SwitchesLedHere /\ FarIsHeld
      BY <1>1 DEF ScoutInit, SwitchesLedHere, FarIsHeld, HeldUntilNear
<1>8. QED
      BY <1>5, <1>6, <1>7 DEF ScoutInv

LEMMA RequestsKept == ScoutInv /\ [ScoutNext]_<<clock, scoutVars>> => ScoutInv'
<1>1. SUFFICES ASSUME ScoutInv, [ScoutNext]_<<clock, scoutVars>> PROVE ScoutInv'
      OBVIOUS
<1>2. CASE ScoutCall /\ UNCHANGED clock
  <2>1. CASE ExpireRequests
        BY <1>1, <1>2, <2>1, ExpireKeeps
  <2>2. ASSUME NEW gap \in GapKeys, NEW urgency \in Urgencies, IssueRequest(gap, urgency)
        PROVE  ScoutInv'
        BY <1>1, <1>2, <2>2, IssueKeeps
  <2>3. ASSUME NEW n \in DOMAIN requests, CorrelateLate(n) PROVE ScoutInv'
        BY <1>1, <1>2, <2>3, CorrelateLateKeeps
  <2>4. ASSUME NEW n \in DOMAIN requests, NEW map \in MapVersions, Correlate(n, map) PROVE ScoutInv'
        BY <1>1, <1>2, <2>4, CorrelateKeeps
  <2>5. ASSUME NEW g \in Gaps, NEW i \in Measures, Assess(g, i) PROVE ScoutInv'
        BY <1>1, <1>2, <2>5, AssessKeeps
  <2>6. CASE ClearHysteresis
        BY <1>1, <1>2, <2>6, ClearKeeps
  <2>7. ASSUME NEW sep \in Nat, AssessDistance(sep) PROVE ScoutInv'
        BY <1>1, <1>2, <2>7, AssessDistanceKeeps
  <2>8. CASE AssessWithoutPose
        BY <1>1, <1>2, <2>8, DistanceKeeps DEF AssessWithoutPose, Directives
  <2>9. CASE Scan
    <3>1. UNCHANGED <<requestVars, urgencyVars, distanceVars>>
          BY <2>9 DEF Scan
    <3>2. QED
          BY <1>1, <1>2, <3>1 DEF ScoutInv, RequestsTyped, ScoutTypeOK, OneRequestPerGap, Awaiting,
            SwitchesLedHere, FarIsHeld, HeldUntilNear, requestVars, urgencyVars, distanceVars
  <2>10. QED
         BY <1>2, <2>1, <2>2, <2>3, <2>4, <2>5, <2>6, <2>7, <2>8, <2>9 DEF ScoutCall, RequestNext
<1>3. CASE clock' \in Times /\ UNCHANGED scoutVars
      BY <1>1, <1>3 DEF ScoutInv, RequestsTyped, ScoutTypeOK, OneRequestPerGap, Awaiting,
        SwitchesLedHere, FarIsHeld, HeldUntilNear, scoutVars, requestVars, urgencyVars, distanceVars
<1>4. CASE UNCHANGED <<clock, scoutVars>>
  <2>1. clock' \in Times
        BY <1>1, <1>4 DEF ScoutInv, RequestsTyped
  <2>2. QED
        BY <1>3, <1>4, <2>1
<1>5. QED
      BY <1>1, <1>2, <1>3, <1>4 DEF ScoutNext

LEMMA RequestsInvariance == ScoutSpec => []ScoutInv
<1>1. QED
      BY RequestsStart, RequestsKept, PTL DEF ScoutSpec

\* Requests, index, urgencies and distance stay in their domains, for any gaps,
\* bounds and thresholds.
THEOREM ScoutTyped == ScoutSpec => []ScoutTypeOK
<1>1. ScoutInv => ScoutTypeOK
      BY DEF ScoutInv, RequestsTyped
<1>2. QED
      BY <1>1, RequestsInvariance, PTL

\* A gap never has two running requests, and the index finds the one there is,
\* whichever way and in whatever order requests are issued, answered and expire.
THEOREM GapsHaveOneRequest == ScoutSpec => []OneRequestPerGap
<1>1. ScoutInv => OneRequestPerGap
      BY DEF ScoutInv
<1>2. QED
      BY <1>1, RequestsInvariance, PTL

-----------------------------------------------------------------------------
(* Steps                                                                   *)

\* A request whose record changes was running.
LEMMA StepsAdvance ==
  ASSUME ScoutInv, [ScoutNext]_<<clock, scoutVars>>, NEW n \in DOMAIN requests,
         requests'[n] # requests[n]
  PROVE  /\ Awaiting(n)
         /\ requests'[n].revision = requests[n].revision + 1
         /\ requests[n].associated # None =>
              requests'[n].associated.seq >= requests[n].associated.seq
<1>1. /\ requests \in Seq(Requests) /\ requests[n] \in Requests
      /\ DOMAIN requests = 1..Len(requests) /\ Len(requests) \in Nat
      BY DEF ScoutInv, RequestsTyped, ScoutTypeOK
<1>2. requests[n].associated # None =>
        requests[n].associated \in MapVersions /\ requests[n].associated.seq \in Int
  <2>1. requests[n].associated \in MapVersions \cup {None}
        BY <1>1, RequestFields
  <2>2. QED
        BY <2>1 DEF MapVersions
<1>3. ASSUME Awaiting(n), requests'[n] = TimeOut(requests[n])
      PROVE  /\ requests'[n].revision = requests[n].revision + 1
             /\ requests[n].associated # None =>
                  requests'[n].associated.seq >= requests[n].associated.seq
  <2>1. requests'[n].associated = requests[n].associated
        /\ requests'[n].revision = requests[n].revision + 1
        BY <1>1, <1>3, TimeOutFacts
  <2>2. requests[n].associated # None => requests[n].associated.seq >= requests[n].associated.seq
        BY <1>2
  <2>3. QED
        BY <2>1, <2>2
<1>4. RequestsTyped
      BY DEF ScoutInv
<1>5. /\ \A m \in DOMAIN requests :
           WithTimedOut(AllDue)[m] = IF m \in AllDue THEN TimeOut(requests[m]) ELSE requests[m]
      /\ WithTimedOut(AllDue) \in Seq(Requests) /\ Len(WithTimedOut(AllDue)) = Len(requests)
      /\ n \in AllDue => Awaiting(n)
      BY <1>4, TimedOutFacts
<1>6. ASSUME requests'[n] = WithTimedOut(AllDue)[n] PROVE Awaiting(n) /\ requests'[n] = TimeOut(requests[n])
      BY <1>5, <1>6
<1>7. CASE ExpireRequests
      BY <1>3, <1>6, <1>7 DEF ExpireRequests
<1>8. ASSUME NEW gap \in GapKeys, NEW urgency \in Urgencies, IssueRequest(gap, urgency)
      PROVE  requests'[n] = WithTimedOut(AllDue)[n]
  <2> DEFINE left == WithTimedOut(AllDue)
  <2>1. \/ requests' = left
        \/ \E r : requests' = Append(left, r)
        BY <1>8 DEF IssueRequest
  <2>2. n \in 1..Len(left) /\ left \in Seq(Requests)
        BY <1>1, <1>5
  <2> HIDE DEF left
  <2>3. requests'[n] = left[n]
        BY <2>1, <2>2
  <2>4. QED
        BY <2>3 DEF left
<1>9. ASSUME NEW m \in DOMAIN requests, CorrelateLate(m)
      PROVE  Awaiting(n) /\ requests'[n] = TimeOut(requests[n])
  <2>1. requests' = [requests EXCEPT ![m] = TimeOut(requests[m])] /\ Awaiting(m)
        BY <1>9 DEF CorrelateLate, Due
  <2>2. n = m
        BY <1>1, <2>1
  <2>3. QED
        BY <1>1, <2>1, <2>2
<1>10. ASSUME NEW m \in DOMAIN requests, NEW map \in MapVersions, Correlate(m, map)
       PROVE  /\ Awaiting(n)
              /\ requests'[n].revision = requests[n].revision + 1
              /\ requests[n].associated # None =>
                   requests'[n].associated.seq >= requests[n].associated.seq
  <2>1. /\ Awaiting(m) /\ Answers(requests[m], map)
        /\ \/ requests' = [requests EXCEPT ![m].associated = map, ![m].revision = @ + 1]
           \/ requests' = [requests EXCEPT ![m].associated = map, ![m].revision = @ + 1,
                             ![m].status = "completed",
                             ![m].action = "trigger_replan_with_new_map"]
        BY <1>10 DEF Correlate
  <2>2. n = m
        BY <1>1, <2>1
  <2>3. requests'[n].revision = requests[n].revision + 1 /\ requests'[n].associated = map
        BY <1>1, <2>1, <2>2 DEF Requests
  <2>4. requests[n].associated # None => map.seq > requests[n].associated.seq
        BY <2>1, <2>2 DEF Answers
  <2>5. map.seq \in Int
        BY DEF MapVersions
  <2>6. requests[n].associated # None => map.seq >= requests[n].associated.seq
        BY <1>2, <2>4, <2>5
  <2>7. QED
        BY <2>1, <2>2, <2>3, <2>6
<1>11. RequestNext
  <2>1. ~ (UNCHANGED requests)
        OBVIOUS
  <2>2. QED
        BY <2>1 DEF ScoutNext, ScoutCall, Assess, ClearHysteresis, AssessDistance, AssessWithoutPose,
          Scan, scoutVars, requestVars
<1>12. QED
       BY <1>3, <1>6, <1>7, <1>8, <1>9, <1>10, <1>11 DEF RequestNext

\* A request that has ended never changes, and one that changes counts it and never
\* takes an older map.
THEOREM RequestsAdvance == ScoutSpec => RequestsOnlyAdvance
<1>1. ScoutInv /\ [ScoutNext]_<<clock, scoutVars>> =>
        [\A n \in DOMAIN requests :
           requests'[n] # requests[n] =>
             /\ Awaiting(n)
             /\ requests'[n].revision = requests[n].revision + 1
             /\ requests[n].associated # None =>
                  requests'[n].associated.seq >= requests[n].associated.seq]_requests
      BY StepsAdvance
<1>2. QED
      BY <1>1, RequestsInvariance, PTL DEF ScoutSpec, RequestsOnlyAdvance

\* Going back over a threshold takes twice the hysteresis.
LEMMA BackAndForth ==
  ASSUME NEW from \in Urgencies, NEW to \in Urgencies, from # to,
         NEW i \in Measures, NEW j \in Measures, Crossed(from, to, i), Crossed(to, from, j)
  PROVE  \/ i.blocks # j.blocks
         \/ Distance(i.remaining, j.remaining) > 2 * HysteresisDistance
         \/ Distance(i.time, j.time) > 2 * HysteresisTime
<1>1. /\ i.remaining \in Int /\ j.remaining \in Int /\ i.time \in Int /\ j.time \in Int
      /\ i.blocks \in BOOLEAN /\ j.blocks \in BOOLEAN
      BY Thresholds DEF Measures
<1>2. \A a, b \in Int : Distance(a, b) = (IF a >= b THEN a - b ELSE b - a)
      BY DEF Distance, Larger
<1>3. CASE Rank[to] < Rank[from]
  <2>1. ~(Rank[from] < Rank[to])
        BY <1>3 DEF Rank, Urgencies
  <2>2. CASE to = "blocking"
        BY <1>1, <1>2, <1>3, <2>1, <2>2, Thresholds DEF Crossed
  <2>3. CASE to = "urgent"
        BY <1>1, <1>2, <1>3, <2>1, <2>3, Thresholds DEF Crossed
  <2>4. CASE to \notin {"blocking", "urgent"}
        BY <1>1, <1>2, <1>3, <2>1, <2>4, Thresholds DEF Crossed
  <2>5. QED
        BY <2>2, <2>3, <2>4
<1>4. CASE Rank[from] < Rank[to]
  <2>1. ~(Rank[to] < Rank[from])
        BY <1>4 DEF Rank, Urgencies
  <2>2. CASE from = "blocking"
        BY <1>1, <1>2, <1>4, <2>1, <2>2, Thresholds DEF Crossed
  <2>3. CASE from = "urgent"
        BY <1>1, <1>2, <1>4, <2>1, <2>3, Thresholds DEF Crossed
  <2>4. CASE from \notin {"blocking", "urgent"}
        BY <1>1, <1>2, <1>4, <2>1, <2>4, Thresholds DEF Crossed
  <2>5. QED
        BY <2>2, <2>3, <2>4
<1>5. QED
      BY <1>3, <1>4 DEF Rank, Urgencies

LEMMA StepsDoNotFlap ==
  ASSUME ScoutInv, [ScoutNext]_<<clock, scoutVars>>
  PROVE  NoFlapping
<1>1. SUFFICES ASSUME NEW g \in Gaps, switch[g] # None, switch'[g] # None,
                      switch'[g] # switch[g], previous'[g] = switch[g].from
               PROVE  \/ switch[g].inputs.blocks # switch'[g].inputs.blocks
                      \/ Distance(switch[g].inputs.remaining, switch'[g].inputs.remaining)
                           > 2 * HysteresisDistance
                      \/ Distance(switch[g].inputs.time, switch'[g].inputs.time) > 2 * HysteresisTime
      BY DEF NoFlapping
<1>2. /\ previous \in [Gaps -> Urgencies \cup {None}] /\ switch \in [Gaps -> Switches \cup {None}]
      /\ SwitchesLedHere
      BY DEF ScoutInv, RequestsTyped, ScoutTypeOK
<1>3. PICK h \in Gaps, j \in Measures : Assess(h, j)
  <2>1. switch' # switch
        BY <1>1
  <2>2. ~ClearHysteresis
        BY <1>1 DEF ClearHysteresis
  <2>3. QED
        BY <2>1, <2>2 DEF ScoutNext, ScoutCall, RequestNext, ExpireRequests, IssueRequest, CorrelateLate,
          Correlate, AssessDistance, AssessWithoutPose, Scan, scoutVars, urgencyVars
<1>4. /\ previous[h] \in Urgencies \ {Candidate(j)} /\ Crossed(previous[h], Candidate(j), j)
      /\ previous' = [previous EXCEPT ![h] = Candidate(j)]
      /\ switch' = [switch EXCEPT ![h] = [from |-> previous[h], inputs |-> j]]
      BY <1>1, <1>3, AssessEffect
<1>5. h = g
      BY <1>1, <1>2, <1>4
<1>6. switch'[g].inputs = j /\ previous'[g] = Candidate(j)
      BY <1>2, <1>4, <1>5
<1>7. /\ switch[g].from \in Urgencies /\ switch[g].inputs \in Measures
      /\ Crossed(switch[g].from, previous[g], switch[g].inputs)
      BY <1>1, <1>2 DEF SwitchesLedHere, Switches
<1>8. Crossed(previous[g], switch[g].from, j) /\ previous[g] \in Urgencies /\ previous[g] # switch[g].from
      BY <1>1, <1>4, <1>5, <1>6
<1>9. QED
      BY <1>6, <1>7, <1>8, BackAndForth

\* Urgencies do not flap and a scout that was too far is held until it is near: both
\* hystereses work for any thresholds the parameters allow.
THEOREM GradingsStaySteady == ScoutSpec => GradingsAreSteady
<1>1. ScoutInv /\ ScoutInv' /\ [ScoutNext]_<<clock, scoutVars>> =>
        [NoFlapping /\ HeldUntilNear']_<<urgencyVars, distanceVars>>
  <2>1. ScoutInv' => HeldUntilNear'
        BY DEF ScoutInv, FarIsHeld
  <2>2. QED
        BY <2>1, StepsDoNotFlap
<1>2. QED
      BY <1>1, RequestsInvariance, PTL DEF ScoutSpec, GradingsAreSteady

-----------------------------------------------------------------------------
(***************************************************************************)
(* The scan for gaps: whatever is unknown or uncertain along the line or   *)
(* beside it is within some gap of the scan, by induction along the line,  *)
(* the detour and the gaps in order.                                       *)
(***************************************************************************)

LineSamples == [progress : Nat, class : Classes]
DetourPoints == [progress : Nat, y : Int, class : Classes]
Scans == [done : Seq(GapRecords), current : GapRecords \cup {None}]

\* The gap g takes in the gap t.
TakesIn(g, t) ==
  g.start <= t.start /\ t.end <= g.end /\ ReasonRank[g.reason] >= ReasonRank[t.reason]

Among(t, found) == \E i \in 1..Len(found) : TakesIn(found[i], t)
Held(t, scan) == Among(t, scan.done) \/ (scan.current # None /\ TakesIn(scan.current, t))

LEMMA GapIs ==
  ASSUME NEW g \in GapRecords
  PROVE  /\ g.start \in Nat /\ g.end \in Nat /\ g.x \in Int /\ g.y \in Int
         /\ g.reason \in Defects /\ g # None
         /\ ReasonRank[g.reason] \in Int
<1>1. /\ g.start \in Nat /\ g.end \in Nat /\ g.x \in Int /\ g.y \in Int /\ g.reason \in Defects
      BY DEF GapRecords
<1>2. g # None
      BY NoUrgencyAssumption
<1>3. \A r \in Defects : ReasonRank[r] \in Int
      BY DEF Defects, ReasonRank
<1>4. QED
      BY <1>1, <1>2, <1>3

LEMMA Scaled ==
  ASSUME NEW a \in Nat, NEW b \in Nat
  PROVE  /\ Unit * a \in Nat
         /\ a <= b => Unit * a <= Unit * b
<1>1. Unit \in Nat
      BY ScoutAssumption
<1>2. \A c \in Nat : Unit * c \in Nat
      BY <1>1
<1>3. ASSUME a <= b PROVE Unit * a <= Unit * b
  <2>1. PICK d \in Nat : b = a + d
    <3>1. b - a \in Nat /\ b = a + (b - a)
          BY <1>3
    <3>2. QED
          BY <3>1
  <2>2. Unit * b = Unit * a + Unit * d
        BY <1>1, <2>1
  <2>3. Unit * a \in Nat /\ Unit * d \in Nat
        BY <1>2
  <2>4. QED
        BY <2>2, <2>3
<1>4. QED
      BY <1>2, <1>3

LEMMA PointGapIs ==
  ASSUME NEW p \in Nat, NEW y \in Int, NEW class \in Defects
  PROVE  /\ PointGap(p, y, class) \in GapRecords
         /\ PointGap(p, y, class).start = Unit * p /\ PointGap(p, y, class).end = Unit * p
         /\ PointGap(p, y, class).reason = class
<1>1. Unit * p \in Nat
      BY Scaled
<1>2. Unit * y \in Int
  <2>1. Unit \in Int
        BY ScoutAssumption
  <2>2. QED
        BY <2>1
<1> DEFINE at == Unit * p
           side == Unit * y
<1>3. PointGap(p, y, class) = [start |-> at, end |-> at, x |-> at, y |-> side, reason |-> class]
      BY DEF PointGap
<1>4. at \in Nat /\ at \in Int /\ side \in Int
      BY <1>1, <1>2
<1> HIDE DEF at, side
<1>5. QED
  <2>1. PointGap(p, y, class) \in GapRecords
        BY <1>3, <1>4 DEF GapRecords
  <2>2. QED
        BY <1>3, <2>1 DEF at

\* Containment is an order, as far as it is needed.
LEMMA ContainsItself ==
  ASSUME NEW g \in GapRecords
  PROVE  TakesIn(g, g)
BY GapIs DEF TakesIn

LEMMA ContainsFurther ==
  ASSUME NEW g \in GapRecords, NEW h \in GapRecords, NEW t \in GapRecords,
         TakesIn(g, h), TakesIn(h, t)
  PROVE  TakesIn(g, t)
<1>1. /\ g.start \in Nat /\ h.start \in Nat /\ t.start \in Nat
      /\ g.end \in Nat /\ h.end \in Nat /\ t.end \in Nat
      /\ ReasonRank[g.reason] \in Int /\ ReasonRank[h.reason] \in Int /\ ReasonRank[t.reason] \in Int
      BY GapIs
<1>2. QED
      BY <1>1 DEF TakesIn

\* A merged gap takes in both, when the second does not start before the first.
LEMMA MergeIs ==
  ASSUME NEW g \in GapRecords, NEW n \in GapRecords
  PROVE  /\ Merge(g, n) \in GapRecords /\ Merge(g, n).start = g.start
         /\ TakesIn(Merge(g, n), g)
         /\ g.start <= n.start => TakesIn(Merge(g, n), n)
<1> DEFINE end == Larger(g.end, n.end)
           x == (g.x + n.x) \div 2
           y == (g.y + n.y) \div 2
           reason == MoreConservative(g.reason, n.reason)
<1>1. Merge(g, n) = [start |-> g.start, end |-> end, x |-> x, y |-> y, reason |-> reason]
      BY DEF Merge
<1>2. end \in Nat /\ g.end <= end /\ n.end <= end
      BY GapIs DEF Larger
<1>3. x \in Int /\ y \in Int
      BY GapIs
<1>4. /\ reason \in Defects
      /\ ReasonRank[reason] >= ReasonRank[g.reason] /\ ReasonRank[reason] >= ReasonRank[n.reason]
      BY GapIs DEF MoreConservative
<1> HIDE DEF end, x, y, reason
<1>5. Merge(g, n) \in GapRecords
      BY <1>1, <1>2, <1>3, <1>4, GapIs DEF GapRecords
<1>6. /\ Merge(g, n).start = g.start /\ Merge(g, n).end = end /\ Merge(g, n).reason = reason
      BY <1>1
<1>7. QED
      BY <1>2, <1>4, <1>5, <1>6, GapIs DEF TakesIn

-----------------------------------------------------------------------------
(* Sequences of gaps                                                       *)

LEMMA AppendedIs ==
  ASSUME NEW S, NEW q \in Seq(S), NEW e \in S
  PROVE  /\ Append(q, e) \in Seq(S) /\ Len(Append(q, e)) = Len(q) + 1
         /\ Append(q, e)[Len(q) + 1] = e
         /\ \A i \in 1..Len(q) : Append(q, e)[i] = q[i]
OBVIOUS

LEMMA ReplacedIs ==
  ASSUME NEW S, NEW q \in Seq(S), NEW i \in 1..Len(q), NEW e \in S
  PROVE  /\ [q EXCEPT ![i] = e] \in Seq(S) /\ Len([q EXCEPT ![i] = e]) = Len(q)
         /\ [q EXCEPT ![i] = e][i] = e
         /\ \A j \in 1..Len(q) : j # i => [q EXCEPT ![i] = e][j] = q[j]
OBVIOUS

LEMMA JoinedIs ==
  ASSUME NEW S, NEW q \in Seq(S), NEW r \in Seq(S)
  PROVE  /\ q \o r \in Seq(S) /\ Len(q \o r) = Len(q) + Len(r)
         /\ \A i \in 1..Len(q) : (q \o r)[i] = q[i]
         /\ \A i \in 1..Len(r) : (q \o r)[Len(q) + i] = r[i]
OBVIOUS

LEMMA ElementOf ==
  ASSUME NEW S, NEW q \in Seq(S), NEW i \in 1..Len(q)
  PROVE  q[i] \in S
OBVIOUS

LEMMA AmongAppended ==
  ASSUME NEW found \in Seq(GapRecords), NEW g \in GapRecords, NEW t \in GapRecords
  PROVE  /\ Among(t, found) => Among(t, Append(found, g))
         /\ TakesIn(g, t) => Among(t, Append(found, g))
<1> DEFINE longer == Append(found, g)
<1>1. /\ longer \in Seq(GapRecords) /\ Len(longer) = Len(found) + 1 /\ longer[Len(found) + 1] = g
      /\ \A i \in 1..Len(found) : longer[i] = found[i]
      BY AppendedIs
<1>2. Len(found) \in Nat
      OBVIOUS
<1> HIDE DEF longer
<1>3. Len(found) + 1 \in 1..Len(longer) /\ \A i \in 1..Len(found) : i \in 1..Len(longer)
      BY <1>1, <1>2
<1>4. ASSUME Among(t, found) PROVE Among(t, longer)
  <2>1. PICK i \in 1..Len(found) : TakesIn(found[i], t)
        BY <1>4 DEF Among
  <2>2. i \in 1..Len(longer) /\ TakesIn(longer[i], t)
        BY <1>1, <1>3, <2>1
  <2>3. QED
        BY <2>2 DEF Among
<1>5. ASSUME TakesIn(g, t) PROVE Among(t, longer)
  <2>1. TakesIn(longer[Len(found) + 1], t)
        BY <1>1, <1>5
  <2>2. QED
        BY <1>3, <2>1 DEF Among
<1>6. QED
      BY <1>4, <1>5 DEF longer

-----------------------------------------------------------------------------
(* The scan along the line                                                 *)

\* What closing the scan leaves is what it held.
LEMMA ClosedHolds ==
  ASSUME NEW scan \in Scans
  PROVE  /\ Closed(scan) \in Seq(GapRecords)
         /\ \A t \in GapRecords : Held(t, scan) => Among(t, Closed(scan))
<1>1. scan.done \in Seq(GapRecords) /\ (scan.current # None => scan.current \in GapRecords)
      BY DEF Scans
<1>2. CASE scan.current = None
      BY <1>1, <1>2 DEF Closed, Held
<1>3. CASE scan.current # None
  <2>1. Closed(scan) = Append(scan.done, scan.current)
        BY <1>3 DEF Closed
  <2>2. Append(scan.done, scan.current) \in Seq(GapRecords)
        BY <1>1, <1>3, AppendedIs
  <2>3. \A t \in GapRecords : Held(t, scan) => Among(t, Append(scan.done, scan.current))
        BY <1>1, <1>3, AmongAppended DEF Held
  <2>4. QED
        BY <2>1, <2>2, <2>3
<1>4. QED
      BY <1>2, <1>3

\* The gap that is open does not start behind a place on the line.
StartsBy(scan, at) == scan.current # None => scan.current.start <= at

\* What a sample does: nothing that was held is let go, and the sample is held if it is bad.
AddsSample(scan, next, sample) ==
  /\ next \in Scans
  /\ StartsBy(scan, Unit * sample.progress) =>
       /\ StartsBy(next, Unit * sample.progress)
       /\ \A t \in GapRecords : Held(t, scan) => Held(t, next)
       /\ sample.class \in Defects => Held(PointGap(sample.progress, 0, sample.class), next)

LEMMA SampleAdds ==
  ASSUME NEW scan \in Scans, NEW sample \in LineSamples
  PROVE  AddsSample(scan, AddSample(scan, sample), sample)
<1> DEFINE next == AddSample(scan, sample)
           at == Unit * sample.progress
           point == PointGap(sample.progress, 0, sample.class)
<1>1. /\ scan = [done |-> scan.done, current |-> scan.current]
      /\ scan.done \in Seq(GapRecords) /\ (scan.current # None => scan.current \in GapRecords)
      BY DEF Scans
<1>2. sample.progress \in Nat /\ sample.class \in Classes
      BY DEF LineSamples
<1>3. at \in Nat
      BY <1>2, Scaled
<1>4. sample.class \in Defects => point \in GapRecords /\ point.start = at
  <2> DEFINE class == sample.class
             p == sample.progress
  <2> HIDE DEF class, p
  <2>1. p \in Nat /\ 0 \in Int
        BY <1>2 DEF p
  <2>2. class \in Defects => PointGap(p, 0, class) \in GapRecords /\ PointGap(p, 0, class).start = Unit * p
        BY <2>1, PointGapIs
  <2>3. QED
        BY <2>2 DEF class, p
<1>5. CASE sample.class \notin Defects
  <2>1. next = [done |-> Closed(scan), current |-> None]
        BY <1>5 DEF AddSample, Closed
  <2>2. /\ Closed(scan) \in Seq(GapRecords)
        /\ \A t \in GapRecords : Held(t, scan) => Among(t, Closed(scan))
        BY ClosedHolds
  <2> HIDE DEF next
  <2>3. next \in Scans /\ next.done = Closed(scan) /\ next.current = None
        BY <2>1, <2>2 DEF Scans
  <2>4. \A t \in GapRecords : Held(t, scan) => Held(t, next)
        BY <2>2, <2>3 DEF Held
  <2>5. QED
        BY <1>5, <2>3, <2>4 DEF AddsSample, StartsBy, next
<1>6. CASE sample.class \in Defects /\ scan.current = None
  <2>1. next = [done |-> scan.done, current |-> point]
        BY <1>1, <1>6 DEF AddSample
  <2>2. point \in GapRecords /\ point # None /\ point.start = at /\ TakesIn(point, point)
        BY <1>4, <1>6, GapIs, ContainsItself
  <2> HIDE DEF next, point
  <2>3. next \in Scans /\ next.done = scan.done /\ next.current = point
        BY <1>1, <2>1, <2>2 DEF Scans
  <2>4. \A t \in GapRecords : Held(t, scan) => Held(t, next)
        BY <1>6, <2>3 DEF Held
  <2>5. Held(point, next) /\ StartsBy(next, at)
        BY <1>3, <2>2, <2>3 DEF Held, StartsBy
  <2>6. QED
        BY <2>3, <2>4, <2>5 DEF AddsSample, next, point
<1>7. CASE sample.class \in Defects /\ scan.current # None /\ Near(scan.current, point)
  <2> DEFINE both == Merge(scan.current, point)
  <2>1. next = [done |-> scan.done, current |-> both]
        BY <1>1, <1>7 DEF AddSample
  <2>2. scan.current \in GapRecords /\ point \in GapRecords /\ point.start = at
        BY <1>1, <1>4, <1>7
  <2> HIDE DEF point
  <2>3. /\ both \in GapRecords /\ both.start = scan.current.start
        /\ TakesIn(both, scan.current)
        /\ scan.current.start <= at => TakesIn(both, point)
        BY <2>2, MergeIs
  <2> HIDE DEF next, both
  <2>4. both # None
        BY <2>3, GapIs
  <2>5. next \in Scans /\ next.done = scan.done /\ next.current = both
        BY <1>1, <2>1, <2>3 DEF Scans
  <2>6. ASSUME NEW t \in GapRecords, Held(t, scan) PROVE Held(t, next)
    <3>1. TakesIn(scan.current, t) => TakesIn(both, t)
          BY <2>2, <2>3, ContainsFurther
    <3>2. QED
          BY <2>4, <2>5, <2>6, <3>1 DEF Held
  <2>7. StartsBy(scan, at) => Held(point, next) /\ StartsBy(next, at)
        BY <1>7, <2>3, <2>4, <2>5 DEF Held, StartsBy
  <2>8. QED
        BY <2>5, <2>6, <2>7 DEF AddsSample, next, point
<1>8. CASE sample.class \in Defects /\ scan.current # None /\ ~Near(scan.current, point)
  <2>1. next = [done |-> Append(scan.done, scan.current), current |-> point]
        BY <1>8 DEF AddSample
  <2>2. /\ scan.current \in GapRecords
        /\ point \in GapRecords /\ point # None /\ point.start = at /\ TakesIn(point, point)
        BY <1>1, <1>4, <1>8, GapIs, ContainsItself
  <2>3. Closed(scan) = Append(scan.done, scan.current)
        BY <1>8 DEF Closed
  <2>4. /\ Closed(scan) \in Seq(GapRecords)
        /\ \A t \in GapRecords : Held(t, scan) => Among(t, Closed(scan))
        BY ClosedHolds
  <2> HIDE DEF next, point
  <2>5. next \in Scans /\ next.done = Closed(scan) /\ next.current = point
        BY <2>1, <2>2, <2>3, <2>4 DEF Scans
  <2>6. \A t \in GapRecords : Held(t, scan) => Held(t, next)
        BY <2>4, <2>5 DEF Held
  <2>7. Held(point, next) /\ StartsBy(next, at)
        BY <1>3, <2>2, <2>5 DEF Held, StartsBy
  <2>8. QED
        BY <2>5, <2>6, <2>7 DEF AddsSample, next, point
<1>9. QED
      BY <1>5, <1>6, <1>7, <1>8

\* The scan after each sample.
Scanned(f, samples) ==
  /\ f \in [0..Len(samples) -> Scans] /\ f[0] = [done |-> <<>>, current |-> None]
  /\ \A n \in 1..Len(samples) : f[n] = AddSample(f[n - 1], samples[n])

LEMMA LineScanIs ==
  ASSUME NEW samples \in Seq(LineSamples)
  PROVE  \E f : Scanned(f, samples) /\ LineGaps(samples) = Closed(f[Len(samples)])
<1> DEFINE N == Len(samples)
           start == [done |-> <<>>, current |-> None]
           F == [e \in Nat \X Scans |-> IF e[1] \in 1..N THEN AddSample(e[2], samples[e[1]]) ELSE start]
           Steps(f) == [n \in 0..N |-> IF n = 0 THEN start ELSE AddSample(f[n - 1], samples[n])]
           scan == CHOOSE f : f = Steps(f)
<1>1. N \in Nat /\ \A n \in 1..N : samples[n] \in LineSamples
      BY ElementOf
<1>2. start \in Scans
      BY DEF Scans
<1>3. \A n \in 1..N : \A s \in Scans : AddSample(s, samples[n]) \in Scans
      BY <1>1, SampleAdds DEF AddsSample
<1> HIDE DEF N, start
<1>4. F \in [Nat \X Scans -> Scans]
  <2>1. \A n \in Nat, s \in Scans : n \in 1..N => AddSample(s, samples[n]) \in Scans
        BY <1>3
  <2>2. QED
        BY <1>2, <2>1
<1>5. PICK f \in [0..N -> Scans] : StepsThrough(f, N, start, F)
  <2> HIDE DEF F
  <2>1. QED
        BY <1>1, <1>2, <1>4, RecursionByStep
<1>6. f[0] = start
  <2>1. 0 \in 0..N
        BY <1>1
  <2>2. QED
        BY <1>5, <2>1 DEF StepsThrough
<1>7. ASSUME NEW n \in 1..N PROVE f[n] = AddSample(f[n - 1], samples[n])
  <2>1. n \in 0..N /\ n - 1 \in 0..N /\ n \in Nat /\ n # 0
        BY <1>1
  <2>2. f[n] = F[<<n, f[n - 1]>>] /\ f[n - 1] \in Scans
        BY <1>5, <2>1 DEF StepsThrough
  <2>3. F[<<n, f[n - 1]>>] = AddSample(f[n - 1], samples[n])
        BY <2>1, <2>2
  <2>4. QED
        BY <2>2, <2>3
<1> HIDE DEF F
<1>8. f = Steps(f)
  <2>1. \A n \in 0..N : f[n] = IF n = 0 THEN start ELSE AddSample(f[n - 1], samples[n])
    <3> TAKE n \in 0..N
    <3>1. n = 0 \/ n \in 1..N
          BY <1>1
    <3>2. QED
          BY <1>6, <1>7, <3>1
  <2>2. QED
        BY <2>1
<1>9. scan = Steps(scan)
      BY <1>8
<1> HIDE DEF scan
<1>10. scan[0] = start /\ \A n \in 1..N : scan[n] = AddSample(scan[n - 1], samples[n])
  <2>1. 0 \in 0..N /\ \A n \in 1..N : n \in 0..N /\ n # 0
        BY <1>1
  <2>2. QED
        BY <1>9, <2>1
<1>11. scan \in [0..N -> Scans]
  <2> DEFINE P == {n \in Nat : scan[n] \in Scans}
  <2>1. 0 \in P
        BY <1>2, <1>10
  <2>2. ASSUME NEW n \in 1..N, n - 1 \in P PROVE n \in P
    <3>1. n \in Nat /\ scan[n - 1] \in Scans
          BY <1>1, <2>2
    <3>2. scan[n] = AddSample(scan[n - 1], samples[n]) /\ AddSample(scan[n - 1], samples[n]) \in Scans
          BY <1>3, <1>10, <3>1
    <3>3. scan[n] \in Scans
          BY <3>2
    <3>4. QED
          BY <3>1, <3>3
  <2>3. \A n \in 0..N : n \in P
    <3> HIDE DEF P
    <3>1. QED
          BY <1>1, <2>1, <2>2, InductionUpTo
  <2>4. \A n \in 0..N : scan[n] \in Scans
        BY <2>3
  <2>5. scan = [n \in 0..N |-> scan[n]]
        BY <1>9
  <2>6. QED
        BY <2>4, <2>5
<1>12. LineGaps(samples) = Closed(scan[N])
       BY DEF LineGaps, scan, N, start
<1>13. QED
       BY <1>10, <1>11, <1>12 DEF Scanned, N, start

\* The line is scanned forwards.
Forwards(samples) == \A m, n \in 1..Len(samples) : m < n => samples[m].progress <= samples[n].progress

\* Every bad sample of the line is within a gap.
LEMMA LineGapsCover ==
  ASSUME NEW samples \in Seq(LineSamples), Forwards(samples)
  PROVE  /\ LineGaps(samples) \in Seq(GapRecords)
         /\ \A m \in 1..Len(samples) : samples[m].class \in Defects =>
              Among(PointGap(samples[m].progress, 0, samples[m].class), LineGaps(samples))
<1> DEFINE N == Len(samples)
           point(m) == PointGap(samples[m].progress, 0, samples[m].class)
<1>1. N \in Nat /\ \A n \in 1..N : samples[n] \in LineSamples /\ samples[n].progress \in Nat
  <2>1. \A n \in 1..N : samples[n] \in LineSamples
        BY ElementOf
  <2>2. \A s \in LineSamples : s.progress \in Nat
        BY DEF LineSamples
  <2>3. QED
        BY <2>1, <2>2
<1>2. PICK f : Scanned(f, samples) /\ LineGaps(samples) = Closed(f[Len(samples)])
      BY LineScanIs
<1>3. \A n \in 0..N : f[n] \in Scans
      BY <1>2 DEF Scanned
<1>4. \A m \in 1..N : samples[m].class \in Defects => point(m) \in GapRecords
  <2>1. SUFFICES ASSUME NEW m \in 1..N, samples[m].class \in Defects PROVE point(m) \in GapRecords
        OBVIOUS
  <2>2. samples[m].progress \in Nat /\ 0 \in Int
        BY <1>1
  <2>3. QED
        BY <2>1, <2>2, PointGapIs
<1> DEFINE P == {n \in Nat :
                  /\ n < N => StartsBy(f[n], Unit * samples[n + 1].progress)
                  /\ \A m \in 1..n : samples[m].class \in Defects => Held(point(m), f[n])}
<1>5. 0 \in P
  <2>1. f[0].current = None
        BY <1>2 DEF Scanned
  <2>2. QED
        BY <2>1 DEF StartsBy
<1>6. ASSUME NEW n \in 1..N, n - 1 \in P PROVE n \in P
  <2>1. n \in Nat /\ n - 1 \in Nat /\ n - 1 < N /\ (n - 1) + 1 = n /\ n - 1 \in 0..N /\ n \in 0..N
        BY <1>1
  <2>2. f[n] = AddSample(f[n - 1], samples[n])
        BY <1>2 DEF Scanned
  <2>3. AddsSample(f[n - 1], f[n], samples[n])
        BY <1>1, <1>3, <2>1, <2>2, SampleAdds
  <2>4. /\ StartsBy(f[n - 1], Unit * samples[n].progress)
        /\ \A m \in 1..n - 1 : samples[m].class \in Defects => Held(point(m), f[n - 1])
        BY <1>6, <2>1
  <2>5. /\ StartsBy(f[n], Unit * samples[n].progress)
        /\ \A t \in GapRecords : Held(t, f[n - 1]) => Held(t, f[n])
        /\ samples[n].class \in Defects => Held(point(n), f[n])
        BY <2>3, <2>4 DEF AddsSample
  <2>6. ASSUME n < N PROVE StartsBy(f[n], Unit * samples[n + 1].progress)
    <3>1. n + 1 \in 1..N /\ n < n + 1
          BY <1>1, <2>1, <2>6
    <3>2. samples[n].progress <= samples[n + 1].progress
          BY <3>1 DEF Forwards
    <3>3. samples[n].progress \in Nat /\ samples[n + 1].progress \in Nat
          BY <1>1, <3>1
    <3> DEFINE a == Unit * samples[n].progress
               b == Unit * samples[n + 1].progress
    <3>4. a \in Nat /\ b \in Nat /\ a <= b
          BY <3>2, <3>3, Scaled
    <3>5. f[n].current # None => f[n].current.start \in Nat
      <4>1. f[n] \in Scans
            BY <1>3, <2>1
      <4>2. f[n].current # None => f[n].current \in GapRecords
            BY <4>1 DEF Scans
      <4>3. QED
            BY <4>2, GapIs
    <3>6. StartsBy(f[n], a)
          BY <2>5
    <3> HIDE DEF a, b
    <3>7. StartsBy(f[n], b)
          BY <3>4, <3>5, <3>6 DEF StartsBy
    <3>8. QED
          BY <3>7 DEF b
  <2>7. ASSUME NEW m \in 1..n, samples[m].class \in Defects PROVE Held(point(m), f[n])
    <3>1. CASE m = n
          BY <2>5, <2>7, <3>1
    <3>2. CASE m \in 1..n - 1
      <4>1. m \in 1..N
            BY <1>1, <2>1, <3>2
      <4>2. point(m) \in GapRecords /\ Held(point(m), f[n - 1])
            BY <1>4, <2>4, <2>7, <3>2, <4>1
      <4>3. QED
            BY <2>5, <4>2
    <3>3. m = n \/ m \in 1..n - 1
          BY <2>1
    <3>4. QED
          BY <3>1, <3>2, <3>3
  <2>8. QED
        BY <2>1, <2>6, <2>7
<1>7. \A n \in 0..N : n \in P
  <2> HIDE DEF P
  <2>1. QED
        BY <1>1, <1>5, <1>6, InductionUpTo
<1>8. N \in 0..N /\ N \in P
      BY <1>1, <1>7
<1>9. f[N] \in Scans
      BY <1>3, <1>8
<1>10. LineGaps(samples) \in Seq(GapRecords)
       BY <1>2, <1>9, ClosedHolds
<1>11. ASSUME NEW m \in 1..N, samples[m].class \in Defects PROVE Among(point(m), LineGaps(samples))
  <2>1. Held(point(m), f[N]) /\ point(m) \in GapRecords
        BY <1>4, <1>8, <1>11
  <2>2. QED
        BY <1>2, <1>9, <2>1, ClosedHolds
<1>12. QED
       BY <1>10, <1>11

-----------------------------------------------------------------------------
(* The points of the detour                                                *)

LEMMA DetourIs ==
  ASSUME NEW points \in Seq(DetourPoints)
  PROVE  /\ DetourGaps(points) \in Seq(GapRecords)
         /\ \A m \in 1..Len(points) : points[m].class \in Defects =>
              Among(PointGap(points[m].progress, points[m].y, points[m].class), DetourGaps(points))
<1> DEFINE N == Len(points)
           point(n) == PointGap(points[n].progress, points[n].y, points[n].class)
           Add(found, n) == IF points[n].class \notin Defects THEN found ELSE Append(found, point(n))
           none == <<>>
           V == Seq(GapRecords)
           F == [e \in Nat \X V |-> IF e[1] \in 1..N THEN Add(e[2], e[1]) ELSE none]
           Steps(f) == [n \in 0..N |->
                        IF n = 0 THEN none
                        ELSE IF points[n].class \notin Defects THEN f[n - 1]
                        ELSE Append(f[n - 1],
                                    PointGap(points[n].progress, points[n].y, points[n].class))]
           found == CHOOSE f : f = Steps(f)
<1>1. N \in Nat /\ \A n \in 1..N : points[n] \in DetourPoints
      BY ElementOf
<1>2. \A n \in 1..N : points[n].class \in Defects => point(n) \in GapRecords
      BY <1>1, PointGapIs DEF DetourPoints
<1>3. none \in V
      OBVIOUS
<1>4. \A n \in 1..N : \A q \in V : Add(q, n) \in V
      BY <1>2, AppendedIs
<1>5. ASSUME NEW n \in 1..N, NEW q \in V
      PROVE  /\ \A t \in GapRecords : Among(t, q) => Among(t, Add(q, n))
             /\ points[n].class \in Defects => Among(point(n), Add(q, n))
  <2>1. CASE points[n].class \notin Defects
        BY <2>1
  <2>2. CASE points[n].class \in Defects
    <3>1. point(n) \in GapRecords /\ TakesIn(point(n), point(n))
          BY <1>2, <2>2, ContainsItself
    <3>2. Add(q, n) = Append(q, point(n))
          BY <2>2
    <3> HIDE DEF Add, point
    <3>3. QED
          BY <3>1, <3>2, AmongAppended
  <2>3. QED
        BY <2>1, <2>2
<1>6. \A f : Steps(f) = [n \in 0..N |-> IF n = 0 THEN none ELSE Add(f[n - 1], n)]
  <2>1. \A f : \A n \in 0..N : Steps(f)[n] = IF n = 0 THEN none ELSE Add(f[n - 1], n)
        OBVIOUS
  <2> DEFINE Same(f) == [n \in 0..N |-> IF n = 0 THEN none ELSE Add(f[n - 1], n)]
  <2>2. \A f : \A n \in 0..N : Steps(f)[n] = Same(f)[n]
        BY <2>1
  <2>3. QED
        BY <2>2
<1> HIDE DEF N, none, Add, V
<1>7. F \in [Nat \X V -> V]
  <2>1. \A n \in Nat, q \in V : n \in 1..N => Add(q, n) \in V
        BY <1>4
  <2>2. QED
        BY <1>3, <2>1
<1>8. PICK f \in [0..N -> V] : StepsThrough(f, N, none, F)
  <2> HIDE DEF F
  <2>1. QED
        BY <1>1, <1>3, <1>7, RecursionByStep
<1>9. f = [n \in 0..N |-> IF n = 0 THEN none ELSE Add(f[n - 1], n)]
  <2>1. ASSUME NEW n \in 0..N PROVE f[n] = IF n = 0 THEN none ELSE Add(f[n - 1], n)
    <3>1. CASE n = 0
          BY <1>8, <3>1 DEF StepsThrough
    <3>2. CASE n # 0
      <4>1. n \in 1..N /\ n - 1 \in 0..N /\ n \in Nat
            BY <1>1, <3>2
      <4>2. f[n] = F[<<n, f[n - 1]>>] /\ f[n - 1] \in V
            BY <1>8, <3>2, <4>1 DEF StepsThrough
      <4>3. F[<<n, f[n - 1]>>] = Add(f[n - 1], n)
            BY <4>1, <4>2
      <4>4. QED
            BY <3>2, <4>2, <4>3
    <3>3. QED
          BY <3>1, <3>2
  <2>2. QED
        BY <2>1
<1>10. found = Steps(found)
  <2>1. f = Steps(f)
    <3> HIDE DEF Steps
    <3>1. QED
          BY <1>6, <1>9
  <2>2. QED
    <3> HIDE DEF Steps
    <3>1. QED
          BY <2>1
<1>11. found = [n \in 0..N |-> IF n = 0 THEN none ELSE Add(found[n - 1], n)]
  <2> HIDE DEF Steps, found
  <2>1. QED
        BY <1>6, <1>10
<1>12. DetourGaps(points) = found[N]
       BY DEF DetourGaps, N, none
<1> HIDE DEF found, Steps
<1>13. found[0] = none /\ \A n \in 1..N : found[n] = Add(found[n - 1], n)
  <2>1. 0 \in 0..N /\ \A n \in 1..N : n \in 0..N /\ n # 0
        BY <1>1
  <2>2. QED
        BY <1>11, <2>1
<1> HIDE DEF point
<1> DEFINE P == {n \in Nat : /\ found[n] \in V
                              /\ \A m \in 1..n : points[m].class \in Defects =>
                                   Among(point(m), found[n])}
<1>14. 0 \in P
       BY <1>3, <1>13
<1>15. ASSUME NEW n \in 1..N, n - 1 \in P PROVE n \in P
  <2>1. n \in Nat /\ (\A m \in 1..n : m = n \/ m \in 1..n - 1) /\ \A m \in 1..n : m \in 1..N
        BY <1>1
  <2>2. /\ found[n - 1] \in V /\ found[n] = Add(found[n - 1], n)
        /\ \A m \in 1..n - 1 : points[m].class \in Defects => Among(point(m), found[n - 1])
        BY <1>13, <1>15
  <2>3. found[n] \in V
        BY <1>4, <2>2
  <2>4. ASSUME NEW m \in 1..n, points[m].class \in Defects PROVE Among(point(m), found[n])
        BY <1>2, <1>5, <2>1, <2>2, <2>4
  <2>5. QED
        BY <2>1, <2>3, <2>4
<1>16. \A n \in 0..N : n \in P
  <2> HIDE DEF P
  <2>1. QED
        BY <1>1, <1>14, <1>15, InductionUpTo
<1>17. N \in 0..N
       BY <1>1
<1>18. QED
       BY <1>12, <1>16, <1>17 DEF V, N, point

-----------------------------------------------------------------------------
(* The gaps in order                                                       *)

Ordered(order, found) == [n \in DOMAIN found |-> found[order[n]]]
Rising(q) == \A i, j \in 1..Len(q) : i < j => q[i].start <= q[j].start

LEMMA OrderedIs ==
  ASSUME NEW found \in Seq(GapRecords), NEW order \in Orders(found)
  PROVE  /\ Ordered(order, found) \in Seq(GapRecords) /\ Rising(Ordered(order, found))
         /\ \A t \in GapRecords : Among(t, found) => Among(t, Ordered(order, found))
<1> DEFINE N == Len(found)
           sorted == Ordered(order, found)
<1>1. N \in Nat /\ DOMAIN found = 1..N /\ \A i \in 1..N : found[i] \in GapRecords
      BY ElementOf
<1>2. /\ order \in [1..N -> 1..N]
      /\ \A i \in 1..N : \E k \in 1..N : order[k] = i
      /\ \A i, j \in 1..N : i < j => Precedes(found, order[i], order[j])
      BY <1>1 DEF Orders
<1> HIDE DEF N
<1>3. sorted = [n \in 1..N |-> found[order[n]]]
      BY <1>1 DEF Ordered
<1>4. \A n \in 1..N : sorted[n] = found[order[n]] /\ sorted[n] \in GapRecords
      BY <1>1, <1>2, <1>3
<1>5. sorted \in [1..N -> GapRecords]
      BY <1>3, <1>4
<1> HIDE DEF sorted
<1>6. sorted \in Seq(GapRecords) /\ Len(sorted) = N
      BY <1>1, <1>5
<1>7. Rising(sorted)
  <2>1. SUFFICES ASSUME NEW i \in 1..N, NEW j \in 1..N, i < j PROVE sorted[i].start <= sorted[j].start
        BY <1>6 DEF Rising
  <2>2. Precedes(found, order[i], order[j])
        BY <1>2, <2>1
  <2> DEFINE a == found[order[i]]
             b == found[order[j]]
  <2>3. Earlier(a, b) \/ ~Earlier(b, a)
        BY <2>2 DEF Precedes
  <2>4. a \in GapRecords /\ b \in GapRecords /\ sorted[i] = a /\ sorted[j] = b
        BY <1>1, <1>2, <1>4
  <2> HIDE DEF a, b
  <2>5. a.start <= b.start
        BY <2>3, <2>4, GapIs DEF Earlier
  <2>6. QED
        BY <2>4, <2>5
<1>8. ASSUME NEW t \in GapRecords, Among(t, found) PROVE Among(t, sorted)
  <2>1. PICK i \in 1..N : TakesIn(found[i], t)
        BY <1>8 DEF Among, N
  <2>2. PICK k \in 1..N : order[k] = i
        BY <1>2
  <2>3. TakesIn(sorted[k], t) /\ k \in 1..Len(sorted)
        BY <1>4, <1>6, <2>1, <2>2
  <2>4. QED
        BY <2>3 DEF Among
<1>9. QED
      BY <1>6, <1>7, <1>8 DEF sorted

-----------------------------------------------------------------------------
(* Merging them                                                            *)

\* No gap starts behind a place.
AllStartBy(q, at) == \A i \in 1..Len(q) : q[i].start <= at

\* What merging one more gap into the others does.
MergesGap(merged, next, g) ==
  /\ next \in Seq(GapRecords)
  /\ AllStartBy(merged, g.start) =>
       /\ AllStartBy(next, g.start)
       /\ \A t \in GapRecords : Among(t, merged) => Among(t, next)
       /\ Among(g, next)

LEMMA GapMerges ==
  ASSUME NEW merged \in Seq(GapRecords), NEW g \in GapRecords
  PROVE  MergesGap(merged, MergeInto(merged, g), g)
<1> DEFINE N == Len(merged)
           next == MergeInto(merged, g)
<1>1. /\ N \in Nat /\ (merged # <<>> <=> N # 0)
      /\ \A i \in 1..N : merged[i] \in GapRecords /\ merged[i].start \in Nat
  <2>1. N \in Nat /\ (merged # <<>> <=> N # 0)
        OBVIOUS
  <2>2. \A i \in 1..N : merged[i] \in GapRecords
        BY ElementOf
  <2> HIDE DEF N
  <2>3. QED
        BY <2>1, <2>2, GapIs
<1>2. g.start \in Nat
      BY GapIs
<1>3. CASE merged # <<>> /\ Near(merged[N], g)
  <2> DEFINE both == Merge(merged[N], g)
  <2>1. N \in 1..N
        BY <1>1, <1>3
  <2>2. next = [merged EXCEPT ![N] = both]
        BY <1>3 DEF MergeInto
  <2>3. /\ merged[N] \in GapRecords /\ both \in GapRecords /\ both.start = merged[N].start
        /\ TakesIn(both, merged[N])
        /\ merged[N].start <= g.start => TakesIn(both, g)
        BY <1>1, <2>1, MergeIs
  <2> HIDE DEF both, next
  <2>4. /\ next \in Seq(GapRecords) /\ Len(next) = N /\ next[N] = both
        /\ \A i \in 1..N : i # N => next[i] = merged[i]
        BY <2>1, <2>2, <2>3, ReplacedIs
  <2> HIDE DEF N
  <2>5. AllStartBy(merged, g.start) => AllStartBy(next, g.start)
    <3>1. SUFFICES ASSUME AllStartBy(merged, g.start), NEW i \in 1..N PROVE next[i].start <= g.start
          BY <2>4 DEF AllStartBy
    <3>2. merged[i].start <= g.start
          BY <3>1 DEF AllStartBy, N
    <3>3. CASE i = N
          BY <2>3, <2>4, <3>2, <3>3
    <3>4. CASE i # N
          BY <2>4, <3>2, <3>4
    <3>5. QED
          BY <3>3, <3>4
  <2>6. ASSUME NEW t \in GapRecords, Among(t, merged) PROVE Among(t, next)
    <3>1. PICK i \in 1..N : TakesIn(merged[i], t)
          BY <2>6 DEF Among, N
    <3>2. CASE i = N
      <4>1. TakesIn(both, t)
            BY <2>3, <3>1, <3>2, ContainsFurther
      <4>2. QED
            BY <2>1, <2>4, <4>1 DEF Among
    <3>3. CASE i # N
          BY <2>4, <3>1, <3>3 DEF Among
    <3>4. QED
          BY <3>2, <3>3
  <2>7. AllStartBy(merged, g.start) => Among(g, next)
    <3>1. SUFFICES ASSUME AllStartBy(merged, g.start) PROVE Among(g, next)
          OBVIOUS
    <3>2. merged[N].start <= g.start
          BY <2>1, <3>1 DEF AllStartBy, N
    <3>3. TakesIn(next[N], g)
          BY <2>3, <2>4, <3>2
    <3>4. QED
          BY <2>1, <2>4, <3>3 DEF Among
  <2>8. QED
        BY <2>4, <2>5, <2>6, <2>7 DEF MergesGap, next
<1>4. CASE ~(merged # <<>> /\ Near(merged[N], g))
  <2>1. next = Append(merged, g)
        BY <1>4 DEF MergeInto
  <2> HIDE DEF next
  <2>2. /\ next \in Seq(GapRecords) /\ Len(next) = N + 1 /\ next[N + 1] = g
        /\ \A i \in 1..N : next[i] = merged[i]
        BY <2>1, AppendedIs
  <2>3. /\ \A t \in GapRecords : Among(t, merged) => Among(t, next)
        /\ Among(g, next)
        BY <2>1, AmongAppended, ContainsItself
  <2>4. AllStartBy(merged, g.start) => AllStartBy(next, g.start)
    <3>1. SUFFICES ASSUME AllStartBy(merged, g.start), NEW i \in 1..N + 1 PROVE next[i].start <= g.start
          BY <2>2 DEF AllStartBy
    <3>2. CASE i = N + 1
          BY <1>2, <2>2, <3>2
    <3>3. CASE i \in 1..N
          BY <2>2, <3>1, <3>3 DEF AllStartBy
    <3>4. i = N + 1 \/ i \in 1..N
          BY <1>1
    <3>5. QED
          BY <3>2, <3>3, <3>4
  <2>5. QED
        BY <2>2, <2>3, <2>4 DEF MergesGap, next
<1>5. QED
      BY <1>3, <1>4

MergedUp(f, sorted) ==
  /\ f \in [0..Len(sorted) -> Seq(GapRecords)] /\ f[0] = <<>>
  /\ \A n \in 1..Len(sorted) : f[n] = MergeInto(f[n - 1], sorted[n])

LEMMA MergedIs ==
  ASSUME NEW sorted \in Seq(GapRecords)
  PROVE  \E f : MergedUp(f, sorted) /\ MergedGaps(sorted) = f[Len(sorted)]
<1> DEFINE N == Len(sorted)
           none == <<>>
           V == Seq(GapRecords)
           F == [e \in Nat \X V |-> IF e[1] \in 1..N THEN MergeInto(e[2], sorted[e[1]]) ELSE none]
           Steps(f) == [n \in 0..N |-> IF n = 0 THEN none ELSE MergeInto(f[n - 1], sorted[n])]
           merged == CHOOSE f : f = Steps(f)
<1>1. N \in Nat /\ none \in V
      OBVIOUS
<1>2. \A n \in 1..N : \A q \in V : MergeInto(q, sorted[n]) \in V
  <2>1. \A n \in 1..N : sorted[n] \in GapRecords
        BY ElementOf
  <2>2. QED
        BY <2>1, GapMerges DEF MergesGap
<1> HIDE DEF N, none, V
<1>3. F \in [Nat \X V -> V]
  <2>1. \A n \in Nat, q \in V : n \in 1..N => MergeInto(q, sorted[n]) \in V
        BY <1>2
  <2>2. QED
        BY <1>1, <2>1
<1>4. PICK f \in [0..N -> V] : StepsThrough(f, N, none, F)
  <2> HIDE DEF F
  <2>1. QED
        BY <1>1, <1>3, RecursionByStep
<1>5. f = Steps(f)
  <2>1. ASSUME NEW n \in 0..N PROVE f[n] = IF n = 0 THEN none ELSE MergeInto(f[n - 1], sorted[n])
    <3>1. CASE n = 0
          BY <1>4, <3>1 DEF StepsThrough
    <3>2. CASE n # 0
      <4>1. n \in 1..N /\ n - 1 \in 0..N /\ n \in Nat
            BY <1>1, <3>2
      <4>2. f[n] = F[<<n, f[n - 1]>>] /\ f[n - 1] \in V
            BY <1>4, <3>2, <4>1 DEF StepsThrough
      <4>3. F[<<n, f[n - 1]>>] = MergeInto(f[n - 1], sorted[n])
            BY <4>1, <4>2
      <4>4. QED
            BY <3>2, <4>2, <4>3
    <3>3. QED
          BY <3>1, <3>2
  <2>2. QED
        BY <2>1
<1>6. merged = Steps(merged)
      BY <1>5
<1>7. MergedGaps(sorted) = merged[N]
      BY DEF MergedGaps, N, none
<1> HIDE DEF merged
<1>8. merged[0] = none /\ \A n \in 1..N : merged[n] = MergeInto(merged[n - 1], sorted[n])
  <2>1. 0 \in 0..N /\ \A n \in 1..N : n \in 0..N /\ n # 0
        BY <1>1
  <2>2. QED
        BY <1>6, <2>1
<1>9. merged \in [0..N -> V]
  <2> DEFINE P == {n \in Nat : merged[n] \in V}
  <2>1. 0 \in P
        BY <1>1, <1>8
  <2>2. ASSUME NEW n \in 1..N, n - 1 \in P PROVE n \in P
    <3>1. n \in Nat /\ merged[n - 1] \in V
          BY <1>1, <2>2
    <3>2. merged[n] \in V
          BY <1>2, <1>8, <3>1
    <3>3. QED
          BY <3>1, <3>2
  <2>3. \A n \in 0..N : n \in P
    <3> HIDE DEF P
    <3>1. QED
          BY <1>1, <2>1, <2>2, InductionUpTo
  <2>4. \A n \in 0..N : merged[n] \in V
        BY <2>3
  <2>5. merged = [n \in 0..N |-> merged[n]]
        BY <1>6
  <2>6. QED
        BY <2>4, <2>5
<1>10. QED
       BY <1>7, <1>8, <1>9 DEF MergedUp, N, none, V

\* Whatever was within a gap is within a merged one.
LEMMA MergedGapsCover ==
  ASSUME NEW sorted \in Seq(GapRecords), Rising(sorted)
  PROVE  /\ MergedGaps(sorted) \in Seq(GapRecords)
         /\ \A t \in GapRecords : Among(t, sorted) => Among(t, MergedGaps(sorted))
<1> DEFINE N == Len(sorted)
<1>1. N \in Nat /\ \A n \in 1..N : sorted[n] \in GapRecords
      BY ElementOf
<1>2. PICK f : MergedUp(f, sorted) /\ MergedGaps(sorted) = f[Len(sorted)]
      BY MergedIs
<1>3. \A n \in 0..N : f[n] \in Seq(GapRecords)
      BY <1>2 DEF MergedUp
<1> DEFINE P == {n \in Nat :
                  /\ n < N => AllStartBy(f[n], sorted[n + 1].start)
                  /\ \A m \in 1..n : Among(sorted[m], f[n])}
<1>4. 0 \in P
  <2>1. f[0] = <<>>
        BY <1>2 DEF MergedUp
  <2>2. Len(f[0]) = 0
        BY <2>1
  <2>3. QED
        BY <2>2 DEF AllStartBy
<1>5. ASSUME NEW n \in 1..N, n - 1 \in P PROVE n \in P
  <2>1. n \in Nat /\ n - 1 \in Nat /\ n - 1 < N /\ (n - 1) + 1 = n /\ n - 1 \in 0..N /\ n \in 0..N
        BY <1>1
  <2>2. f[n] = MergeInto(f[n - 1], sorted[n])
        BY <1>2 DEF MergedUp
  <2>3. MergesGap(f[n - 1], f[n], sorted[n])
        BY <1>1, <1>3, <2>1, <2>2, GapMerges
  <2>4. /\ AllStartBy(f[n - 1], sorted[n].start)
        /\ \A m \in 1..n - 1 : Among(sorted[m], f[n - 1])
        BY <1>5, <2>1
  <2>5. /\ AllStartBy(f[n], sorted[n].start)
        /\ \A t \in GapRecords : Among(t, f[n - 1]) => Among(t, f[n])
        /\ Among(sorted[n], f[n])
        BY <2>3, <2>4 DEF MergesGap
  <2>6. ASSUME n < N PROVE AllStartBy(f[n], sorted[n + 1].start)
    <3>1. n + 1 \in 1..N /\ n < n + 1
          BY <1>1, <2>1, <2>6
    <3>2. sorted[n].start <= sorted[n + 1].start
          BY <3>1 DEF Rising
    <3>3. sorted[n].start \in Nat /\ sorted[n + 1].start \in Nat
          BY <1>1, <3>1, GapIs
    <3>4. \A i \in 1..Len(f[n]) : f[n][i].start \in Nat
      <4>1. f[n] \in Seq(GapRecords)
            BY <1>3, <2>1
      <4>2. \A i \in 1..Len(f[n]) : f[n][i] \in GapRecords
            BY <4>1, ElementOf
      <4>3. QED
            BY <4>2, GapIs
    <3>5. QED
          BY <2>5, <3>2, <3>3, <3>4 DEF AllStartBy
  <2>7. ASSUME NEW m \in 1..n PROVE Among(sorted[m], f[n])
    <3>1. m \in 1..N /\ (m = n \/ m \in 1..n - 1)
          BY <1>1, <2>1
    <3>2. QED
          BY <1>1, <2>4, <2>5, <3>1
  <2>8. QED
        BY <2>1, <2>6, <2>7
<1>6. \A n \in 0..N : n \in P
  <2> HIDE DEF P
  <2>1. QED
        BY <1>1, <1>4, <1>5, InductionUpTo
<1>7. N \in 0..N /\ N \in P
      BY <1>1, <1>6
<1>8. MergedGaps(sorted) \in Seq(GapRecords)
      BY <1>2, <1>3, <1>7
<1>9. ASSUME NEW t \in GapRecords, Among(t, sorted) PROVE Among(t, MergedGaps(sorted))
  <2>1. PICK m \in 1..N : TakesIn(sorted[m], t)
        BY <1>9 DEF Among
  <2>2. Among(sorted[m], f[N])
        BY <1>7
  <2>3. PICK k \in 1..Len(f[N]) : TakesIn(f[N][k], sorted[m])
        BY <2>2 DEF Among
  <2>4. f[N][k] \in GapRecords /\ sorted[m] \in GapRecords
        BY <1>1, <1>2, <1>8, ElementOf
  <2>5. TakesIn(f[N][k], t)
        BY <2>1, <2>3, <2>4, ContainsFurther
  <2>6. QED
        BY <1>2, <2>5 DEF Among
<1>10. QED
       BY <1>8, <1>9

-----------------------------------------------------------------------------
(* What a scan finds                                                       *)

LEMMA ScanCovers ==
  ASSUME Sampled(ground), Scan
  PROVE  GapsCoverDefects'
<1> DEFINE line == ground.line
           detour == ground.detour
           found == LineGaps(line) \o DetourGaps(detour)
<1>1. line \in Seq(LineSamples) /\ detour \in Seq(DetourPoints) /\ Forwards(line)
  <2>1. line \in Seq(LineSamples) /\ detour \in Seq(DetourPoints)
        BY DEF Sampled, LineSamples, DetourPoints
  <2>2. DOMAIN line = 1..Len(line)
        BY <2>1
  <2>3. QED
        BY <2>1, <2>2 DEF Sampled, Forwards
<1>2. PICK order \in Orders(found) : gaps' = MergedGaps(Ordered(order, found))
      BY DEF Scan, Ordered
<1>3. ground' = ground
      BY DEF Scan
<1>4. /\ LineGaps(line) \in Seq(GapRecords) /\ DetourGaps(detour) \in Seq(GapRecords)
      /\ \A m \in 1..Len(line) : line[m].class \in Defects =>
           Among(PointGap(line[m].progress, 0, line[m].class), LineGaps(line))
      /\ \A m \in 1..Len(detour) : detour[m].class \in Defects =>
           Among(PointGap(detour[m].progress, detour[m].y, detour[m].class), DetourGaps(detour))
      BY <1>1, LineGapsCover, DetourIs
<1>5. /\ found \in Seq(GapRecords)
      /\ \A t \in GapRecords : Among(t, LineGaps(line)) \/ Among(t, DetourGaps(detour)) => Among(t, found)
  <2> DEFINE first == LineGaps(line)
             second == DetourGaps(detour)
  <2>1. first \in Seq(GapRecords) /\ second \in Seq(GapRecords)
        BY <1>4
  <2> HIDE DEF first, second
  <2>2. /\ first \o second \in Seq(GapRecords) /\ Len(first \o second) = Len(first) + Len(second)
        /\ \A i \in 1..Len(first) : (first \o second)[i] = first[i]
        /\ \A i \in 1..Len(second) : (first \o second)[Len(first) + i] = second[i]
        BY <2>1, JoinedIs
  <2>3. Len(first) \in Nat /\ Len(second) \in Nat
        BY <2>1
  <2>4. /\ \A i \in 1..Len(first) : i \in 1..Len(first \o second)
        /\ \A i \in 1..Len(second) : Len(first) + i \in 1..Len(first \o second)
        BY <2>2, <2>3
  <2>5. ASSUME NEW t \in GapRecords, Among(t, first) \/ Among(t, second) PROVE Among(t, first \o second)
    <3>1. CASE Among(t, first)
          BY <2>2, <2>4, <3>1 DEF Among
    <3>2. CASE Among(t, second)
      <4>1. PICK i \in 1..Len(second) : TakesIn(second[i], t)
            BY <3>2 DEF Among
      <4>2. TakesIn((first \o second)[Len(first) + i], t)
            BY <2>2, <4>1
      <4>3. QED
            BY <2>4, <4>2 DEF Among
    <3>3. QED
          BY <2>5, <3>1, <3>2
  <2>6. QED
        BY <2>2, <2>5 DEF first, second
<1> HIDE DEF found
<1>6. /\ Ordered(order, found) \in Seq(GapRecords) /\ Rising(Ordered(order, found))
      /\ \A t \in GapRecords : Among(t, found) => Among(t, Ordered(order, found))
      BY <1>5, OrderedIs
<1>7. /\ gaps' \in Seq(GapRecords)
      /\ \A t \in GapRecords : Among(t, Ordered(order, found)) => Among(t, gaps')
      BY <1>2, <1>6, MergedGapsCover
<1>8. \A t \in GapRecords :
        Among(t, LineGaps(line)) \/ Among(t, DetourGaps(detour)) => Among(t, gaps')
      BY <1>5, <1>6, <1>7
\* A point is covered when a gap takes in the gap of that point alone.
<1> DEFINE Covered(p) == \E n \in DOMAIN gaps' :
                            /\ gaps'[n].start <= Unit * p.progress /\ Unit * p.progress <= gaps'[n].end
                            /\ ReasonRank[gaps'[n].reason] >= ReasonRank[p.class]
<1>9. ASSUME NEW p, p.progress \in Nat, NEW y \in Int, p.class \in Defects,
             Among(PointGap(p.progress, y, p.class), gaps')
      PROVE  Covered(p)
  <2> DEFINE point == PointGap(p.progress, y, p.class)
             at == Unit * p.progress
  <2>1. point.start = at /\ point.end = at /\ point.reason = p.class
        BY <1>9, PointGapIs
  <2>2. PICK n \in 1..Len(gaps') : TakesIn(gaps'[n], point)
        BY <1>9 DEF Among
  <2>3. n \in DOMAIN gaps'
        BY <1>7
  <2> HIDE DEF point
  <2>4. gaps'[n].start <= at /\ at <= gaps'[n].end /\ ReasonRank[gaps'[n].reason] >= ReasonRank[p.class]
        BY <2>1, <2>2 DEF TakesIn
  <2>5. QED
        BY <2>3, <2>4
<1>10. ASSUME NEW m \in 1..Len(line), line[m].class \in Defects PROVE Covered(line[m])
  <2>1. line[m] \in LineSamples
        BY <1>1, ElementOf
  <2>2. line[m].progress \in Nat /\ 0 \in Int
        BY <2>1 DEF LineSamples
  <2>3. PointGap(line[m].progress, 0, line[m].class) \in GapRecords
        BY <1>10, <2>2, PointGapIs
  <2>4. Among(PointGap(line[m].progress, 0, line[m].class), gaps')
        BY <1>4, <1>8, <1>10, <2>3
  <2> HIDE DEF Covered
  <2>5. QED
        BY <1>9, <1>10, <2>2, <2>4
<1>11. ASSUME NEW m \in 1..Len(detour), detour[m].class \in Defects PROVE Covered(detour[m])
  <2>1. detour[m] \in DetourPoints
        BY <1>1, ElementOf
  <2>2. detour[m].progress \in Nat /\ detour[m].y \in Int
        BY <2>1 DEF DetourPoints
  <2>3. PointGap(detour[m].progress, detour[m].y, detour[m].class) \in GapRecords
        BY <1>11, <2>2, PointGapIs
  <2>4. Among(PointGap(detour[m].progress, detour[m].y, detour[m].class), gaps')
        BY <1>4, <1>8, <1>11, <2>3
  <2> HIDE DEF Covered
  <2>5. QED
        BY <1>9, <1>11, <2>2, <2>4
<1>12. DOMAIN line = 1..Len(line) /\ DOMAIN detour = 1..Len(detour)
       BY <1>1
<1>13. ASSUME NEW p \in {ground.line[n] : n \in DOMAIN ground.line} \cup
                        {ground.detour[n] : n \in DOMAIN ground.detour},
              p.class \in Defects
       PROVE  Covered(p)
  <2> HIDE DEF Covered
  <2>1. QED
        BY <1>10, <1>11, <1>12, <1>13
<1>14. QED
       BY <1>3, <1>13 DEF GapsCoverDefects

\* Merging loses no unknown or uncertain point of the line or of the detour, and a
\* merged gap is as bad as its worst point, for any line, detour, distances and order
\* of equal gaps.
THEOREM ScansCoverDefects == ScoutSpec => []GapsCoverDefects
<1> DEFINE Inv == Sampled(ground) /\ GapsCoverDefects
<1>1. clock = 0 /\ ScoutInit => Inv
      BY DEF ScoutInit, GapsCoverDefects
<1>2. Inv /\ [ScoutNext]_<<clock, scoutVars>> => Inv'
  <2>1. SUFFICES ASSUME Inv, [ScoutNext]_<<clock, scoutVars>> PROVE Inv'
        OBVIOUS
  <2>2. CASE Scan
    <3>1. ground' = ground
          BY <2>2 DEF Scan
    <3>2. QED
          BY <2>1, <2>2, <3>1, ScanCovers
  <2>3. CASE UNCHANGED scanVars
        BY <2>1, <2>3 DEF scanVars, GapsCoverDefects
  <2>4. Scan \/ UNCHANGED scanVars
        BY <2>1 DEF ScoutNext, ScoutCall, RequestNext, ExpireRequests, IssueRequest, CorrelateLate,
          Correlate, Assess, ClearHysteresis, AssessDistance, AssessWithoutPose, scoutVars, scanVars
  <2>5. QED
        BY <2>2, <2>3, <2>4
<1>3. Inv => GapsCoverDefects
      OBVIOUS
<1>4. QED
      BY <1>1, <1>2, <1>3, PTL DEF ScoutSpec

-----------------------------------------------------------------------------
(***************************************************************************)
(* The contexts a scout planner is handed never go back. The watermarks    *)
(* are those of the last context, and a session they have left is among    *)
(* the retired; so it is enough that one admission never goes back behind  *)
(* the watermarks, which is shown by induction over the objects an         *)
(* admission stages.                                                       *)
(***************************************************************************)

Inputs == [Objects -> AllMessages]

MarkSets ==
  [delivery : [Streams -> Records \cup {NoRecord}], business : [Objects -> Contents \cup {NoRecord}],
   retired : [Streams -> SUBSET DeliverySessions], ok : BOOLEAN]

\* A record that has seen a message of an object.
Delivered(record, o, m) ==
  /\ o \in DOMAIN record.members
  /\ record.members[o] = [sequence |-> m.sequence, wire |-> Wire(m)]
  /\ record.last >= m.sequence

\* A message that does not go back behind a record of its own session.
FollowsOn(record, o, m) ==
  (record # NoRecord /\ m.session = record.session /\ o \in DOMAIN record.members) =>
    \/ m.sequence > record.members[o].sequence
    \/ record.members[o] = [sequence |-> m.sequence, wire |-> Wire(m)]

\* A record that took the place of an earlier one, some objects staged.
Succeeds(s, some, record, gone, earlier, before) ==
  /\ earlier = NoRecord => gone = before
  /\ earlier # NoRecord =>
       /\ record.producer = earlier.producer
       /\ record.session = earlier.session =>
            /\ gone = before /\ record.last >= earlier.last
            /\ \A p \in On(s) \ some : p \in DOMAIN earlier.members =>
                 p \in DOMAIN record.members /\ record.members[p] = earlier.members[p]
       /\ record.session # earlier.session =>
            record.session \notin before /\ gone = before \cup {earlier.session}

\* What holds of one stream when some of the objects are staged.
StreamHolds(s, some, record, gone, earlier, before, inputs) ==
  /\ On(s) \cap some = {} => record = earlier /\ gone = before
  /\ On(s) \cap some # {} =>
       /\ record \in Records
       /\ \A p \in On(s) : record.producer = inputs[p].producer /\ record.session = inputs[p].session
       /\ \A p \in On(s) \cap some : Delivered(record, p, inputs[p]) /\ FollowsOn(earlier, p, inputs[p])
       /\ Succeeds(s, some, record, gone, earlier, before)

-----------------------------------------------------------------------------
(* Records                                                                 *)

LEMMA RecordIs ==
  ASSUME NEW o \in Objects, NEW m \in AllMessages
  PROVE  /\ Record(o, m) \in Records
         /\ Record(o, m).producer = m.producer /\ Record(o, m).session = m.session
         /\ Delivered(Record(o, m), o, m)
<1> DEFINE R == Record(o, m)
<1>1. /\ R.producer = m.producer /\ R.session = m.session /\ R.last = m.sequence /\ R.wire = Wire(m)
      /\ R.members = [p \in {o} |-> [sequence |-> m.sequence, wire |-> Wire(m)]]
      /\ R = [producer |-> R.producer, session |-> R.session, last |-> R.last, wire |-> R.wire, members |-> R.members]
      BY DEF Record
<1>2. m.sequence \in Int
      BY ContextAssumption
<1>3. R.members \in [{o} -> [sequence : SequenceNumbers, wire : {Wire(n) : n \in AllMessages}]]
      BY <1>1 DEF SequenceNumbers
<1>4. \A p \in DOMAIN R.members : R.members[p].sequence <= R.last
      BY <1>1, <1>2
<1> HIDE DEF R
<1>5. R \in Records
  <2> DEFINE M == [sequence : SequenceNumbers, wire : {Wire(n) : n \in AllMessages}]
             All == UNION {[some -> M] : some \in SUBSET Objects}
  <2>1. R.members \in All
    <3>1. {o} \in SUBSET Objects /\ R.members \in [{o} -> M]
          BY <1>3
    <3> HIDE DEF M
    <3>2. QED
          BY <3>1
  <2>2. /\ R.producer \in {n.producer : n \in AllMessages} /\ R.session \in DeliverySessions
        /\ R.last \in SequenceNumbers /\ R.wire \in {Wire(n) : n \in AllMessages}
        BY <1>1 DEF DeliverySessions, SequenceNumbers
  <2>3. Records = {r \in [producer : {n.producer : n \in AllMessages}, session : DeliverySessions, last : SequenceNumbers,
                          wire : {Wire(n) : n \in AllMessages}, members : All] :
                     \A p \in DOMAIN r.members : r.members[p].sequence <= r.last}
        BY DEF Records
  <2> HIDE DEF All
  <2>4. QED
        BY <1>1, <1>4, <2>1, <2>2, <2>3
<1>6. Delivered(R, o, m)
      BY <1>1, <1>2 DEF Delivered
<1>7. QED
      BY <1>1, <1>5, <1>6 DEF R

LEMMA RecordFacts ==
  ASSUME NEW r \in Records
  PROVE  /\ r.last \in Int /\ r # NoRecord
         /\ \A p \in DOMAIN r.members : r.members[p].sequence \in Int /\ r.members[p].sequence <= r.last
         /\ r = [producer |-> r.producer, session |-> r.session, last |-> r.last, wire |-> r.wire, members |-> r.members]
         /\ r.producer \in {n.producer : n \in AllMessages} /\ r.session \in DeliverySessions
<1> DEFINE M == [sequence : SequenceNumbers, wire : {Wire(n) : n \in AllMessages}]
           All == UNION {[some -> M] : some \in SUBSET Objects}
           Base == [producer : {n.producer : n \in AllMessages}, session : DeliverySessions, last : SequenceNumbers,
                    wire : {Wire(n) : n \in AllMessages}, members : All]
<1>1. Records = {e \in Base : \A p \in DOMAIN e.members : e.members[p].sequence <= e.last}
      BY DEF Records
<1>2. r \in Base /\ \A p \in DOMAIN r.members : r.members[p].sequence <= r.last
  <2> HIDE DEF Base
  <2>1. QED
        BY <1>1
<1>3. r.members \in All
      BY <1>2
<1>4. \A p \in DOMAIN r.members : r.members[p].sequence \in SequenceNumbers
  <2>1. PICK some \in SUBSET Objects : r.members \in [some -> M]
        BY <1>3
  <2>2. \A p \in DOMAIN r.members : r.members[p] \in M
    <3> HIDE DEF M
    <3>1. QED
          BY <2>1
  <2>3. QED
        BY <2>2
<1>5. SequenceNumbers \subseteq Int
      BY ContextAssumption DEF SequenceNumbers
<1> HIDE DEF All
<1>6. /\ r.last \in SequenceNumbers /\ r.producer \in {n.producer : n \in AllMessages} /\ r.session \in DeliverySessions
      /\ r = [producer |-> r.producer, session |-> r.session, last |-> r.last, wire |-> r.wire, members |-> r.members]
      BY <1>2
<1>7. r # NoRecord
      BY ContextAssumption
<1>8. QED
      BY <1>2, <1>4, <1>5, <1>6, <1>7

LEMMA AdvancedIs ==
  ASSUME NEW r \in Records, NEW o \in Objects, NEW m \in AllMessages, Advances(r, o, m)
  PROVE  /\ Advanced(r, o, m) \in Records
         /\ Advanced(r, o, m).producer = r.producer /\ Advanced(r, o, m).session = r.session
         /\ Advanced(r, o, m).last = m.sequence
         /\ Delivered(Advanced(r, o, m), o, m)
         /\ \A p \in DOMAIN r.members \ {o} :
              p \in DOMAIN Advanced(r, o, m).members /\ Advanced(r, o, m).members[p] = r.members[p]
<1> DEFINE R == Advanced(r, o, m)
           e == [sequence |-> m.sequence, wire |-> Wire(m)]
           M == [sequence : SequenceNumbers, wire : {Wire(n) : n \in AllMessages}]
           All == UNION {[some -> M] : some \in SUBSET Objects}
           Base == [producer : {n.producer : n \in AllMessages}, session : DeliverySessions, last : SequenceNumbers,
                    wire : {Wire(n) : n \in AllMessages}, members : All]
           old == r.members
<1>1. Records = {x \in Base : \A p \in DOMAIN x.members : x.members[p].sequence <= x.last}
      BY DEF Records
<1>2. r \in Base
  <2> HIDE DEF Base
  <2>1. QED
        BY <1>1
<1>3. PICK some \in SUBSET Objects : old \in [some -> M]
      BY <1>2
<1>4. m.sequence \in Int /\ m.sequence > r.last /\ r.last \in Int
      BY RecordFacts, ContextAssumption DEF Advances
<1> DEFINE new == [p \in DOMAIN old \cup {o} |-> IF p = o THEN e ELSE old[p]]
<1>5. R = [r EXCEPT !.last = m.sequence, !.wire = Wire(m), !.members = new]
      BY DEF Advanced
<1>6. e \in M /\ e.sequence = m.sequence
      BY DEF SequenceNumbers
<1>7. new \in [DOMAIN old \cup {o} -> M] /\ DOMAIN old \cup {o} \in SUBSET Objects
  <2> HIDE DEF M, e, old
  <2>1. QED
        BY <1>3, <1>6
<1>8. new \in All
  <2> HIDE DEF M, e, old, new
  <2>1. QED
        BY <1>7
<1>9. \A p \in DOMAIN new : new[p].sequence <= m.sequence
  <2> TAKE p \in DOMAIN new
  <2>1. CASE p = o
        BY <1>4, <1>6, <2>1
  <2>2. CASE p # o
    <3>1. p \in DOMAIN old /\ new[p] = old[p]
          BY <2>2
    <3>2. old[p].sequence \in Int /\ old[p].sequence <= r.last
          BY <3>1, RecordFacts
    <3>3. QED
          BY <1>4, <3>1, <3>2
  <2>3. QED
        BY <2>1, <2>2
<1>10. /\ R = [producer |-> r.producer, session |-> r.session, last |-> m.sequence, wire |-> Wire(m), members |-> new]
       /\ m.sequence \in SequenceNumbers /\ Wire(m) \in {Wire(n) : n \in AllMessages}
  <2>1. r = [producer |-> r.producer, session |-> r.session, last |-> r.last, wire |-> r.wire, members |-> r.members]
        BY RecordFacts
  <2> HIDE DEF new, R
  <2>2. R = [producer |-> r.producer, session |-> r.session, last |-> m.sequence, wire |-> Wire(m), members |-> new]
        BY <1>5, <2>1
  <2>3. QED
        BY <2>2 DEF SequenceNumbers
<1>11. new[o] = e /\ o \in DOMAIN new /\ \A p \in DOMAIN old \ {o} : p \in DOMAIN new /\ new[p] = old[p]
       OBVIOUS
<1> HIDE DEF All, new, R
<1>12. R \in Records
  <2>1. R \in Base
        BY <1>2, <1>8, <1>10
  <2>2. \A p \in DOMAIN R.members : R.members[p].sequence <= R.last
        BY <1>9, <1>10
  <2> HIDE DEF Base
  <2>3. QED
        BY <1>1, <2>1, <2>2
<1>13. Delivered(R, o, m)
  <2>1. R.members = new /\ R.last = m.sequence
        BY <1>10
  <2>2. QED
        BY <1>4, <1>11, <2>1 DEF Delivered
<1>14. /\ R.producer = r.producer /\ R.session = r.session /\ R.last = m.sequence
       /\ \A p \in DOMAIN r.members \ {o} : p \in DOMAIN R.members /\ R.members[p] = r.members[p]
       BY <1>10, <1>11
<1>15. QED
       BY <1>12, <1>13, <1>14 DEF R

-----------------------------------------------------------------------------
(* Staging an object                                                       *)

\* One more object of a stream, after none or some.
LEMMA StreamStep ==
  ASSUME NEW s \in Streams, NEW inputs \in Inputs, OneSession(inputs),
         NEW some \in SUBSET Objects, NEW o \in On(s), o \notin some,
         NEW earlier \in Records \cup {NoRecord}, NEW before, NEW record, NEW gone,
         StreamHolds(s, some, record, gone, earlier, before, inputs),
         DeliveryAdmitted(record, gone, o, inputs[o]),
         NEW next, next = IF Duplicate(record, o, inputs[o]) THEN record
                          ELSE IF Advances(record, o, inputs[o]) THEN Advanced(record, o, inputs[o])
                          ELSE Record(o, inputs[o]),
         NEW after, after = IF Restarts(record, inputs[o], gone) THEN gone \cup {record.session} ELSE gone
  PROVE  StreamHolds(s, some \cup {o}, next, after, earlier, before, inputs)
<1> DEFINE m == inputs[o]
           all == some \cup {o}
<1>1. /\ o \in Objects /\ On(s) \subseteq Objects /\ m \in AllMessages
      /\ \A p \in On(s) : inputs[p].producer = m.producer /\ inputs[p].session = m.session
      BY DEF On, Inputs, OneSession
<1>2. m.sequence \in Int
      BY <1>1, ContextAssumption
<1>3. /\ On(s) \cap all = (On(s) \cap some) \cup {o} /\ On(s) \cap all # {}
      /\ On(s) \ all \subseteq On(s) \ some /\ o \notin On(s) \ all
      OBVIOUS
<1> HIDE DEF all
<1>4. CASE On(s) \cap some = {}
  <2>1. record = earlier /\ gone = before
        BY <1>4 DEF StreamHolds
  <2>2. SUFFICES /\ next \in Records /\ next.producer = m.producer /\ next.session = m.session
                 /\ Delivered(next, o, m) /\ FollowsOn(earlier, o, m)
                 /\ Succeeds(s, all, next, after, earlier, before)
    <3>1. On(s) \cap all = {o}
          BY <1>3, <1>4
    <3>2. QED
          BY <1>1, <1>3, <2>2, <3>1 DEF StreamHolds, all
  <2>3. CASE record = NoRecord
    <3>1. /\ ~Duplicate(record, o, m) /\ ~Advances(record, o, m) /\ ~Restarts(record, m, gone)
          BY <2>3 DEF Duplicate, Advances, Restarts
    <3>2. next = Record(o, m) /\ after = gone
          BY <3>1
    <3>3. FollowsOn(earlier, o, m) /\ Succeeds(s, all, next, after, earlier, before)
          BY <2>1, <2>3, <3>2 DEF FollowsOn, Succeeds
    <3>4. QED
          BY <1>1, <3>2, <3>3, RecordIs
  <2>4. CASE record # NoRecord /\ Restarts(record, m, gone)
    <3>1. record.producer = m.producer /\ record.session # m.session /\ m.session \notin gone
          BY <2>4 DEF Restarts
    <3>2. next = Record(o, m) /\ after = gone \cup {record.session}
          BY <2>4, <3>1 DEF Duplicate, Advances
    <3>3. /\ next \in Records /\ next.producer = m.producer /\ next.session = m.session
          /\ Delivered(next, o, m)
          BY <1>1, <3>2, RecordIs
    <3>4. FollowsOn(earlier, o, m) /\ Succeeds(s, all, next, after, earlier, before)
          BY <2>1, <2>4, <3>1, <3>2, <3>3 DEF FollowsOn, Succeeds
    <3>5. QED
          BY <3>3, <3>4
  <2>5. CASE record # NoRecord /\ Duplicate(record, o, m)
    <3>1. /\ record.producer = m.producer /\ record.session = m.session /\ o \in DOMAIN record.members
          /\ record.members[o] = [sequence |-> m.sequence, wire |-> Wire(m)]
          BY <2>5 DEF Duplicate
    <3>2. next = record /\ after = gone /\ record \in Records
          BY <2>1, <2>5, <3>1 DEF Restarts
    <3>3. record.last >= m.sequence /\ record.last \in Int
      <4>1. record.members[o].sequence <= record.last /\ record.last \in Int
            BY <3>1, <3>2, RecordFacts
      <4>2. record.members[o].sequence = m.sequence
            BY <3>1
      <4>3. QED
            BY <1>2, <4>1, <4>2
    <3>4. Delivered(next, o, m) /\ FollowsOn(earlier, o, m)
          BY <2>1, <3>1, <3>2, <3>3 DEF Delivered, FollowsOn
    <3>5. Succeeds(s, all, next, after, earlier, before)
          BY <2>1, <2>5, <3>2, <3>3 DEF Succeeds
    <3>6. QED
          BY <3>1, <3>2, <3>4, <3>5
  <2>6. CASE record # NoRecord /\ Advances(record, o, m) /\ ~Duplicate(record, o, m)
    <3>1. /\ record.producer = m.producer /\ record.session = m.session /\ m.sequence > record.last
          BY <2>6 DEF Advances
    <3>2. next = Advanced(record, o, m) /\ after = gone /\ record \in Records
          BY <2>1, <2>6, <3>1 DEF Restarts
    <3>3. /\ next \in Records /\ next.producer = record.producer /\ next.session = record.session
          /\ next.last = m.sequence /\ Delivered(next, o, m)
          /\ \A p \in DOMAIN record.members \ {o} :
               p \in DOMAIN next.members /\ next.members[p] = record.members[p]
          BY <1>1, <2>6, <3>2, AdvancedIs
    <3>4. record.last \in Int
          BY <3>2, RecordFacts
    <3>5. FollowsOn(earlier, o, m)
      <4>1. \A p \in DOMAIN record.members : record.members[p].sequence \in Int /\ record.members[p].sequence <= record.last
            BY <3>2, RecordFacts
      <4>2. QED
            BY <1>2, <2>1, <3>1, <3>4, <4>1 DEF FollowsOn
    <3>6. next.last >= earlier.last
          BY <1>2, <2>1, <3>1, <3>3, <3>4
    <3>7. Succeeds(s, all, next, after, earlier, before)
          BY <1>3, <2>1, <2>6, <3>2, <3>3, <3>6 DEF Succeeds
    <3>8. QED
          BY <3>1, <3>3, <3>5, <3>7
  <2>7. QED
        BY <2>3, <2>4, <2>5, <2>6 DEF DeliveryAdmitted
<1>5. CASE On(s) \cap some # {}
  <2>1. /\ record \in Records /\ record.producer = m.producer /\ record.session = m.session
        /\ \A p \in On(s) \cap some : Delivered(record, p, inputs[p]) /\ FollowsOn(earlier, p, inputs[p])
        /\ Succeeds(s, some, record, gone, earlier, before)
        BY <1>5 DEF StreamHolds
  <2>2. record # NoRecord /\ record.last \in Int /\ ~Restarts(record, m, gone)
        BY <2>1, RecordFacts DEF Restarts
  <2>3. after = gone /\ (Duplicate(record, o, m) \/ Advances(record, o, m))
        BY <2>2 DEF DeliveryAdmitted
  <2>4. /\ next \in Records /\ next.producer = m.producer /\ next.session = m.session
        /\ Delivered(next, o, m) /\ next.last >= record.last /\ next.last \in Int
        /\ \A p \in DOMAIN record.members \ {o} :
             p \in DOMAIN next.members /\ next.members[p] = record.members[p]
    <3>1. CASE Duplicate(record, o, m)
      <4>1. next = record
            BY <3>1
      <4>2. o \in DOMAIN record.members /\ record.members[o] = [sequence |-> m.sequence, wire |-> Wire(m)]
            BY <3>1 DEF Duplicate
      <4>3. record.members[o].sequence = m.sequence /\ record.members[o].sequence <= record.last
            BY <2>1, <4>2, RecordFacts
      <4>4. QED
            BY <1>2, <2>1, <2>2, <4>1, <4>2, <4>3 DEF Delivered
    <3>2. CASE ~Duplicate(record, o, m)
      <4>1. Advances(record, o, m) /\ next = Advanced(record, o, m)
            BY <2>3, <3>2
      <4>2. m.sequence > record.last
            BY <4>1 DEF Advances
      <4>3. /\ next \in Records /\ next.producer = record.producer /\ next.session = record.session
            /\ next.last = m.sequence /\ Delivered(next, o, m)
            /\ \A p \in DOMAIN record.members \ {o} :
                 p \in DOMAIN next.members /\ next.members[p] = record.members[p]
            BY <1>1, <2>1, <4>1, AdvancedIs
      <4>4. QED
            BY <1>2, <2>1, <2>2, <4>2, <4>3
    <3>3. QED
          BY <3>1, <3>2
  <2>5. \A p \in On(s) \cap some : Delivered(next, p, inputs[p])
    <3> TAKE p \in On(s) \cap some
    <3>1. /\ p \in DOMAIN record.members /\ record.last >= inputs[p].sequence
          /\ record.members[p] = [sequence |-> inputs[p].sequence, wire |-> Wire(inputs[p])]
          BY <2>1 DEF Delivered
    <3>2. p # o
          OBVIOUS
    <3>3. p \in DOMAIN next.members /\ next.members[p] = record.members[p]
          BY <2>4, <3>1, <3>2
    <3>4. inputs[p].sequence \in Int
          BY <1>1, ContextAssumption DEF Inputs
    <3>5. next.last >= inputs[p].sequence
          BY <2>2, <2>4, <3>1, <3>4
    <3>6. QED
          BY <3>1, <3>3, <3>5 DEF Delivered
  <2>6. FollowsOn(earlier, o, m)
    <3> SUFFICES ASSUME earlier # NoRecord, m.session = earlier.session, o \in DOMAIN earlier.members
                 PROVE  \/ m.sequence > earlier.members[o].sequence
                        \/ earlier.members[o] = [sequence |-> m.sequence, wire |-> Wire(m)]
          BY DEF FollowsOn
    <3>1. /\ record.last >= earlier.last
          /\ o \in DOMAIN record.members /\ record.members[o] = earlier.members[o]
          BY <2>1 DEF Succeeds
    <3>2. CASE Duplicate(record, o, m)
          BY <3>1, <3>2 DEF Duplicate
    <3>3. CASE Advances(record, o, m)
      <4>1. m.sequence > record.last
            BY <3>3 DEF Advances
      <4>2. earlier.members[o].sequence \in Int /\ earlier.members[o].sequence <= earlier.last /\ earlier.last \in Int
            BY RecordFacts
      <4>3. QED
            BY <1>2, <2>2, <3>1, <4>1, <4>2
    <3>4. QED
          BY <2>3, <3>2, <3>3
  <2>7. Succeeds(s, all, next, after, earlier, before)
    <3>1. CASE earlier = NoRecord
          BY <2>1, <2>3, <3>1 DEF Succeeds
    <3>2. CASE earlier # NoRecord
      <4>1. earlier.last \in Int
            BY <3>2, RecordFacts
      <4>2. /\ next.producer = record.producer /\ next.session = record.session
            BY <2>1, <2>4
      <4>3. ASSUME next.session = earlier.session
            PROVE  /\ after = before /\ next.last >= earlier.last
                   /\ \A p \in On(s) \ all : p \in DOMAIN earlier.members =>
                        p \in DOMAIN next.members /\ next.members[p] = earlier.members[p]
        <5>1. /\ gone = before /\ record.last >= earlier.last
              /\ \A p \in On(s) \ some : p \in DOMAIN earlier.members =>
                   p \in DOMAIN record.members /\ record.members[p] = earlier.members[p]
              BY <2>1, <3>2, <4>2, <4>3 DEF Succeeds
        <5>2. \A p \in On(s) \ all : p \in On(s) \ some /\ p # o
              BY <1>3
        <5>3. next.last >= earlier.last
              BY <2>2, <2>4, <4>1, <5>1
        <5>4. QED
              BY <2>3, <2>4, <5>1, <5>2, <5>3
      <4>4. QED
            BY <2>1, <2>3, <3>2, <4>2, <4>3 DEF Succeeds
    <3>3. QED
          BY <3>1, <3>2
  <2>8. \A p \in On(s) \cap all : Delivered(next, p, inputs[p]) /\ FollowsOn(earlier, p, inputs[p])
        BY <1>3, <2>1, <2>4, <2>5, <2>6
  <2>9. QED
        BY <1>1, <1>3, <2>4, <2>7, <2>8 DEF StreamHolds, all
<1>6. QED
      BY <1>4, <1>5

\* The watermarks after an object is staged.
LEMMA StageIs ==
  ASSUME NEW marks \in MarkSets, NEW o \in Objects, NEW m \in AllMessages
  PROVE  /\ Stage(marks, o, m) \in MarkSets
         /\ Stage(marks, o, m).business = [marks.business EXCEPT ![o] = Content(m)]
         /\ Stage(marks, o, m).ok => marks.ok
<1> DEFINE s == Stream(o)
           record == IF s = NoStream THEN NoRecord ELSE marks.delivery[s]
           gone == IF s = NoStream THEN {} ELSE marks.retired[s]
           next == IF Advances(record, o, m) THEN Advanced(record, o, m) ELSE Record(o, m)
           ok == /\ marks.ok
                 /\ s # NoStream => DeliveryAdmitted(record, gone, o, m)
                 /\ BusinessAdmitted(marks.business[o], record, o, m)
           d == IF s = NoStream \/ Duplicate(record, o, m) THEN marks.delivery
                ELSE [marks.delivery EXCEPT ![s] = next]
           r == IF Restarts(record, m, gone)
                THEN [marks.retired EXCEPT ![s] = @ \cup {record.session}] ELSE marks.retired
           b == [marks.business EXCEPT ![o] = Content(m)]
<1>1. Stage(marks, o, m) = [ok |-> ok, delivery |-> d, retired |-> r, business |-> b]
      BY DEF Stage
<1>2. /\ marks.delivery \in [Streams -> Records \cup {NoRecord}] /\ marks.retired \in [Streams -> SUBSET DeliverySessions]
      /\ marks.business \in [Objects -> Contents \cup {NoRecord}] /\ marks.ok \in BOOLEAN
      BY DEF MarkSets
<1>3. s # NoStream => s \in Streams
      BY DEF Streams
<1>4. record \in Records \cup {NoRecord}
      BY <1>2, <1>3
<1>5. next \in Records
  <2>1. CASE Advances(record, o, m)
    <3>1. record \in Records
          BY <1>4, <2>1 DEF Advances
    <3>2. QED
          BY <2>1, <3>1, AdvancedIs
  <2>2. CASE ~Advances(record, o, m)
        BY <2>2, RecordIs
  <2>3. QED
        BY <2>1, <2>2
<1>6. d \in [Streams -> Records \cup {NoRecord}]
  <2> HIDE DEF s, record, next
  <2>1. QED
        BY <1>2, <1>3, <1>5
<1>7. r \in [Streams -> SUBSET DeliverySessions]
  <2>1. CASE Restarts(record, m, gone)
    <3>1. record \in Records /\ s # NoStream
          BY <1>4, <2>1 DEF Restarts
    <3>2. record.session \in DeliverySessions /\ s \in Streams
          BY <1>3, <3>1, RecordFacts
    <3> HIDE DEF s, record, gone
    <3>3. QED
          BY <1>2, <2>1, <3>2
  <2>2. CASE ~Restarts(record, m, gone)
        BY <1>2, <2>2
  <2>3. QED
        BY <2>1, <2>2
<1>8. b \in [Objects -> Contents \cup {NoRecord}]
  <2>1. Content(m) \in Contents
        BY DEF Contents
  <2>2. QED
        BY <1>2, <2>1
<1>9. ok \in BOOLEAN /\ (ok => marks.ok)
      BY <1>2 DEF DeliveryAdmitted, BusinessAdmitted, Restarts, Duplicate, Advances
<1> HIDE DEF ok, d, r, b
<1>10. [ok |-> ok, delivery |-> d, retired |-> r, business |-> b] \in MarkSets
       BY <1>6, <1>7, <1>8, <1>9 DEF MarkSets
<1>11. QED
       BY <1>1, <1>9, <1>10 DEF b

\* A version that is not lowered, and one that stays says the same.
Keeps(known, m) ==
  known # NoRecord => m.version >= known.version /\ (m.version = known.version => Content(m) = known)

\* What holds when some of the objects are staged, all of them admitted.
Taken(some, marks, inputs) ==
  marks.ok =>
    /\ \A o \in some : marks.business[o] = Content(inputs[o]) /\ Keeps(business[o], inputs[o])
    /\ \A o \in Objects \ some : marks.business[o] = business[o]
    /\ \A s \in Streams :
         StreamHolds(s, some, marks.delivery[s], marks.retired[s], delivery[s], retired[s], inputs)

LEMMA StageTakes ==
  ASSUME Marks \in MarkSets, NEW inputs \in Inputs, OneSession(inputs),
         NEW some \in SUBSET Objects, NEW o \in Objects, o \notin some,
         NEW marks \in MarkSets, Taken(some, marks, inputs)
  PROVE  Taken(some \cup {o}, Stage(marks, o, inputs[o]), inputs)
<1> DEFINE m == inputs[o]
           made == Stage(marks, o, m)
           s == Stream(o)
           record == IF s = NoStream THEN NoRecord ELSE marks.delivery[s]
           gone == IF s = NoStream THEN {} ELSE marks.retired[s]
           next == IF Duplicate(record, o, m) THEN record
                   ELSE IF Advances(record, o, m) THEN Advanced(record, o, m) ELSE Record(o, m)
           after == IF Restarts(record, m, gone) THEN gone \cup {record.session} ELSE gone
<1>1. m \in AllMessages
      BY DEF Inputs
<1>2. /\ made \in MarkSets /\ made.business = [marks.business EXCEPT ![o] = Content(m)]
      /\ made.ok => marks.ok
      BY <1>1, StageIs
<1>3. SUFFICES ASSUME made.ok
               PROVE  /\ \A p \in some \cup {o} : made.business[p] = Content(inputs[p]) /\ Keeps(business[p], inputs[p])
                      /\ \A p \in Objects \ (some \cup {o}) : made.business[p] = business[p]
                      /\ \A t \in Streams :
                           StreamHolds(t, some \cup {o}, made.delivery[t], made.retired[t], delivery[t], retired[t], inputs)
      BY DEF Taken
<1>4. /\ \A p \in some : marks.business[p] = Content(inputs[p]) /\ Keeps(business[p], inputs[p])
      /\ \A p \in Objects \ some : marks.business[p] = business[p]
      /\ \A t \in Streams :
           StreamHolds(t, some, marks.delivery[t], marks.retired[t], delivery[t], retired[t], inputs)
      BY <1>2, <1>3 DEF Taken
<1>5. /\ marks.delivery \in [Streams -> Records \cup {NoRecord}] /\ marks.retired \in [Streams -> SUBSET DeliverySessions]
      /\ marks.business \in [Objects -> Contents \cup {NoRecord}]
      /\ delivery \in [Streams -> Records \cup {NoRecord}] /\ business \in [Objects -> Contents \cup {NoRecord}]
      BY DEF MarkSets, Marks
<1>6. /\ s # NoStream => DeliveryAdmitted(record, gone, o, m)
      /\ BusinessAdmitted(marks.business[o], record, o, m)
      /\ made.delivery = IF s = NoStream \/ Duplicate(record, o, m) THEN marks.delivery
                         ELSE [marks.delivery EXCEPT ![s] = IF Advances(record, o, m) THEN Advanced(record, o, m)
                                                            ELSE Record(o, m)]
      /\ made.retired = IF Restarts(record, m, gone)
                        THEN [marks.retired EXCEPT ![s] = @ \cup {record.session}] ELSE marks.retired
      BY <1>3 DEF Stage
<1>7. Keeps(business[o], m)
  <2>1. marks.business[o] = business[o] /\ business[o] \in Contents \cup {NoRecord}
        BY <1>4, <1>5
  <2>2. SUFFICES ASSUME business[o] # NoRecord
                 PROVE  m.version >= business[o].version /\ (m.version = business[o].version => Content(m) = business[o])
        BY DEF Keeps
  <2>3. PICK n \in AllMessages : business[o] = Content(n)
        BY <2>1, <2>2 DEF Contents
  <2>4. business[o].version = n.version /\ n.version \in Int /\ m.version \in Int
        BY <1>1, <2>3, ContextAssumption DEF Content
  <2>5. m.version > business[o].version \/ Content(m) = business[o]
        BY <1>6, <2>1, <2>2 DEF BusinessAdmitted
  <2>6. Content(m) = business[o] => m.version = business[o].version
        BY <2>3 DEF Content
  <2>7. QED
        BY <2>4, <2>5, <2>6
<1>8. /\ \A p \in some \cup {o} : made.business[p] = Content(inputs[p]) /\ Keeps(business[p], inputs[p])
      /\ \A p \in Objects \ (some \cup {o}) : made.business[p] = business[p]
  <2>1. made.business[o] = Content(m) /\ \A p \in Objects \ {o} : made.business[p] = marks.business[p]
    <3> HIDE DEF made, m
    <3>1. QED
          BY <1>2, <1>5
  <2>2. \A p \in some : p \in Objects \ {o}
        OBVIOUS
  <2> HIDE DEF made
  <2>3. QED
        BY <1>4, <1>7, <2>1, <2>2
<1>9. ASSUME NEW t \in Streams, t # s
      PROVE  StreamHolds(t, some \cup {o}, made.delivery[t], made.retired[t], delivery[t], retired[t], inputs)
  <2>1. o \notin On(t)
        BY <1>9 DEF On
  <2>2. On(t) \cap (some \cup {o}) = On(t) \cap some /\ On(t) \ (some \cup {o}) = On(t) \ some
        BY <2>1
  <2>3. made.delivery[t] = marks.delivery[t] /\ made.retired[t] = marks.retired[t]
    <3> HIDE DEF s, record, gone, made, m
    <3>1. QED
          BY <1>5, <1>6, <1>9
  <2>4. StreamHolds(t, some, marks.delivery[t], marks.retired[t], delivery[t], retired[t], inputs)
        BY <1>4, <1>9
  <2> HIDE DEF made
  <2>5. QED
        BY <2>2, <2>3, <2>4 DEF StreamHolds, Succeeds
<1>10. ASSUME s \in Streams
       PROVE  StreamHolds(s, some \cup {o}, made.delivery[s], made.retired[s], delivery[s], retired[s], inputs)
  <2>1. s # NoStream /\ o \in On(s)
        BY <1>10 DEF Streams, On
  <2>2. made.delivery[s] = next /\ made.retired[s] = after
    <3>1. record = marks.delivery[s] /\ gone = marks.retired[s]
          BY <2>1
    <3> HIDE DEF s, record, gone, made, m
    <3>2. QED
          BY <1>5, <1>6, <1>10, <2>1, <3>1
  <2>3. StreamHolds(s, some, record, gone, delivery[s], retired[s], inputs)
        BY <1>4, <1>10, <2>1
  <2>4. delivery[s] \in Records \cup {NoRecord} /\ DeliveryAdmitted(record, gone, o, m)
        BY <1>5, <1>6, <1>10, <2>1
  <2> DEFINE earlier == delivery[s]
             before == retired[s]
             was == record
             wasGone == gone
             is == next
             isGone == after
  <2>5. /\ is = IF Duplicate(was, o, inputs[o]) THEN was
                ELSE IF Advances(was, o, inputs[o]) THEN Advanced(was, o, inputs[o]) ELSE Record(o, inputs[o])
        /\ isGone = IF Restarts(was, inputs[o], wasGone) THEN wasGone \cup {was.session} ELSE wasGone
        OBVIOUS
  <2>6. /\ s \in Streams /\ o \in On(s) /\ earlier \in Records \cup {NoRecord}
        /\ StreamHolds(s, some, was, wasGone, earlier, before, inputs)
        /\ DeliveryAdmitted(was, wasGone, o, inputs[o])
        BY <1>10, <2>1, <2>3, <2>4
  <2>7. StreamHolds(s, some \cup {o}, is, isGone, earlier, before, inputs)
    <3> HIDE DEF s, earlier, before, was, wasGone, is, isGone
    <3>1. QED
          BY <2>5, <2>6, StreamStep
  <2> HIDE DEF made
  <2>8. QED
        BY <2>2, <2>7
<1>11. QED
       BY <1>8, <1>9, <1>10

\* The candidate taken last is one of them.
LEMMA LastIsOne ==
  ASSUME NEW inputs \in Inputs, NEW some \in SUBSET Objects, some # {}
  PROVE  LastOf(some, inputs) \in some
<1> DEFINE f == [o \in some |-> inputs[o].sequence]
           S == {f[o] : o \in some}
<1>1. \A o \in some : inputs[o].sequence \in Int
      BY ContextAssumption DEF Inputs
<1>2. IsFiniteSet(S)
  <2>1. IsFiniteSet(some)
        BY ContextAssumption, FS_Subset
  <2> HIDE DEF f
  <2>2. QED
        BY <2>1, ImageIsFinite
<1>3. S \subseteq Int /\ S # {}
      BY <1>1
<1> HIDE DEF S
<1>4. PICK x \in S : \A y \in S : y <= x
      BY <1>2, <1>3, LargestOf
<1>5. PICK o \in some : x = f[o]
      BY DEF S
<1>6. \A p \in some : inputs[p].sequence <= inputs[o].sequence
  <2> TAKE p \in some
  <2>1. f[p] \in S
        BY DEF S
  <2>2. QED
        BY <1>4, <1>5, <2>1
<1>7. QED
      BY <1>5, <1>6 DEF LastOf

\* All of the objects staged.
LEMMA StagedTakes ==
  ASSUME Marks \in MarkSets, NEW inputs \in Inputs, OneSession(inputs)
  PROVE  Staged(inputs) \in MarkSets /\ Taken(Objects, Staged(inputs), inputs)
<1> DEFINE V == MarkSets
           Pick(T) == LastOf(T, inputs)
           Further(T, x) == Stage(x, Pick(T), inputs[Pick(T)])
           pick == [T \in SUBSET Objects |-> Pick(T)]
           F == [e \in (SUBSET Objects) \X V |-> IF e[1] = {} THEN Marks ELSE Further(e[1], e[2])]
           stage == CHOOSE f : f = [T \in SUBSET Objects |-> IF T = {} THEN Marks ELSE Further(T, f[T \ {Pick(T)}])]
<1>1. Staged(inputs) = stage[Objects]
      BY DEF Staged
<1>2. \A T \in SUBSET Objects : T # {} => Pick(T) \in T /\ Pick(T) \in Objects /\ inputs[Pick(T)] \in AllMessages
      BY LastIsOne DEF Inputs
<1>3. ASSUME NEW T \in SUBSET Objects, T # {}, NEW x \in V PROVE Further(T, x) \in V
  <2>1. Pick(T) \in Objects /\ inputs[Pick(T)] \in AllMessages
        BY <1>2, <1>3
  <2> HIDE DEF Pick
  <2>2. QED
        BY <2>1, StageIs
<1>4. F \in [(SUBSET Objects) \X V -> V]
  <2> HIDE DEF Further, V
  <2>1. \A e \in (SUBSET Objects) \X V : (IF e[1] = {} THEN Marks ELSE Further(e[1], e[2])) \in V
        BY <1>3 DEF V
  <2>2. QED
        BY <2>1
<1> HIDE DEF Pick
<1>5. \E f \in [SUBSET Objects -> V] : Accumulates(f, Objects, Marks, pick, F)
  <2>1. \A T \in SUBSET Objects : T # {} => pick[T] \in T
        BY <1>2
  <2>2. IsFiniteSet(Objects) /\ Marks \in V
        BY ContextAssumption
  <2> HIDE DEF pick, F, V
  <2>3. QED
        BY <1>4, <2>1, <2>2, RecursionOnSubsets
<1>6. \E f : f = [T \in SUBSET Objects |-> IF T = {} THEN Marks ELSE Further(T, f[T \ {Pick(T)}])]
  <2>1. PICK f \in [SUBSET Objects -> V] : Accumulates(f, Objects, Marks, pick, F)
        BY <1>5
  <2>2. ASSUME NEW T \in SUBSET Objects, T # {} PROVE F[<<T, f[T \ {pick[T]}]>>] = Further(T, f[T \ {Pick(T)}])
    <3>1. pick[T] = Pick(T) /\ f[T \ {Pick(T)}] \in V
          BY <2>1
    <3> HIDE DEF Further, V
    <3>2. QED
          BY <2>2, <3>1
  <2> HIDE DEF Further, F, V, pick
  <2>3. \A T \in SUBSET Objects : f[T] = IF T = {} THEN Marks ELSE Further(T, f[T \ {Pick(T)}])
        BY <2>1, <2>2 DEF Accumulates
  <2>4. f = [T \in SUBSET Objects |-> IF T = {} THEN Marks ELSE Further(T, f[T \ {Pick(T)}])]
        BY <2>1, <2>3
  <2>5. QED
        BY <2>4
<1>7. stage = [T \in SUBSET Objects |-> IF T = {} THEN Marks ELSE Further(T, stage[T \ {Pick(T)}])]
  <2> HIDE DEF Further
  <2>1. QED
        BY <1>6
<1> HIDE DEF stage
<1> DEFINE P == {T \in SUBSET Objects : stage[T] \in V /\ Taken(T, stage[T], inputs)}
<1>8. {} \in P
  <2>1. stage[{}] = Marks
    <3> HIDE DEF Further
    <3>1. QED
          BY <1>7
  <2>2. Taken({}, Marks, inputs)
        BY DEF Taken, Marks, StreamHolds
  <2>3. QED
        BY <2>1, <2>2
<1>9. ASSUME NEW T \in SUBSET Objects, \A x \in T : T \ {x} \in P, T # {}
      PROVE  T \in P
  <2> DEFINE o == Pick(T)
             rest == T \ {o}
  <2>1. o \in T /\ o \in Objects /\ inputs[o] \in AllMessages
        BY <1>2, <1>9
  <2>2. stage[rest] \in V /\ Taken(rest, stage[rest], inputs) /\ rest \in SUBSET Objects /\ o \notin rest
        BY <1>9, <2>1
  <2>3. stage[T] = Stage(stage[rest], o, inputs[o])
        BY <1>7, <1>9
  <2>4. T = rest \cup {o}
        BY <2>1
  <2> HIDE DEF o, rest
  <2>5. stage[T] \in V
    <3>1. Stage(stage[rest], o, inputs[o]) \in MarkSets
          BY <2>1, <2>2, StageIs
    <3>2. QED
          BY <2>3, <3>1
  <2>6. Taken(rest \cup {o}, Stage(stage[rest], o, inputs[o]), inputs)
        BY <2>1, <2>2, StageTakes
  <2>7. QED
        BY <2>3, <2>4, <2>5, <2>6
<1>10. \A T \in SUBSET Objects : T \in P
  <2>1. \A T \in SUBSET Objects : T # {} /\ (\A x \in T : T \ {x} \in P) => T \in P
        BY <1>9
  <2> HIDE DEF P
  <2>2. QED
        BY <1>8, <2>1, ContextAssumption, RemovalInduction
<1>11. QED
       BY <1>1, <1>10

-----------------------------------------------------------------------------
(* The invariant                                                           *)

Publications == [messages : Inputs, dependencies : [Objects -> Contents]]
Reads == [inputs : Inputs, dependencies : [Objects -> Contents], generation : Nat]
Captures ==
  {Idle} \cup [step : {"begun"}, generation : Nat] \cup [step : {"read"}, read : Reads, at : Instants]
HandedOut == [inputs : Inputs, generation : Nat, at : Instants]

CaptureTyped ==
  /\ published \in Seq(Publications) /\ published # <<>>
  /\ capturing \in [Planners -> Captures]
  /\ Marks \in MarkSets
  /\ contexts \in Seq(HandedOut)

\* What is read of the source stood there in one generation.
IsCut(inputs, generation) ==
  /\ generation \in 1..Generation
  /\ inputs = published[generation].messages
  /\ OneSession(inputs)

InWindows(inputs, at) ==
  /\ \A o \in Reported : inputs[o].observed <= at /\ at <= inputs[o].until
  /\ \A o, p \in ObservedObjects : inputs[o].synced - inputs[p].synced <= MaxDelta

ReadsAreCuts ==
  \A p \in Planners :
    /\ capturing[p].step = "begun" => capturing[p].generation \in 1..Generation
    /\ capturing[p].step = "read" =>
         /\ IsCut(capturing[p].read.inputs, capturing[p].read.generation)
         /\ InWindows(capturing[p].read.inputs, capturing[p].at)

ContextsAreCuts ==
  \A i \in DOMAIN contexts :
    /\ IsCut(contexts[i].inputs, contexts[i].generation)
    /\ InWindows(contexts[i].inputs, contexts[i].at)

\* A record of a stream's last messages.
OfMessages(record, s, inputs) ==
  /\ record \in Records
  /\ \A o \in On(s) :
       /\ record.producer = inputs[o].producer /\ record.session = inputs[o].session
       /\ Delivered(record, o, inputs[o])

\* The watermarks are those of the last context.
MarksFollow ==
  /\ contexts = <<>> =>
       /\ \A s \in Streams : delivery[s] = NoRecord /\ retired[s] = {}
       /\ \A o \in Objects : business[o] = NoRecord
  /\ contexts # <<>> =>
       /\ \A s \in Streams : OfMessages(delivery[s], s, contexts[Len(contexts)].inputs)
       /\ \A o \in Objects : business[o] = Content(contexts[Len(contexts)].inputs[o])

\* A session that was left is retired, and the one there is is not.
SessionsLeft ==
  \A s \in Streams :
    /\ delivery[s] # NoRecord => delivery[s].session \notin retired[s]
    /\ \A i \in DOMAIN contexts : \A o \in On(s) :
         /\ contexts[i].inputs[o].producer = delivery[s].producer
         /\ contexts[i].inputs[o].session \in retired[s] \cup {delivery[s].session}

ContextInv ==
  /\ CaptureTyped
  /\ ReadsAreCuts
  /\ ContextsAreCuts
  /\ MarksFollow
  /\ SessionsLeft
  /\ NothingRegresses
  /\ SessionsEndForGood

LEMMA AppendIs ==
  ASSUME NEW S, NEW q \in Seq(S), NEW e \in S
  PROVE  /\ Append(q, e) \in Seq(S) /\ Append(q, e) # <<>>
         /\ Len(q) \in Nat /\ DOMAIN q = 1..Len(q)
         /\ Len(Append(q, e)) = Len(q) + 1 /\ DOMAIN Append(q, e) = 1..Len(q) + 1
         /\ Append(q, e)[Len(q) + 1] = e
         /\ \A i \in 1..Len(q) : Append(q, e)[i] = q[i]
OBVIOUS

LEMMA ContextStarts ==
  ContextInit => ContextInv
<1> SUFFICES ASSUME ContextInit PROVE ContextInv
    OBVIOUS
<1> DEFINE first == [messages |-> [o \in Objects |-> First(o)],
                     dependencies |-> [o \in Objects |-> Content(First(o))]]
<1>1. published = <<first>> /\ first \in Publications
  <2>1. \A o \in Objects : First(o) \in AllMessages
        BY DEF AllMessages
  <2>2. \A o \in Objects : Content(First(o)) \in Contents
        BY <2>1 DEF Contents
  <2>3. QED
        BY <2>1, <2>2 DEF ContextInit, Publications, Inputs
<1>2. published \in Seq(Publications) /\ published # <<>>
  <2> HIDE DEF first
  <2>1. QED
        BY <1>1
<1>3. capturing \in [Planners -> Captures] /\ \A p \in Planners : capturing[p].step = "idle"
      BY DEF ContextInit, Captures, Idle
<1>4. contexts = <<>> /\ contexts \in Seq(HandedOut) /\ DOMAIN contexts = {}
      BY DEF ContextInit
<1>5. Marks \in MarkSets
  <2>1. /\ delivery \in [Streams -> Records \cup {NoRecord}] /\ retired \in [Streams -> SUBSET DeliverySessions]
        /\ business \in [Objects -> Contents \cup {NoRecord}]
        BY DEF ContextInit
  <2>2. QED
        BY <2>1 DEF MarkSets, Marks
<1>6. MarksFollow
      BY <1>4 DEF ContextInit, MarksFollow
<1>7. SessionsLeft
      BY <1>4 DEF ContextInit, SessionsLeft
<1>8. ReadsAreCuts /\ ContextsAreCuts /\ NothingRegresses /\ SessionsEndForGood
      BY <1>3, <1>4 DEF ReadsAreCuts, ContextsAreCuts, NothingRegresses, SessionsEndForGood
<1>9. QED
      BY <1>2, <1>3, <1>4, <1>5, <1>6, <1>7, <1>8 DEF ContextInv, CaptureTyped

\* The source moving on leaves what was read of it.
LEMMA PublishKeeps ==
  ASSUME ContextInv, Publish
  PROVE  ContextInv'
<1> DEFINE newest == published[Generation]
<1>1. /\ published \in Seq(Publications) /\ published # <<>> /\ Generation \in Nat \ {0}
      /\ newest \in Publications
  <2>1. published \in Seq(Publications) /\ published # <<>>
        BY DEF ContextInv, CaptureTyped
  <2>2. QED
        BY <2>1 DEF Generation
<1>2. PICK e \in Publications : published' = Append(published, e)
  <2>0. PICK some \in SUBSET Objects :
          \E m \in [some -> UNION {Messages(o) : o \in some}], follow \in BOOLEAN :
            LET after == [o \in Objects |-> IF o \in some THEN m[o] ELSE newest.messages[o]]
            IN  published' = Append(published, [messages |-> after,
                  dependencies |-> IF follow THEN [o \in Objects |-> Content(after[o])] ELSE newest.dependencies])
        BY DEF Publish, On
  <2>1. PICK m \in [some -> UNION {Messages(o) : o \in some}], follow \in BOOLEAN :
          LET after == [o \in Objects |-> IF o \in some THEN m[o] ELSE newest.messages[o]]
          IN  published' = Append(published, [messages |-> after,
                dependencies |-> IF follow THEN [o \in Objects |-> Content(after[o])] ELSE newest.dependencies])
        BY <2>0
  <2> DEFINE after == [o \in Objects |-> IF o \in some THEN m[o] ELSE newest.messages[o]]
  <2>2. newest.messages \in Inputs /\ newest.dependencies \in [Objects -> Contents]
        BY <1>1 DEF Publications
  <2>3. \A o \in some : m[o] \in AllMessages
        BY DEF AllMessages
  <2>4. after \in Inputs
        BY <2>2, <2>3 DEF Inputs
  <2>5. [o \in Objects |-> Content(after[o])] \in [Objects -> Contents]
        BY <2>4 DEF Inputs, Contents
  <2> DEFINE e == [messages |-> after,
                   dependencies |-> IF follow THEN [o \in Objects |-> Content(after[o])] ELSE newest.dependencies]
  <2>6. e \in Publications
    <3> HIDE DEF after, newest
    <3>1. QED
          BY <2>2, <2>4, <2>5 DEF Publications
  <2>7. published' = Append(published, e)
        BY <2>1
  <2> HIDE DEF e
  <2>8. QED
        BY <2>6, <2>7
<1>3. UNCHANGED <<capturing, delivery, business, retired, pairing, contexts>>
      BY DEF Publish
<1>4. /\ published' \in Seq(Publications) /\ published' # <<>> /\ Generation' = Generation + 1
      /\ \A i \in 1..Generation : published'[i] = published[i]
      BY <1>1, <1>2, AppendIs DEF Generation
<1>5. \A inputs, g : IsCut(inputs, g) => g \in 1..Generation' /\ inputs = published'[g].messages /\ OneSession(inputs)
      BY <1>1, <1>4 DEF IsCut
<1>6. CaptureTyped'
      BY <1>3, <1>4 DEF ContextInv, CaptureTyped, Marks
<1>7. ReadsAreCuts'
  <2>1. 1..Generation \subseteq 1..Generation'
        BY <1>1, <1>4
  <2>2. QED
        BY <1>3, <1>5, <2>1 DEF ContextInv, ReadsAreCuts, IsCut
<1>8. ContextsAreCuts'
      BY <1>3, <1>5 DEF ContextInv, ContextsAreCuts, IsCut
<1>9. MarksFollow' /\ SessionsLeft' /\ NothingRegresses' /\ SessionsEndForGood'
      BY <1>3 DEF ContextInv, MarksFollow, SessionsLeft, NothingRegresses, SessionsEndForGood
<1>10. QED
       BY <1>6, <1>7, <1>8, <1>9 DEF ContextInv

\* A capture's own steps, up to what it has read.
LEMMA CaptureKeeps ==
  ASSUME ContextInv, NEW p \in Planners, NEW c \in Captures,
         capturing' = [capturing EXCEPT ![p] = c],
         c.step = "begun" => c.generation \in 1..Generation,
         c.step = "read" => IsCut(c.read.inputs, c.read.generation) /\ InWindows(c.read.inputs, c.at),
         UNCHANGED <<published, delivery, business, retired, pairing, contexts>>
  PROVE  ContextInv'
<1>1. capturing' \in [Planners -> Captures]
      BY DEF ContextInv, CaptureTyped
<1>2. CaptureTyped'
      BY <1>1 DEF ContextInv, CaptureTyped, Marks
<1>3. ReadsAreCuts'
  <2> SUFFICES ASSUME NEW q \in Planners
               PROVE  /\ capturing'[q].step = "begun" => capturing'[q].generation \in 1..Generation
                      /\ capturing'[q].step = "read" =>
                           /\ IsCut(capturing'[q].read.inputs, capturing'[q].read.generation)
                           /\ InWindows(capturing'[q].read.inputs, capturing'[q].at)
      BY DEF ReadsAreCuts, IsCut, Generation
  <2>1. CASE q = p
    <3>1. capturing'[q] = c
          BY <2>1 DEF ContextInv, CaptureTyped
    <3>2. QED
          BY <3>1
  <2>2. CASE q # p
    <3>1. capturing'[q] = capturing[q]
          BY <2>2 DEF ContextInv, CaptureTyped
    <3>2. QED
          BY <3>1 DEF ContextInv, ReadsAreCuts
  <2>3. QED
        BY <2>1, <2>2
<1>4. ContextsAreCuts' /\ MarksFollow' /\ SessionsLeft' /\ NothingRegresses' /\ SessionsEndForGood'
      BY DEF ContextInv, ContextsAreCuts, IsCut, Generation, MarksFollow, SessionsLeft, NothingRegresses,
             SessionsEndForGood
<1>5. QED
      BY <1>2, <1>3, <1>4 DEF ContextInv

LEMMA BeginKeeps ==
  ASSUME ContextInv, NEW p \in Planners, BeginCapture(p)
  PROVE  ContextInv'
<1> DEFINE c == [step |-> "begun", generation |-> Generation]
<1>1. Generation \in Nat \ {0}
      BY DEF ContextInv, CaptureTyped, Generation
<1>2. c \in Captures /\ c.step = "begun" /\ c.generation \in 1..Generation
      BY <1>1 DEF Captures
<1>3. /\ capturing' = [capturing EXCEPT ![p] = c]
      /\ UNCHANGED <<published, delivery, business, retired, pairing, contexts>>
      BY DEF BeginCapture
<1> HIDE DEF c
<1>4. QED
      BY <1>2, <1>3, CaptureKeeps

LEMMA ReadKeeps ==
  ASSUME ContextInv, NEW p \in Planners, ReadInputs(p)
  PROVE  ContextInv'
<1> DEFINE began == capturing[p].generation
<1>1. /\ capturing[p].step = "begun" /\ began \in 1..Generation /\ Generation \in Nat \ {0}
      /\ capturing \in [Planners -> Captures] /\ published \in Seq(Publications)
      /\ UNCHANGED <<published, delivery, business, retired, pairing, contexts>>
      BY DEF ReadInputs, ContextInv, CaptureTyped, ReadsAreCuts, Generation
<1>2. PICK read \in Torn(began), at \in Instants :
        capturing' = [capturing EXCEPT ![p] =
          IF SameGeneration(began) /\ InputsValid(read, at) /\ OneSession(read.inputs)
          THEN [step |-> "read", read |-> read, at |-> at] ELSE Idle]
      BY DEF ReadInputs
<1>3. CASE SameGeneration(began) /\ InputsValid(read, at) /\ OneSession(read.inputs)
  <2> DEFINE c == [step |-> "read", read |-> read, at |-> at]
             newest == published[Generation]
  <2>1. began = Generation
        BY <1>3 DEF SameGeneration
  <2>2. newest.messages \in Inputs /\ newest.dependencies \in [Objects -> Contents]
    <3>1. newest \in Publications
          BY <1>1 DEF Generation
    <3>2. QED
          BY <3>1 DEF Publications
  <2>3. PICK early \in SUBSET Objects, g \in began..Generation :
          read = [inputs |-> [o \in Objects |-> published[IF o \in early THEN began ELSE g].messages[o]],
                  dependencies |-> published[g].dependencies, generation |-> Generation]
        BY DEF Torn
  <2>4. g = Generation
        BY <1>1, <2>1
  <2>5. /\ read = [inputs |-> [o \in Objects |-> newest.messages[o]], dependencies |-> newest.dependencies,
                   generation |-> Generation]
    <3>1. [o \in Objects |-> published[IF o \in early THEN began ELSE g].messages[o]]
            = [o \in Objects |-> newest.messages[o]]
          BY <2>1, <2>4
    <3>2. QED
          BY <2>3, <2>4, <3>1
  <2>6. [o \in Objects |-> newest.messages[o]] = newest.messages
        BY <2>2 DEF Inputs
  <2> HIDE DEF newest
  <2>7. read = [inputs |-> newest.messages, dependencies |-> newest.dependencies, generation |-> Generation]
        BY <2>5, <2>6
  <2>8. read.inputs = newest.messages /\ read.generation = Generation /\ read \in Reads
        BY <1>1, <2>2, <2>7 DEF Reads
  <2>9. c \in Captures /\ c.step = "read" /\ c.read = read /\ c.at = at
        BY <2>8 DEF Captures
  <2>10. IsCut(read.inputs, read.generation)
         BY <1>1, <1>3, <2>8 DEF IsCut, newest
  <2>11. InWindows(read.inputs, at)
         BY <1>3 DEF InputsValid, InWindow, Synchronized, InWindows
  <2>12. capturing' = [capturing EXCEPT ![p] = c]
         BY <1>2, <1>3
  <2> HIDE DEF c
  <2>13. QED
         BY <1>1, <2>9, <2>10, <2>11, <2>12, CaptureKeeps
<1>4. CASE ~(SameGeneration(began) /\ InputsValid(read, at) /\ OneSession(read.inputs))
  <2>1. capturing' = [capturing EXCEPT ![p] = Idle]
        BY <1>2, <1>4
  <2>2. Idle \in Captures /\ Idle.step # "begun" /\ Idle.step # "read"
        BY DEF Captures, Idle
  <2>3. QED
        BY <1>1, <2>1, <2>2, CaptureKeeps
<1>5. QED
      BY <1>3, <1>4

LEMMA RefuseKeeps ==
  ASSUME ContextInv, NEW p \in Planners, Refuse(p)
  PROVE  ContextInv'
<1>1. Idle \in Captures /\ Idle.step # "begun" /\ Idle.step # "read"
      BY DEF Captures, Idle
<1>2. /\ capturing' = [capturing EXCEPT ![p] = Idle]
      /\ UNCHANGED <<published, delivery, business, retired, pairing, contexts>>
      BY DEF Refuse
<1>3. QED
      BY <1>1, <1>2, CaptureKeeps

-----------------------------------------------------------------------------
(* Admission                                                               *)

\* What an admission does, apart from what it stages.
LEMMA AdmitIs ==
  ASSUME ContextInv, NEW p \in Planners, Admit(p)
  PROVE  \E inputs \in Inputs, c \in HandedOut :
           /\ c.inputs = inputs /\ IsCut(inputs, c.generation) /\ InWindows(inputs, c.at)
           /\ contexts' = Append(contexts, c)
           /\ capturing' = [capturing EXCEPT ![p] = Idle] /\ published' = published
           /\ Marks' \in MarkSets
           /\ \A o \in Objects : business'[o] = Content(inputs[o]) /\ Keeps(business[o], inputs[o])
           /\ \A s \in Streams :
                StreamHolds(s, Objects, delivery'[s], retired'[s], delivery[s], retired[s], inputs)
<1> DEFINE read == capturing[p].read
           inputs == read.inputs
           staged == Staged(inputs)
           c == [inputs |-> inputs, generation |-> read.generation, at |-> capturing[p].at]
<1>1. capturing[p].step = "read" /\ capturing[p] \in Captures
      BY DEF Admit, ContextInv, CaptureTyped
<1>2. read \in Reads /\ capturing[p].at \in Instants
      BY <1>1 DEF Captures, Idle
<1>3. inputs \in Inputs /\ read.generation \in Nat
      BY <1>2 DEF Reads
<1>4. IsCut(inputs, read.generation) /\ InWindows(inputs, capturing[p].at)
      BY <1>1 DEF ContextInv, ReadsAreCuts
<1>5. /\ staged.ok
      /\ delivery' = staged.delivery /\ business' = staged.business /\ retired' = staged.retired
      /\ contexts' = Append(contexts, c)
      /\ capturing' = [capturing EXCEPT ![p] = Idle] /\ published' = published
      BY DEF Admit, Admissible
<1>6. Marks \in MarkSets /\ OneSession(inputs)
      BY <1>4 DEF ContextInv, CaptureTyped, IsCut
<1> HIDE DEF read, inputs
<1>7. staged \in MarkSets /\ Taken(Objects, staged, inputs)
  <2> HIDE DEF staged
  <2>1. QED
        BY <1>3, <1>6, StagedTakes DEF staged
<1>8. c \in HandedOut /\ c.inputs = inputs /\ c.generation = read.generation /\ c.at = capturing[p].at
      BY <1>2, <1>3 DEF HandedOut
<1> HIDE DEF staged, c
<1>9. Marks' \in MarkSets
      BY <1>5, <1>7 DEF Marks, MarkSets
<1>10. /\ \A o \in Objects : business'[o] = Content(inputs[o]) /\ Keeps(business[o], inputs[o])
       /\ \A s \in Streams :
            StreamHolds(s, Objects, delivery'[s], retired'[s], delivery[s], retired[s], inputs)
       BY <1>5, <1>7 DEF Taken
<1>11. QED
       BY <1>3, <1>4, <1>5, <1>8, <1>9, <1>10

\* The producers and sessions of an object's messages, those of a record last.
Preceded(o, record, gone, earlier) ==
  /\ record.session \notin gone
  /\ \A i \in DOMAIN contexts :
       /\ contexts[i].inputs[o].producer = record.producer
       /\ contexts[i].inputs[o].session \in gone \cup {record.session}
       /\ contexts[i].inputs[o].session = record.session => earlier.session = record.session

\* The producer and the session of a stream over an admission.
LEMMA SessionStep ==
  ASSUME ContextInv, NEW s \in Streams, NEW o \in On(s), NEW inputs \in Inputs,
         NEW record, NEW gone,
         StreamHolds(s, Objects, record, gone, delivery[s], retired[s], inputs)
  PROVE  /\ OfMessages(record, s, inputs) /\ FollowsOn(delivery[s], o, inputs[o])
         /\ Preceded(o, record, gone, delivery[s])
<1>1. /\ o \in Objects /\ On(s) \cap Objects = On(s) /\ On(s) # {}
      BY DEF On
<1>2. /\ record \in Records
      /\ \A p \in On(s) : record.producer = inputs[p].producer /\ record.session = inputs[p].session
      /\ \A p \in On(s) : Delivered(record, p, inputs[p]) /\ FollowsOn(delivery[s], p, inputs[p])
      /\ Succeeds(s, Objects, record, gone, delivery[s], retired[s])
      BY <1>1 DEF StreamHolds
<1>3. /\ delivery[s] # NoRecord => delivery[s].session \notin retired[s]
      /\ \A i \in DOMAIN contexts :
           /\ contexts[i].inputs[o].producer = delivery[s].producer
           /\ contexts[i].inputs[o].session \in retired[s] \cup {delivery[s].session}
      BY DEF ContextInv, SessionsLeft
<1>4. CASE delivery[s] = NoRecord
  <2>1. contexts = <<>>
    <3>1. contexts # <<>> => OfMessages(delivery[s], s, contexts[Len(contexts)].inputs)
          BY DEF ContextInv, MarksFollow
    <3>2. NoRecord \notin Records
          BY ContextAssumption
    <3>3. QED
          BY <1>4, <3>1, <3>2 DEF OfMessages
  <2>2. retired[s] = {} /\ DOMAIN contexts = {}
        BY <2>1 DEF ContextInv, MarksFollow
  <2>3. gone = {}
        BY <1>2, <1>4, <2>2 DEF Succeeds
  <2>4. QED
        BY <1>2, <2>2, <2>3 DEF OfMessages, Preceded
<1>5. CASE delivery[s] # NoRecord
  <2>1. /\ record.producer = delivery[s].producer
        /\ record.session = delivery[s].session => gone = retired[s]
        /\ record.session # delivery[s].session =>
             record.session \notin retired[s] /\ gone = retired[s] \cup {delivery[s].session}
        BY <1>2, <1>5 DEF Succeeds
  <2>2. QED
        BY <1>2, <1>3, <1>5, <2>1 DEF OfMessages, Preceded
<1>6. QED
      BY <1>4, <1>5

\* The latest context and the one admitted now.
LEMMA NextToLast ==
  ASSUME ContextInv, contexts # <<>>, NEW o \in Objects, NEW m \in AllMessages,
         Keeps(business[o], m),
         \A s \in Streams : o \in On(s) => FollowsOn(delivery[s], o, m)
  PROVE  LET last == contexts[Len(contexts)].inputs[o]
         IN  /\ m.version >= last.version
             /\ m.version = last.version => m.body = last.body
             /\ (Stream(o) # NoStream /\ m.session = last.session) =>
                  /\ m.sequence >= last.sequence
                  /\ m.sequence = last.sequence => Wire(m) = Wire(last)
<1> DEFINE last == contexts[Len(contexts)].inputs[o]
           s == Stream(o)
<1>1. business[o] = Content(last) /\ \A t \in Streams : OfMessages(delivery[t], t, contexts[Len(contexts)].inputs)
      BY DEF ContextInv, MarksFollow
<1>2. last \in AllMessages
  <2>1. contexts[Len(contexts)] \in HandedOut
        BY DEF ContextInv, CaptureTyped
  <2>2. QED
        BY <2>1 DEF HandedOut, Inputs
<1>3. /\ last.sequence \in Int /\ m.sequence \in Int /\ last.version \in Int /\ m.version \in Int
      BY <1>2, ContextAssumption
<1> HIDE DEF last
<1>4. m.version >= last.version /\ (m.version = last.version => m.body = last.body)
  <2>1. business[o] # NoRecord
        BY <1>1, <1>2, ContextAssumption DEF Contents
  <2>2. /\ m.version >= Content(last).version
        /\ m.version = Content(last).version => Content(m) = Content(last)
        BY <1>1, <2>1 DEF Keeps
  <2>3. Content(last).version = last.version /\ Content(last).body = last.body /\ Content(m).body = m.body
        BY DEF Content
  <2>4. QED
        BY <2>2, <2>3
<1>5. ASSUME s # NoStream, m.session = last.session
      PROVE  m.sequence >= last.sequence /\ (m.sequence = last.sequence => Wire(m) = Wire(last))
  <2>1. s \in Streams /\ o \in On(s)
        BY <1>5 DEF Streams, On
  <2>2. /\ delivery[s] # NoRecord /\ delivery[s].session = last.session /\ o \in DOMAIN delivery[s].members
        /\ delivery[s].members[o] = [sequence |-> last.sequence, wire |-> Wire(last)]
        BY <1>1, <2>1, RecordFacts DEF OfMessages, Delivered, last
  <2>3. FollowsOn(delivery[s], o, m)
        BY <2>1
  <2>4. \/ m.sequence > delivery[s].members[o].sequence
        \/ delivery[s].members[o] = [sequence |-> m.sequence, wire |-> Wire(m)]
    <3> HIDE DEF s
    <3>1. QED
          BY <1>5, <2>2, <2>3 DEF FollowsOn
  <2>5. m.sequence > last.sequence \/ (m.sequence = last.sequence /\ Wire(m) = Wire(last))
    <3>1. CASE m.sequence > delivery[s].members[o].sequence
          BY <2>2, <3>1
    <3>2. CASE delivery[s].members[o] = [sequence |-> m.sequence, wire |-> Wire(m)]
      <4>1. [sequence |-> m.sequence, wire |-> Wire(m)] = [sequence |-> last.sequence, wire |-> Wire(last)]
            BY <2>2, <3>2
      <4>2. QED
            BY <4>1
    <3>3. QED
          BY <2>4, <3>1, <3>2
  <2>6. QED
        BY <1>3, <2>5
<1>6. QED
      BY <1>4, <1>5 DEF last

LEMMA AdmitKeeps ==
  ASSUME ContextInv, NEW p \in Planners, Admit(p)
  PROVE  ContextInv'
<1> DEFINE N == Len(contexts)
<1>1. PICK inputs \in Inputs, c \in HandedOut :
        /\ c.inputs = inputs /\ IsCut(inputs, c.generation) /\ InWindows(inputs, c.at)
        /\ contexts' = Append(contexts, c)
        /\ capturing' = [capturing EXCEPT ![p] = Idle] /\ published' = published
        /\ Marks' \in MarkSets
        /\ \A o \in Objects : business'[o] = Content(inputs[o]) /\ Keeps(business[o], inputs[o])
        /\ \A s \in Streams :
             StreamHolds(s, Objects, delivery'[s], retired'[s], delivery[s], retired[s], inputs)
      BY AdmitIs
<1>2. /\ contexts \in Seq(HandedOut) /\ N \in Nat /\ DOMAIN contexts = 1..N
      /\ contexts' \in Seq(HandedOut) /\ contexts' # <<>> /\ Len(contexts') = N + 1 /\ DOMAIN contexts' = 1..N + 1
      /\ contexts'[N + 1] = c /\ \A i \in 1..N : contexts'[i] = contexts[i]
  <2>1. contexts \in Seq(HandedOut)
        BY DEF ContextInv, CaptureTyped
  <2>2. QED
        BY <1>1, <2>1, AppendIs
<1>3. \A o \in Objects : \A s \in Streams : o \in On(s) <=> s = Stream(o)
      BY DEF On
<1>4. \A s \in Streams : \A o \in On(s) :
        /\ OfMessages(delivery'[s], s, inputs) /\ FollowsOn(delivery[s], o, inputs[o])
        /\ delivery'[s].session \notin retired'[s]
        /\ \A i \in 1..N :
             /\ contexts[i].inputs[o].producer = delivery'[s].producer
             /\ contexts[i].inputs[o].session \in retired'[s] \cup {delivery'[s].session}
             /\ contexts[i].inputs[o].session = delivery'[s].session => delivery[s].session = delivery'[s].session
  <2> TAKE s \in Streams
  <2> TAKE o \in On(s)
  <2> DEFINE record == delivery'[s]
             gone == retired'[s]
  <2>1. StreamHolds(s, Objects, record, gone, delivery[s], retired[s], inputs)
        BY <1>1
  <2> HIDE DEF record, gone, N
  <2>2. /\ OfMessages(record, s, inputs) /\ FollowsOn(delivery[s], o, inputs[o])
        /\ Preceded(o, record, gone, delivery[s])
        BY <2>1, SessionStep
  <2>3. QED
        BY <1>2, <2>2 DEF record, gone, Preceded
<1> HIDE DEF N
<1>5. CaptureTyped'
  <2>1. Idle \in Captures
        BY DEF Captures
  <2>2. QED
        BY <1>1, <1>2, <2>1 DEF ContextInv, CaptureTyped
<1>6. ReadsAreCuts'
  <2>1. \A q \in Planners : capturing'[q] = IF q = p THEN Idle ELSE capturing[q]
        BY <1>1 DEF ContextInv, CaptureTyped
  <2>2. Idle.step = "idle"
        BY DEF Idle
  <2>3. QED
        BY <1>1, <2>1, <2>2 DEF ContextInv, ReadsAreCuts, IsCut, Generation
<1>7. ContextsAreCuts'
  <2>1. \A i \in 1..N : IsCut(contexts[i].inputs, contexts[i].generation) /\ InWindows(contexts[i].inputs, contexts[i].at)
        BY <1>2 DEF ContextInv, ContextsAreCuts
  <2>2. \A i \in 1..N + 1 : i \in 1..N \/ i = N + 1
        BY <1>2
  <2>3. \A i \in 1..N + 1 : IsCut(contexts'[i].inputs, contexts'[i].generation) /\ InWindows(contexts'[i].inputs, contexts'[i].at)
        BY <1>1, <1>2, <2>1, <2>2
  <2>4. QED
        BY <1>1, <1>2, <2>3 DEF ContextsAreCuts, IsCut, Generation
<1>8. MarksFollow'
  <2>1. contexts'[Len(contexts')].inputs = inputs
        BY <1>1, <1>2
  <2>2. \A s \in Streams : OfMessages(delivery'[s], s, inputs)
    <3> TAKE s \in Streams
    <3>1. PICK o \in On(s) : TRUE
          BY DEF On, Streams
    <3>2. QED
          BY <1>4
  <2>3. QED
        BY <1>1, <1>2, <2>1, <2>2 DEF MarksFollow
<1>9. SessionsLeft'
  <2> SUFFICES ASSUME NEW s \in Streams
               PROVE  /\ delivery'[s].session \notin retired'[s]
                      /\ \A i \in 1..N + 1 : \A o \in On(s) :
                           /\ contexts'[i].inputs[o].producer = delivery'[s].producer
                           /\ contexts'[i].inputs[o].session \in retired'[s] \cup {delivery'[s].session}
      BY <1>2 DEF SessionsLeft
  <2>1. delivery'[s].session \notin retired'[s]
    <3>1. PICK o \in On(s) : TRUE
          BY DEF On, Streams
    <3>2. QED
          BY <1>4
  <2>2. ASSUME NEW i \in 1..N + 1, NEW o \in On(s)
        PROVE  /\ contexts'[i].inputs[o].producer = delivery'[s].producer
               /\ contexts'[i].inputs[o].session \in retired'[s] \cup {delivery'[s].session}
    <3>1. CASE i \in 1..N
          BY <1>2, <1>4, <3>1
    <3>2. CASE i = N + 1
          BY <1>1, <1>2, <1>4, <3>2 DEF OfMessages
    <3>3. QED
          BY <1>2, <3>1, <3>2
  <2>3. QED
        BY <2>1, <2>2
<1>10. \A o \in Objects : inputs[o] \in AllMessages
       BY DEF Inputs
<1>11. \A i \in 1..N : \A o \in Objects : contexts[i].inputs[o] \in AllMessages
  <2>1. \A i \in 1..N : contexts[i] \in HandedOut
        BY <1>2
  <2>2. QED
        BY <2>1 DEF HandedOut, Inputs
<1>12. ASSUME NEW i \in 1..N, NEW o \in Objects, NEW s \in Streams, o \in On(s),
              contexts[i].inputs[o].session = inputs[o].session
       PROVE  contexts[N].inputs[o].session = inputs[o].session
  <2>1. delivery'[s].session = inputs[o].session
        BY <1>4, <1>12 DEF OfMessages
  <2>2. delivery[s].session = inputs[o].session
        BY <1>4, <1>12, <2>1
  <2>3. contexts # <<>> /\ Len(contexts) = N
        BY <1>2, <1>12 DEF N
  <2>4. delivery[s].session = contexts[N].inputs[o].session
        BY <1>12, <2>3 DEF ContextInv, MarksFollow, OfMessages
  <2>5. QED
        BY <2>2, <2>4
<1>13. NothingRegresses'
  <2> SUFFICES ASSUME NEW i \in 1..N + 1, NEW j \in 1..N + 1, i < j, NEW o \in Objects
               PROVE  /\ contexts'[j].inputs[o].version >= contexts'[i].inputs[o].version
                      /\ contexts'[j].inputs[o].version = contexts'[i].inputs[o].version =>
                           contexts'[j].inputs[o].body = contexts'[i].inputs[o].body
                      /\ (Stream(o) # NoStream /\ contexts'[j].inputs[o].session = contexts'[i].inputs[o].session) =>
                           /\ contexts'[j].inputs[o].sequence >= contexts'[i].inputs[o].sequence
                           /\ contexts'[j].inputs[o].sequence = contexts'[i].inputs[o].sequence =>
                                Wire(contexts'[j].inputs[o]) = Wire(contexts'[i].inputs[o])
      BY <1>2 DEF NothingRegresses
  <2>1. i \in 1..N /\ contexts'[i] = contexts[i]
        BY <1>2
  <2> DEFINE Follow(later, earlier) ==
               /\ later.version >= earlier.version
               /\ later.version = earlier.version => later.body = earlier.body
               /\ (Stream(o) # NoStream /\ later.session = earlier.session) =>
                    /\ later.sequence >= earlier.sequence
                    /\ later.sequence = earlier.sequence => Wire(later) = Wire(earlier)
             E == contexts[i].inputs[o]
             L == contexts[N].inputs[o]
             M == inputs[o]
  <2>2. \A k, l \in 1..N : k < l => Follow(contexts[l].inputs[o], contexts[k].inputs[o])
        BY <1>2 DEF ContextInv, NothingRegresses
  <2>3. CASE j \in 1..N
    <3>1. contexts'[j] = contexts[j]
          BY <1>2, <2>3
    <3>2. Follow(contexts[j].inputs[o], contexts[i].inputs[o])
          BY <2>1, <2>2, <2>3
    <3>3. QED
          BY <2>1, <3>1, <3>2
  <2>4. CASE j = N + 1
    <3>1. contexts'[j].inputs[o] = M /\ N \in 1..N
          BY <1>1, <1>2, <2>1, <2>4
    <3>2. Follow(M, L)
      <4>1. contexts # <<>> /\ Len(contexts) = N
            BY <1>2, <3>1 DEF N
      <4>2. Keeps(business[o], M) /\ M \in AllMessages
            BY <1>1, <1>10
      <4>3. \A s \in Streams : o \in On(s) => FollowsOn(delivery[s], o, M)
            BY <1>4
      <4> HIDE DEF M
      <4>4. QED
            BY <4>1, <4>2, <4>3, NextToLast
    <3>3. CASE i = N
          BY <2>1, <3>1, <3>2, <3>3
    <3>4. CASE i # N
      <4>1. Follow(L, E)
            BY <1>2, <2>1, <2>2, <3>1, <3>4
      <4>2. (Stream(o) # NoStream /\ M.session = E.session) => L.session = M.session
        <5>1. Stream(o) # NoStream => Stream(o) \in Streams /\ o \in On(Stream(o))
              BY DEF Streams, On
        <5>2. QED
              BY <1>12, <2>1, <5>1
      <4>3. /\ E.version \in Int /\ L.version \in Int /\ M.version \in Int
            /\ E.sequence \in Int /\ L.sequence \in Int /\ M.sequence \in Int
            BY <1>10, <1>11, <2>1, <3>1, ContextAssumption
      <4> HIDE DEF E, L, M
      <4>4. Follow(M, E)
        <5>1. M.version >= E.version /\ (M.version = E.version => M.body = E.body)
              BY <3>2, <4>1, <4>3
        <5>2. ASSUME Stream(o) # NoStream, M.session = E.session
              PROVE  M.sequence >= E.sequence /\ (M.sequence = E.sequence => Wire(M) = Wire(E))
          <6>1. L.session = M.session /\ L.session = E.session
                BY <4>2, <5>2
          <6>2. /\ M.sequence >= L.sequence /\ (M.sequence = L.sequence => Wire(M) = Wire(L))
                /\ L.sequence >= E.sequence /\ (L.sequence = E.sequence => Wire(L) = Wire(E))
                BY <3>2, <4>1, <5>2, <6>1
          <6>3. QED
                BY <4>3, <6>2
        <5>3. QED
              BY <5>1, <5>2
      <4>5. QED
            BY <2>1, <3>1, <4>4 DEF E
    <3>5. QED
          BY <3>3, <3>4
  <2>5. QED
        BY <1>2, <2>3, <2>4
<1>14. SessionsEndForGood'
  <2> SUFFICES ASSUME NEW s \in Streams, NEW o \in On(s), NEW i \in 1..N + 1, NEW j \in 1..N + 1, i < j
               PROVE  /\ contexts'[i].inputs[o].producer = contexts'[j].inputs[o].producer
                      /\ contexts'[i].inputs[o].session = contexts'[j].inputs[o].session =>
                           \A k \in i..j : contexts'[k].inputs[o].session = contexts'[i].inputs[o].session
      BY <1>2 DEF SessionsEndForGood
  <2>1. i \in 1..N /\ contexts'[i] = contexts[i] /\ o \in Objects
        BY <1>2 DEF On
  <2>2. \A k, l \in 1..N : k < l =>
          /\ contexts[k].inputs[o].producer = contexts[l].inputs[o].producer
          /\ contexts[k].inputs[o].session = contexts[l].inputs[o].session =>
               \A h \in k..l : contexts[h].inputs[o].session = contexts[k].inputs[o].session
        BY <1>2 DEF ContextInv, SessionsEndForGood
  <2>3. CASE j \in 1..N
    <3>1. \A k \in i..j : k \in 1..N
          BY <1>2, <2>3
    <3>2. QED
          BY <1>2, <2>1, <2>2, <2>3, <3>1
  <2>4. CASE j = N + 1
    <3>1. contexts'[j].inputs = inputs
          BY <1>1, <1>2, <2>4
    <3>2. contexts[i].inputs[o].producer = inputs[o].producer
          BY <1>4, <2>1 DEF OfMessages
    <3>3. ASSUME contexts[i].inputs[o].session = inputs[o].session, NEW k \in i..j
          PROVE  contexts'[k].inputs[o].session = contexts[i].inputs[o].session
      <4>1. contexts[N].inputs[o].session = inputs[o].session
            BY <1>12, <2>1, <3>3
      <4>2. \A h \in 1..N : i <= h => contexts[h].inputs[o].session = contexts[i].inputs[o].session
        <5>1. CASE i = N
              BY <1>2, <5>1
        <5>2. CASE i < N
          <6>1. \A h \in i..N : contexts[h].inputs[o].session = contexts[i].inputs[o].session
                BY <1>2, <2>1, <2>2, <3>3, <4>1, <5>2
          <6>2. QED
                BY <1>2, <6>1
        <5>3. QED
              BY <1>2, <5>1, <5>2
      <4>3. CASE k \in 1..N
            BY <1>2, <4>2, <4>3
      <4>4. CASE k = N + 1
            BY <2>4, <3>1, <3>3, <4>4
      <4>5. QED
            BY <1>2, <2>1, <2>4, <4>3, <4>4
    <3>4. QED
          BY <2>1, <3>1, <3>2, <3>3
  <2>5. QED
        BY <1>2, <2>3, <2>4
<1>15. QED
       BY <1>5, <1>6, <1>7, <1>8, <1>9, <1>13, <1>14 DEF ContextInv

-----------------------------------------------------------------------------
(* The theorem                                                             *)

LEMMA ContextNextKeeps ==
  ContextInv /\ [ContextNext]_scoutContextVars => ContextInv'
<1> SUFFICES ASSUME ContextInv, [ContextNext]_scoutContextVars PROVE ContextInv'
    OBVIOUS
<1>1. CASE Publish
      BY <1>1, PublishKeeps
<1>2. ASSUME NEW p \in Planners, BeginCapture(p) PROVE ContextInv'
      BY <1>2, BeginKeeps
<1>3. ASSUME NEW p \in Planners, ReadInputs(p) PROVE ContextInv'
      BY <1>3, ReadKeeps
<1>4. ASSUME NEW p \in Planners, Admit(p) PROVE ContextInv'
      BY <1>4, AdmitKeeps
<1>5. ASSUME NEW p \in Planners, Refuse(p) PROVE ContextInv'
      BY <1>5, RefuseKeeps
<1>6. CASE UNCHANGED scoutContextVars
      BY <1>6 DEF scoutContextVars, ContextInv, CaptureTyped, Marks, ReadsAreCuts, ContextsAreCuts, IsCut, Generation,
                  MarksFollow, SessionsLeft, NothingRegresses, SessionsEndForGood
<1>7. QED
      BY <1>1, <1>2, <1>3, <1>4, <1>5, <1>6 DEF ContextNext

LEMMA InvNeverRegresses ==
  ContextInv => ContextsNeverRegress
<1> SUFFICES ASSUME ContextInv PROVE ContextsNeverRegress
    OBVIOUS
<1>1. TakenTogether
      BY DEF ContextInv, ContextsAreCuts, IsCut, InWindows, TakenTogether
<1>2. MarksAreOfLastContext
      BY DEF ContextInv, MarksFollow, OfMessages, Delivered, MarksAreOfLastContext
<1>3. QED
      BY <1>1, <1>2 DEF ContextInv, ContextsNeverRegress

\* However publications and the captures of any number of planners interleave, over any
\* objects and streams, the contexts handed out are cuts of the source that never go back:
\* no version, no delivery of a session, no session that was replaced
\* (planning_context.cpp, Builder::capture and its watermarks).
THEOREM ContextsStayCuts == ContextSpec => []ContextsNeverRegress
<1>1. ContextInit => ContextInv
      BY ContextStarts
<1>2. ContextInv /\ [ContextNext]_scoutContextVars => ContextInv'
      BY ContextNextKeeps
<1>3. ContextInv => ContextsNeverRegress
      BY InvNeverRegresses
<1>4. QED
      BY <1>1, <1>2, <1>3, PTL DEF ContextSpec

-----------------------------------------------------------------------------
(***************************************************************************)
(* The search of the state lattice, for any cells, tasks and limits. Where *)
(* a scout need not wait, the cost of a record determines its time, so a   *)
(* record that beats another of its key is no later; what has left the     *)
(* queue was expanded in full, and so, when the queue has run empty,       *)
(* whatever the reference reaches is covered by a record that is alike and *)
(* no later.                                                               *)
(***************************************************************************)

Modes == {"cruise", "observe", "wait"}

LatticeRecord == [at : Int \X Int, heading : 1..8, mode : Modes, time : Nat, cost : Nat, parent : Nat]

LEMMA LatticeRecordIs ==
  ASSUME NEW r \in LatticeRecord
  PROVE  /\ r.at \in Int \X Int /\ r.at[1] \in Int /\ r.at[2] \in Int /\ r.at = <<r.at[1], r.at[2]>>
         /\ r.heading \in 1..8 /\ r.mode \in Modes /\ r.time \in Nat /\ r.cost \in Nat /\ r.parent \in Nat
BY DEF LatticeRecord

LEMMA TaskIs ==
  ASSUME NEW t \in Tasks
  PROVE  t.start \in Int \X Int /\ t.heading \in 1..8 /\ t.energy \in Nat /\ t.mode \in Modes /\ t.waits \in BOOLEAN
BY LatticeAssumption, Zenon DEF Modes

LEMMA LimitsAre ==
  /\ ObserveTime \in Nat /\ WaitTime \in Nat /\ ObserveTime > 0 /\ WaitTime > 0
  /\ MaxExpanded \in Nat /\ MaxQueue \in Nat /\ MaxQueue >= 1 /\ MaxExpanded >= 1
BY LatticeAssumption

LEMMA HeadingsAre ==
  /\ \A h \in 1..8 : Headings[h] \in Int \X Int /\ Length(h) \in {2, 3}
  /\ \A k \in 1..8 : NeighbourOrder[k] \in 1..8
  /\ \A h \in 1..8 : \E k \in 1..8 : NeighbourOrder[k] = h
<1>1. \A h \in 1..8 : h = 1 \/ h = 2 \/ h = 3 \/ h = 4 \/ h = 5 \/ h = 6 \/ h = 7 \/ h = 8
      OBVIOUS
<1>2. \A h \in 1..8 : Headings[h] \in Int \X Int
      BY <1>1 DEF Headings
<1>3. \A h : Length(h) \in {2, 3}
      BY DEF Length
<1>4. \A k \in 1..8 : NeighbourOrder[k] \in 1..8
      BY <1>1 DEF NeighbourOrder
<1>5. /\ NeighbourOrder[1] = 6 /\ NeighbourOrder[2] = 7 /\ NeighbourOrder[3] = 8 /\ NeighbourOrder[4] = 5
      /\ NeighbourOrder[5] = 1 /\ NeighbourOrder[6] = 4 /\ NeighbourOrder[7] = 3 /\ NeighbourOrder[8] = 2
      BY DEF NeighbourOrder
<1>6. \A h \in 1..8 : \E k \in 1..8 : NeighbourOrder[k] = h
      BY <1>1, <1>5
<1>7. QED
      BY <1>2, <1>3, <1>4, <1>6

-----------------------------------------------------------------------------
(* What a record tries                                                     *)

\* The record n follows r in place, or at the next cell in the direction h.
InPlace(r, mode, for, parent, n) ==
  /\ n \in LatticeRecord /\ n.at = r.at /\ n.heading = r.heading /\ n.mode = mode
  /\ n.time = r.time + for /\ n.cost = r.cost + for /\ n.parent = parent

NextCell(t, r, h, parent, n) ==
  /\ n \in LatticeRecord /\ n.heading = h /\ n.parent = parent
  /\ n.at = <<r.at[1] + Headings[h][1], r.at[2] + Headings[h][2]>>
  /\ Headings[h] = <<n.at[1] - r.at[1], n.at[2] - r.at[2]>>
  /\ n.mode = (IF r.mode = "wait" /\ t.exit = {} THEN "cruise" ELSE r.mode)
  /\ n.time = r.time + Length(h) /\ n.cost = r.cost + 2 * Length(h)

LEMMA StayIs ==
  ASSUME NEW r \in LatticeRecord, NEW mode \in Modes, NEW for \in Nat, NEW parent \in Nat
  PROVE  InPlace(r, mode, for, parent, Stay(r, mode, for, parent))
BY LatticeRecordIs DEF LatticeRecord, Stay, InPlace

LEMMA MoveIs ==
  ASSUME NEW t, NEW r \in LatticeRecord, NEW h \in 1..8, NEW parent \in Nat
  PROVE  NextCell(t, r, h, parent, MoveOn(t, r, h, parent))
<1> DEFINE n == MoveOn(t, r, h, parent)
<1>1. /\ n.heading = h /\ n.parent = parent /\ n.at = <<r.at[1] + Headings[h][1], r.at[2] + Headings[h][2]>>
      /\ n.mode = (IF r.mode = "wait" /\ t.exit = {} THEN "cruise" ELSE r.mode)
      /\ n.time = r.time + Length(h) /\ n.cost = r.cost + 2 * Length(h)
      BY DEF MoveOn
<1>2. /\ r.at[1] \in Int /\ r.at[2] \in Int /\ r.mode \in Modes /\ r.time \in Nat /\ r.cost \in Nat
      BY LatticeRecordIs
<1>3. Headings[h] \in Int \X Int /\ Length(h) \in Nat
      BY HeadingsAre
<1>4. Headings[h] = <<n.at[1] - r.at[1], n.at[2] - r.at[2]>>
      BY <1>1, <1>2, <1>3
<1>5. n \in LatticeRecord
  <2>1. n.mode \in Modes
        BY <1>1, <1>2 DEF Modes
  <2>2. n.at \in Int \X Int /\ n.time \in Nat /\ n.cost \in Nat
        BY <1>1, <1>2, <1>3
  <2>3. n = [at |-> n.at, heading |-> n.heading, mode |-> n.mode, time |-> n.time, cost |-> n.cost, parent |-> n.parent]
        BY DEF MoveOn
  <2>4. QED
        BY <1>1, <2>1, <2>2, <2>3 DEF LatticeRecord
<1>6. QED
      BY <1>1, <1>4, <1>5 DEF NextCell

LEMMA StepIs ==
  ASSUME NEW t, NEW r \in LatticeRecord, NEW k \in 0..8, NEW parent \in Nat
  PROVE  /\ Step(t, r, k, parent) \in LatticeRecord
         /\ Step(t, r, k, parent).parent = parent
         /\ Step(t, r, k, parent).at = Step(t, r, k, 0).at
         /\ Step(t, r, k, parent).heading = Step(t, r, k, 0).heading
         /\ Step(t, r, k, parent).mode = Step(t, r, k, 0).mode
         /\ Step(t, r, k, parent).time = Step(t, r, k, 0).time
<1> DEFINE n == Step(t, r, k, parent)
           m == Step(t, r, k, 0)
           h == NeighbourOrder[k]
<1>1. /\ ObserveTime \in Nat /\ WaitTime \in Nat /\ "observe" \in Modes /\ "wait" \in Modes /\ 0 \in Nat
      BY LimitsAre DEF Modes
<1>2. CASE k > 0
  <2>1. h \in 1..8
        BY <1>2, HeadingsAre
  <2>2. n = MoveOn(t, r, h, parent) /\ m = MoveOn(t, r, h, 0)
        BY <1>2 DEF Step
  <2> HIDE DEF n, m, h
  <2>3. NextCell(t, r, h, parent, n)
        BY <2>1, <2>2, MoveIs
  <2>4. NextCell(t, r, h, 0, m)
        BY <1>1, <2>1, <2>2, MoveIs
  <2>5. n \in LatticeRecord /\ n.parent = parent /\ n.at = m.at /\ n.heading = m.heading /\ n.mode = m.mode /\ n.time = m.time
        BY <2>3, <2>4 DEF NextCell
  <2>6. QED
        BY <2>5 DEF n, m
<1>3. CASE ~(k > 0)
  <2>1. \A p : Step(t, r, k, p) = IF DemandsMode(t, r) THEN Change(r, p) ELSE Wait(r, p)
        BY <1>3 DEF Step
  <2>2. CASE DemandsMode(t, r) /\ r.mode = "cruise"
    <3>1. n = Stay(r, "observe", ObserveTime, parent) /\ m = Stay(r, "observe", ObserveTime, 0)
          BY <2>1, <2>2 DEF Change
    <3> HIDE DEF n, m
    <3>2. InPlace(r, "observe", ObserveTime, parent, n) /\ InPlace(r, "observe", ObserveTime, 0, m)
          BY <1>1, <3>1, StayIs
    <3>3. n \in LatticeRecord /\ n.parent = parent /\ n.at = m.at /\ n.heading = m.heading /\ n.mode = m.mode /\ n.time = m.time
          BY <3>2 DEF InPlace
    <3>4. QED
          BY <3>3 DEF n, m
  <2>3. CASE ~(DemandsMode(t, r) /\ r.mode = "cruise")
    <3>1. n = Stay(r, "wait", WaitTime, parent) /\ m = Stay(r, "wait", WaitTime, 0)
          BY <2>1, <2>3 DEF Change, Wait
    <3> HIDE DEF n, m
    <3>2. InPlace(r, "wait", WaitTime, parent, n) /\ InPlace(r, "wait", WaitTime, 0, m)
          BY <1>1, <3>1, StayIs
    <3>3. n \in LatticeRecord /\ n.parent = parent /\ n.at = m.at /\ n.heading = m.heading /\ n.mode = m.mode /\ n.time = m.time
          BY <3>2 DEF InPlace
    <3>4. QED
          BY <3>3 DEF n, m
  <2>4. QED
        BY <2>2, <2>3
<1>4. QED
      BY <1>2, <1>3

-----------------------------------------------------------------------------
(* The cells on the way                                                    *)

LEMMA NextIsNear ==
  ASSUME NEW h \in 1..8
  PROVE  Headings[h][1] \in {-1, 0, 1} /\ Headings[h][2] \in {-1, 0, 1}
<1>1. h = 1 \/ h = 2 \/ h = 3 \/ h = 4 \/ h = 5 \/ h = 6 \/ h = 7 \/ h = 8
      OBVIOUS
<1>2. QED
      BY <1>1 DEF Headings

\* Along one axis, a square near the first cell that holds a place on the way is one of the two.
LEMMA OnAxis ==
  ASSUME NEW u \in Int, NEW v \in Int, v - u \in {-1, 0, 1}, NEW k \in 0..8, NEW w \in (u - 1)..(u + 1),
         NEW place, place = 8 * u + k * (v - u), -4 <= place - 8 * w, place - 8 * w <= 4
  PROVE  w \in {u, v}
<1>1. k \in Int /\ w \in Int
      OBVIOUS
<1>2. w = u - 1 \/ w = u \/ w = u + 1
      OBVIOUS
<1>3. CASE v = u
  <2>1. k * (v - u) = 0
        BY <1>1, <1>3
  <2>2. QED
        BY <1>1, <1>2, <2>1
<1>4. CASE v = u + 1
  <2>1. k * (v - u) = k
        BY <1>1, <1>4
  <2>2. QED
        BY <1>1, <1>2, <1>4, <2>1
<1>5. CASE v = u - 1
  <2>1. k * (v - u) = -k
        BY <1>1, <1>5
  <2>2. QED
        BY <1>1, <1>2, <1>5, <2>1
<1>6. QED
      BY <1>3, <1>4, <1>5

\* Halfway, both cells of an axis hold the place.
LEMMA HalfwayOnAxis ==
  ASSUME NEW u \in Int, NEW v \in Int, v - u \in {-1, 0, 1}, NEW w \in {u, v}
  PROVE  /\ w \in (u - 1)..(u + 1)
         /\ -4 <= 8 * u + 4 * (v - u) - 8 * w /\ 8 * u + 4 * (v - u) - 8 * w <= 4
OBVIOUS

\* What the search asks of a way between neighbours is that every cell it touches is free.
LEMMA WayIsCovered ==
  ASSUME NEW a \in Int \X Int, NEW b \in Int \X Int, b[1] - a[1] \in {-1, 0, 1}, b[2] - a[2] \in {-1, 0, 1}
  PROVE  CellsOnTheWay(a, b) \subseteq Cells <=> WayIsFree(a, b)
<1>1. a[1] \in Int /\ a[2] \in Int /\ b[1] \in Int /\ b[2] \in Int
      OBVIOUS
<1>2. \A k \in 0..8 : /\ PlaceAt(a, b, k)[1] = 8 * a[1] + k * (b[1] - a[1])
                      /\ PlaceAt(a, b, k)[2] = 8 * a[2] + k * (b[2] - a[2])
      BY DEF PlaceAt
<1>3. ASSUME CellsOnTheWay(a, b) \subseteq Cells, NEW k \in 0..8, NEW c \in SquaresNear(a), Holds(c, PlaceAt(a, b, k))
      PROVE  c \in Cells
  <2>1. c[1] \in (a[1] - 1)..(a[1] + 1) /\ c[2] \in (a[2] - 1)..(a[2] + 1) /\ c = <<c[1], c[2]>>
        BY DEF SquaresNear
  <2>2. \A x \in 1..2 : -4 <= PlaceAt(a, b, k)[x] - 8 * c[x] /\ PlaceAt(a, b, k)[x] - 8 * c[x] <= 4
        BY <1>3 DEF Holds
  <2>3. c[1] \in {a[1], b[1]}
    <3> DEFINE u == a[1]
               v == b[1]
               w == c[1]
               place == PlaceAt(a, b, k)[1]
    <3>1. /\ u \in Int /\ v \in Int /\ v - u \in {-1, 0, 1} /\ w \in (u - 1)..(u + 1)
          BY <1>1, <2>1
    <3>2. place = 8 * u + k * (v - u)
          BY <1>2
    <3>3. -4 <= place - 8 * w /\ place - 8 * w <= 4
          BY <2>2
    <3> HIDE DEF u, v, w, place
    <3>4. w \in {u, v}
          BY <3>1, <3>2, <3>3, OnAxis
    <3>5. QED
          BY <3>4 DEF u, v, w
  <2>4. c[2] \in {a[2], b[2]}
    <3> DEFINE u == a[2]
               v == b[2]
               w == c[2]
               place == PlaceAt(a, b, k)[2]
    <3>1. /\ u \in Int /\ v \in Int /\ v - u \in {-1, 0, 1} /\ w \in (u - 1)..(u + 1)
          BY <1>1, <2>1
    <3>2. place = 8 * u + k * (v - u)
          BY <1>2
    <3>3. -4 <= place - 8 * w /\ place - 8 * w <= 4
          BY <2>2
    <3> HIDE DEF u, v, w, place
    <3>4. w \in {u, v}
          BY <3>1, <3>2, <3>3, OnAxis
    <3>5. QED
          BY <3>4 DEF u, v, w
  <2>5. c \in CellsOnTheWay(a, b)
        BY <2>1, <2>3, <2>4 DEF CellsOnTheWay
  <2>6. QED
        BY <1>3, <2>5
<1>4. ASSUME WayIsFree(a, b), NEW c \in CellsOnTheWay(a, b)
      PROVE  c \in Cells
  <2>1. c[1] \in {a[1], b[1]} /\ c[2] \in {a[2], b[2]} /\ c = <<c[1], c[2]>>
        BY DEF CellsOnTheWay
  <2>2. /\ c[1] \in (a[1] - 1)..(a[1] + 1)
        /\ -4 <= 8 * a[1] + 4 * (b[1] - a[1]) - 8 * c[1] /\ 8 * a[1] + 4 * (b[1] - a[1]) - 8 * c[1] <= 4
        BY <1>1, <2>1, HalfwayOnAxis
  <2>3. /\ c[2] \in (a[2] - 1)..(a[2] + 1)
        /\ -4 <= 8 * a[2] + 4 * (b[2] - a[2]) - 8 * c[2] /\ 8 * a[2] + 4 * (b[2] - a[2]) - 8 * c[2] <= 4
        BY <1>1, <2>1, HalfwayOnAxis
  <2>4. 4 \in 0..8
        OBVIOUS
  <2>5. Holds(c, PlaceAt(a, b, 4))
    <3>1. \A x \in 1..2 : x = 1 \/ x = 2
          OBVIOUS
    <3>2. PlaceAt(a, b, 4)[1] = 8 * a[1] + 4 * (b[1] - a[1]) /\ PlaceAt(a, b, 4)[2] = 8 * a[2] + 4 * (b[2] - a[2])
          BY <1>2, <2>4
    <3>3. /\ -4 <= PlaceAt(a, b, 4)[1] - 8 * c[1] /\ PlaceAt(a, b, 4)[1] - 8 * c[1] <= 4
          /\ -4 <= PlaceAt(a, b, 4)[2] - 8 * c[2] /\ PlaceAt(a, b, 4)[2] - 8 * c[2] <= 4
          BY <2>2, <2>3, <3>2
    <3>4. QED
          BY <3>1, <3>3 DEF Holds
  <2>6. c \in SquaresNear(a)
        BY <2>1, <2>2, <2>3 DEF SquaresNear
  <2>7. QED
        BY <1>4, <2>4, <2>5, <2>6 DEF WayIsFree
<1>5. QED
      BY <1>3, <1>4 DEF WayIsFree

\* An edge the search may take is legal by the reference.
LEMMA EdgeIsLegal ==
  ASSUME NEW a \in LatticeRecord, NEW b \in LatticeRecord,
         Headings[b.heading] = << b.at[1] - a.at[1], b.at[2] - a.at[2] >>
  PROVE  EdgeAllowed(task, a, b) <=> MoveIsLegal(a, b) /\ Bearable(task, a, b)
<1>1. a.at \in Int \X Int /\ b.at \in Int \X Int /\ b.heading \in 1..8
      BY LatticeRecordIs
<1>2. b.at[1] - a.at[1] \in {-1, 0, 1} /\ b.at[2] - a.at[2] \in {-1, 0, 1}
  <2>1. Headings[b.heading][1] = b.at[1] - a.at[1] /\ Headings[b.heading][2] = b.at[2] - a.at[2]
        OBVIOUS
  <2>2. QED
        BY <1>1, <2>1, NextIsNear
<1>3. CellsOnTheWay(a.at, b.at) \subseteq Cells <=> WayIsFree(a.at, b.at)
      BY <1>1, <1>2, WayIsCovered
<1>4. QED
      BY <1>3 DEF EdgeAllowed, MoveIsLegal, Bearable, WithinEnergy

-----------------------------------------------------------------------------
(* What follows a record, step by step                                     *)

\* The record i, which does not end the search, offers the record b.
Leads(t, a, i, b) ==
  ~AtTerminal(t, a) /\ \E k \in 0..8 : Offers(t, a, k) /\ b = Step(t, a, k, i)

StaysAt(t, a, b) ==
  /\ b.at = a.at
  /\ \/ /\ DemandsMode(t, a) /\ a.mode = "cruise" /\ b.mode = "observe"
        /\ b.time = a.time + ObserveTime /\ b.cost = a.cost + ObserveTime
     \/ /\ DemandsMode(t, a) /\ a.mode = "observe" /\ b.mode = "wait"
        /\ b.time = a.time + WaitTime /\ b.cost = a.cost + WaitTime
     \/ /\ ~DemandsMode(t, a) /\ t.waits /\ a.mode # "observe" /\ b.mode = "wait"
        /\ b.time = a.time + WaitTime /\ b.cost = a.cost + WaitTime

MovesFurther(t, a, b) ==
  /\ ~DemandsMode(t, a) /\ EdgeAllowed(t, a, b)
  /\ Headings[b.heading] = <<b.at[1] - a.at[1], b.at[2] - a.at[2]>>
  /\ b.mode = (IF a.mode = "wait" /\ t.exit = {} THEN "cruise" ELSE a.mode)
  /\ b.time = a.time + Length(b.heading) /\ b.cost = a.cost + 2 * Length(b.heading)

LEMMA LeadsIs ==
  ASSUME NEW t \in Tasks, NEW a \in LatticeRecord, NEW i \in Nat, NEW b, Leads(t, a, i, b)
  PROVE  /\ b \in LatticeRecord /\ b.parent = i /\ b.cost > a.cost /\ b.time > a.time
         /\ Bearable(t, a, b) /\ ~AtTerminal(t, a)
         /\ StaysAt(t, a, b) \/ MovesFurther(t, a, b)
<1>1. PICK k \in 0..8 : Offers(t, a, k) /\ b = Step(t, a, k, i)
      BY DEF Leads
<1>2. ~AtTerminal(t, a)
      BY DEF Leads
<1> DEFINE n == Step(t, a, k, 0)
<1>3. b \in LatticeRecord /\ b.parent = i /\ b.at = n.at /\ b.heading = n.heading /\ b.mode = n.mode /\ b.time = n.time
  <2>1. /\ Step(t, a, k, i) \in LatticeRecord /\ Step(t, a, k, i).parent = i
        /\ Step(t, a, k, i).at = Step(t, a, k, 0).at /\ Step(t, a, k, i).heading = Step(t, a, k, 0).heading
        /\ Step(t, a, k, i).mode = Step(t, a, k, 0).mode /\ Step(t, a, k, i).time = Step(t, a, k, 0).time
        BY StepIs
  <2>2. QED
        BY <1>1, <2>1
<1>4. ObserveTime \in Nat /\ WaitTime \in Nat /\ ObserveTime > 0 /\ WaitTime > 0 /\ "observe" \in Modes /\ "wait" \in Modes
      BY LimitsAre DEF Modes
<1>5. a.time \in Nat /\ a.cost \in Nat /\ a.mode \in Modes
      BY LatticeRecordIs
<1>6. CASE k > 0
  <2>1. NeighbourOrder[k] \in 1..8
        BY <1>6, HeadingsAre
  <2>2. b = MoveOn(t, a, NeighbourOrder[k], i)
        BY <1>1, <1>6 DEF Step
  <2> DEFINE h == NeighbourOrder[k]
  <2> HIDE DEF h
  <2>9. /\ b.heading = h /\ Headings[h] = <<b.at[1] - a.at[1], b.at[2] - a.at[2]>>
        /\ b.mode = (IF a.mode = "wait" /\ t.exit = {} THEN "cruise" ELSE a.mode)
        /\ b.time = a.time + Length(h) /\ b.cost = a.cost + 2 * Length(h)
    <3>1. h \in 1..8 /\ b = MoveOn(t, a, h, i)
          BY <2>1, <2>2 DEF h
    <3>2. NextCell(t, a, h, i, b)
          BY <3>1, MoveIs
    <3>3. QED
          BY <3>2 DEF NextCell
  <2>3. /\ Headings[b.heading] = <<b.at[1] - a.at[1], b.at[2] - a.at[2]>>
        /\ b.mode = (IF a.mode = "wait" /\ t.exit = {} THEN "cruise" ELSE a.mode)
        /\ b.time = a.time + Length(b.heading) /\ b.cost = a.cost + 2 * Length(b.heading) /\ b.heading \in 1..8
        BY <2>1, <2>9 DEF h
  <2>4. ~DemandsMode(t, a) /\ EdgeAllowed(t, a, n)
        BY <1>1, <1>6 DEF Offers
  <2>5. EdgeAllowed(t, a, b) /\ Bearable(t, a, b)
        BY <1>3, <2>4 DEF EdgeAllowed, Bearable
  <2>6. Length(b.heading) \in {2, 3}
        BY <2>3, HeadingsAre
  <2>7. b.cost > a.cost /\ b.time > a.time
        BY <1>5, <2>3, <2>6
  <2>8. QED
        BY <1>2, <1>3, <2>3, <2>4, <2>5, <2>7 DEF MovesFurther
<1>7. CASE ~(k > 0)
  <2>1. b = IF DemandsMode(t, a) THEN Change(a, i) ELSE Wait(a, i)
        BY <1>1, <1>7 DEF Step
  <2>2. Bearable(t, a, n) /\ (DemandsMode(t, a) \/ (t.waits /\ a.mode # "observe"))
        BY <1>1, <1>7 DEF Offers
  <2>3. Bearable(t, a, b)
        BY <1>3, <2>2 DEF Bearable
  <2>4. CASE DemandsMode(t, a) /\ a.mode = "cruise"
    <3>1. b = Stay(a, "observe", ObserveTime, i)
          BY <2>1, <2>4 DEF Change
    <3>2. b.at = a.at /\ b.mode = "observe" /\ b.time = a.time + ObserveTime /\ b.cost = a.cost + ObserveTime
          BY <1>4, <3>1, StayIs DEF InPlace
    <3>3. StaysAt(t, a, b)
          BY <2>4, <3>2 DEF StaysAt
    <3>4. b.cost > a.cost /\ b.time > a.time
          BY <1>4, <1>5, <3>2
    <3>5. QED
          BY <1>2, <1>3, <2>3, <3>3, <3>4
  <2>5. CASE ~(DemandsMode(t, a) /\ a.mode = "cruise")
    <3>1. b = Stay(a, "wait", WaitTime, i)
          BY <2>1, <2>5 DEF Change, Wait
    <3>2. b.at = a.at /\ b.mode = "wait" /\ b.time = a.time + WaitTime /\ b.cost = a.cost + WaitTime
          BY <1>4, <3>1, StayIs DEF InPlace
    <3>3. DemandsMode(t, a) => a.mode = "observe"
          BY <1>5, <2>5 DEF DemandsMode, Modes
    <3>4. StaysAt(t, a, b)
          BY <2>2, <3>2, <3>3 DEF StaysAt
    <3>5. b.cost > a.cost /\ b.time > a.time
          BY <1>4, <1>5, <3>2
    <3>6. QED
          BY <1>2, <1>3, <2>3, <3>4, <3>5
  <2>6. QED
        BY <2>4, <2>5
<1>8. QED
      BY <1>6, <1>7

-----------------------------------------------------------------------------
(* What a record says of the way to it                                     *)

\* Nothing is waited for on the way, no main robot is predicted, and the regions are apart.
Simple(t) ==
  ~t.waits /\ t.main = << >> /\ t.start \notin t.goal /\ t.goal \cap t.exit = {}

\* What the time of a record costs less than its way.
Spent(mode) ==
  IF mode = "cruise" THEN 0 ELSE IF mode = "observe" THEN ObserveTime ELSE ObserveTime + WaitTime

Sane(t, r) ==
  /\ r.mode = "observe" => r.at \in t.goal /\ (t.mode # "cruise" \/ t.exit # {})
  /\ r.mode = "wait" /\ t.exit = {} /\ r.at \in t.goal => t.mode = "wait"
  /\ Simple(t) => /\ r.mode = "wait" /\ t.exit = {} => r.at \in t.goal
                  /\ r.cost + Spent(r.mode) = 2 * r.time

\* Where the modes of two records, one led to by the other, come from.
Follows(t, a, b) ==
  /\ b.mode = "observe" => a.mode = "cruise" /\ a.at \in t.goal
  /\ b.mode = "wait" /\ t.exit = {} /\ b.at \in t.goal => a.mode = "observe"
  /\ Simple(t) => /\ b.mode = "cruise" => a.mode = "cruise"
                  /\ b.mode = "wait" => a.mode = "wait" \/ (a.mode = "observe" /\ b.at \in t.goal)

LEMMA SaneFollows ==
  ASSUME NEW t \in Tasks, NEW a \in LatticeRecord, NEW i \in Nat, NEW b, Leads(t, a, i, b), Sane(t, a)
  PROVE  Sane(t, b) /\ Follows(t, a, b)
<1>1. /\ b \in LatticeRecord /\ ~AtTerminal(t, a) /\ (StaysAt(t, a, b) \/ MovesFurther(t, a, b))
      BY LeadsIs
<1>2. /\ a.mode \in Modes /\ b.mode \in Modes /\ t.mode \in Modes /\ a.cost \in Nat /\ b.cost \in Nat
      /\ a.time \in Nat /\ b.time \in Nat /\ ObserveTime \in Nat /\ WaitTime \in Nat
      BY <1>1, LatticeRecordIs, TaskIs, LimitsAre
<1>3. a.mode # TerminalMode(t) \/ a.at \notin (IF t.exit # {} THEN t.exit ELSE t.goal)
      BY <1>1 DEF AtTerminal
<1>4. ASSUME a.mode = "observe"
      PROVE  DemandsMode(t, a)
  <2>1. a.at \in t.goal
        BY <1>4 DEF Sane
  <2>2. CASE t.exit # {}
        BY <1>4, <2>1, <2>2 DEF DemandsMode
  <2>3. CASE t.exit = {}
    <3>1. a.mode # t.mode
          BY <1>3, <2>1, <2>3 DEF TerminalMode
    <3>2. QED
          BY <1>4, <2>1, <3>1 DEF DemandsMode
  <2>4. QED
        BY <2>2, <2>3
<1>5. CASE StaysAt(t, a, b)
  <2>1. CASE /\ b.at = a.at /\ DemandsMode(t, a) /\ a.mode = "cruise" /\ b.mode = "observe"
             /\ b.time = a.time + ObserveTime /\ b.cost = a.cost + ObserveTime
    <3>1. a.at \in t.goal /\ (t.mode # "cruise" \/ t.exit # {})
          BY <2>1 DEF DemandsMode
    <3>2. Simple(t) => b.cost + Spent(b.mode) = 2 * b.time
      <4>1. Simple(t) => a.cost + 0 = 2 * a.time
            BY <2>1 DEF Sane, Spent
      <4>2. Spent(b.mode) = ObserveTime
            BY <2>1 DEF Spent
      <4>3. QED
            BY <1>2, <2>1, <4>1, <4>2
    <3>3. Sane(t, b)
          BY <2>1, <3>1, <3>2 DEF Sane
    <3>4. Follows(t, a, b)
          BY <2>1, <3>1 DEF Follows
    <3>5. QED
          BY <3>3, <3>4
  <2>2. CASE /\ b.at = a.at /\ DemandsMode(t, a) /\ a.mode = "observe" /\ b.mode = "wait"
             /\ b.time = a.time + WaitTime /\ b.cost = a.cost + WaitTime
    <3>1. a.at \in t.goal /\ (t.mode # "observe" \/ t.exit # {}) /\ (t.mode # "cruise" \/ t.exit # {})
          BY <2>2 DEF DemandsMode, Sane
    <3>2. Simple(t) => b.cost + Spent(b.mode) = 2 * b.time
      <4>1. Simple(t) => a.cost + ObserveTime = 2 * a.time
            BY <2>2 DEF Sane, Spent
      <4>2. Spent(b.mode) = ObserveTime + WaitTime
            BY <2>2 DEF Spent
      <4>3. QED
            BY <1>2, <2>2, <4>1, <4>2
    <3>3. Sane(t, b)
          BY <1>2, <2>2, <3>1, <3>2 DEF Sane, Modes
    <3>4. Follows(t, a, b)
          BY <2>2, <3>1 DEF Follows
    <3>5. QED
          BY <3>3, <3>4
  <2>3. CASE /\ b.at = a.at /\ ~DemandsMode(t, a) /\ t.waits /\ a.mode # "observe" /\ b.mode = "wait"
    <3>1. ~Simple(t)
          BY <2>3 DEF Simple
    <3>2. ~(t.exit = {} /\ b.at \in t.goal)
      <4>1. SUFFICES ASSUME t.exit = {}, a.at \in t.goal PROVE FALSE
            BY <2>3
      <4>2. a.mode # t.mode
            BY <1>3, <4>1 DEF TerminalMode
      <4>3. a.mode = "wait" => t.mode = "wait"
            BY <4>1 DEF Sane
      <4>4. a.mode = "wait"
            BY <2>3, <4>1, <4>2 DEF DemandsMode
      <4>5. QED
            BY <4>2, <4>3, <4>4
    <3>3. Sane(t, b)
          BY <2>3, <3>1, <3>2 DEF Sane
    <3>4. Follows(t, a, b)
          BY <2>3, <3>1, <3>2 DEF Follows
    <3>5. QED
          BY <3>3, <3>4
  <2>4. QED
        BY <1>5, <2>1, <2>2, <2>3 DEF StaysAt
<1>6. CASE MovesFurther(t, a, b)
  <2>1. ~DemandsMode(t, a) /\ b.mode = (IF a.mode = "wait" /\ t.exit = {} THEN "cruise" ELSE a.mode)
        BY <1>6 DEF MovesFurther
  <2>2. a.mode # "observe"
        BY <1>4, <2>1
  <2>3. b.mode # "observe" /\ (b.mode = "wait" => t.exit # {} /\ a.mode = "wait")
        BY <2>1, <2>2
  <2>4. Simple(t) => ~(a.mode = "wait" /\ t.exit = {})
    <3>1. SUFFICES ASSUME Simple(t), a.mode = "wait", t.exit = {} PROVE FALSE
          OBVIOUS
    <3>2. a.at \in t.goal /\ t.mode = "wait"
          BY <3>1 DEF Sane
    <3>3. QED
          BY <1>3, <3>1, <3>2 DEF TerminalMode
  <2>5. Simple(t) => b.cost + Spent(b.mode) = 2 * b.time
    <3>1. SUFFICES ASSUME Simple(t) PROVE b.cost + Spent(b.mode) = 2 * b.time
          OBVIOUS
    <3>2. b.mode = a.mode /\ a.cost + Spent(a.mode) = 2 * a.time
          BY <2>1, <2>4, <3>1 DEF Sane
    <3>3. b.time = a.time + Length(b.heading) /\ b.cost = a.cost + 2 * Length(b.heading)
          BY <1>6 DEF MovesFurther
    <3> DEFINE L == Length(b.heading)
               S == Spent(a.mode)
    <3>4. L \in Nat
      <4>1. b.heading \in 1..8
            BY <1>1, LatticeRecordIs
      <4>2. QED
            BY <4>1, HeadingsAre
    <3>5. S \in Nat
          BY <1>2 DEF Spent
    <3>6. a.cost + S = 2 * a.time /\ b.time = a.time + L /\ b.cost = a.cost + 2 * L /\ Spent(b.mode) = S
          BY <3>2, <3>3
    <3> HIDE DEF L, S
    <3>7. a.cost \in Nat /\ a.time \in Nat
          BY <1>2
    <3>8. a.cost + 2 * L + S = 2 * (a.time + L)
          BY <3>4, <3>5, <3>6, <3>7
    <3>9. QED
          BY <3>6, <3>8
  <2>6. Sane(t, b)
        BY <2>3, <2>5 DEF Sane
  <2>7. Follows(t, a, b)
        BY <2>1, <2>3, <2>4 DEF Follows
  <2>8. QED
        BY <2>6, <2>7
<1>7. QED
      BY <1>1, <1>5, <1>6

-----------------------------------------------------------------------------
(* The records of a search, and the way to each of them                    *)

FirstRecord(t) ==
  [at |-> t.start, heading |-> t.heading, mode |-> "cruise", time |-> 0, cost |-> 0, parent |-> 0]

\* Each record but the first was offered by an earlier one.
Branches(t, rs) ==
  /\ rs \in Seq(LatticeRecord) /\ Len(rs) >= 1 /\ rs[1] = FirstRecord(t)
  /\ \A i \in 2..Len(rs) : rs[i].parent \in 1..i - 1 /\ Leads(t, rs[rs[i].parent], rs[i].parent, rs[i])

LEMMA RecordsAre ==
  ASSUME NEW S, NEW q \in Seq(S)
  PROVE  Len(q) \in Nat /\ DOMAIN q = 1..Len(q) /\ \A i \in 1..Len(q) : q[i] \in S
OBVIOUS

LEMMA Appended ==
  ASSUME NEW S, NEW q \in Seq(S), NEW e \in S
  PROVE  /\ Append(q, e) \in Seq(S) /\ Append(q, e) # <<>>
         /\ Len(Append(q, e)) = Len(q) + 1 /\ Append(q, e)[Len(q) + 1] = e
         /\ \A i \in 1..Len(q) : Append(q, e)[i] = q[i]
OBVIOUS

LEMMA FirstIs ==
  ASSUME NEW t \in Tasks
  PROVE  FirstRecord(t) \in LatticeRecord /\ Sane(t, FirstRecord(t)) /\ FirstRecord(t).mode = "cruise" /\ FirstRecord(t).parent = 0
<1>1. t.start \in Int \X Int /\ t.heading \in 1..8 /\ "cruise" \in Modes
      BY TaskIs DEF Modes
<1>2. FirstRecord(t) \in LatticeRecord
      BY <1>1 DEF FirstRecord, LatticeRecord
<1>3. FirstRecord(t).mode = "cruise" /\ FirstRecord(t).parent = 0 /\ FirstRecord(t).cost = 0 /\ FirstRecord(t).time = 0
      BY DEF FirstRecord
<1>4. FirstRecord(t).cost + Spent(FirstRecord(t).mode) = 2 * FirstRecord(t).time
      BY <1>3 DEF Spent
<1>5. Sane(t, FirstRecord(t))
      BY <1>3, <1>4 DEF Sane
<1>6. QED
      BY <1>2, <1>3, <1>5

LEMMA BranchesSane ==
  ASSUME NEW t \in Tasks, NEW rs, Branches(t, rs)
  PROVE  \A i \in 1..Len(rs) : Sane(t, rs[i])
<1> DEFINE N == Len(rs)
           P == {m \in Nat : \A i \in 1..N : i <= m => Sane(t, rs[i])}
<1>1. /\ N \in Nat /\ \A i \in 1..N : rs[i] \in LatticeRecord
      BY RecordsAre DEF Branches
<1>2. 0 \in P
      BY <1>1
<1>3. ASSUME NEW m \in 1..N, m - 1 \in P PROVE m \in P
  <2>1. \A i \in 1..N : i <= m - 1 => Sane(t, rs[i])
        BY <1>3
  <2>2. Sane(t, rs[m])
    <3>1. CASE m = 1
          BY <3>1, FirstIs DEF Branches
    <3>2. CASE m # 1
      <4> DEFINE p == rs[m].parent
      <4>1. m \in 2..N
            BY <1>1, <3>2
      <4>2. p \in 1..m - 1 /\ Leads(t, rs[p], p, rs[m])
            BY <4>1 DEF Branches
      <4>3. p \in 1..N /\ p <= m - 1 /\ p \in Nat
            BY <1>1, <4>1, <4>2
      <4> HIDE DEF p
      <4>4. Sane(t, rs[p]) /\ rs[p] \in LatticeRecord
            BY <1>1, <2>1, <4>3
      <4>5. QED
            BY <4>2, <4>3, <4>4, SaneFollows
    <3>3. QED
          BY <3>1, <3>2
  <2>3. \A i \in 1..N : i <= m => Sane(t, rs[i])
    <3> TAKE i \in 1..N
    <3>1. i = m \/ i <= m - 1 \/ ~(i <= m)
          BY <1>1
    <3>2. QED
          BY <2>1, <2>2, <3>1
  <2>4. m \in Nat
        BY <1>1
  <2>5. QED
        BY <2>3, <2>4
<1>4. \A m \in 0..N : m \in P
  <2> HIDE DEF P, N
  <2>1. QED
        BY <1>1, <1>2, <1>3, InductionUpTo
<1>5. N \in 0..N
      BY <1>1
<1>6. QED
      BY <1>1, <1>4, <1>5

\* A record, and the one it was offered by.
LEMMA BranchIs ==
  ASSUME NEW t \in Tasks, NEW rs, Branches(t, rs), NEW i \in 2..Len(rs), NEW p, p = rs[i].parent
  PROVE  /\ p \in 1..i - 1 /\ p \in 1..Len(rs) /\ i \in 1..Len(rs) /\ rs[p] \in LatticeRecord /\ rs[i] \in LatticeRecord
         /\ Follows(t, rs[p], rs[i]) /\ rs[i].cost > rs[p].cost /\ Bearable(t, rs[p], rs[i])
         /\ StaysAt(t, rs[p], rs[i]) \/ MovesFurther(t, rs[p], rs[i])
<1>1. Len(rs) \in Nat /\ \A k \in 1..Len(rs) : rs[k] \in LatticeRecord
      BY RecordsAre DEF Branches
<1>2. p \in 1..i - 1 /\ Leads(t, rs[p], p, rs[i])
      BY DEF Branches
<1>3. p \in 1..Len(rs) /\ i \in 1..Len(rs) /\ p \in Nat
      BY <1>1, <1>2
<1>4. rs[p] \in LatticeRecord /\ rs[i] \in LatticeRecord /\ Sane(t, rs[p])
      BY <1>1, <1>3, BranchesSane
<1>5. Follows(t, rs[p], rs[i])
      BY <1>2, <1>3, <1>4, SaneFollows
<1>6. rs[i].cost > rs[p].cost /\ Bearable(t, rs[p], rs[i]) /\ (StaysAt(t, rs[p], rs[i]) \/ MovesFurther(t, rs[p], rs[i]))
      BY <1>2, <1>3, <1>4, LeadsIs
<1>7. QED
      BY <1>2, <1>3, <1>4, <1>5, <1>6

LEMMA TrailUnfolds ==
  ASSUME task \in Tasks, Branches(task, records)
  PROVE  /\ \A i \in 1..Len(records) : Trail(i) \in Seq(Nat)
         /\ Trail(1) = << 1 >>
         /\ \A i \in 2..Len(records) : Trail(i) = Append(Trail(records[i].parent), i)
<1> DEFINE N == Len(records)
           b == [i \in 1..N |-> <<i>>]
           parent == [i \in 1..N |-> IF records[i].parent = 0 THEN i ELSE records[i].parent]
           F == [e \in Nat \X Seq(Nat) |-> Append(e[2], e[1])]
           Back(f) == [k \in DOMAIN records |->
                         IF records[k].parent = 0 THEN <<k>> ELSE Append(f[records[k].parent], k)]
           back == CHOOSE f : f = Back(f)
<1>1. N \in Nat /\ N >= 1 /\ DOMAIN records = 1..N /\ records[1].parent = 0
      BY RecordsAre, FirstIs DEF Branches
<1>2. \A i \in 2..N : records[i].parent \in 1..i - 1 /\ records[i].parent # 0 /\ records[i].parent # i
  <2> TAKE i \in 2..N
  <2>1. records[i].parent \in 1..i - 1
        BY DEF Branches
  <2>2. QED
        BY <1>1, <2>1
<1>3. \A i \in 1..N : i = 1 \/ i \in 2..N
      BY <1>1
<1>4. \A i \in 1..N : parent[i] \in 1..i
  <2> TAKE i \in 1..N
  <2>1. CASE i = 1
        BY <1>1, <2>1
  <2>2. CASE i \in 2..N
        BY <1>2, <2>2
  <2>3. QED
        BY <1>3, <2>1, <2>2
<1>5. \A i : Trail(i) = back[i]
      BY DEF Trail
<1>6. PICK f \in [1..N -> Seq(Nat)] : Descends(f, N, b, parent, F)
  <2>1. \A i \in 1..N : b[i] \in Seq(Nat)
        OBVIOUS
  <2>2. F \in [Nat \X Seq(Nat) -> Seq(Nat)]
        OBVIOUS
  <2> HIDE DEF N, b, parent, F
  <2>3. QED
        BY <1>1, <1>4, <2>1, <2>2, RecursionOnAncestors
<1>7. \A i \in 1..N : f[i] = IF records[i].parent = 0 THEN <<i>> ELSE Append(f[records[i].parent], i)
  <2> TAKE i \in 1..N
  <2>1. f[i] = IF parent[i] = i THEN b[i] ELSE F[<<i, f[parent[i]]>>]
        BY <1>6 DEF Descends
  <2>2. CASE i = 1
    <3>1. parent[i] = i /\ b[i] = <<i>> /\ records[i].parent = 0
          BY <1>1, <2>2
    <3> HIDE DEF parent, b, F
    <3>2. QED
          BY <2>1, <3>1
  <2>3. CASE i \in 2..N
    <3>1. parent[i] = records[i].parent /\ parent[i] # i /\ records[i].parent # 0 /\ parent[i] \in 1..N
      <4>1. records[i].parent \in 1..i - 1 /\ records[i].parent # 0 /\ records[i].parent # i
            BY <1>2, <2>3
      <4>2. parent[i] = records[i].parent
            BY <4>1
      <4> HIDE DEF parent
      <4>3. QED
            BY <1>1, <4>1, <4>2
    <3> DEFINE q == f[parent[i]]
    <3>2. q \in Seq(Nat) /\ i \in Nat
      <4> HIDE DEF parent
      <4>1. QED
            BY <1>1, <3>1
    <3> HIDE DEF q
    <3>3. F[<<i, q>>] = Append(q, i)
          BY <3>2
    <3> HIDE DEF parent, b, F
    <3>4. QED
          BY <2>1, <3>1, <3>3 DEF q
  <2>4. QED
        BY <1>3, <2>2, <2>3
<1>8. f = Back(f)
  <2> HIDE DEF N
  <2>1. QED
        BY <1>1, <1>7
<1>9. back = Back(back)
      BY <1>8
<1> HIDE DEF back, F, b, parent
<1>10. \A i \in 1..N : back[i] = IF records[i].parent = 0 THEN <<i>> ELSE Append(back[records[i].parent], i)
  <2> HIDE DEF N
  <2>1. QED
        BY <1>1, <1>9
<1>11. back[1] = << 1 >> /\ \A i \in 2..N : back[i] = Append(back[records[i].parent], i)
  <2>1. 1 \in 1..N /\ \A i \in 2..N : i \in 1..N
        BY <1>1
  <2>2. QED
        BY <1>1, <1>2, <1>10, <2>1
<1> DEFINE P == {m \in Nat : \A i \in 1..N : i <= m => back[i] \in Seq(Nat)}
<1>12. 0 \in P
       BY <1>1
<1>13. ASSUME NEW m \in 1..N, m - 1 \in P PROVE m \in P
  <2>1. \A i \in 1..N : i <= m - 1 => back[i] \in Seq(Nat)
        BY <1>13
  <2>2. m \in Nat
        BY <1>1
  <2>3. back[m] \in Seq(Nat)
    <3>1. CASE m = 1
      <4>1. << 1 >> \in Seq(Nat)
            OBVIOUS
      <4>2. back[m] = << 1 >>
            BY <1>11, <3>1
      <4>3. QED
            BY <4>1, <4>2
    <3>2. CASE m # 1
      <4> DEFINE p == records[m].parent
      <4>1. m \in 2..N
            BY <1>1, <3>2
      <4>2. p \in 1..N /\ p <= m - 1 /\ back[m] = Append(back[p], m)
            BY <1>1, <1>2, <1>11, <4>1
      <4> HIDE DEF p
      <4>3. QED
            BY <2>1, <2>2, <4>2
    <3>3. QED
          BY <3>1, <3>2
  <2>4. \A i \in 1..N : i <= m => back[i] \in Seq(Nat)
    <3> TAKE i \in 1..N
    <3>1. i = m \/ i <= m - 1 \/ ~(i <= m)
          BY <1>1
    <3>2. QED
          BY <2>1, <2>3, <3>1
  <2>5. QED
        BY <2>2, <2>4
<1>14. \A m \in 0..N : m \in P
  <2> HIDE DEF P, N
  <2>1. QED
        BY <1>1, <1>12, <1>13, InductionUpTo
<1>15. \A i \in 1..N : back[i] \in Seq(Nat)
  <2>1. N \in 0..N /\ N \in P
        BY <1>1, <1>14
  <2>2. QED
        BY <1>1, <2>1
<1>16. QED
       BY <1>5, <1>11, <1>15

\* Each record on the way to i was offered by the one before it.
LEMMA TrailLinks ==
  ASSUME task \in Tasks, Branches(task, records), NEW i \in 1..Len(records)
  PROVE  /\ Trail(i) \in Seq(Nat) /\ Len(Trail(i)) >= 1 /\ Trail(i)[Len(Trail(i))] = i
         /\ \A k \in 2..Len(Trail(i)) : Trail(i)[k] \in 2..Len(records) /\ Trail(i)[k - 1] = records[Trail(i)[k]].parent
<1> DEFINE N == Len(records)
           Linked(q, j) == /\ Len(q) >= 1 /\ q[Len(q)] = j
                           /\ \A k \in 2..Len(q) : q[k] \in 2..N /\ q[k - 1] = records[q[k]].parent
           P == {m \in Nat : \A j \in 1..N : j <= m => Linked(Trail(j), j)}
<1>1. N \in Nat /\ N >= 1
      BY RecordsAre DEF Branches
<1>2. \A j \in 1..N : Trail(j) \in Seq(Nat)
      BY TrailUnfolds
<1>3. 0 \in P
      BY <1>1
<1>4. ASSUME NEW m \in 1..N, m - 1 \in P PROVE m \in P
  <2>1. \A j \in 1..N : j <= m - 1 => Linked(Trail(j), j)
        BY <1>4
  <2>2. m \in Nat
        BY <1>1
  <2>3. Linked(Trail(m), m)
    <3>1. CASE m = 1
      <4> DEFINE q == << 1 >>
      <4>1. Len(q) = 1 /\ q[1] = 1 /\ q \in Seq(Nat)
            OBVIOUS
      <4>2. Trail(m) = q
            BY <3>1, TrailUnfolds
      <4> HIDE DEF q
      <4>3. \A k \in 2..Len(q) : FALSE
            BY <4>1
      <4>4. Linked(q, m)
            BY <3>1, <4>1, <4>3
      <4>5. QED
            BY <4>2, <4>4
    <3>2. CASE m # 1
      <4> DEFINE p == records[m].parent
                 a == Trail(p)
                 q == Trail(m)
      <4>1. m \in 2..N
            BY <1>1, <3>2
      <4>2. p \in 1..m - 1
            BY <4>1 DEF Branches
      <4>3. p \in 1..N /\ p <= m - 1 /\ q = Append(a, m)
            BY <1>1, <4>1, <4>2, TrailUnfolds
      <4> HIDE DEF p
      <4>4. a \in Seq(Nat) /\ Linked(a, p)
            BY <1>2, <2>1, <4>3
      <4> HIDE DEF a, q
      <4>5. /\ Len(q) = Len(a) + 1 /\ q[Len(a) + 1] = m /\ \A k \in 1..Len(a) : q[k] = a[k]
            BY <2>2, <4>3, <4>4, Appended
      <4>6. Len(a) \in Nat /\ Len(a) >= 1
            BY <4>4
      <4>7. \A k \in 2..Len(q) : q[k] \in 2..N /\ q[k - 1] = records[q[k]].parent
        <5> TAKE k \in 2..Len(q)
        <5>1. CASE k = Len(q)
          <6>1. k - 1 = Len(a) /\ Len(a) \in 1..Len(a)
                BY <4>5, <4>6, <5>1
          <6>2. q[k - 1] = p /\ q[k] = m
                BY <4>4, <4>5, <5>1, <6>1
          <6>3. QED
                BY <4>1, <6>2 DEF p
        <5>2. CASE k # Len(q)
          <6>1. k \in 2..Len(a) /\ k - 1 \in 1..Len(a) /\ k \in 1..Len(a)
                BY <4>5, <4>6, <5>2
          <6>2. QED
                BY <4>4, <4>5, <6>1
        <5>3. QED
              BY <5>1, <5>2
      <4>8. Len(q) >= 1 /\ q[Len(q)] = m
            BY <4>5, <4>6
      <4>9. QED
            BY <4>7, <4>8 DEF q
    <3>3. QED
          BY <3>1, <3>2
  <2> HIDE DEF Linked
  <2>4. \A j \in 1..N : j <= m => Linked(Trail(j), j)
    <3> TAKE j \in 1..N
    <3>1. j = m \/ j <= m - 1 \/ ~(j <= m)
          BY <1>1
    <3>2. QED
          BY <2>1, <2>3, <3>1
  <2>5. QED
        BY <2>2, <2>4
<1>5. \A m \in 0..N : m \in P
  <2> HIDE DEF P, N
  <2>1. QED
        BY <1>1, <1>3, <1>4, InductionUpTo
<1>6. N \in 0..N /\ N \in P /\ i <= N
      BY <1>1, <1>5
<1>7. Linked(Trail(i), i)
      BY <1>6
<1>8. QED
      BY <1>2, <1>7

\* The records on the way to i: those on the way to the one that offered it, and i.
LEMMA TrailGrows ==
  ASSUME task \in Tasks, Branches(task, records)
  PROVE  /\ Range(Trail(1)) = {1}
         /\ \A i \in 2..Len(records) : Range(Trail(i)) = Range(Trail(records[i].parent)) \cup {i}
<1>1. Len(records) \in Nat
      BY RecordsAre DEF Branches
<1>2. Range(Trail(1)) = {1}
  <2> DEFINE q == << 1 >>
  <2>1. DOMAIN q = {1} /\ q[1] = 1
        OBVIOUS
  <2>2. Trail(1) = q
        BY TrailUnfolds
  <2> HIDE DEF q
  <2>3. QED
        BY <2>1, <2>2 DEF Range
<1>3. ASSUME NEW i \in 2..Len(records) PROVE Range(Trail(i)) = Range(Trail(records[i].parent)) \cup {i}
  <2> DEFINE p == records[i].parent
             a == Trail(p)
             q == Trail(i)
  <2>1. p \in 1..i - 1 /\ i \in Nat
        BY <1>1 DEF Branches
  <2>2. p \in 1..Len(records)
        BY <1>1, <2>1
  <2>3. q = Append(a, i) /\ a \in Seq(Nat)
        BY <2>2, TrailUnfolds
  <2> HIDE DEF p, a, q
  <2>4. /\ Len(q) = Len(a) + 1 /\ q[Len(a) + 1] = i /\ \A k \in 1..Len(a) : q[k] = a[k]
        /\ q \in Seq(Nat) /\ Len(a) \in Nat /\ DOMAIN a = 1..Len(a) /\ DOMAIN q = 1..Len(q)
        BY <2>1, <2>3, Appended, RecordsAre
  <2>5. ASSUME NEW x \in Range(q) PROVE x \in Range(a) \cup {i}
    <3>1. PICK k \in 1..Len(q) : q[k] = x
          BY <2>4 DEF Range
    <3>2. k \in 1..Len(a) \/ k = Len(a) + 1
          BY <2>4
    <3>3. QED
          BY <2>4, <3>1, <3>2 DEF Range
  <2>6. ASSUME NEW x \in Range(a) \cup {i} PROVE x \in Range(q)
    <3>1. (\E k \in 1..Len(a) : q[k] = x) \/ q[Len(a) + 1] = x
      <4>1. CASE x \in Range(a)
        <5>1. PICK k \in 1..Len(a) : a[k] = x
              BY <2>4, <4>1 DEF Range
        <5>2. QED
              BY <2>4, <5>1
      <4>2. QED
            BY <2>4, <4>1
    <3>2. \A k \in 1..Len(a) : k \in 1..Len(q)
          BY <2>4
    <3>3. Len(a) + 1 \in 1..Len(q)
          BY <2>4
    <3>4. QED
          BY <2>4, <3>1, <3>2, <3>3 DEF Range
  <2>7. Range(q) = Range(a) \cup {i}
        BY <2>5, <2>6
  <2>8. QED
        BY <2>7 DEF p, a, q
<1>4. QED
      BY <1>2, <1>3

\* The way to a record begins at the first and never comes back to a later one.
LEMMA TrailWithin ==
  ASSUME task \in Tasks, Branches(task, records), NEW i \in 1..Len(records)
  PROVE  Range(Trail(i)) \subseteq 1..i /\ 1 \in Range(Trail(i)) /\ i \in Range(Trail(i))
<1> DEFINE N == Len(records)
           Within(j) == Range(Trail(j)) \subseteq 1..j /\ 1 \in Range(Trail(j)) /\ j \in Range(Trail(j))
           P == {m \in Nat : \A j \in 1..N : j <= m => Within(j)}
<1>1. N \in Nat /\ N >= 1
      BY RecordsAre DEF Branches
<1>2. 0 \in P
      BY <1>1
<1>3. ASSUME NEW m \in 1..N, m - 1 \in P PROVE m \in P
  <2>1. \A j \in 1..N : j <= m - 1 => Within(j)
        BY <1>3
  <2>2. m \in Nat
        BY <1>1
  <2>3. Within(m)
    <3>1. CASE m = 1
          BY <3>1, TrailGrows
    <3>2. CASE m # 1
      <4> DEFINE p == records[m].parent
      <4>1. m \in 2..N
            BY <1>1, <3>2
      <4>2. p \in 1..m - 1
            BY <4>1 DEF Branches
      <4>3. p \in 1..N /\ p <= m - 1
            BY <1>1, <4>1, <4>2
      <4>4. Range(Trail(m)) = Range(Trail(p)) \cup {m}
            BY <4>1, TrailGrows
      <4> HIDE DEF p
      <4>5. Within(p)
            BY <2>1, <4>3
      <4>6. 1..p \subseteq 1..m /\ m \in 1..m
            BY <1>1, <4>3
      <4>7. QED
            BY <4>4, <4>5, <4>6
    <3>3. QED
          BY <3>1, <3>2
  <2> HIDE DEF Within
  <2>4. \A j \in 1..N : j <= m => Within(j)
    <3> TAKE j \in 1..N
    <3>1. j = m \/ j <= m - 1 \/ ~(j <= m)
          BY <1>1
    <3>2. QED
          BY <2>1, <2>3, <3>1
  <2>5. QED
        BY <2>2, <2>4
<1>4. \A m \in 0..N : m \in P
  <2> HIDE DEF P, N
  <2>1. QED
        BY <1>1, <1>2, <1>3, InductionUpTo
<1>5. N \in 0..N /\ N \in P /\ i <= N
      BY <1>1, <1>4
<1>6. QED
      BY <1>5

\* Whatever is on the way to a record is legal.
LEMMA TrailLegal ==
  ASSUME task \in Tasks, Branches(task, records), NEW i \in 1..Len(records)
  PROVE  TrailIsLegal(Trail(i))
<1> DEFINE q == Trail(i)
<1>1. /\ q \in Seq(Nat) /\ Len(q) >= 1
      /\ \A k \in 2..Len(q) : q[k] \in 2..Len(records) /\ q[k - 1] = records[q[k]].parent
      BY TrailLinks
<1> HIDE DEF q
<1>2. ASSUME NEW k \in 2..Len(q)
      PROVE  LET a == records[q[k - 1]]
                 b == records[q[k]]
             IN  /\ b.time <= task.energy /\ b.cost > a.cost
                 /\ task.main # << >> => InStep(a, b)
                 /\ \/ a.at = b.at /\ b.mode # "cruise"
                    \/ /\ MoveIsLegal(a, b)
                       /\ Headings[b.heading] = <<b.at[1] - a.at[1], b.at[2] - a.at[2]>>
                       /\ a.mode = b.mode \/ (a.mode = "wait" /\ b.mode = "cruise")
  <2> DEFINE j == q[k]
             p == q[k - 1]
             a == records[p]
             b == records[j]
  <2>1. j \in 2..Len(records) /\ p = records[j].parent
        BY <1>1
  <2> HIDE DEF j, p
  <2>2. /\ b.cost > a.cost /\ Bearable(task, a, b) /\ (StaysAt(task, a, b) \/ MovesFurther(task, a, b))
        /\ a \in LatticeRecord /\ b \in LatticeRecord
        BY <2>1, BranchIs
  <2> HIDE DEF a, b
  <2>3. b.time <= task.energy /\ (task.main # << >> => InStep(a, b))
        BY <2>2 DEF Bearable, WithinEnergy, CooperativeEdgeValid, InRange, InStep
  <2>4. CASE StaysAt(task, a, b)
    <3>1. a.at = b.at /\ b.mode # "cruise"
          BY <2>4 DEF StaysAt
    <3>2. QED
          BY <2>2, <2>3, <3>1 DEF a, b, j, p
  <2>5. CASE MovesFurther(task, a, b)
    <3>1. /\ EdgeAllowed(task, a, b)
          /\ Headings[b.heading] = <<b.at[1] - a.at[1], b.at[2] - a.at[2]>>
          /\ a.mode = b.mode \/ (a.mode = "wait" /\ b.mode = "cruise")
          BY <2>5 DEF MovesFurther
    <3>2. MoveIsLegal(a, b)
          BY <2>2, <3>1, EdgeIsLegal
    <3>3. QED
          BY <2>2, <2>3, <3>1, <3>2 DEF a, b, j, p
  <2>6. QED
        BY <2>2, <2>4, <2>5
<1>3. QED
      BY <1>2 DEF TrailIsLegal, q

\* A survey that ends as one must, and has moved on to its exit, was observed in the region.
LEMMA SurveyComplete ==
  ASSUME task \in Tasks, Branches(task, records), NEW i \in 1..Len(records),
         AtTerminal(task, records[i]), records[i].mode # "cruise", task.exit # {} => Moves(Exit(Trail(i)))
  PROVE  SurveyIsComplete(Trail(i))
<1> DEFINE q == Trail(i)
<1>1. /\ q \in Seq(Nat) /\ Len(q) >= 1 /\ q[Len(q)] = i /\ Range(q) \subseteq 1..i /\ i \in Range(q)
      BY TrailLinks, TrailWithin
<1>2. Len(records) \in Nat /\ \A j \in 1..Len(records) : Sane(task, records[j])
      BY BranchesSane, RecordsAre DEF Branches
<1>3. \A j \in Range(q) : j \in 1..Len(records)
      BY <1>1, <1>2
<1>4. records[i].mode = TerminalMode(task) /\ records[i].at \in (IF task.exit # {} THEN task.exit ELSE task.goal)
      BY DEF AtTerminal
<1>5. Last(q) = i
      BY <1>1 DEF Last
<1>6. \E k \in Range(q) : records[k].mode = "observe" /\ records[k].at \in task.goal
  <2>1. SUFFICES \E k \in Range(q) : records[k].mode = "observe"
        BY <1>2, <1>3 DEF Sane
  <2>2. CASE task.exit # {}
    <3>1. PICK k \in Exit(q) : TRUE
          BY <2>2 DEF Moves
    <3>2. QED
          BY <3>1 DEF Exit
  <2>3. CASE task.exit = {}
    <3>1. CASE task.mode = "wait"
      <4>1. records[i].mode = "wait" /\ records[i].at \in task.goal
            BY <1>4, <2>3, <3>1 DEF TerminalMode
      <4>2. i # 1 /\ i \in 2..Len(records)
        <5>1. i # 1
              BY <4>1, FirstIs DEF Branches
        <5>2. QED
              BY <1>2, <5>1
      <4> DEFINE p == records[i].parent
      <4>3. p \in 1..Len(records) /\ Follows(task, records[p], records[i])
            BY <4>2, BranchIs
      <4>4. Range(q) = Range(Trail(p)) \cup {i} /\ p \in Range(Trail(p))
            BY <4>2, <4>3, TrailGrows, TrailWithin
      <4>5. p \in Range(q) /\ records[p].mode = "observe"
            BY <2>3, <4>1, <4>3, <4>4 DEF Follows
      <4>6. QED
            BY <4>5
    <3>2. CASE task.mode # "wait"
      <4>1. records[i].mode = "observe"
            BY <1>4, <2>3, <3>2, TaskIs DEF TerminalMode, Modes
      <4>2. QED
            BY <1>1, <4>1
    <3>3. QED
          BY <3>1, <3>2
  <2>4. QED
        BY <2>2, <2>3
<1>7. QED
      BY <1>4, <1>5, <1>6 DEF SurveyIsComplete

\* On the way, a record that has left the cruise was observed once, at the goal, where it
\* had cruised to, and waited at the goal after that if it waits.
Observed(i) ==
  LET way == Range(Trail(i))
  IN  \E o \in way : \E c \in way :
        /\ records[o].mode = "observe" /\ c < o /\ records[c].at \in task.goal
        /\ \A j \in way : records[j].mode = "observe" => j = o
        /\ records[i].mode = "wait" =>
             \E w \in way : w > o /\ records[w].mode = "wait" /\ records[w].at \in task.goal

Went(i) ==
  IF records[i].mode = "cruise" THEN \A j \in Range(Trail(i)) : records[j].mode = "cruise" ELSE Observed(i)

LEMMA WentOn ==
  ASSUME task \in Tasks, Simple(task), Branches(task, records), NEW i \in 2..Len(records), Went(records[i].parent)
  PROVE  Went(i)
<1> DEFINE p == records[i].parent
           a == records[p]
           b == records[i]
           before == Range(Trail(p))
           way == Range(Trail(i))
<1>1. p \in 1..i - 1 /\ p \in 1..Len(records) /\ i \in 1..Len(records) /\ Follows(task, a, b) /\ i \in Nat
      BY BranchIs
<1>2. way = before \cup {i}
      BY TrailGrows
<1>3. before \subseteq 1..p /\ p \in before
      BY <1>1, TrailWithin
<1>4. a.mode \in Modes /\ b.mode \in Modes /\ Sane(task, a) /\ Sane(task, b)
      BY <1>1, BranchIs, BranchesSane, LatticeRecordIs
<1>5. Went(p)
      OBVIOUS
<1> HIDE DEF p, a, b, before, way
<1>6. \A j \in before : j \in Nat /\ j < i
      BY <1>1, <1>3
<1>7. CASE b.mode = "cruise"
  <2>1. a.mode = "cruise"
        BY <1>1, <1>7 DEF Follows
  <2>2. \A j \in before : records[j].mode = "cruise"
        BY <1>5, <2>1 DEF Went, a, before
  <2>3. \A j \in way : records[j].mode = "cruise"
        BY <1>2, <1>7, <2>2 DEF b
  <2>4. QED
        BY <1>7, <2>3 DEF Went, b, way
<1>8. CASE b.mode = "observe"
  <2>1. a.mode = "cruise" /\ a.at \in task.goal
        BY <1>1, <1>8 DEF Follows
  <2>2. \A j \in before : records[j].mode = "cruise"
        BY <1>5, <2>1 DEF Went, a, before
  <2>3. \A j \in way : records[j].mode = "observe" => j = i
        BY <1>2, <2>2
  <2>4. i \in way /\ p \in way /\ p < i
        BY <1>2, <1>3, <1>6
  <2>5. Observed(i)
        BY <1>8, <2>1, <2>3, <2>4 DEF Observed, a, b, way
  <2>6. QED
        BY <1>8, <2>5 DEF Went, b
<1>9. CASE b.mode = "wait"
  <2>1. a.mode = "wait" \/ (a.mode = "observe" /\ b.at \in task.goal)
        BY <1>1, <1>9 DEF Follows
  <2>2. Observed(p)
        BY <1>5, <2>1 DEF Went, a
  <2>3. PICK o \in before, c \in before :
               /\ records[o].mode = "observe" /\ c < o /\ records[c].at \in task.goal
               /\ \A j \in before : records[j].mode = "observe" => j = o
               /\ a.mode = "wait" =>
                    \E w \in before : w > o /\ records[w].mode = "wait" /\ records[w].at \in task.goal
        BY <2>2 DEF Observed, a, before
  <2>4. \A j \in way : records[j].mode = "observe" => j = o
        BY <1>2, <1>9, <2>3 DEF b
  <2>5. \E w \in way : w > o /\ records[w].mode = "wait" /\ records[w].at \in task.goal
    <3>1. CASE a.mode = "wait"
          BY <1>2, <2>3, <3>1
    <3>2. CASE a.mode = "observe" /\ b.at \in task.goal
      <4>1. i \in way /\ i > o
            BY <1>1, <1>2, <1>6
      <4>2. QED
            BY <1>9, <3>2, <4>1 DEF b
    <3>3. QED
          BY <2>1, <3>1, <3>2
  <2>6. o \in way /\ c \in way
        BY <1>2
  <2>7. Observed(i)
        BY <2>3, <2>4, <2>5, <2>6 DEF Observed, way
  <2>8. QED
        BY <1>9, <2>7 DEF Went, b
<1>10. QED
       BY <1>4, <1>7, <1>8, <1>9 DEF Modes

LEMMA AllWent ==
  ASSUME task \in Tasks, Simple(task), Branches(task, records), NEW i \in 1..Len(records)
  PROVE  Went(i)
<1> DEFINE N == Len(records)
           P == {m \in Nat : \A j \in 1..N : j <= m => Went(j)}
<1>1. N \in Nat /\ N >= 1
      BY RecordsAre DEF Branches
<1>2. 0 \in P
      BY <1>1
<1>3. ASSUME NEW m \in 1..N, m - 1 \in P PROVE m \in P
  <2>1. \A j \in 1..N : j <= m - 1 => Went(j)
        BY <1>3
  <2>2. m \in Nat
        BY <1>1
  <2>3. Went(m)
    <3>1. CASE m = 1
      <4>1. records[1].mode = "cruise" /\ Range(Trail(1)) = {1}
            BY FirstIs, TrailGrows DEF Branches
      <4>2. QED
            BY <3>1, <4>1 DEF Went
    <3>2. CASE m # 1
      <4> DEFINE p == records[m].parent
      <4>1. m \in 2..N
            BY <1>1, <3>2
      <4>2. p \in 1..m - 1
            BY <4>1 DEF Branches
      <4>3. p \in 1..N /\ p <= m - 1
            BY <1>1, <4>1, <4>2
      <4>4. QED
            BY <2>1, <4>1, <4>3, WentOn
    <3>3. QED
          BY <3>1, <3>2
  <2>4. \A j \in 1..N : j <= m => Went(j)
    <3> TAKE j \in 1..N
    <3>1. j = m \/ j <= m - 1 \/ ~(j <= m)
          BY <1>1
    <3>2. QED
          BY <2>1, <2>3, <3>1
  <2>5. QED
        BY <2>2, <2>4
<1>4. \A m \in 0..N : m \in P
  <2> HIDE DEF P, N
  <2>1. QED
        BY <1>1, <1>2, <1>3, InductionUpTo
<1>5. N \in 0..N /\ N \in P /\ i <= N
      BY <1>1, <1>4
<1>6. QED
      BY <1>5

\* So without waiting on the way no survey that has arrived is refused.
LEMMA SurveyMoves ==
  ASSUME task \in Tasks, Simple(task), Branches(task, records), NEW i \in 1..Len(records),
         AtTerminal(task, records[i]), records[i].mode # "cruise"
  PROVE  Moves(Approach(Trail(i))) /\ (task.exit # {} => Moves(Exit(Trail(i))))
<1> DEFINE q == Trail(i)
           way == Range(q)
<1>1. way \subseteq 1..i /\ 1 \in way /\ i \in way
      BY TrailWithin
<1>2. Went(i)
      BY AllWent
<1>3. Observed(i)
      BY <1>2 DEF Went
<1>4. PICK o \in way, c \in way :
             /\ records[o].mode = "observe" /\ c < o /\ records[c].at \in task.goal
             /\ \A j \in way : records[j].mode = "observe" => j = o
             /\ records[i].mode = "wait" =>
                  \E w \in way : w > o /\ records[w].mode = "wait" /\ records[w].at \in task.goal
      BY <1>3 DEF Observed
<1> HIDE DEF q, way
<1>5. o \in 1..i /\ c \in 1..i /\ i \in Nat
      BY <1>1, RecordsAre DEF Branches
<1>6. Moves(Approach(q))
  <2>1. c \in Approach(q)
        BY <1>4 DEF Approach, way
  <2>2. 1 < o
        BY <1>4, <1>5
  <2>3. 1 \in Approach(q)
        BY <1>1, <1>4, <2>2 DEF Approach, way
  <2>4. records[1].at # records[c].at
    <3>1. records[1].at = task.start
          BY DEF Branches, FirstRecord
    <3>2. QED
          BY <1>4, <3>1 DEF Simple
  <2>5. QED
        BY <2>1, <2>3, <2>4 DEF Moves
<1>7. ASSUME task.exit # {} PROVE Moves(Exit(q))
  <2>1. records[i].mode = "wait" /\ records[i].at \in task.exit
        BY <1>7 DEF AtTerminal, TerminalMode
  <2>2. PICK w \in way : w > o /\ records[w].mode = "wait" /\ records[w].at \in task.goal
        BY <1>4, <2>1
  <2>3. w \in Exit(q)
        BY <1>4, <2>2 DEF Exit, way
  <2>4. o < i
        BY <1>4, <1>5, <2>1
  <2>5. i \in Exit(q)
        BY <1>1, <1>4, <2>1, <2>4 DEF Exit, way
  <2>6. records[w].at # records[i].at
        BY <2>1, <2>2 DEF Simple
  <2>7. QED
        BY <2>3, <2>5, <2>6 DEF Moves
<1>8. QED
      BY <1>6, <1>7 DEF q

-----------------------------------------------------------------------------
(* The states of an expansion                                              *)

LatticeTotals ==
  {Total(t, r, demanded) : t \in Tasks, r \in LatticeRecord, demanded \in BOOLEAN}
    \cup {DistanceTo(t.start, t.goal) : t \in Tasks}

LatticeKeys == {KeyOf(t, r) : t \in Tasks, r \in LatticeRecord}

LatticeStates ==
  [records : Seq(LatticeRecord), frontier : SUBSET [record : Nat, total : LatticeTotals],
   bestOf : UNION {[K -> Nat] : K \in SUBSET LatticeKeys}, failed : BOOLEAN]

Kept(t, s, i) ==
  /\ i \in 1..Len(s.records) /\ KeyOf(t, s.records[i]) \in DOMAIN s.bestOf
  /\ s.bestOf[KeyOf(t, s.records[i])] = i

Queued(s, i) == \E q \in s.frontier : q.record = i

Alike(a, b) == a.at = b.at /\ a.heading = b.heading /\ a.mode = b.mode

\* Some record that is kept is like b, and no later.
Covered(t, s, b) ==
  \E j \in 1..Len(s.records) : Kept(t, s, j) /\ Alike(s.records[j], b) /\ s.records[j].time <= b.time

Grown(t, s) ==
  /\ s \in LatticeStates /\ Branches(t, s.records) /\ Len(s.records) <= MaxExpanded
  /\ IsFiniteSet(s.frontier) /\ Cardinality(s.frontier) <= MaxQueue
  /\ \A q \in s.frontier : q.record \in 1..Len(s.records)
  /\ \A k \in DOMAIN s.bestOf : s.bestOf[k] \in 1..Len(s.records) /\ KeyOf(t, s.records[s.bestOf[k]]) = k

\* What was covered stays so, and what is kept without being queued was so before.
GrowsInto(t, s, u) ==
  /\ Len(s.records) <= Len(u.records) /\ \A j \in 1..Len(s.records) : u.records[j] = s.records[j]
  /\ \A j \in 1..Len(u.records) : Kept(t, u, j) /\ ~Queued(u, j) =>
       j \in 1..Len(s.records) /\ Kept(t, s, j) /\ ~Queued(s, j)
  /\ Simple(t) => \A b \in LatticeRecord : Covered(t, s, b) => Covered(t, u, b)

LEMMA LatticeStateIs ==
  ASSUME NEW s \in LatticeStates
  PROVE  /\ s.records \in Seq(LatticeRecord) /\ s.frontier \subseteq [record : Nat, total : LatticeTotals]
         /\ s.bestOf \in UNION {[K -> Nat] : K \in SUBSET LatticeKeys} /\ s.failed \in BOOLEAN
BY DEF LatticeStates

LEMMA BestIs ==
  ASSUME NEW best \in UNION {[K -> Nat] : K \in SUBSET LatticeKeys}
  PROVE  DOMAIN best \subseteq LatticeKeys /\ \A k \in DOMAIN best : best[k] \in Nat
OBVIOUS

LEMMA KeyIs ==
  ASSUME NEW t, NEW a, NEW b, KeyOf(t, a) = KeyOf(t, b)
  PROVE  Alike(a, b)
<1> DEFINE x == TimeLabel(t, a)
           y == TimeLabel(t, b)
<1>1. <<a.at, a.heading, a.mode, x>> = <<b.at, b.heading, b.mode, y>>
      BY DEF KeyOf
<1> HIDE DEF x, y
<1>2. a.at = b.at /\ a.heading = b.heading /\ a.mode = b.mode
      BY <1>1
<1>3. QED
      BY <1>2 DEF Alike

LEMMA KeyTyped ==
  ASSUME NEW t \in Tasks, NEW r \in LatticeRecord
  PROVE  /\ KeyOf(t, r) \in LatticeKeys /\ \A demanded \in BOOLEAN : Total(t, r, demanded) \in LatticeTotals
BY DEF LatticeKeys, LatticeTotals

\* Of two records alike the one that costs less is no later.
LEMMA CheaperIsSooner ==
  ASSUME NEW t, Simple(t), NEW a \in LatticeRecord, NEW b \in LatticeRecord, Sane(t, a), Sane(t, b),
         a.mode = b.mode, a.cost <= b.cost
  PROVE  a.time <= b.time
<1> DEFINE S == Spent(a.mode)
<1>1. a.cost + S = 2 * a.time /\ b.cost + S = 2 * b.time
      BY DEF Sane
<1>2. S \in Nat
      BY LimitsAre DEF Spent
<1>3. a.cost \in Nat /\ b.cost \in Nat /\ a.time \in Nat /\ b.time \in Nat
      BY LatticeRecordIs
<1> HIDE DEF S
<1>4. QED
      BY <1>1, <1>2, <1>3

LEMMA GrowsIntoItself ==
  ASSUME NEW t, NEW s \in LatticeStates
  PROVE  GrowsInto(t, s, s)
<1>1. Len(s.records) \in Nat
      BY LatticeStateIs, RecordsAre
<1>2. QED
      BY <1>1 DEF GrowsInto

EnteredAs(t, s, r, total, u) ==
  /\ u \in LatticeStates /\ u.records = Append(s.records, r) /\ u.failed = FALSE
  /\ u.frontier = s.frontier \cup {[record |-> Len(s.records) + 1, total |-> total]}
  /\ DOMAIN u.bestOf = DOMAIN s.bestOf \cup {KeyOf(t, r)}
  /\ u.bestOf[KeyOf(t, r)] = Len(s.records) + 1
  /\ \A k \in DOMAIN s.bestOf : k # KeyOf(t, r) => u.bestOf[k] = s.bestOf[k]

LEMMA EnteredIs ==
  ASSUME NEW t \in Tasks, NEW s \in LatticeStates, NEW r \in LatticeRecord, NEW total \in LatticeTotals
  PROVE  EnteredAs(t, s, r, total, Entered(t, s, r, total))
<1> DEFINE new == Len(s.records) + 1
           key == KeyOf(t, r)
           rs == Append(s.records, r)
           q == [record |-> new, total |-> total]
           best == [k \in DOMAIN s.bestOf \cup {key} |-> IF k = key THEN new ELSE s.bestOf[k]]
           u == Entered(t, s, r, total)
<1>1. u = [records |-> rs, frontier |-> s.frontier \cup {q}, bestOf |-> best, failed |-> FALSE]
      BY DEF Entered
<1>2. rs \in Seq(LatticeRecord) /\ new \in Nat /\ key \in LatticeKeys
  <2>1. s.records \in Seq(LatticeRecord) /\ Len(s.records) \in Nat
        BY LatticeStateIs, RecordsAre
  <2>2. rs \in Seq(LatticeRecord)
        BY <2>1, Appended
  <2> HIDE DEF rs
  <2>3. QED
        BY <2>1, <2>2, KeyTyped
<1> HIDE DEF new, key, rs, u
<1>3. q \in [record : Nat, total : LatticeTotals]
      BY <1>2
<1>4. s.frontier \cup {q} \subseteq [record : Nat, total : LatticeTotals]
      BY <1>3, LatticeStateIs
<1>5. DOMAIN s.bestOf \subseteq LatticeKeys /\ \A k \in DOMAIN s.bestOf : s.bestOf[k] \in Nat
      BY LatticeStateIs, BestIs
<1>6. best \in UNION {[K -> Nat] : K \in SUBSET LatticeKeys}
  <2> DEFINE K == DOMAIN s.bestOf \cup {key}
  <2>1. K \in SUBSET LatticeKeys
        BY <1>2, <1>5
  <2>2. best \in [K -> Nat]
        BY <1>2, <1>5
  <2> HIDE DEF K, best
  <2>3. QED
        BY <2>1, <2>2
<1>7. /\ DOMAIN best = DOMAIN s.bestOf \cup {key} /\ best[key] = new
      /\ \A k \in DOMAIN s.bestOf : k # key => best[k] = s.bestOf[k]
      OBVIOUS
<1> HIDE DEF q, best
<1>8. u \in LatticeStates
      BY <1>1, <1>2, <1>4, <1>6 DEF LatticeStates
<1>9. u.records = rs /\ u.failed = FALSE /\ u.frontier = s.frontier \cup {q} /\ u.bestOf = best
      BY <1>1
<1>10. QED
       BY <1>7, <1>8, <1>9 DEF EnteredAs, new, key, rs, q, u

\* A record that no record of its key beats enters, and whatever it replaces it stands for.
LEMMA EnteredKeeps ==
  ASSUME NEW t \in Tasks, NEW s, Grown(t, s), ~Full(s), NEW i \in 1..Len(s.records), NEW r,
         Leads(t, s.records[i], i, r), ~Beaten(t, s, r), NEW total \in LatticeTotals,
         NEW u, u = Entered(t, s, r, total)
  PROVE  Grown(t, u) /\ GrowsInto(t, s, u) /\ Covered(t, u, r) /\ u.failed = FALSE
<1> DEFINE N == Len(s.records)
           key == KeyOf(t, r)
           new == N + 1
<1>1. /\ s \in LatticeStates /\ Branches(t, s.records) /\ s.records \in Seq(LatticeRecord) /\ N \in Nat
      /\ \A j \in 1..N : s.records[j] \in LatticeRecord /\ Sane(t, s.records[j])
      BY LatticeStateIs, RecordsAre, BranchesSane DEF Grown
<1>2. r \in LatticeRecord /\ r.parent = i
  <2>1. s.records[i] \in LatticeRecord /\ i \in Nat
        BY <1>1
  <2>2. QED
        BY <2>1, LeadsIs
<1>3. Sane(t, r)
  <2>1. s.records[i] \in LatticeRecord /\ Sane(t, s.records[i]) /\ i \in Nat
        BY <1>1
  <2>2. QED
        BY <2>1, SaneFollows
<1>4. /\ u \in LatticeStates /\ u.records = Append(s.records, r) /\ u.failed = FALSE
      /\ u.frontier = s.frontier \cup {[record |-> new, total |-> total]}
      /\ DOMAIN u.bestOf = DOMAIN s.bestOf \cup {key} /\ u.bestOf[key] = new
      /\ \A k \in DOMAIN s.bestOf : k # key => u.bestOf[k] = s.bestOf[k]
  <2>1. s \in LatticeStates /\ r \in LatticeRecord
        BY <1>1, <1>2
  <2>2. EnteredAs(t, s, r, total, u)
        BY <2>1, EnteredIs
  <2>3. QED
        BY <2>2 DEF EnteredAs
<1> DEFINE q == [record |-> new, total |-> total]
<1>5. q.record = new /\ u.frontier = s.frontier \cup {q}
      BY <1>4
<1>6. Len(u.records) = new /\ u.records[new] = r /\ \A j \in 1..N : u.records[j] = s.records[j]
      BY <1>1, <1>2, <1>4, Appended
<1> HIDE DEF q, key
<1>7. new \in 1..new /\ new \notin 1..N /\ (\A j \in 1..new : j = new \/ j \in 1..N) /\ (\A j \in 1..N : j \in 1..new /\ j # new)
      BY <1>1
<1>8. Cardinality(s.frontier) < MaxQueue /\ N < MaxExpanded /\ IsFiniteSet(s.frontier)
  <2>1. IsFiniteSet(s.frontier) /\ Cardinality(s.frontier) \in Nat
        BY FS_CardinalityType DEF Grown
  <2>2. QED
        BY <1>1, <2>1, LimitsAre DEF Full
<1>9. IsFiniteSet(u.frontier) /\ Cardinality(u.frontier) <= MaxQueue
  <2>1. IsFiniteSet(u.frontier) /\ (Cardinality(u.frontier) = Cardinality(s.frontier) \/ Cardinality(u.frontier) = Cardinality(s.frontier) + 1)
    <3>1. \A S : S = s.frontier \cup {q} => IsFiniteSet(S) /\ (Cardinality(S) = Cardinality(s.frontier) \/ Cardinality(S) = Cardinality(s.frontier) + 1)
          BY <1>8, FS_AddElement
    <3>2. QED
          BY <1>5, <3>1
  <2>2. Cardinality(s.frontier) \in Nat
        BY <1>8, FS_CardinalityType
  <2>3. QED
        BY <1>8, <2>1, <2>2, LimitsAre
<1> HIDE DEF new, N
<1>10. Branches(t, u.records)
  <2>1. u.records \in Seq(LatticeRecord)
        BY <1>4, LatticeStateIs
  <2>2. Len(u.records) >= 1 /\ u.records[1] = FirstRecord(t)
    <3>1. N >= 1 /\ s.records[1] = FirstRecord(t)
          BY <1>1 DEF Branches, N
    <3>2. 1 \in 1..N
          BY <1>1, <3>1
    <3>3. new >= 1
          BY <1>1 DEF new
    <3>4. QED
          BY <1>6, <3>1, <3>2, <3>3
  <2>3. ASSUME NEW j \in 2..Len(u.records)
        PROVE  u.records[j].parent \in 1..j - 1 /\ Leads(t, u.records[u.records[j].parent], u.records[j].parent, u.records[j])
    <3>1. j \in 1..new /\ j \in Nat
          BY <1>6
    <3>2. CASE j = new
      <4>1. u.records[j] = r /\ i \in 1..N /\ u.records[i] = s.records[i]
            BY <1>6, <3>2 DEF N
      <4>2. i \in 1..j - 1
            BY <1>1, <3>2, <4>1 DEF new
      <4>3. QED
            BY <1>2, <4>1, <4>2
    <3>3. CASE j \in 1..N
      <4>1. j \in 2..N
            BY <1>1, <3>3
      <4> DEFINE p == s.records[j].parent
      <4>2. p \in 1..j - 1 /\ Leads(t, s.records[p], p, s.records[j])
            BY <1>1, <4>1 DEF Branches, N
      <4>3. p \in 1..N
            BY <1>1, <4>1, <4>2
      <4>4. u.records[j] = s.records[j] /\ u.records[p] = s.records[p]
            BY <1>6, <3>3, <4>3
      <4>5. QED
            BY <4>2, <4>4
    <3>4. QED
          BY <1>7, <3>1, <3>2, <3>3
  <2>4. QED
        BY <2>1, <2>2, <2>3 DEF Branches
<1>11. Grown(t, u)
  <2>1. \A e \in u.frontier : e.record \in 1..Len(u.records)
        BY <1>5, <1>6, <1>7 DEF Grown, N
  <2>2. Len(u.records) <= MaxExpanded
        BY <1>1, <1>6, <1>8, LimitsAre DEF new
  <2>3. ASSUME NEW k \in DOMAIN u.bestOf PROVE u.bestOf[k] \in 1..Len(u.records) /\ KeyOf(t, u.records[u.bestOf[k]]) = k
    <3>1. CASE k = key
          BY <1>4, <1>6, <1>7, <3>1 DEF key
    <3>2. CASE k # key
      <4>1. k \in DOMAIN s.bestOf /\ u.bestOf[k] = s.bestOf[k]
            BY <1>4, <3>2
      <4>2. s.bestOf[k] \in 1..N /\ KeyOf(t, s.records[s.bestOf[k]]) = k
            BY <4>1 DEF Grown, N
      <4>3. QED
            BY <1>6, <1>7, <4>1, <4>2
    <3>3. QED
          BY <3>1, <3>2
  <2>4. QED
        BY <1>4, <1>9, <1>10, <2>1, <2>2, <2>3 DEF Grown
<1>12. Kept(t, u, new) /\ Queued(u, new)
  <2>1. Kept(t, u, new)
        BY <1>4, <1>6, <1>7 DEF Kept, key
  <2>2. Queued(u, new)
        BY <1>5 DEF Queued
  <2>3. QED
        BY <2>1, <2>2
<1>13. \A j \in 1..N : Kept(t, u, j) <=> Kept(t, s, j) /\ KeyOf(t, s.records[j]) # key
  <2> TAKE j \in 1..N
  <2>1. u.records[j] = s.records[j] /\ j # new /\ j \in 1..Len(u.records) /\ j \in 1..Len(s.records)
        BY <1>6, <1>7 DEF N
  <2> DEFINE k == KeyOf(t, s.records[j])
  <2>2. KeyOf(t, u.records[j]) = k
        BY <2>1
  <2> HIDE DEF k
  <2>3. Kept(t, u, j) <=> k \in DOMAIN u.bestOf /\ u.bestOf[k] = j
        BY <2>1, <2>2 DEF Kept
  <2>4. Kept(t, s, j) <=> k \in DOMAIN s.bestOf /\ s.bestOf[k] = j
        BY <2>1 DEF Kept, k
  <2>5. QED
        BY <1>4, <2>1, <2>3, <2>4 DEF k
<1>14. ASSUME NEW j \in 1..Len(u.records), Kept(t, u, j), ~Queued(u, j)
       PROVE  j \in 1..N /\ Kept(t, s, j) /\ ~Queued(s, j)
  <2>1. j # new
        BY <1>12, <1>14
  <2>2. j \in 1..N
        BY <1>6, <1>7, <2>1
  <2>3. ~Queued(s, j)
        BY <1>5, <1>14 DEF Queued
  <2>4. QED
        BY <1>13, <1>14, <2>2, <2>3
<1>15. ASSUME Simple(t), NEW b \in LatticeRecord, Covered(t, s, b)
       PROVE  Covered(t, u, b)
  <2>1. PICK j \in 1..N : Kept(t, s, j) /\ Alike(s.records[j], b) /\ s.records[j].time <= b.time
        BY <1>15 DEF Covered, N
  <2> DEFINE a == s.records[j]
  <2>2. CASE KeyOf(t, a) # key
        BY <1>6, <1>7, <1>13, <2>1, <2>2 DEF Covered
  <2>3. CASE KeyOf(t, a) = key
    <3>1. key \in DOMAIN s.bestOf /\ s.bestOf[key] = j
          BY <2>1, <2>3 DEF Kept
    <3>2. ~(a.cost <= r.cost)
          BY <3>1 DEF Beaten, key
    <3>3. a \in LatticeRecord /\ Sane(t, a)
          BY <1>1 DEF N
    <3>4. Alike(a, r)
          BY <2>3, KeyIs DEF key
    <3>9. Alike(a, b) /\ a.time <= b.time
          BY <2>1
    <3> HIDE DEF a
    <3>5. r.cost <= a.cost /\ r.mode = a.mode
          BY <1>2, <3>2, <3>3, <3>4, LatticeRecordIs DEF Alike
    <3>6. r.time <= a.time
          BY <1>2, <1>3, <1>15, <3>3, <3>5, CheaperIsSooner
    <3>7. Alike(r, b) /\ r.time <= b.time
      <4>1. a.time \in Nat /\ r.time \in Nat /\ b.time \in Nat
            BY <1>2, <3>3, LatticeRecordIs
      <4>2. QED
            BY <3>4, <3>6, <3>9, <4>1 DEF Alike
    <3>8. QED
          BY <1>6, <1>7, <1>12, <3>7 DEF Covered
  <2>4. QED
        BY <2>2, <2>3
<1>16. GrowsInto(t, s, u)
  <2>1. N <= Len(u.records)
        BY <1>1, <1>6 DEF new
  <2>2. QED
        BY <1>6, <1>14, <1>15, <2>1 DEF GrowsInto, N
<1>17. Covered(t, u, r)
  <2>1. Alike(r, r) /\ r.time <= r.time
        BY <1>2, LatticeRecordIs DEF Alike
  <2>2. QED
        BY <1>6, <1>7, <1>12, <2>1 DEF Covered
<1>18. QED
       BY <1>4, <1>11, <1>16, <1>17

\* A record ends no search, and all it offers is covered.
Exhausted(t, s, a) ==
  ~AtTerminal(t, a) /\ \A k \in 0..8 : Offers(t, a, k) => Covered(t, s, Step(t, a, k, 0))

\* All that has left the queue and is still kept was expanded in full.
NoneLeftOut(t, s, except) ==
  \A j \in 1..Len(s.records) : j \notin except /\ Kept(t, s, j) /\ ~Queued(s, j) => Exhausted(t, s, s.records[j])

LEMMA GrownIs ==
  ASSUME NEW t \in Tasks, NEW s, Grown(t, s)
  PROVE  /\ s \in LatticeStates /\ s.records \in Seq(LatticeRecord) /\ Len(s.records) \in Nat /\ Branches(t, s.records)
         /\ \A j \in 1..Len(s.records) : s.records[j] \in LatticeRecord /\ Sane(t, s.records[j])
BY LatticeStateIs, RecordsAre, BranchesSane DEF Grown

\* What covers a record covers one alike that is later.
LEMMA CoversLater ==
  ASSUME NEW t \in Tasks, NEW s, Grown(t, s), NEW a \in LatticeRecord, NEW b \in LatticeRecord,
         Alike(a, b), a.time <= b.time, Covered(t, s, a)
  PROVE  Covered(t, s, b)
<1>1. PICK j \in 1..Len(s.records) : Kept(t, s, j) /\ Alike(s.records[j], a) /\ s.records[j].time <= a.time
      BY DEF Covered
<1> DEFINE c == s.records[j]
<1>2. c \in LatticeRecord
      BY GrownIs
<1>3. Kept(t, s, j) /\ Alike(c, a) /\ c.time <= a.time
      BY <1>1
<1> HIDE DEF c
<1>4. c.time \in Nat /\ a.time \in Nat /\ b.time \in Nat
      BY <1>2, LatticeRecordIs
<1>5. Alike(c, b) /\ c.time <= b.time
      BY <1>3, <1>4 DEF Alike
<1>6. QED
      BY <1>3, <1>5 DEF Covered, c

LEMMA ExhaustedKeeps ==
  ASSUME NEW t \in Tasks, Simple(t), NEW s, NEW u, GrowsInto(t, s, u), NEW a \in LatticeRecord, Exhausted(t, s, a)
  PROVE  Exhausted(t, u, a)
<1>1. \A k \in 0..8 : Step(t, a, k, 0) \in LatticeRecord
      BY StepIs
<1>2. \A k \in 0..8 : Covered(t, s, Step(t, a, k, 0)) => Covered(t, u, Step(t, a, k, 0))
      BY <1>1 DEF GrowsInto
<1>3. QED
      BY <1>2 DEF Exhausted

LEMMA NoneLeftOutKeeps ==
  ASSUME NEW t \in Tasks, Simple(t), NEW s, Grown(t, s), NEW u, GrowsInto(t, s, u), NEW except, NoneLeftOut(t, s, except)
  PROVE  NoneLeftOut(t, u, except)
<1> SUFFICES ASSUME NEW j \in 1..Len(u.records), j \notin except, Kept(t, u, j), ~Queued(u, j)
             PROVE  Exhausted(t, u, u.records[j])
    BY DEF NoneLeftOut
<1>1. j \in 1..Len(s.records) /\ Kept(t, s, j) /\ ~Queued(s, j)
      BY DEF GrowsInto
<1>2. u.records[j] = s.records[j] /\ s.records[j] \in LatticeRecord
      BY <1>1, GrownIs DEF GrowsInto
<1>3. Exhausted(t, s, s.records[j])
      BY <1>1 DEF NoneLeftOut
<1>4. QED
      BY <1>2, <1>3, ExhaustedKeeps

-----------------------------------------------------------------------------
(* Expanding a record                                                      *)

LEMMA PushKeeps ==
  ASSUME NEW t \in Tasks, NEW s, Grown(t, s), NEW i \in 1..Len(s.records), NEW r,
         Leads(t, s.records[i], i, r), NEW total \in LatticeTotals, NEW optional \in BOOLEAN,
         NEW u, u = Push(t, s, r, total, optional)
  PROVE  Grown(t, u) /\ GrowsInto(t, s, u) /\ (Simple(t) /\ ~optional => u.failed \/ Covered(t, u, r))
<1>1. s \in LatticeStates /\ s.records[i] \in LatticeRecord /\ Sane(t, s.records[i]) /\ i \in Nat
      BY GrownIs
<1>2. r \in LatticeRecord /\ Sane(t, r)
      BY <1>1, LeadsIs, SaneFollows
<1>3. CASE Beaten(t, s, r)
  <2>1. u = s
        BY <1>3 DEF Push
  <2> DEFINE key == KeyOf(t, r)
             j == s.bestOf[key]
  <2>2. key \in DOMAIN s.bestOf /\ s.records[j].cost <= r.cost
        BY <1>3 DEF Beaten
  <2>3. j \in 1..Len(s.records) /\ KeyOf(t, s.records[j]) = key
        BY <2>2 DEF Grown
  <2>4. Kept(t, s, j)
        BY <2>2, <2>3 DEF Kept
  <2>5. s.records[j] \in LatticeRecord /\ Sane(t, s.records[j])
        BY <2>3, GrownIs
  <2>6. Alike(s.records[j], r)
        BY <2>3, KeyIs
  <2> HIDE DEF j
  <2>7. Simple(t) => s.records[j].time <= r.time
        BY <1>2, <2>2, <2>5, <2>6, CheaperIsSooner DEF Alike
  <2>8. Simple(t) => Covered(t, s, r)
        BY <2>3, <2>4, <2>6, <2>7 DEF Covered
  <2>9. QED
        BY <1>1, <2>1, <2>8, GrowsIntoItself
<1>4. CASE ~Beaten(t, s, r) /\ Full(s)
  <2>1. u = [s EXCEPT !.failed = ~optional]
        BY <1>4 DEF Push
  <2>2. /\ u.records = s.records /\ u.frontier = s.frontier /\ u.bestOf = s.bestOf /\ u.failed = ~optional
        /\ u \in LatticeStates
        BY <1>1, <2>1 DEF LatticeStates
  <2>3. Grown(t, u)
        BY <2>2 DEF Grown
  <2>4. \A j : (Kept(t, u, j) <=> Kept(t, s, j)) /\ (Queued(u, j) <=> Queued(s, j))
        BY <2>2 DEF Kept, Queued
  <2>5. \A b : Covered(t, s, b) => Covered(t, u, b)
        BY <2>2, <2>4 DEF Covered
  <2>6. GrowsInto(t, s, u)
    <3>1. Len(s.records) \in Nat
          BY GrownIs
    <3>2. QED
          BY <2>2, <2>4, <2>5, <3>1 DEF GrowsInto
  <2>7. QED
        BY <2>2, <2>3, <2>6
<1>5. CASE ~Beaten(t, s, r) /\ ~Full(s)
  <2>1. u = Entered(t, s, r, total)
        BY <1>5 DEF Push
  <2>2. QED
        BY <1>5, <2>1, EnteredKeeps
<1>6. QED
      BY <1>3, <1>4, <1>5

\* What every state of an expansion of the record i keeps, and what it has done after k steps.
Expands(t, a, i, s) ==
  /\ Grown(t, s) /\ i \in 1..Len(s.records) /\ s.records[i] = a
  /\ Simple(t) => NoneLeftOut(t, s, {i}) /\ Covered(t, s, FirstRecord(t))

Tried(t, a, s, k) ==
  Simple(t) => s.failed \/ \A m \in 0..8 : m < k /\ Offers(t, a, m) => Covered(t, s, Step(t, a, m, 0))

TryStep(t, a, i, s, k) ==
  IF s.failed \/ ~Offers(t, a, k) THEN s
  ELSE Push(t, s, Step(t, a, k, i), Total(t, Step(t, a, k, i), DemandsMode(t, a)), k = 0 /\ ~DemandsMode(t, a))

LEMMA TryStepKeeps ==
  ASSUME NEW t \in Tasks, NEW a, ~AtTerminal(t, a), NEW i, NEW s, Expands(t, a, i, s), NEW k \in 0..8, Tried(t, a, s, k),
         NEW u, u = TryStep(t, a, i, s, k)
  PROVE  Expands(t, a, i, u) /\ Tried(t, a, u, k + 1)
<1>1. Grown(t, s) /\ i \in 1..Len(s.records) /\ s.records[i] = a /\ a \in LatticeRecord /\ i \in Nat
      BY GrownIs DEF Expands
<1>2. \A m \in 0..8 : m < k + 1 => m = k \/ m < k
      OBVIOUS
<1>3. CASE s.failed
  <2>1. u = s
        BY <1>3 DEF TryStep
  <2>2. QED
        BY <1>3, <2>1 DEF Tried
<1>4. CASE ~s.failed /\ ~Offers(t, a, k)
  <2>1. u = s
        BY <1>4 DEF TryStep
  <2>2. Tried(t, a, s, k + 1)
        BY <1>2, <1>4 DEF Tried
  <2>3. QED
        BY <2>1, <2>2
<1>5. CASE ~s.failed /\ Offers(t, a, k)
  <2> DEFINE r == Step(t, a, k, i)
             n == Step(t, a, k, 0)
             total == Total(t, r, DemandsMode(t, a))
             optional == k = 0 /\ ~DemandsMode(t, a)
  <2>1. u = Push(t, s, r, total, optional)
        BY <1>5 DEF TryStep
  <2>2. /\ r \in LatticeRecord /\ n \in LatticeRecord
        /\ Alike(r, n) /\ r.time = n.time
    <3>1. /\ r \in LatticeRecord /\ r.at = n.at /\ r.heading = n.heading /\ r.mode = n.mode /\ r.time = n.time
          BY <1>1, StepIs
    <3>2. n \in LatticeRecord
      <4>1. 0 \in Nat
            OBVIOUS
      <4>2. QED
            BY <1>1, <4>1, StepIs
    <3>3. QED
          BY <3>1, <3>2 DEF Alike
  <2>3. Leads(t, a, i, r)
        BY <1>5 DEF Leads
  <2>4. DemandsMode(t, a) \in BOOLEAN /\ optional \in BOOLEAN
        BY DEF DemandsMode
  <2>5. total \in LatticeTotals
        BY <2>2, <2>4, KeyTyped
  <2>6. Simple(t) => ~optional
        BY <1>5 DEF Simple, Offers
  <2> HIDE DEF r, n, total, optional
  <2>7. Grown(t, u) /\ GrowsInto(t, s, u) /\ (Simple(t) /\ ~optional => u.failed \/ Covered(t, u, r))
    <3>1. Leads(t, s.records[i], i, r)
          BY <1>1, <2>3
    <3>2. QED
          BY <1>1, <2>1, <2>4, <2>5, <3>1, PushKeeps
  <2>8. i \in 1..Len(u.records) /\ u.records[i] = a
    <3>1. Len(s.records) \in Nat /\ Len(u.records) \in Nat
          BY <1>1, <2>7, GrownIs
    <3>2. QED
          BY <1>1, <2>7, <3>1 DEF GrowsInto
  <2>9. Simple(t) => NoneLeftOut(t, u, {i}) /\ Covered(t, u, FirstRecord(t))
    <3>1. SUFFICES ASSUME Simple(t) PROVE NoneLeftOut(t, u, {i}) /\ Covered(t, u, FirstRecord(t))
          OBVIOUS
    <3>2. NoneLeftOut(t, s, {i}) /\ Covered(t, s, FirstRecord(t))
          BY <3>1 DEF Expands
    <3>3. Covered(t, u, FirstRecord(t))
          BY <2>7, <3>1, <3>2, FirstIs DEF GrowsInto
    <3>4. NoneLeftOut(t, u, {i})
          BY <1>1, <2>7, <3>1, <3>2, NoneLeftOutKeeps
    <3>5. QED
          BY <3>3, <3>4
  <2>10. Tried(t, a, u, k + 1)
    <3>1. SUFFICES ASSUME Simple(t), ~u.failed, NEW m \in 0..8, m < k + 1, Offers(t, a, m)
                   PROVE  Covered(t, u, Step(t, a, m, 0))
          BY DEF Tried
    <3>2. CASE m = k
      <4>1. Covered(t, u, r)
            BY <2>6, <2>7, <3>1
      <4>2. r.time <= n.time
            BY <2>2, LatticeRecordIs
      <4>3. Covered(t, u, n)
            BY <2>2, <2>7, <4>1, <4>2, CoversLater
      <4>4. QED
            BY <3>2, <4>3 DEF n
    <3>3. CASE m < k
      <4>1. Covered(t, s, Step(t, a, m, 0))
            BY <1>5, <3>1, <3>3 DEF Tried
      <4>2. Step(t, a, m, 0) \in LatticeRecord
        <5>1. 0 \in Nat
              OBVIOUS
        <5>2. QED
              BY <1>1, <5>1, StepIs
      <4>3. QED
            BY <2>7, <3>1, <4>1, <4>2 DEF GrowsInto
    <3>4. QED
          BY <1>2, <3>1, <3>2, <3>3
  <2>11. QED
         BY <2>7, <2>8, <2>9, <2>10 DEF Expands
<1>6. QED
      BY <1>3, <1>4, <1>5

LEMMA PushAllKeeps ==
  ASSUME task \in Tasks, NEW i \in 1..Len(records), ~AtTerminal(task, records[i]), NEW rest,
         NEW b, b = [records |-> records, frontier |-> rest, bestOf |-> bestOf, failed |-> FALSE],
         Expands(task, records[i], i, b), NEW u, u = PushAll(i, rest)
  PROVE  Expands(task, records[i], i, u) /\ Tried(task, records[i], u, 9)
<1> DEFINE a == records[i]
           V == {s \in LatticeStates : Expands(task, a, i, s)}
           Next(k, s) == TryStep(task, a, i, s, k - 1)
           Good(k, s) == Expands(task, a, i, s) /\ Tried(task, a, s, k)
           F == [e \in Nat \X V |-> IF e[1] \in 1..9 THEN (IF Tried(task, a, e[2], e[1] - 1) THEN Next(e[1], e[2]) ELSE e[2]) ELSE e[2]]
           Afters(f) == [k \in 0..9 |-> IF k = 0 THEN b ELSE Next(k, f[k - 1])]
           after == CHOOSE f : f = Afters(f)
<1>1. \A s : Expands(task, a, i, s) => s \in LatticeStates
      BY DEF Expands, Grown
<1>2. Good(0, b)
  <2>1. \A m \in 0..8 : ~(m < 0)
        OBVIOUS
  <2>2. Tried(task, a, b, 0)
        BY <2>1 DEF Tried
  <2>3. QED
        BY <2>2
<1>3. ASSUME NEW k \in 1..9, NEW s, Good(k - 1, s)
      PROVE  Good(k, Next(k, s))
  <2> DEFINE v == Next(k, s)
             m == k - 1
  <2>1. m \in 0..8 /\ m + 1 = k
        OBVIOUS
  <2>2. Expands(task, a, i, s) /\ Tried(task, a, s, m) /\ ~AtTerminal(task, a) /\ v = TryStep(task, a, i, s, m)
        BY <1>3
  <2> HIDE DEF m, v, a
  <2>3. Expands(task, a, i, v) /\ Tried(task, a, v, m + 1)
        BY <2>1, <2>2, TryStepKeeps
  <2>4. QED
        BY <2>1, <2>3 DEF v
<1>4. b \in V
      BY <1>1, <1>2
<1> HIDE DEF Next, a
<1>5. F \in [Nat \X V -> V]
  <2>1. ASSUME NEW e \in Nat \X V, e[1] \in 1..9, Tried(task, a, e[2], e[1] - 1) PROVE Next(e[1], e[2]) \in V
    <3>1. e[1] \in 1..9 /\ Good(e[1] - 1, e[2])
          BY <2>1
    <3>2. Good(e[1], Next(e[1], e[2]))
          BY <1>3, <3>1
    <3>3. QED
          BY <1>1, <3>2
  <2> HIDE DEF V
  <2>2. \A e \in Nat \X V : e[2] \in V
        OBVIOUS
  <2>3. QED
        BY <2>1, <2>2
<1>6. PICK f \in [0..9 -> V] : StepsThrough(f, 9, b, F)
  <2>1. 9 \in Nat
        OBVIOUS
  <2> HIDE DEF F, V
  <2>2. QED
        BY <1>4, <1>5, <2>1, RecursionByStep
<1>7. \A k \in 0..9 : Good(k, f[k]) /\ f[k] = IF k = 0 THEN b ELSE Next(k, f[k - 1])
  <2> DEFINE P == {k \in Nat : k \in 0..9 => Good(k, f[k]) /\ f[k] = IF k = 0 THEN b ELSE Next(k, f[k - 1])}
  <2>1. f[0] = b
        BY <1>6 DEF StepsThrough
  <2>2. 0 \in P
        BY <1>2, <2>1
  <2>3. ASSUME NEW k \in 1..9, k - 1 \in P PROVE k \in P
    <3>1. k - 1 \in 0..9 /\ k \in 0..9 /\ k # 0 /\ k \in Nat
          OBVIOUS
    <3>2. Good(k - 1, f[k - 1]) /\ f[k - 1] \in V
          BY <2>3, <3>1
    <3>3. f[k] = F[<<k, f[k - 1]>>]
      <4> HIDE DEF F, V, P
      <4>1. \A m \in 1..9 : f[m] = F[<<m, f[m - 1]>>]
            BY <1>6 DEF StepsThrough
      <4>2. QED
            BY <4>1
    <3>4. F[<<k, f[k - 1]>>] = Next(k, f[k - 1])
      <4> DEFINE e == <<k, f[k - 1]>>
      <4>1. e \in Nat \X V /\ e[1] = k /\ e[2] = f[k - 1]
            BY <3>1, <3>2
      <4> HIDE DEF e, V
      <4>2. QED
            BY <3>2, <4>1 DEF e
    <3>5. Good(k, f[k])
          BY <1>3, <3>2, <3>3, <3>4
    <3> HIDE DEF F, V
    <3>6. QED
          BY <3>1, <3>3, <3>4, <3>5
  <2>4. \A k \in 0..9 : k \in P
    <3> HIDE DEF P
    <3>1. 9 \in Nat
          OBVIOUS
    <3>2. QED
          BY <2>2, <2>3, <3>1, InductionUpTo
  <2>5. QED
        BY <2>4
<1>8. f = Afters(f)
      BY <1>7
<1>9. after = Afters(after)
      BY <1>8
<1>10. u = after[9]
       BY DEF PushAll, Next, TryStep, a
<1> HIDE DEF after
<1>11. after[0] = b /\ \A k \in 1..9 : after[k] = Next(k, after[k - 1])
  <2> HIDE DEF F, V
  <2>1. \A k \in 0..9 : after[k] = IF k = 0 THEN b ELSE Next(k, after[k - 1])
        BY <1>9
  <2>2. 0 \in 0..9 /\ \A k \in 1..9 : k \in 0..9 /\ k # 0
        OBVIOUS
  <2>3. QED
        BY <2>1, <2>2
<1>12. \A k \in 0..9 : Good(k, after[k])
  <2> DEFINE P == {k \in Nat : Good(k, after[k])}
  <2>1. 0 \in P
        BY <1>2, <1>11
  <2>2. ASSUME NEW k \in 1..9, k - 1 \in P PROVE k \in P
        BY <1>3, <1>11, <2>2
  <2>3. \A k \in 0..9 : k \in P
    <3> HIDE DEF P
    <3>1. 9 \in Nat
          OBVIOUS
    <3>2. QED
          BY <2>1, <2>2, <3>1, InductionUpTo
  <2>4. QED
        BY <2>3
<1>13. Good(9, u)
       BY <1>10, <1>12
<1>14. QED
       BY <1>13 DEF a

-----------------------------------------------------------------------------
(* Nothing left to expand                                                  *)

\* The queue has run empty.
Finished(t, s) ==
  Simple(t) /\ Grown(t, s) /\ s.frontier = {} /\ NoneLeftOut(t, s, {}) /\ Covered(t, s, FirstRecord(t))

LEMMA SimpleBears ==
  ASSUME NEW t \in Tasks, Simple(t), NEW a, NEW b
  PROVE  Bearable(t, a, b) <=> b.time <= t.energy
BY DEF Simple, Bearable, CooperativeEdgeValid, WithinEnergy

LEMMA ChangeIs ==
  ASSUME NEW r \in LatticeRecord
  PROVE  /\ r.mode = "cruise" => InPlace(r, "observe", ObserveTime, 0, Change(r, 0))
         /\ r.mode # "cruise" => InPlace(r, "wait", WaitTime, 0, Change(r, 0))
<1>1. ObserveTime \in Nat /\ WaitTime \in Nat /\ "observe" \in Modes /\ "wait" \in Modes /\ 0 \in Nat
      BY LimitsAre DEF Modes
<1>2. CASE r.mode = "cruise"
  <2>1. Change(r, 0) = Stay(r, "observe", ObserveTime, 0)
        BY <1>2 DEF Change
  <2>2. QED
        BY <1>1, <1>2, <2>1, StayIs
<1>3. CASE r.mode # "cruise"
  <2>1. Change(r, 0) = Stay(r, "wait", WaitTime, 0)
        BY <1>3 DEF Change, Wait
  <2>2. QED
        BY <1>1, <1>3, <2>1, StayIs
<1>4. QED
      BY <1>2, <1>3

\* What a record can do, one alike that is sooner can do, and is sooner then.
LEMMA StepSooner ==
  ASSUME NEW t \in Tasks, Simple(t), NEW a \in LatticeRecord, NEW b \in LatticeRecord, Alike(a, b), a.time <= b.time,
         NEW k \in 0..8, Offers(t, b, k)
  PROVE  /\ Offers(t, a, k) /\ Alike(Step(t, a, k, 0), Step(t, b, k, 0))
         /\ Step(t, a, k, 0).time <= Step(t, b, k, 0).time
<1> DEFINE m == Step(t, a, k, 0)
           n == Step(t, b, k, 0)
<1>1. m \in LatticeRecord /\ n \in LatticeRecord
  <2>1. 0 \in Nat
        OBVIOUS
  <2>2. QED
        BY <2>1, StepIs
<1>2. a.at = b.at /\ a.heading = b.heading /\ a.mode = b.mode /\ a.time \in Nat /\ b.time \in Nat
      BY LatticeRecordIs DEF Alike
<1>3. DemandsMode(t, a) <=> DemandsMode(t, b)
      BY <1>2 DEF DemandsMode
<1>4. 0 \in Nat /\ ObserveTime \in Nat /\ WaitTime \in Nat /\ "observe" \in Modes /\ "wait" \in Modes
      BY LimitsAre DEF Modes
<1>5. m.time \in Nat /\ n.time \in Nat /\ t.energy \in Nat
      BY <1>1, LatticeRecordIs, TaskIs
<1>6. CASE k > 0
  <2> DEFINE h == NeighbourOrder[k]
  <2>1. h \in 1..8 /\ Length(h) \in Nat
        BY <1>6, HeadingsAre
  <2>2. m = MoveOn(t, a, h, 0) /\ n = MoveOn(t, b, h, 0)
        BY <1>6 DEF Step
  <2>9. ~DemandsMode(t, b) /\ EdgeAllowed(t, b, n)
        BY <1>6 DEF Offers
  <2> HIDE DEF h, m, n
  <2>3. NextCell(t, a, h, 0, m) /\ NextCell(t, b, h, 0, n)
        BY <1>4, <2>1, <2>2, MoveIs
  <2>4. Alike(m, n) /\ m.time = a.time + Length(h) /\ n.time = b.time + Length(h)
        BY <1>2, <2>3 DEF NextCell, Alike
  <2> DEFINE L == Length(h)
  <2>5. m.time <= n.time
    <3>1. L \in Nat /\ m.time = a.time + L /\ n.time = b.time + L
          BY <2>1, <2>4
    <3> HIDE DEF L
    <3>2. QED
          BY <1>2, <3>1
  <2>6. Bearable(t, a, m)
    <3>1. n.time <= t.energy
          BY <2>9, SimpleBears DEF EdgeAllowed
    <3>2. QED
          BY <1>5, <2>5, <3>1, SimpleBears
  <2>7. EdgeAllowed(t, a, m)
    <3>1. m.at = n.at /\ m.heading = n.heading
          BY <2>4 DEF Alike
    <3>2. QED
          BY <1>2, <2>6, <2>9, <3>1 DEF EdgeAllowed
  <2>8. Offers(t, a, k)
        BY <1>3, <1>6, <2>7, <2>9 DEF Offers, m
  <2>10. QED
         BY <2>4, <2>5, <2>8 DEF m, n
<1>7. CASE ~(k > 0)
  <2>1. DemandsMode(t, b) /\ Bearable(t, b, n)
        BY <1>7 DEF Offers, Simple
  <2>2. m = Change(a, 0) /\ n = Change(b, 0)
        BY <1>3, <1>7, <2>1 DEF Step
  <2> HIDE DEF m, n
  <2>3. Alike(m, n) /\ m.time <= n.time
    <3>1. CASE a.mode = "cruise"
      <4>1. InPlace(a, "observe", ObserveTime, 0, m) /\ InPlace(b, "observe", ObserveTime, 0, n)
            BY <1>2, <2>2, <3>1, ChangeIs
      <4>2. QED
            BY <1>2, <1>4, <4>1 DEF InPlace, Alike
    <3>2. CASE a.mode # "cruise"
      <4>1. InPlace(a, "wait", WaitTime, 0, m) /\ InPlace(b, "wait", WaitTime, 0, n)
            BY <1>2, <2>2, <3>2, ChangeIs
      <4>2. QED
            BY <1>2, <1>4, <4>1 DEF InPlace, Alike
    <3>3. QED
          BY <3>1, <3>2
  <2>4. Bearable(t, a, m)
        BY <1>5, <2>1, <2>3, SimpleBears
  <2>5. Offers(t, a, k)
        BY <1>3, <1>7, <2>1, <2>4 DEF Offers, m
  <2>6. QED
        BY <2>3, <2>5 DEF m, n
<1>8. QED
      BY <1>6, <1>7

\* What is covered has been expanded: it ends nothing, and all it can do is covered.
LEMMA CoveredStep ==
  ASSUME NEW t \in Tasks, NEW s, Finished(t, s), NEW r \in LatticeRecord, Covered(t, s, r)
  PROVE  ~AtTerminal(t, r) /\ \A k \in 0..8 : Offers(t, r, k) => Covered(t, s, Step(t, r, k, 0))
<1>1. Simple(t) /\ Grown(t, s) /\ s.frontier = {} /\ NoneLeftOut(t, s, {})
      BY DEF Finished
<1>2. PICK j \in 1..Len(s.records) : Kept(t, s, j) /\ Alike(s.records[j], r) /\ s.records[j].time <= r.time
      BY DEF Covered
<1> DEFINE c == s.records[j]
<1>3. c \in LatticeRecord
      BY <1>1, GrownIs
<1>4. Exhausted(t, s, c)
      BY <1>1, <1>2 DEF NoneLeftOut, Queued
<1>5. Alike(c, r) /\ c.time <= r.time
      BY <1>2
<1> HIDE DEF c
<1>6. ~AtTerminal(t, r)
      BY <1>4, <1>5 DEF Exhausted, AtTerminal, Alike
<1>7. ASSUME NEW k \in 0..8, Offers(t, r, k) PROVE Covered(t, s, Step(t, r, k, 0))
  <2>1. /\ Offers(t, c, k) /\ Alike(Step(t, c, k, 0), Step(t, r, k, 0))
        /\ Step(t, c, k, 0).time <= Step(t, r, k, 0).time
        BY <1>1, <1>3, <1>5, <1>7, StepSooner
  <2>2. Covered(t, s, Step(t, c, k, 0))
        BY <1>4, <2>1 DEF Exhausted
  <2>3. Step(t, c, k, 0) \in LatticeRecord /\ Step(t, r, k, 0) \in LatticeRecord
    <3>1. 0 \in Nat
          OBVIOUS
    <3>2. QED
          BY <1>3, <3>1, StepIs
  <2>4. QED
        BY <1>1, <2>1, <2>2, <2>3, CoversLater
<1>8. QED
      BY <1>6, <1>7

\* So are the moves on of what is covered and demands no change of mode, and the change
\* of what does.
LEMMA CoveredMove ==
  ASSUME NEW t \in Tasks, NEW s, Finished(t, s), NEW r \in LatticeRecord, Covered(t, s, r), ~DemandsMode(t, r),
         NEW h \in 1..8, EdgeAllowed(t, r, MoveOn(t, r, h, 0))
  PROVE  Covered(t, s, MoveOn(t, r, h, 0))
<1>1. PICK k \in 1..8 : NeighbourOrder[k] = h
      BY HeadingsAre
<1>2. k \in 0..8 /\ k > 0
      BY <1>1
<1>3. Step(t, r, k, 0) = MoveOn(t, r, h, 0)
      BY <1>1, <1>2 DEF Step
<1>4. Offers(t, r, k)
      BY <1>2, <1>3 DEF Offers
<1>5. QED
      BY <1>2, <1>3, <1>4, CoveredStep

LEMMA CoveredChange ==
  ASSUME NEW t \in Tasks, NEW s, Finished(t, s), NEW r \in LatticeRecord, Covered(t, s, r), DemandsMode(t, r),
         Change(r, 0).time <= t.energy
  PROVE  Covered(t, s, Change(r, 0))
<1>1. 0 \in 0..8 /\ ~(0 > 0)
      OBVIOUS
<1>2. Step(t, r, 0, 0) = Change(r, 0)
      BY <1>1 DEF Step
<1>3. Bearable(t, r, Change(r, 0))
      BY SimpleBears DEF Finished
<1>4. Offers(t, r, 0)
      BY <1>1, <1>2, <1>3 DEF Offers
<1>5. QED
      BY <1>1, <1>2, <1>4, CoveredStep

-----------------------------------------------------------------------------
(* What the reference reaches                                              *)

\* What is reached stays within a set that the moves do not leave.
LEMMA ReachableWithin ==
  ASSUME task \in Tasks, NEW S, NEW R, R \subseteq S, \A r \in S : MovesFrom(r) \subseteq S
  PROVE  ReachableFrom(R) \subseteq S
<1> DEFINE N == task.energy \div 2
           V == SUBSET S
           Next(X) == X \cup UNION {MovesFrom(r) : r \in X}
           F == [e \in Nat \X V |-> Next(e[2])]
           Grow(f) == [k \in 0..N |-> IF k = 0 THEN R ELSE f[k - 1] \cup UNION {MovesFrom(r) : r \in f[k - 1]}]
           grow == CHOOSE f : f = Grow(f)
<1>1. N \in Nat
      BY TaskIs
<1>2. ReachableFrom(R) = grow[N]
      BY DEF ReachableFrom
<1>3. \A X \in V : Next(X) \in V
      OBVIOUS
<1>4. F \in [Nat \X V -> V] /\ R \in V
  <2> HIDE DEF Next
  <2>1. F \in [Nat \X V -> V]
        BY <1>3
  <2>2. QED
        BY <2>1
<1> HIDE DEF N
<1>5. PICK f \in [0..N -> V] : StepsThrough(f, N, R, F)
  <2> HIDE DEF F, V
  <2>1. QED
        BY <1>1, <1>4, RecursionByStep
<1>6. f = Grow(f)
  <2>1. f[0] = R
    <3> HIDE DEF F, V
    <3>1. 0 \in 0..N
          BY <1>1
    <3>2. QED
          BY <1>5, <3>1 DEF StepsThrough
  <2>2. ASSUME NEW k \in 1..N PROVE f[k] = Next(f[k - 1])
    <3>1. k - 1 \in 0..N /\ k \in Nat
          BY <1>1
    <3>2. f[k - 1] \in V
          BY <3>1
    <3>3. f[k] = F[<<k, f[k - 1]>>]
      <4> HIDE DEF F, V
      <4>1. QED
            BY <1>5 DEF StepsThrough
    <3> DEFINE e == <<k, f[k - 1]>>
    <3>4. e \in Nat \X V /\ e[2] = f[k - 1]
          BY <3>1, <3>2
    <3> HIDE DEF e, V, Next
    <3>5. F[e] = Next(f[k - 1])
          BY <3>4
    <3>6. QED
          BY <3>3, <3>5 DEF e
  <2>3. \A k \in 0..N : f[k] = IF k = 0 THEN R ELSE Next(f[k - 1])
    <3> HIDE DEF Next
    <3>1. \A k \in 0..N : k = 0 \/ k \in 1..N
          BY <1>1
    <3>2. \A k \in 1..N : k # 0
          OBVIOUS
    <3>3. QED
          BY <2>1, <2>2, <3>1, <3>2
  <2>4. QED
        BY <2>3
<1>7. grow = Grow(grow)
      BY <1>6
<1> HIDE DEF grow
<1>8. \A k \in 0..N : grow[k] = IF k = 0 THEN R ELSE Next(grow[k - 1])
      BY <1>7
<1> DEFINE P == {k \in Nat : grow[k] \in V}
<1>9. \A k \in 0..N : k \in P
  <2>1. 0 \in P
    <3>1. 0 \in 0..N
          BY <1>1
    <3>2. QED
          BY <1>4, <1>8, <3>1
  <2>2. ASSUME NEW k \in 1..N, k - 1 \in P PROVE k \in P
    <3>1. k \in 0..N /\ k # 0 /\ k \in Nat
          BY <1>1
    <3>2. grow[k] = Next(grow[k - 1]) /\ grow[k - 1] \in V
          BY <1>8, <2>2, <3>1
    <3> HIDE DEF Next
    <3>3. QED
          BY <1>3, <3>1, <3>2
  <2> HIDE DEF P
  <2>3. QED
        BY <1>1, <2>1, <2>2, InductionUpTo
<1>10. N \in P
       BY <1>1, <1>9
<1>11. QED
       BY <1>2, <1>10

\* A move of the reference.
LEMMA MovesFromIs ==
  ASSUME task \in Tasks, Simple(task), NEW r \in LatticeRecord, NEW n \in MovesFrom(r)
  PROVE  \E h \in 1..8 : n = MoveOn(task, r, h, 0) /\ EdgeAllowed(task, r, n) /\ NextCell(task, r, h, 0, n)
<1>1. PICK h \in 1..8 : n = MoveOn(task, r, h, 0) /\ MoveIsLegal(r, n)
      BY DEF MovesFrom
<1>2. 0 \in Nat
      OBVIOUS
<1>3. NextCell(task, r, h, 0, n)
      BY <1>1, <1>2, MoveIs
<1>4. n \in LatticeRecord /\ Headings[n.heading] = <<n.at[1] - r.at[1], n.at[2] - r.at[2]>>
      BY <1>3 DEF NextCell
<1>5. Bearable(task, r, n)
      BY <1>1, SimpleBears DEF MoveIsLegal
<1>6. QED
      BY <1>1, <1>3, <1>4, <1>5, EdgeIsLegal

\* Until it cruises at the goal, what cruises is covered.
ComesToGoal(s, r) ==
  /\ r \in LatticeRecord /\ r.mode = "cruise"
  /\ \/ Covered(task, s, r)
     \/ \E g \in LatticeRecord : g.mode = "cruise" /\ g.at \in task.goal /\ g.time <= r.time /\ Covered(task, s, g)

LEMMA AllComeToGoal ==
  ASSUME task \in Tasks, NEW s, Finished(task, s), NEW r \in ReachableFrom({FirstRecord(task)})
  PROVE  ComesToGoal(s, r)
<1> DEFINE S == {x \in LatticeRecord : ComesToGoal(s, x)}
<1>1. {FirstRecord(task)} \subseteq S
      BY FirstIs DEF ComesToGoal, Finished
<1>2. ASSUME NEW x \in S, NEW n \in MovesFrom(x) PROVE n \in S
  <2>1. x \in LatticeRecord /\ ComesToGoal(s, x) /\ x.mode = "cruise" /\ x.time \in Nat
        BY LatticeRecordIs DEF ComesToGoal
  <2>2. PICK h \in 1..8 : n = MoveOn(task, x, h, 0) /\ EdgeAllowed(task, x, n) /\ NextCell(task, x, h, 0, n)
        BY <2>1, MovesFromIs DEF Finished
  <2>3. n \in LatticeRecord /\ n.mode = "cruise" /\ n.time \in Nat /\ x.time <= n.time
    <3>1. n \in LatticeRecord /\ n.mode = "cruise" /\ n.time = x.time + Length(h)
          BY <2>1, <2>2 DEF NextCell
    <3> DEFINE L == Length(h)
    <3>2. L \in Nat /\ n.time = x.time + L
          BY <3>1, HeadingsAre
    <3> HIDE DEF L
    <3>3. QED
          BY <2>1, <3>1, <3>2
  <2>4. CASE Covered(task, s, x) /\ ~DemandsMode(task, x)
    <3>1. Covered(task, s, n)
          BY <2>1, <2>2, <2>4, CoveredMove
    <3>2. QED
          BY <2>3, <3>1 DEF ComesToGoal
  <2>5. CASE Covered(task, s, x) /\ DemandsMode(task, x)
    <3>1. x.at \in task.goal
          BY <2>5 DEF DemandsMode
    <3>2. QED
          BY <2>1, <2>3, <2>5, <3>1 DEF ComesToGoal
  <2>6. CASE ~Covered(task, s, x)
    <3>1. PICK g \in LatticeRecord : g.mode = "cruise" /\ g.at \in task.goal /\ g.time <= x.time /\ Covered(task, s, g)
          BY <2>1, <2>6 DEF ComesToGoal
    <3>2. g.time <= n.time
          BY <2>1, <2>3, <3>1, LatticeRecordIs
    <3>3. QED
          BY <2>3, <3>1, <3>2 DEF ComesToGoal
  <2>7. QED
        BY <2>4, <2>5, <2>6
<1> HIDE DEF S
<1>3. ReachableFrom({FirstRecord(task)}) \subseteq S
      BY <1>1, <1>2, ReachableWithin
<1>4. QED
      BY <1>3 DEF S

\* A record that can change its mode, and what the change makes of it.
LEMMA ObservationIs ==
  ASSUME NEW r \in LatticeRecord, r.mode = "cruise"
  PROVE  /\ Change(r, 0) \in LatticeRecord /\ Change(r, 0).mode = "observe" /\ Change(r, 0).at = r.at
         /\ Change(r, 0).heading = r.heading /\ Change(r, 0).time = r.time + ObserveTime
         /\ Change(Change(r, 0), 0) \in LatticeRecord /\ Change(Change(r, 0), 0).mode = "wait"
         /\ Change(Change(r, 0), 0).at = r.at /\ Change(Change(r, 0), 0).heading = r.heading
         /\ Change(Change(r, 0), 0).time = r.time + ObserveTime + WaitTime
<1> DEFINE o == Change(r, 0)
           w == Change(o, 0)
<1>1. InPlace(r, "observe", ObserveTime, 0, o)
      BY ChangeIs
<1> HIDE DEF o
<1>2. o \in LatticeRecord /\ o.mode = "observe" /\ o.at = r.at /\ o.heading = r.heading /\ o.time = r.time + ObserveTime
      BY <1>1 DEF InPlace
<1>3. InPlace(o, "wait", WaitTime, 0, w)
      BY <1>2, ChangeIs
<1> HIDE DEF w
<1>4. w \in LatticeRecord /\ w.mode = "wait" /\ w.at = r.at /\ w.heading = r.heading /\ w.time = r.time + ObserveTime + WaitTime
      BY <1>2, <1>3 DEF InPlace
<1>5. QED
      BY <1>2, <1>4 DEF o, w

\* What cruises at the goal in time, and is covered, observes and waits there.
LEMMA CoveredObservation ==
  ASSUME NEW t \in Tasks, NEW s, Finished(t, s), NEW r \in LatticeRecord, Covered(t, s, r), r.mode = "cruise",
         r.at \in t.goal, t.mode # "cruise" \/ t.exit # {}, r.time + ObserveTime <= t.energy
  PROVE  /\ Covered(t, s, Change(r, 0))
         /\ (t.mode # "observe" \/ t.exit # {}) /\ r.time + ObserveTime + WaitTime <= t.energy =>
              Covered(t, s, Change(Change(r, 0), 0))
<1> DEFINE o == Change(r, 0)
           w == Change(o, 0)
<1>1. /\ o \in LatticeRecord /\ o.mode = "observe" /\ o.at = r.at /\ o.time = r.time + ObserveTime
      /\ w.time = r.time + ObserveTime + WaitTime
      BY ObservationIs
<1>2. DemandsMode(t, r)
      BY DEF DemandsMode
<1>3. Covered(t, s, o)
      BY <1>1, <1>2, CoveredChange
<1> HIDE DEF o, w
<1>4. ASSUME t.mode # "observe" \/ t.exit # {}, r.time + ObserveTime + WaitTime <= t.energy
      PROVE  Covered(t, s, w)
  <2>1. DemandsMode(t, o)
        BY <1>1, <1>4 DEF DemandsMode
  <2>2. w = Change(o, 0) /\ w.time <= t.energy
        BY <1>1, <1>4 DEF w
  <2>3. QED
        BY <1>1, <1>3, <2>1, <2>2, CoveredChange
<1>5. QED
      BY <1>3, <1>4 DEF o, w

LEMMA NothingThere ==
  ASSUME task \in Tasks, NEW s, Finished(task, s), task.exit = {}, records[1] = FirstRecord(task)
  PROVE  ~Possible
<1> DEFINE reached == ReachableFrom({records[1]})
           atGoal == {r \in reached : r.at \in task.goal}
           observed == Changes(atGoal)
           waited == Changes(observed)
<1>1. task.mode \in Modes /\ task.energy \in Nat
      BY TaskIs
<1>2. ASSUME NEW r \in atGoal
      PROVE  /\ r \in LatticeRecord /\ r.mode = "cruise"
             /\ \E g \in LatticeRecord : g.mode = "cruise" /\ g.at \in task.goal /\ g.time <= r.time /\ Covered(task, s, g)
  <2>1. ComesToGoal(s, r) /\ r.at \in task.goal
        BY AllComeToGoal
  <2>2. r \in LatticeRecord /\ r.mode = "cruise" /\ r.time <= r.time
        BY <2>1, LatticeRecordIs DEF ComesToGoal
  <2>3. QED
        BY <2>1, <2>2 DEF ComesToGoal
<1> HIDE DEF reached, atGoal
<1>3. ASSUME NEW o \in observed
      PROVE  \E r \in atGoal : o = Change(r, 0) /\ r.time + ObserveTime <= task.energy
  <2>1. PICK r \in atGoal : o = Change(r, 0) /\ Change(r, 0).time <= task.energy
        BY DEF Changes
  <2>2. r.time + ObserveTime <= task.energy
        BY <1>2, <2>1, ObservationIs
  <2>3. QED
        BY <2>1, <2>2
<1> HIDE DEF observed
<1>4. ASSUME NEW x \in waited
      PROVE  \E r \in atGoal : r.time + ObserveTime <= task.energy /\ r.time + ObserveTime + WaitTime <= task.energy
  <2>1. PICK o \in observed : x = Change(o, 0) /\ Change(o, 0).time <= task.energy
        BY DEF Changes
  <2>2. PICK r \in atGoal : o = Change(r, 0) /\ r.time + ObserveTime <= task.energy
        BY <1>3
  <2>3. r.time + ObserveTime + WaitTime <= task.energy
        BY <1>2, <2>1, <2>2, ObservationIs
  <2>4. QED
        BY <2>2, <2>3
<1> HIDE DEF waited
<1>5. \A g \in LatticeRecord : Covered(task, s, g) /\ g.at \in task.goal => g.mode # task.mode
      BY CoveredStep DEF AtTerminal, TerminalMode
<1>6. CASE task.mode = "cruise"
  <2>1. atGoal = {}
        BY <1>2, <1>5, <1>6
  <2>2. QED
        BY <1>6, <2>1 DEF Possible, atGoal, reached
<1>7. CASE task.mode = "observe"
  <2>1. SUFFICES ASSUME NEW o \in observed PROVE FALSE
        BY <1>7 DEF Possible, observed, atGoal, reached
  <2>2. PICK r \in atGoal : r.time + ObserveTime <= task.energy
        BY <1>3
  <2>3. PICK g \in LatticeRecord : g.mode = "cruise" /\ g.at \in task.goal /\ g.time <= r.time /\ Covered(task, s, g)
        BY <1>2
  <2>4. g.time + ObserveTime <= task.energy
        BY <1>1, <1>2, <2>2, <2>3, LatticeRecordIs, LimitsAre
  <2>5. Covered(task, s, Change(g, 0))
        BY <1>7, <2>3, <2>4, CoveredObservation
  <2>6. Change(g, 0) \in LatticeRecord /\ Change(g, 0).mode = "observe" /\ Change(g, 0).at \in task.goal
        BY <2>3, ObservationIs
  <2>7. QED
        BY <1>5, <1>7, <2>5, <2>6
<1>8. CASE task.mode = "wait"
  <2>1. SUFFICES ASSUME NEW x \in waited PROVE FALSE
        BY <1>8 DEF Possible, waited, observed, atGoal, reached
  <2>2. PICK r \in atGoal : r.time + ObserveTime <= task.energy /\ r.time + ObserveTime + WaitTime <= task.energy
        BY <1>4
  <2>3. PICK g \in LatticeRecord : g.mode = "cruise" /\ g.at \in task.goal /\ g.time <= r.time /\ Covered(task, s, g)
        BY <1>2
  <2>4. g.time + ObserveTime <= task.energy /\ g.time + ObserveTime + WaitTime <= task.energy
        BY <1>1, <1>2, <2>2, <2>3, LatticeRecordIs, LimitsAre
  <2>5. Covered(task, s, Change(Change(g, 0), 0))
        BY <1>8, <2>3, <2>4, CoveredObservation
  <2>6. LET w == Change(Change(g, 0), 0) IN w \in LatticeRecord /\ w.mode = "wait" /\ w.at \in task.goal
        BY <2>3, ObservationIs
  <2>7. QED
        BY <1>5, <1>8, <2>5, <2>6
<1>9. QED
      BY <1>1, <1>6, <1>7, <1>8 DEF Modes

\* Where r would be after an observation and a wait on its way.
Later(r, w) ==
  /\ w \in LatticeRecord /\ w.mode = "wait" /\ w.at = r.at /\ w.heading = r.heading
  /\ w.time = r.time + ObserveTime + WaitTime

\* What cruises is covered, as it is or after an observation on its way.
Overtaken(s, r) ==
  /\ r \in LatticeRecord /\ r.mode = "cruise"
  /\ r.time + ObserveTime + WaitTime <= task.energy =>
       Covered(task, s, r) \/ \E w : Later(r, w) /\ Covered(task, s, w)

LEMMA ObservedOnTheWay ==
  ASSUME task \in Tasks, NEW s, Finished(task, s), task.exit # {}, NEW r \in LatticeRecord, r.mode = "cruise",
         r.at \in task.goal, r.time + ObserveTime + WaitTime <= task.energy,
         Covered(task, s, r)
  PROVE  \E w : Later(r, w) /\ Covered(task, s, w)
<1>1. r.time + ObserveTime <= task.energy
  <2>1. r.time \in Nat /\ ObserveTime \in Nat /\ WaitTime \in Nat /\ task.energy \in Nat
        BY LatticeRecordIs, LimitsAre, TaskIs
  <2>2. QED
        BY <2>1
<1>2. Covered(task, s, Change(Change(r, 0), 0))
      BY <1>1, CoveredObservation
<1>3. Later(r, Change(Change(r, 0), 0))
      BY ObservationIs DEF Later
<1>4. QED
      BY <1>2, <1>3

LEMMA AllOvertaken ==
  ASSUME task \in Tasks, NEW s, Finished(task, s), task.exit # {}, NEW r \in ReachableFrom({FirstRecord(task)})
  PROVE  Overtaken(s, r)
<1> DEFINE S == {x \in LatticeRecord : Overtaken(s, x)}
<1>1. {FirstRecord(task)} \subseteq S
      BY FirstIs DEF Overtaken, Finished
<1>2. ASSUME NEW x \in S, NEW n \in MovesFrom(x) PROVE n \in S
  <2>1. x \in LatticeRecord /\ Overtaken(s, x) /\ x.mode = "cruise" /\ x.time \in Nat
        BY LatticeRecordIs DEF Overtaken
  <2>2. PICK h \in 1..8 : n = MoveOn(task, x, h, 0) /\ EdgeAllowed(task, x, n) /\ NextCell(task, x, h, 0, n)
        BY <2>1, MovesFromIs DEF Finished
  <2>3. /\ n \in LatticeRecord /\ n.mode = "cruise" /\ n.heading = h /\ n.time = x.time + Length(h) /\ Length(h) \in Nat
        /\ n.at = <<x.at[1] + Headings[h][1], x.at[2] + Headings[h][2]>>
        BY <2>1, <2>2, HeadingsAre DEF NextCell
  <2>4. SUFFICES ASSUME n.time + ObserveTime + WaitTime <= task.energy
                 PROVE  Covered(task, s, n) \/ \E w : Later(n, w) /\ Covered(task, s, w)
        BY <2>3 DEF Overtaken
  <2>5. x.time + ObserveTime + WaitTime <= task.energy
    <3> DEFINE L == Length(h)
    <3>1. n.time = x.time + L /\ L \in Nat /\ n.time \in Nat
          BY <2>3, LatticeRecordIs
    <3> HIDE DEF L
    <3>2. ObserveTime \in Nat /\ WaitTime \in Nat /\ task.energy \in Nat
          BY LimitsAre, TaskIs
    <3>3. QED
          BY <2>1, <2>4, <3>1, <3>2
  <2>6. CASE Covered(task, s, x) /\ x.at \notin task.goal
    <3>1. ~DemandsMode(task, x)
          BY <2>6 DEF DemandsMode
    <3>2. Covered(task, s, n)
          BY <2>1, <2>2, <2>6, <3>1, CoveredMove
    <3>3. QED
          BY <3>2
  <2>7. CASE ~(Covered(task, s, x) /\ x.at \notin task.goal)
    <3>1. \E w : Later(x, w) /\ Covered(task, s, w)
      <4>1. CASE Covered(task, s, x)
            BY <2>1, <2>5, <2>7, <4>1, ObservedOnTheWay
      <4>2. CASE ~Covered(task, s, x)
            BY <2>1, <2>5, <4>2 DEF Overtaken
      <4>3. QED
            BY <4>1, <4>2
    <3>2. PICK w : Later(x, w) /\ Covered(task, s, w)
          BY <3>1
    <3> DEFINE v == MoveOn(task, w, h, 0)
    <3>3. w \in LatticeRecord /\ w.mode = "wait" /\ w.at = x.at /\ w.heading = x.heading /\ w.time = x.time + ObserveTime + WaitTime
          BY <3>2 DEF Later
    <3>4. NextCell(task, w, h, 0, v)
      <4>1. 0 \in Nat
            OBVIOUS
      <4>2. QED
            BY <3>3, <4>1, MoveIs
    <3> HIDE DEF v
    <3>5. /\ v \in LatticeRecord /\ v.mode = "wait" /\ v.at = n.at /\ v.heading = n.heading
          /\ v.time = x.time + ObserveTime + WaitTime + Length(h)
          BY <2>3, <3>3, <3>4 DEF NextCell
    <3>6. v.time = n.time + ObserveTime + WaitTime
      <4> DEFINE L == Length(h)
      <4>1. L \in Nat /\ v.time = x.time + ObserveTime + WaitTime + L /\ n.time = x.time + L
            BY <2>3, <3>5
      <4> HIDE DEF L
      <4>2. QED
            BY <2>1, <4>1, LimitsAre
    <3>7. Later(n, v)
          BY <3>5, <3>6 DEF Later
    <3>8. EdgeAllowed(task, w, v)
      <4>1. v.time <= task.energy
            BY <2>4, <3>6
      <4>2. Bearable(task, w, v)
            BY <4>1, SimpleBears DEF Finished
      <4>3. QED
            BY <2>2, <3>3, <3>5, <4>2 DEF EdgeAllowed
    <3>9. ~DemandsMode(task, w)
          BY <3>3 DEF DemandsMode
    <3>10. Covered(task, s, v)
           BY <3>2, <3>3, <3>8, <3>9, CoveredMove DEF v
    <3>11. QED
           BY <3>7, <3>10
  <2>8. QED
        BY <2>6, <2>7
<1> HIDE DEF S
<1>3. ReachableFrom({FirstRecord(task)}) \subseteq S
      BY <1>1, <1>2, ReachableWithin
<1>4. QED
      BY <1>3 DEF S

LEMMA NothingBeyond ==
  ASSUME task \in Tasks, NEW s, Finished(task, s), task.exit # {}, records[1] = FirstRecord(task)
  PROVE  ~Possible
<1> DEFINE reached == ReachableFrom({records[1]})
           atGoal == {r \in reached : r.at \in task.goal}
           observed == Changes(atGoal)
           waited == Changes(observed)
           S == {x \in LatticeRecord : x.mode = "wait" /\ Covered(task, s, x)}
<1>1. ASSUME NEW r \in atGoal PROVE Overtaken(s, r) /\ r.at \in task.goal /\ r \in LatticeRecord /\ r.mode = "cruise"
      BY AllOvertaken DEF Overtaken
<1>2. ASSUME NEW x \in S, NEW n \in MovesFrom(x) PROVE n \in S
  <2>1. x \in LatticeRecord /\ x.mode = "wait" /\ Covered(task, s, x)
        OBVIOUS
  <2> HIDE DEF S
  <2>2. PICK h \in 1..8 : n = MoveOn(task, x, h, 0) /\ EdgeAllowed(task, x, n) /\ NextCell(task, x, h, 0, n)
        BY <2>1, MovesFromIs DEF Finished
  <2>3. n \in LatticeRecord /\ n.mode = "wait"
        BY <2>1, <2>2 DEF NextCell
  <2>4. ~DemandsMode(task, x)
        BY <2>1 DEF DemandsMode
  <2>5. Covered(task, s, n)
        BY <2>1, <2>2, <2>4, CoveredMove
  <2>6. QED
        BY <2>3, <2>5 DEF S
<1> HIDE DEF S, reached, atGoal
<1>3. ASSUME NEW x \in waited PROVE x \in S
  <2>1. PICK o \in observed : x = Change(o, 0) /\ Change(o, 0).time <= task.energy
        BY DEF Changes
  <2>2. PICK r \in atGoal : o = Change(r, 0)
        BY <2>1 DEF Changes
  <2>3. r \in LatticeRecord /\ r.mode = "cruise" /\ r.at \in task.goal /\ Overtaken(s, r)
        BY <1>1
  <2>4. /\ x \in LatticeRecord /\ x.mode = "wait" /\ x.at = r.at /\ x.heading = r.heading
        /\ x.time = r.time + ObserveTime + WaitTime
        BY <2>1, <2>2, <2>3, ObservationIs
  <2>5. r.time + ObserveTime + WaitTime <= task.energy
        BY <2>1, <2>4
  <2>6. PICK w : Later(r, w) /\ Covered(task, s, w)
        BY <2>3, <2>5, ObservedOnTheWay DEF Overtaken
  <2>7. w \in LatticeRecord /\ Alike(w, x) /\ w.time <= x.time
    <3>1. w \in LatticeRecord /\ Alike(w, x) /\ w.time = x.time
          BY <2>4, <2>6 DEF Later, Alike
    <3>2. QED
          BY <2>4, <3>1, LatticeRecordIs
  <2>8. Covered(task, s, x)
        BY <2>4, <2>6, <2>7, CoversLater DEF Finished
  <2>9. QED
        BY <2>4, <2>8 DEF S
<1> HIDE DEF observed, waited
<1>4. ReachableFrom(waited) \subseteq S
      BY <1>2, <1>3, ReachableWithin
<1>5. ASSUME NEW r \in ReachableFrom(waited), r.at \in task.exit PROVE FALSE
  <2>1. r \in LatticeRecord /\ r.mode = "wait" /\ Covered(task, s, r)
        BY <1>4 DEF S
  <2>2. ~AtTerminal(task, r)
        BY <2>1, CoveredStep
  <2>3. QED
        BY <1>5, <2>1, <2>2 DEF AtTerminal, TerminalMode
<1>6. QED
      BY <1>5 DEF Possible, waited, observed, atGoal, reached

-----------------------------------------------------------------------------
(* The invariant of the search                                             *)

Outcomes ==
  {"searching", "found_path", "found_survey_path", "no_path", "timeout", "cancelled", "budget_exhausted"}

Current == [records |-> records, frontier |-> frontier, bestOf |-> bestOf, failed |-> FALSE]

\* While it searches, and when it has found no path, all that has left the queue was
\* expanded in full and the start is covered.
Thorough ==
  Simple(task) /\ Admitted /\ outcome \in {"searching", "no_path"} =>
    /\ NoneLeftOut(task, Current, {}) /\ Covered(task, Current, FirstRecord(task))
    /\ outcome = "no_path" => frontier = {}

\* The survey that ends on the record i has moved after its observation.
LeftBy(rs, i) ==
  LET back[k \in DOMAIN rs] ==
        IF rs[k].parent = 0 THEN <<k>> ELSE Append(back[rs[k].parent], k)
      way == Range(back[i])
      after == {k \in way : rs[k].mode # "observe" /\ \E j \in way : j < k /\ rs[j].mode = "observe"}
  IN  \E j, k \in after : rs[j].at # rs[k].at

\* What a survey found ends on.
EndsWell ==
  outcome = "found_survey_path" =>
    /\ terminal \in 1..Len(records) /\ AtTerminal(task, records[terminal]) /\ records[terminal].mode # "cruise"
    /\ task.exit # {} => LeftBy(records, terminal)

LatticeInv ==
  /\ task \in Tasks /\ outcome \in Outcomes /\ expansions \in 0..MaxExpanded
  /\ Grown(task, Current) /\ terminal \in 0..Len(records) /\ (outcome = "searching" => terminal = 0)
  /\ Thorough /\ EndsWell

LEMMA CurrentIs ==
  /\ Current.records = records /\ Current.frontier = frontier /\ Current.bestOf = bestOf /\ Current.failed = FALSE
BY DEF Current

\* What is said of a state is said of its records, its queue and its best ones.
LEMMA SameState ==
  ASSUME NEW t \in Tasks, NEW s, Grown(t, s),
         NEW u, u = [records |-> s.records, frontier |-> s.frontier, bestOf |-> s.bestOf, failed |-> FALSE]
  PROVE  /\ Grown(t, u)
         /\ \A except : NoneLeftOut(t, s, except) => NoneLeftOut(t, u, except)
         /\ \A b : Covered(t, s, b) <=> Covered(t, u, b)
<1>1. u \in LatticeStates
  <2>1. s \in LatticeStates
        BY DEF Grown
  <2>2. /\ s.records \in Seq(LatticeRecord) /\ s.frontier \subseteq [record : Nat, total : LatticeTotals]
        /\ s.bestOf \in UNION {[K -> Nat] : K \in SUBSET LatticeKeys}
        BY <2>1, LatticeStateIs
  <2>3. QED
        BY <2>2 DEF LatticeStates
<1>2. u.records = s.records /\ u.frontier = s.frontier /\ u.bestOf = s.bestOf
      OBVIOUS
<1>3. Grown(t, u)
      BY <1>1, <1>2 DEF Grown
<1>4. \A j : (Kept(t, u, j) <=> Kept(t, s, j)) /\ (Queued(u, j) <=> Queued(s, j))
      BY <1>2 DEF Kept, Queued
<1>5. \A b : Covered(t, s, b) <=> Covered(t, u, b)
      BY <1>4, <1>2 DEF Covered
<1>6. \A a : Exhausted(t, s, a) <=> Exhausted(t, u, a)
      BY <1>5 DEF Exhausted
<1>7. \A except : NoneLeftOut(t, s, except) => NoneLeftOut(t, u, except)
      BY <1>4, <1>6, <1>2 DEF NoneLeftOut
<1>8. QED
      BY <1>3, <1>5, <1>7

\* Taking an entry from the queue leaves its record to be expanded.
LEMMA TakenKeeps ==
  ASSUME NEW t \in Tasks, NEW s, Grown(t, s), NEW q \in s.frontier,
         NEW u, u = [records |-> s.records, frontier |-> s.frontier \ {q}, bestOf |-> s.bestOf, failed |-> FALSE]
  PROVE  /\ Grown(t, u) /\ q.record \in 1..Len(s.records)
         /\ NoneLeftOut(t, s, {}) => NoneLeftOut(t, u, {q.record})
         /\ \A b : Covered(t, s, b) => Covered(t, u, b)
<1>1. /\ s.records \in Seq(LatticeRecord) /\ s.frontier \subseteq [record : Nat, total : LatticeTotals]
      /\ s.bestOf \in UNION {[K -> Nat] : K \in SUBSET LatticeKeys}
      BY LatticeStateIs DEF Grown
<1>2. u.records = s.records /\ u.frontier = s.frontier \ {q} /\ u.bestOf = s.bestOf
      OBVIOUS
<1>3. u \in LatticeStates
      BY <1>1 DEF LatticeStates
<1>4. IsFiniteSet(u.frontier) /\ Cardinality(u.frontier) <= MaxQueue
  <2>1. IsFiniteSet(s.frontier) /\ Cardinality(s.frontier) \in Nat /\ Cardinality(s.frontier) <= MaxQueue
        BY FS_CardinalityType DEF Grown
  <2>2. IsFiniteSet(s.frontier \ {q}) /\ Cardinality(s.frontier \ {q}) = Cardinality(s.frontier) - 1
        BY <2>1, FS_RemoveElement
  <2>3. QED
        BY <1>2, <2>1, <2>2, LimitsAre
<1>5. Grown(t, u)
      BY <1>2, <1>3, <1>4 DEF Grown
<1>6. \A j : (Kept(t, u, j) <=> Kept(t, s, j)) /\ (j # q.record => (Queued(u, j) <=> Queued(s, j)))
      BY <1>2 DEF Kept, Queued
<1>7. \A b : Covered(t, s, b) <=> Covered(t, u, b)
      BY <1>2, <1>6 DEF Covered
<1>8. \A a : Exhausted(t, s, a) <=> Exhausted(t, u, a)
      BY <1>7 DEF Exhausted
<1>9. NoneLeftOut(t, s, {}) => NoneLeftOut(t, u, {q.record})
      BY <1>2, <1>6, <1>8 DEF NoneLeftOut
<1>10. QED
       BY <1>5, <1>7, <1>9 DEF Grown

LEMMA LatticeStarts ==
  ASSUME ScoutSearchInit
  PROVE  LatticeInv
<1> DEFINE r == FirstRecord(task)
           key == KeyOf(task, r)
           q == [record |-> 1, total |-> DistanceTo(task.start, task.goal)]
           rs == << r >>
           best == [k \in {key} |-> 1]
<1>1. /\ task \in Tasks /\ outcome = "searching" /\ frontier = {q} /\ terminal = 0 /\ expansions = 0
      BY DEF ScoutSearchInit
<1>2. records = rs
      BY DEF ScoutSearchInit, FirstRecord
<1>3. rs[1] = r /\ Len(rs) = 1
      OBVIOUS
<1>4. bestOf = best
      BY <1>2, <1>3 DEF ScoutSearchInit
<1>5. r \in LatticeRecord
      BY <1>1, FirstIs
<1>6. rs \in Seq(LatticeRecord)
      BY <1>5
<1>7. key \in LatticeKeys
      BY <1>1, <1>5, KeyTyped
<1>8. best \in UNION {[K -> Nat] : K \in SUBSET LatticeKeys}
  <2> DEFINE K == {key}
  <2>1. K \in SUBSET LatticeKeys
        BY <1>7
  <2>2. best \in [K -> Nat]
        OBVIOUS
  <2> HIDE DEF K, best
  <2>3. QED
        BY <2>1, <2>2
<1>9. q \in [record : Nat, total : LatticeTotals] /\ q.record = 1
  <2>1. DistanceTo(task.start, task.goal) \in LatticeTotals
        BY <1>1 DEF LatticeTotals
  <2>2. QED
        BY <2>1
<1>10. DOMAIN best = {key} /\ best[key] = 1
       OBVIOUS
<1> HIDE DEF r, key, q, rs, best
<1> DEFINE s == Current
<1>11. s.records = rs /\ s.frontier = {q} /\ s.bestOf = best /\ s = [records |-> rs, frontier |-> {q}, bestOf |-> best, failed |-> FALSE]
       BY <1>1, <1>2, <1>4 DEF Current
<1>12. s \in LatticeStates
       BY <1>6, <1>8, <1>9, <1>11 DEF LatticeStates
<1> HIDE DEF s
<1>13. Grown(task, s)
  <2>1. Branches(task, rs)
        BY <1>3, <1>6 DEF Branches, r
  <2>2. IsFiniteSet({q}) /\ Cardinality({q}) = 1
        BY FS_Singleton
  <2>3. \A k \in DOMAIN best : best[k] \in 1..1 /\ KeyOf(task, rs[best[k]]) = k
        BY <1>3, <1>10 DEF key
  <2>4. \A e \in {q} : e.record \in 1..1
        BY <1>9
  <2>5. QED
        BY <1>3, <1>11, <1>12, <2>1, <2>2, <2>3, <2>4, LimitsAre DEF Grown
<1>14. Kept(task, s, 1)
       BY <1>3, <1>10, <1>11 DEF Kept, key
<1>15. Covered(task, s, r)
  <2>1. Alike(r, r) /\ r.time <= r.time
        BY <1>5, LatticeRecordIs DEF Alike
  <2>2. 1 \in 1..Len(s.records) /\ s.records[1] = r
        BY <1>3, <1>11
  <2>3. QED
        BY <1>14, <2>1, <2>2 DEF Covered
<1>16. NoneLeftOut(task, s, {})
  <2>1. Len(s.records) = 1 /\ \A j \in 1..1 : j = 1
        BY <1>3, <1>11
  <2>2. Queued(s, 1)
        BY <1>9, <1>11 DEF Queued
  <2>3. QED
        BY <2>1, <2>2 DEF NoneLeftOut
<1>17. Thorough
       BY <1>1, <1>15, <1>16 DEF Thorough, r, s
<1>18. EndsWell
       BY <1>1 DEF EndsWell
<1>19. terminal \in 0..Len(records)
       BY <1>1, <1>2, <1>3
<1>20. QED
       BY <1>1, <1>13, <1>17, <1>18, <1>19, LimitsAre DEF LatticeInv, Outcomes, s

LEMMA LeftIs ==
  \A i : LeftBy(records, i) <=> Moves(Exit(Trail(i)))
BY DEF LeftBy, Moves, Exit, Trail

\* Whatever happens to the outcome, the state of the search may stay as it was.
LEMMA StateStays ==
  ASSUME LatticeInv, UNCHANGED <<task, records, frontier, bestOf>>
  PROVE  task' \in Tasks /\ Grown(task', Current') /\ Current' = Current /\ (Admitted' <=> Admitted) /\ Len(records') = Len(records)
<1>1. Current' = Current
      BY DEF Current
<1>2. Admitted' <=> Admitted
      BY DEF Admitted
<1>3. QED
      BY <1>1, <1>2 DEF LatticeInv

LEMMA RefuseStartKeeps ==
  ASSUME LatticeInv, RefuseStart
  PROVE  LatticeInv'
<1>1. UNCHANGED <<task, records, frontier, bestOf, terminal, expansions>> /\ outcome = "searching" /\ outcome' = "no_path"
      BY DEF RefuseStart
<1>2. ~Admitted
      BY DEF RefuseStart, Admitted
<1>3. Thorough' /\ EndsWell'
      BY <1>1, <1>2, StateStays DEF Thorough, EndsWell
<1>4. QED
      BY <1>1, <1>3, StateStays DEF LatticeInv, Outcomes

LEMMA InterruptKeeps ==
  ASSUME LatticeInv, Interrupt
  PROVE  LatticeInv'
<1>1. /\ UNCHANGED <<task, records, frontier, bestOf, terminal, expansions>>
      /\ outcome' \in {"cancelled", "timeout", "budget_exhausted"}
      BY DEF Interrupt
<1>2. Thorough' /\ EndsWell'
      BY <1>1 DEF Thorough, EndsWell
<1>3. QED
      BY <1>1, <1>2, StateStays DEF LatticeInv, Outcomes

LEMMA NothingLeftKeeps ==
  ASSUME LatticeInv, NothingLeft
  PROVE  LatticeInv'
<1>1. /\ UNCHANGED <<task, records, frontier, bestOf, terminal, expansions>> /\ outcome = "searching"
      /\ outcome' = "no_path" /\ frontier = {} /\ Admitted
      BY DEF NothingLeft
<1>2. EndsWell'
      BY <1>1 DEF EndsWell
<1>3. Thorough'
      BY <1>1, StateStays DEF Thorough, LatticeInv
<1>4. QED
      BY <1>1, <1>2, <1>3, StateStays DEF LatticeInv, Outcomes

LEMMA DropKeeps ==
  ASSUME LatticeInv, NEW q \in frontier, DropSuperseded(q)
  PROVE  LatticeInv'
<1>1. /\ UNCHANGED <<task, outcome, records, bestOf, terminal, expansions>> /\ frontier' = frontier \ {q}
      /\ outcome = "searching" /\ Admitted /\ Superseded(q)
      BY DEF DropSuperseded, Popping
<1>2. task \in Tasks /\ Grown(task, Current) /\ q \in Current.frontier
      BY CurrentIs DEF LatticeInv
<1>3. Current' = [records |-> Current.records, frontier |-> Current.frontier \ {q}, bestOf |-> Current.bestOf, failed |-> FALSE]
      BY <1>1 DEF Current
<1>4. /\ Grown(task, Current') /\ q.record \in 1..Len(Current.records)
      /\ NoneLeftOut(task, Current, {}) => NoneLeftOut(task, Current', {q.record})
      /\ \A b : Covered(task, Current, b) => Covered(task, Current', b)
      BY <1>2, <1>3, TakenKeeps
<1>5. ~Kept(task, Current', q.record)
  <2>1. Current'.records = records /\ Current'.bestOf = bestOf
        BY <1>1 DEF Current
  <2>2. bestOf[KeyOf(task, records[q.record])] # q.record
        BY <1>1 DEF Superseded
  <2>3. QED
        BY <2>1, <2>2 DEF Kept
<1>6. NoneLeftOut(task, Current', {q.record}) => NoneLeftOut(task, Current', {})
      BY <1>5 DEF NoneLeftOut
<1>7. Thorough'
  <2>1. Simple(task) => NoneLeftOut(task, Current, {}) /\ Covered(task, Current, FirstRecord(task))
        BY <1>1 DEF LatticeInv, Thorough
  <2>2. QED
        BY <1>1, <1>4, <1>6, <2>1 DEF Thorough
<1>8. EndsWell'
      BY <1>1 DEF EndsWell
<1>9. QED
      BY <1>1, <1>4, <1>7, <1>8 DEF LatticeInv

LEMMA ArriveKeeps ==
  ASSUME LatticeInv, NEW q \in frontier, Arrive(q)
  PROVE  LatticeInv'
<1> DEFINE i == q.record
           r == records[i]
           approach == Moves(Approach(Trail(i)))
           left == Moves(Exit(Trail(i)))
<1>1. /\ UNCHANGED <<task, records, bestOf>> /\ frontier' = frontier \ {q} /\ terminal' = i
      /\ expansions' = expansions + 1 /\ expansions < MaxExpanded /\ AtTerminal(task, r)
      /\ outcome' = IF r.mode = "cruise" THEN "found_path"
                    ELSE IF ~approach \/ (task.exit # {} /\ ~left) THEN "no_path" ELSE "found_survey_path"
      BY DEF Arrive, Popping
<1>2. task \in Tasks /\ Grown(task, Current) /\ q \in Current.frontier /\ expansions \in 0..MaxExpanded
      BY CurrentIs DEF LatticeInv
<1>3. Current' = [records |-> Current.records, frontier |-> Current.frontier \ {q}, bestOf |-> Current.bestOf, failed |-> FALSE]
      BY <1>1 DEF Current
<1>4. Grown(task, Current') /\ i \in 1..Len(records)
      BY <1>2, <1>3, TakenKeeps, CurrentIs
<1>5. Branches(task, records)
      BY <1>2, CurrentIs DEF Grown
<1>6. Simple(task) /\ r.mode # "cruise" => approach /\ (task.exit # {} => left)
      BY <1>1, <1>2, <1>4, <1>5, SurveyMoves
<1> HIDE DEF i, approach, left
<1>7. Thorough'
  <2>1. SUFFICES ASSUME Simple(task) PROVE outcome' \notin {"searching", "no_path"}
        BY <1>1 DEF Thorough
  <2>2. QED
        BY <1>1, <1>6, <2>1
<1>8. EndsWell'
  <2>1. left <=> LeftBy(records, i)
        BY LeftIs DEF left
  <2>2. outcome' = "found_survey_path" => r.mode # "cruise" /\ (task.exit # {} => LeftBy(records, i))
        BY <1>1, <2>1
  <2>3. QED
        BY <1>1, <1>4, <2>2 DEF EndsWell
<1>9. expansions' \in 0..MaxExpanded
      BY <1>1, <1>2, LimitsAre
<1>10. terminal' \in 0..Len(records') /\ outcome' \in Outcomes /\ outcome' # "searching"
  <2>1. Len(records) \in Nat
        BY <1>5, RecordsAre DEF Branches
  <2>2. terminal' \in 0..Len(records')
        BY <1>1, <1>4, <2>1
  <2>3. QED
        BY <1>1, <2>2 DEF Outcomes
<1>11. QED
       BY <1>1, <1>2, <1>4, <1>7, <1>8, <1>9, <1>10 DEF LatticeInv

LEMMA ExpandKeeps ==
  ASSUME LatticeInv, NEW q \in frontier, ExpandLattice(q)
  PROVE  LatticeInv'
<1> DEFINE i == q.record
           a == records[i]
           b == [records |-> records, frontier |-> frontier \ {q}, bestOf |-> bestOf, failed |-> FALSE]
           u == PushAll(i, frontier \ {q})
<1>1. /\ records' = u.records /\ frontier' = u.frontier /\ bestOf' = u.bestOf
      /\ outcome' = IF u.failed THEN "budget_exhausted" ELSE outcome
      /\ expansions' = expansions + 1 /\ task' = task /\ terminal' = terminal
      /\ expansions < MaxExpanded /\ outcome = "searching" /\ Admitted /\ ~AtTerminal(task, a)
      BY DEF ExpandLattice, Popping
<1>2. /\ task \in Tasks /\ Grown(task, Current) /\ q \in Current.frontier /\ expansions \in 0..MaxExpanded
      /\ terminal = 0 /\ Thorough
      BY <1>1, CurrentIs DEF LatticeInv
<1>3. b = [records |-> Current.records, frontier |-> Current.frontier \ {q}, bestOf |-> Current.bestOf, failed |-> FALSE]
      BY CurrentIs
<1>4. b.records = records
      OBVIOUS
<1>5. u = PushAll(i, frontier \ {q}) /\ b = [records |-> records, frontier |-> frontier \ {q}, bestOf |-> bestOf, failed |-> FALSE]
      OBVIOUS
<1> HIDE DEF b, u
<1>6. /\ Grown(task, b) /\ i \in 1..Len(records)
      /\ NoneLeftOut(task, Current, {}) => NoneLeftOut(task, b, {i})
      /\ \A x : Covered(task, Current, x) => Covered(task, b, x)
      BY <1>2, <1>3, TakenKeeps, CurrentIs
<1>7. Simple(task) => NoneLeftOut(task, Current, {}) /\ Covered(task, Current, FirstRecord(task))
      BY <1>1, <1>2 DEF Thorough
<1>8. Expands(task, a, i, b)
      BY <1>4, <1>6, <1>7 DEF Expands
<1>9. Expands(task, a, i, u) /\ Tried(task, a, u, 9)
      BY <1>1, <1>2, <1>5, <1>6, <1>8, PushAllKeeps
<1> HIDE DEF i, a
<1>10. Current' = [records |-> u.records, frontier |-> u.frontier, bestOf |-> u.bestOf, failed |-> FALSE]
       BY <1>1 DEF Current
<1>11. Grown(task, u) /\ u.records[i] = a /\ i \in 1..Len(u.records)
       BY <1>9 DEF Expands
<1>12. /\ Grown(task, Current')
       /\ \A except : NoneLeftOut(task, u, except) => NoneLeftOut(task, Current', except)
       /\ \A x : Covered(task, u, x) <=> Covered(task, Current', x)
       BY <1>2, <1>10, <1>11, SameState
<1>13. Simple(task) /\ ~u.failed => NoneLeftOut(task, u, {}) /\ Covered(task, u, FirstRecord(task))
  <2>1. SUFFICES ASSUME Simple(task), ~u.failed PROVE NoneLeftOut(task, u, {}) /\ Covered(task, u, FirstRecord(task))
        OBVIOUS
  <2>2. NoneLeftOut(task, u, {i}) /\ Covered(task, u, FirstRecord(task))
        BY <1>9, <2>1 DEF Expands
  <2>3. \A m \in 0..8 : Offers(task, a, m) => Covered(task, u, Step(task, a, m, 0))
        BY <1>9, <2>1 DEF Tried
  <2>4. Exhausted(task, u, u.records[i])
        BY <1>1, <1>11, <2>3 DEF Exhausted
  <2>5. NoneLeftOut(task, u, {})
        BY <2>2, <2>4 DEF NoneLeftOut
  <2>6. QED
        BY <2>2, <2>5
<1>14. Thorough'
       BY <1>1, <1>12, <1>13 DEF Thorough
<1>15. EndsWell'
       BY <1>1 DEF EndsWell
<1>16. terminal' \in 0..Len(records') /\ expansions' \in 0..MaxExpanded /\ outcome' \in Outcomes
  <2>1. Len(records') \in Nat
        BY <1>1, <1>2, <1>11, GrownIs
  <2>2. QED
        BY <1>1, <1>2, <2>1, LimitsAre DEF Outcomes
<1>17. QED
       BY <1>1, <1>2, <1>12, <1>14, <1>15, <1>16 DEF LatticeInv

LEMMA LatticeKept ==
  ASSUME LatticeInv, [ScoutSearchNext]_scoutSearchVars
  PROVE  LatticeInv'
<1>1. CASE UNCHANGED scoutSearchVars
  <2>1. UNCHANGED <<task, outcome, records, frontier, bestOf, terminal, expansions>>
        BY <1>1 DEF scoutSearchVars
  <2>2. Thorough' /\ EndsWell'
        BY <2>1, StateStays DEF Thorough, EndsWell, LatticeInv
  <2>3. QED
        BY <2>1, <2>2, StateStays DEF LatticeInv
<1>2. CASE RefuseStart
      BY <1>2, RefuseStartKeeps
<1>3. CASE Interrupt
      BY <1>3, InterruptKeeps
<1>4. CASE NothingLeft
      BY <1>4, NothingLeftKeeps
<1>5. ASSUME NEW q \in frontier, DropSuperseded(q) \/ Arrive(q) \/ ExpandLattice(q) PROVE LatticeInv'
      BY <1>5, DropKeeps, ArriveKeeps, ExpandKeeps
<1>6. QED
      BY <1>1, <1>2, <1>3, <1>4, <1>5 DEF ScoutSearchNext

LEMMA LatticeSound ==
  ASSUME LatticeInv
  PROVE  ScoutSearchSound /\ ScoutSearchTypeOK
<1>1. /\ task \in Tasks /\ outcome \in Outcomes /\ expansions \in 0..MaxExpanded /\ terminal \in 0..Len(records)
      /\ Grown(task, Current) /\ Thorough /\ EndsWell
      BY DEF LatticeInv
<1>2. Branches(task, records) /\ Len(records) \in Nat
      BY <1>1, CurrentIs, GrownIs
<1>3. ASSUME terminal # 0 PROVE TrailIsLegal(Trail(terminal))
  <2>1. terminal \in 1..Len(records)
        BY <1>1, <1>2, <1>3
  <2>2. QED
        BY <1>1, <1>2, <2>1, TrailLegal
<1>4. ASSUME outcome = "found_survey_path" PROVE SurveyIsComplete(Trail(terminal))
  <2>1. /\ terminal \in 1..Len(records) /\ AtTerminal(task, records[terminal]) /\ records[terminal].mode # "cruise"
        /\ task.exit # {} => Moves(Exit(Trail(terminal)))
        BY <1>1, <1>4, LeftIs DEF EndsWell
  <2>2. QED
        BY <1>1, <1>2, <2>1, SurveyComplete
<1>5. ASSUME outcome = "no_path", Admitted, Straightforward PROVE ~Possible
  <2>1. Simple(task)
        BY <1>5 DEF Straightforward, Simple
  <2>2. Finished(task, Current)
        BY <1>1, <1>5, <2>1, CurrentIs DEF Thorough, Finished
  <2>3. records[1] = FirstRecord(task)
        BY <1>2 DEF Branches
  <2>4. QED
        BY <1>1, <2>2, <2>3, NothingThere, NothingBeyond
<1>6. ScoutSearchSound
      BY <1>3, <1>4, <1>5 DEF ScoutSearchSound
<1>7. ScoutSearchTypeOK
  <2>1. Len(records) <= MaxExpanded /\ Cardinality(frontier) <= MaxQueue
        BY <1>1, CurrentIs DEF Grown
  <2>2. \A k \in DOMAIN bestOf : bestOf[k] \in 1..Len(records)
        BY <1>1, CurrentIs DEF Grown
  <2>3. Range(bestOf) \subseteq DOMAIN records
    <3>1. DOMAIN records = 1..Len(records)
          BY <1>2, RecordsAre DEF Branches
    <3>2. QED
          BY <2>2, <3>1 DEF Range
  <2>4. QED
        BY <1>1, <2>1, <2>3 DEF ScoutSearchTypeOK, Outcomes
<1>8. QED
      BY <1>6, <1>7

\* The scout's search is sound, and complete where a scout need not wait: on a path found
\* every cell that an edge touches is free, each turn is within the yaw rate, at each of the
\* nine instants of an edge the main robot is predicted, apart and within reach, and the
\* energy suffices; a survey found was observed and left by its exit; "no_path" is only answered when the reference reaches no mission either, whatever
\* the labels merge, so long as the limits on the queue and the records are not met (a
\* search that meets them answers "budget_exhausted").
THEOREM ScoutSearchStaysSound ==
  ScoutSearchSpec => [](ScoutSearchSound /\ ScoutSearchTypeOK)
<1>1. ScoutSearchInit => LatticeInv
      BY LatticeStarts
<1>2. LatticeInv /\ [ScoutSearchNext]_scoutSearchVars => LatticeInv'
      BY LatticeKept
<1>3. LatticeInv => ScoutSearchSound /\ ScoutSearchTypeOK
      BY LatticeSound
<1>4. QED
      BY <1>1, <1>2, <1>3, PTL DEF ScoutSearchSpec
=============================================================================
