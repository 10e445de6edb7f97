---------------------------- MODULE ScoutContext ----------------------------
(* Captures of the scout planner's input context (planning_context.cpp).     *)
(* The planning source keeps one latest message per object and publishes new *)
(* ones while captures run; a capture copies the objects one after another,  *)
(* is given up when the source's generation moved meanwhile, and is admitted *)
(* against watermarks of deliveries and of business versions that only an    *)
(* admitted capture moves.  Two planners may capture with one builder.       *)
EXTENDS Integers, Sequences, FiniteSets

CONSTANTS
  Objects,        \* the logical objects of an input set
  Stream(_),      \* the delivery stream of an object, or NoStream
  NoStream,
  Reported,       \* objects stamped on the scout's clock and in its domain
  ObservedObjects,\* objects observed on the synchronized clock
  Names(_),       \* the objects whose version a message of an object names
  Paired,         \* the prediction and the coordination object
  Messages(_),    \* the messages an object's producer may publish
  First(_),       \* the message of an object the source starts with
  Instants,       \* local times of a capture
  MaxAge,         \* maximum_input_age_ns
  MaxDelta,       \* maximum_synchronization_delta_ns
  NotSynced,      \* observation time that is not synchronized
  MaxGeneration,  \* bound: generations of the source
  MaxAdmitted,    \* bound: admitted contexts
  Planners,       \* callers of capture
  NoRecord

VARIABLES
  published,   \* the source's contents, generation by generation
  capturing,   \* planner -> what it has read so far
  delivery,    \* delivery_watermarks_
  business,    \* business_watermarks_
  retired,     \* retired_delivery_sessions_
  pairing,     \* coordination_sessions_
  contexts     \* the contexts handed out

scoutContextVars == <<published, capturing, delivery, business, retired, pairing, contexts>>

Streams == {Stream(o) : o \in Objects} \ {NoStream}
On(s) == {o \in Objects : Stream(o) = s}
Generation == Len(published)
Idle == [step |-> "idle"]

\* What a producer signs: everything but the local receipt.
Wire(m) == [m EXCEPT !.received = 0]
Content(m) == [version |-> m.version, body |-> m.body]

AllMessages == UNION {Messages(o) \cup {First(o)} : o \in Objects}
SequenceNumbers == {m.sequence : m \in AllMessages}
DeliverySessions == {m.session : m \in AllMessages}

\* What a stream's watermark holds: the last delivery, and the last of each of its objects.
Records ==
  {r \in [producer : {m.producer : m \in AllMessages}, session : DeliverySessions, last : SequenceNumbers,
          wire : {Wire(m) : m \in AllMessages},
          members : UNION {[some -> [sequence : SequenceNumbers, wire : {Wire(m) : m \in AllMessages}]] :
                             some \in SUBSET Objects}] :
     \A o \in DOMAIN r.members : r.members[o].sequence <= r.last}
Contents == {Content(m) : m \in AllMessages}

ASSUME ContextAssumption ==
  /\ IsFiniteSet(Objects)
  /\ \A m \in AllMessages : m.sequence \in Int /\ m.version \in Int
  /\ NoRecord \notin Records \cup Contents

(***************************************************************************)
(* Checks of one input set against the capture's local time.               *)
(***************************************************************************)

Received(m, at) == m.received <= at /\ at - m.received <= MaxAge
InWindow(m, at) == m.ours /\ m.observed <= at /\ at <= m.until

Synchronized(inputs) ==
  LET times == {inputs[o].synced : o \in ObservedObjects}
  IN  /\ NotSynced \notin times
      /\ \A s, t \in times : s - t <= MaxDelta

\* Every version one message names of another object is the captured one, and
\* so is everything the planning dependencies name.
Matches(inputs, dependencies) ==
  /\ \A o \in Objects : \A p \in Names(o) : inputs[o].names = inputs[p].version
  /\ \A o \in Objects : dependencies[o] = Content(inputs[o])

InputsValid(read, at) ==
  /\ \A o \in Objects : Received(read.inputs[o], at)
  /\ \A o \in Reported : InWindow(read.inputs[o], at)
  /\ Synchronized(read.inputs)
  /\ Matches(read.inputs, read.dependencies)

\* One capture has one producer and one session on a stream.
OneSession(inputs) ==
  \A s \in Streams : \A o, p \in On(s) :
    inputs[o].producer = inputs[p].producer /\ inputs[o].session = inputs[p].session

(***************************************************************************)
(* Watermarks.                                                             *)
(***************************************************************************)

Record(o, m) ==
  [producer |-> m.producer, session |-> m.session, last |-> m.sequence,
   wire |-> Wire(m), members |-> [p \in {o} |-> [sequence |-> m.sequence, wire |-> Wire(m)]]]

\* Fault: sessions that were replaced are forgotten.
AnyRestart(record, m, gone) ==
  record # NoRecord /\ m.producer = record.producer /\ m.session # record.session

\* Another session of a known producer, unless it was retired.
Restarts(record, m, gone) ==
  /\ record # NoRecord
  /\ m.producer = record.producer
  /\ m.session # record.session
  /\ m.session \notin gone

Duplicate(record, o, m) ==
  /\ record # NoRecord
  /\ m.producer = record.producer
  /\ m.session = record.session
  /\ o \in DOMAIN record.members
  /\ record.members[o] = [sequence |-> m.sequence, wire |-> Wire(m)]

\* A delivery the session has not been seen to make: past all of the stream.
Advances(record, o, m) ==
  /\ record # NoRecord
  /\ m.producer = record.producer
  /\ m.session = record.session
  /\ m.sequence > record.last

Advanced(record, o, m) ==
  [record EXCEPT !.last = m.sequence, !.wire = Wire(m),
     !.members = [p \in DOMAIN @ \cup {o} |->
                    IF p = o THEN [sequence |-> m.sequence, wire |-> Wire(m)] ELSE @[p]]]

DeliveryAdmitted(record, gone, o, m) ==
  \/ record = NoRecord
  \/ Restarts(record, m, gone)
  \/ Duplicate(record, o, m)
  \/ Advances(record, o, m)

\* A version is never lowered, never changes its content, and is not delivered
\* anew within a session.
BusinessAdmitted(known, record, o, m) ==
  \/ known = NoRecord
  \/ m.version > known.version
  \/ Content(m) = known /\ ~(Stream(o) # NoStream /\ Advances(record, o, m))

Marks == [delivery |-> delivery, business |-> business, retired |-> retired, ok |-> TRUE]

\* One candidate against the staged watermarks.
Stage(marks, o, m) ==
  LET s == Stream(o)
      record == IF s = NoStream THEN NoRecord ELSE marks.delivery[s]
      gone == IF s = NoStream THEN {} ELSE marks.retired[s]
  IN  [ok |-> /\ marks.ok
              /\ s # NoStream => DeliveryAdmitted(record, gone, o, m)
              /\ BusinessAdmitted(marks.business[o], record, o, m),
       delivery |->
         IF s = NoStream \/ Duplicate(record, o, m) THEN marks.delivery
         ELSE [marks.delivery EXCEPT
                 ![s] = IF Advances(record, o, m) THEN Advanced(record, o, m) ELSE Record(o, m)],
       retired |->
         IF Restarts(record, m, gone)
           THEN [marks.retired EXCEPT ![s] = @ \cup {record.session}]
           ELSE marks.retired,
       business |-> [marks.business EXCEPT ![o] = Content(m)]]

\* The candidate taken last: each stream's are taken by sequence number.
LastOf(some, inputs) ==
  CHOOSE o \in some : \A p \in some : inputs[p].sequence <= inputs[o].sequence

Staged(inputs) ==
  LET stage[some \in SUBSET Objects] ==
        IF some = {} THEN Marks
        ELSE LET o == LastOf(some, inputs) IN Stage(stage[some \ {o}], o, inputs[o])
  IN  stage[Objects]

Sessions(inputs) == [o \in Paired |-> inputs[o].session]

\* The prediction and the coordination change sessions together.
PairTogether(inputs) ==
  (pairing # NoRecord /\ Sessions(inputs) # pairing) =>
    \A o \in Paired : inputs[o].session # pairing[o]

(***************************************************************************)
(* The source and the captures.                                            *)
(***************************************************************************)

ContextInit ==
  /\ published = << [messages |-> [o \in Objects |-> First(o)],
                     dependencies |-> [o \in Objects |-> Content(First(o))]] >>
  /\ capturing = [p \in Planners |-> Idle]
  /\ delivery = [s \in Streams |-> NoRecord]
  /\ business = [o \in Objects |-> NoRecord]
  /\ retired = [s \in Streams |-> {}]
  /\ pairing = NoRecord
  /\ contexts = << >>

\* Producers hand the source new messages, of one object or of several of a
\* stream; its planning dependencies follow, or have yet to.
Publish ==
  /\ Generation < MaxGeneration
  /\ \E s \in Streams \cup {NoStream} : \E some \in SUBSET On(s) \ {{}} :
       \E m \in [some -> UNION {Messages(o) : o \in some}], follow \in BOOLEAN :
         LET latest == published[Generation]
             after == [o \in Objects |-> IF o \in some THEN m[o] ELSE latest.messages[o]]
         IN  /\ \A o \in some : m[o] \in Messages(o) /\ m[o] # latest.messages[o]
             /\ published' = Append(published,
                  [messages |-> after,
                   dependencies |->
                     IF follow THEN [o \in Objects |-> Content(after[o])]
                     ELSE latest.dependencies])
  /\ UNCHANGED <<capturing, delivery, business, retired, pairing, contexts>>

BeginCapture(p) ==
  /\ capturing[p] = Idle
  /\ Len(contexts) < MaxAdmitted
  /\ capturing' = [capturing EXCEPT ![p] = [step |-> "begun", generation |-> Generation]]
  /\ UNCHANGED <<published, delivery, business, retired, pairing, contexts>>

\* The inputs are read object by object while the source may move on: some
\* are those of the start, the others later ones.
Torn(first) ==
  {[inputs |-> [o \in Objects |-> published[IF o \in early THEN first ELSE g].messages[o]],
    dependencies |-> published[g].dependencies,
    generation |-> Generation] :
      early \in SUBSET Objects, g \in first..Generation}

SameGeneration(began) == began = Generation

ReadInputs(p) ==
  /\ capturing[p].step = "begun"
  /\ \E read \in Torn(capturing[p].generation), at \in Instants :
       capturing' = [capturing EXCEPT ![p] =
         IF SameGeneration(@.generation) /\ InputsValid(read, at) /\ OneSession(read.inputs)
           THEN [step |-> "read", read |-> read, at |-> at]
           ELSE Idle]
  /\ UNCHANGED <<published, delivery, business, retired, pairing, contexts>>

Admissible(inputs) == PairTogether(inputs) /\ Staged(inputs).ok

\* Under the watermark lock, and all or nothing.
Admit(p) ==
  /\ capturing[p].step = "read"
  /\ LET read == capturing[p].read
         staged == Staged(read.inputs)
     IN  /\ Admissible(read.inputs)
         /\ delivery' = staged.delivery
         /\ business' = staged.business
         /\ retired' = staged.retired
         /\ pairing' = Sessions(read.inputs)
         /\ contexts' = Append(contexts,
              [inputs |-> read.inputs, generation |-> read.generation, at |-> capturing[p].at])
  /\ capturing' = [capturing EXCEPT ![p] = Idle]
  /\ UNCHANGED published

Refuse(p) ==
  /\ capturing[p].step = "read"
  /\ ~Admissible(capturing[p].read.inputs)
  /\ capturing' = [capturing EXCEPT ![p] = Idle]
  /\ UNCHANGED <<published, delivery, business, retired, pairing, contexts>>

ContextNext ==
  \/ Publish
  \/ \E p \in Planners : BeginCapture(p) \/ ReadInputs(p) \/ Admit(p) \/ Refuse(p)

ContextSpec == ContextInit /\ [][ContextNext]_scoutContextVars

(***************************************************************************)
(* Properties.                                                             *)
(***************************************************************************)

ContextTypeOK ==
  /\ Generation \in 1..MaxGeneration
  /\ \A p \in Planners : capturing[p].step \in {"idle", "begun", "read"}
  /\ \A s \in Streams : delivery[s] # NoRecord => DOMAIN delivery[s].members \subseteq On(s)
  /\ Len(contexts) <= MaxAdmitted + Cardinality(Planners)

\* What a context holds stood in the source together, was inside every local
\* window at the capture and within the synchronization tolerance.
TakenTogether ==
  \A i \in DOMAIN contexts :
    LET c == contexts[i] IN
      /\ c.inputs = published[c.generation].messages
      /\ \A o \in Reported : c.inputs[o].observed <= c.at /\ c.at <= c.inputs[o].until
      /\ \A o, p \in ObservedObjects : c.inputs[o].synced - c.inputs[p].synced <= MaxDelta

\* From one context to any later one no object goes back to an older version or
\* changes what a version says, and no delivery of a session goes back or is
\* replaced under its number.
NothingRegresses ==
  \A i, j \in DOMAIN contexts : i < j => \A o \in Objects :
    LET earlier == contexts[i].inputs[o]
        later == contexts[j].inputs[o]
    IN  /\ later.version >= earlier.version
        /\ later.version = earlier.version => later.body = earlier.body
        /\ (Stream(o) # NoStream /\ later.session = earlier.session) =>
             /\ later.sequence >= earlier.sequence
             /\ later.sequence = earlier.sequence => Wire(later) = Wire(earlier)

\* A producer session that was replaced never speaks again, and a stream never
\* changes its producer.
SessionsEndForGood ==
  \A s \in Streams : \A o \in On(s) : \A i, j \in DOMAIN contexts : i < j =>
    /\ contexts[i].inputs[o].producer = contexts[j].inputs[o].producer
    /\ contexts[i].inputs[o].session = contexts[j].inputs[o].session =>
         \A k \in i..j : contexts[k].inputs[o].session = contexts[i].inputs[o].session

\* The watermarks are those of the last context: a capture that failed left none.
MarksAreOfLastContext ==
  contexts # << >> =>
    LET last == contexts[Len(contexts)].inputs IN
      /\ \A o \in Objects : business[o] = Content(last[o])
      /\ \A s \in Streams : \A o \in On(s) :
           /\ delivery[s].session = last[o].session
           /\ delivery[s].members[o] = [sequence |-> last[o].sequence, wire |-> Wire(last[o])]
           /\ delivery[s].last >= last[o].sequence

\* However publications and the captures of several planners interleave, the
\* contexts handed out are cuts of the source that never go back.
ContextsNeverRegress ==
  TakenTogether /\ NothingRegresses /\ SessionsEndForGood /\ MarksAreOfLastContext

=============================================================================
