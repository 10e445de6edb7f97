----------------------------- MODULE MessageGate -----------------------------
(***************************************************************************)
(* MessageConsistencyGate (message_consistency.cpp): per stream a window   *)
(* of sequence numbers, a buffer for messages that came early, identifiers *)
(* of what was accepted, and a watermark.  Senders number their messages;  *)
(* the link may lose, delay, duplicate and reorder them, and receiving     *)
(* threads may read their clocks in another order than they take the mutex.*)
(*                                                                         *)
(* Abstracted: a message's key is the name and the number in its           *)
(* deduplication identity; audit records and reasons are left out.         *)
(***************************************************************************)
EXTENDS Integers, FiniteSets

CONSTANTS
  Streams,
  Kind,        \* Kind[s]: the deduplication key of the stream's policy
  Reorders,    \* the streams whose policy allows reordering
  Window,      \* Window[s]: sequence_window
  MaxMessageAge,      \* maximum_age
  Validity,    \* initial_acceptance_validity of a planning result
  Names,       \* Names[s]: message ids, map ids or request numbers
  LastSeq,      \* a sender numbers its messages 1..LastSeq[s]
  LastVersion,  \* its versions are 1..LastVersion[s]
  LastTime,     \* the clock stops at LastTime
  Nothing      \* std::nullopt

\* MessageDeduplicationKey
DedupKeys == {"message_id", "map_id_and_sequence", "request_sequence_and_revision",
              "plan_sequence", "lease_sequence"}

ASSUME StreamsAssumption ==
  /\ Reorders \subseteq Streams
  /\ Kind \in [Streams -> DedupKeys]
  /\ Window \in [Streams -> Nat \ {0}]
  /\ {LastSeq, LastVersion} \subseteq [Streams -> Nat]
  /\ DOMAIN Names = Streams
  /\ {MaxMessageAge, Validity, LastTime} \subseteq Nat

VARIABLES
  linkClock,
  sent,         \* per stream: messages on the link, forever
  nextSeq,      \* next_sequence
  lastReceive,  \* last_receive_time
  watermark,    \* watermark
  buffered,     \* buffered
  acceptedIds,  \* accepted_id_order; its second parts are accepted_ids
  ready,        \* history: the messages handed over
  accounted     \* history: numbers handed over, discarded or reported missing

gateVars == <<nextSeq, lastReceive, watermark, buffered, acceptedIds, ready, accounted>>
linkVars == <<linkClock, sent>>

Instants == 0..LastTime
Keys(s) == [name : Names[s], number : 0..LastSeq[s] + LastVersion[s]]
Message(s) == [seq : 1..LastSeq[s], version : 1..LastVersion[s], at : Instants, key : Keys(s)]

ASSUME NothingAssumption == \A s \in Streams : Nothing \notin Message(s)

\* IdentityValidator: the number in a key has to repeat what the envelope says; a
\* message id has none.
HasIdentity(s, m) ==
  m.key.number = CASE Kind[s] = "message_id" -> 0
                   [] Kind[s] = "request_sequence_and_revision" -> m.version
                   [] OTHER -> m.seq

\* ValidatedDeduplicationIdentity
Identity(s, m) ==
  IF Kind[s] \in {"plan_sequence", "lease_sequence"} THEN [m.key EXCEPT !.name = Nothing]
  ELSE m.key

GateInit ==
  /\ linkClock = 0
  /\ sent = [s \in Streams |-> {}]
  /\ nextSeq = [s \in Streams |-> 1]
  /\ lastReceive = [s \in Streams |-> Nothing]
  /\ watermark = [s \in Streams |-> Nothing]
  /\ buffered = [s \in Streams |-> {}]
  /\ acceptedIds = [s \in Streams |-> {}]
  /\ ready = [s \in Streams |-> {}]
  /\ accounted = [s \in Streams |-> {}]

-----------------------------------------------------------------------------
(* Faults the runs must notice                                             *)

AnySeq(s, m) == FALSE
ForgetsEarly(s, ids, next) == {a \in ids : next - a.seq < Window[s]}
AnyVersion(s, run, t) == {b \in run : t - b.at <= MaxMessageAge}
Unreported(s, m) == {}
SkipsOne(messages) == (CHOOSE b \in messages : \A c \in messages : c.seq <= b.seq).seq + 2

-----------------------------------------------------------------------------
(* receive                                                                 *)

StillFresh(m, t) == t - m.at <= MaxMessageAge

\* A planning result is first accepted only within its own validity.
FirstUseExpired(s, m, t) == Kind[s] = "plan_sequence" /\ t - m.at >= Validity

\* version older than the watermark's
Regressive(s, m) == watermark[s] # Nothing /\ m.version < watermark[s].version

\* The identity was accepted, or waits in the buffer.
Known(s, m) ==
  \/ \E a \in acceptedIds[s] : a.id = Identity(s, m)
  \/ \E b \in buffered[s] : Identity(s, b) = Identity(s, m)

OutsideWindow(s, m) == m.seq - nextSeq[s] >= Window[s]

\* The tests of receive, in its order.
Disposition(s, m, t) ==
  CASE ~HasIdentity(s, m)                           -> "invalid"
    [] m.at > t                                     -> "future_timestamp"
    [] lastReceive[s] # Nothing /\ t < lastReceive[s]  -> "receive_time_regression"
    [] FirstUseExpired(s, m, t) \/ ~StillFresh(m, t)     -> "too_old"
    [] Known(s, m)                                  -> "duplicate"
    [] \E b \in buffered[s] : b.seq = m.seq         -> "duplicate"
    [] m.seq < nextSeq[s]                           -> "sequence_regression"
    [] Regressive(s, m)                             -> "version_regression"
    [] OutsideWindow(s, m)                          -> "sequence_outside_window"
    [] OTHER                                        -> "admitted"

\* Where the stream continues: without reordering it skips to the message.
Continues(s, m) == IF s \in Reorders THEN nextSeq[s] ELSE m.seq

\* The numbers skipped (missing_sequence_range).
Missing(s, m) == nextSeq[s] .. Continues(s, m) - 1

Buffer(s, m, t) ==
  /\ Disposition(s, m, t) = "admitted"
  /\ m.seq # Continues(s, m)
  /\ lastReceive' = [lastReceive EXCEPT ![s] = t]
  /\ buffered' = [buffered EXCEPT ![s] = @ \cup {m}]
  /\ UNCHANGED <<nextSeq, watermark, acceptedIds, ready, accounted>>

\* The unbroken run of buffered messages that starts with m.
RunFrom(s, m) ==
  {b \in buffered[s] \cup {m} :
     \A n \in m.seq .. b.seq : \E c \in buffered[s] \cup {m} : c.seq = n}

\* Of a run, what is handed over at time t: still fresh, and not older in version
\* than the watermark and the fresh messages before it.
Released(s, run, t) ==
  {b \in run :
     /\ StillFresh(b, t)
     /\ ~Regressive(s, b)
     /\ \A c \in run : c.seq < b.seq /\ StillFresh(c, t) => b.version >= c.version}

Newest(messages) == CHOOSE b \in messages : \A c \in messages : c.seq <= b.seq

Following(messages) == Newest(messages).seq + 1

\* Identifiers are forgotten once they fall out of the window.
Remembered(s, ids, next) == {a \in ids : next - a.seq <= Window[s]}

Accept(s, m, t) ==
  LET run  == RunFrom(s, m)
      out  == Released(s, run, t)
      next == Following(run)
  IN  /\ Disposition(s, m, t) = "admitted"
      /\ m.seq = Continues(s, m)
      /\ lastReceive' = [lastReceive EXCEPT ![s] = t]
      /\ buffered' = [buffered EXCEPT ![s] = @ \ run]
      /\ nextSeq' = [nextSeq EXCEPT ![s] = next]
      /\ watermark' = [watermark EXCEPT ![s] = Newest(out)]
      /\ acceptedIds' =
           [acceptedIds EXCEPT ![s] = Remembered(s,
              @ \cup {[seq |-> b.seq, id |-> Identity(s, b)] : b \in out}, next)]
      /\ ready' = [ready EXCEPT ![s] = @ \cup out]
      /\ accounted' = [accounted EXCEPT ![s] =
           @ \cup {b.seq : b \in run} \cup Missing(s, m)]

\* A refused message changes nothing; receive answers why.
Receive(s, m, t) == Buffer(s, m, t) \/ Accept(s, m, t)

-----------------------------------------------------------------------------
(* The senders and the link                                                *)

\* A sender numbers its messages in order and stamps them with the clock; it may
\* repeat a name, and its version may fall back after a restart.
Publish(s) ==
  \E version \in 1..LastVersion[s], key \in Keys(s) :
    LET m == [seq |-> Cardinality(sent[s]) + 1, version |-> version, at |-> linkClock,
              key |-> key]
    IN  /\ m.seq <= LastSeq[s]
        /\ HasIdentity(s, m)
        /\ sent' = [sent EXCEPT ![s] = @ \cup {m}]
        /\ UNCHANGED linkClock

LinkTick == linkClock < LastTime /\ linkClock' = linkClock + 1 /\ UNCHANGED sent

LinkNext ==
  /\ \/ LinkTick
     \/ \E s \in Streams : Publish(s)
  /\ UNCHANGED gateVars

\* A message arrives any number of times, in any order, or never.
GateNext ==
  /\ \E s \in Streams : \E m \in sent[s], t \in 0..linkClock : Receive(s, m, t)
  /\ UNCHANGED linkVars

GateSpec == GateInit /\ [][LinkNext \/ GateNext]_<<linkVars, gateVars>>

-----------------------------------------------------------------------------
(* Properties                                                              *)

\* Every variable stays in its domain.
GateTypeOK ==
  /\ linkClock \in Instants
  /\ \A s \in Streams :
       /\ sent[s] \subseteq Message(s)
       /\ nextSeq[s] \in 1..LastSeq[s] + 1
       /\ lastReceive[s] \in Instants \cup {Nothing}
       /\ watermark[s] \in Message(s) \cup {Nothing}
       /\ buffered[s] \subseteq Message(s)
       /\ ready[s] \subseteq Message(s)
       /\ accounted[s] \subseteq 1..LastSeq[s]

\* Nothing is lost silently: every number below the next one was handed over,
\* discarded, or reported missing, whatever the link did.
NoSilentLoss ==
  \A s \in Streams : accounted[s] = 1 .. nextSeq[s] - 1

\* The buffer holds at most a window of numbers, each once and none of them due,
\* and only on streams that reorder: an unbounded outage cannot fill it.
BufferWithinWindow ==
  \A s \in Streams :
    /\ s \notin Reorders => buffered[s] = {}
    /\ \A b \in buffered[s] : nextSeq[s] < b.seq /\ b.seq < nextSeq[s] + Window[s]
    /\ \A b, c \in buffered[s] : b.seq = c.seq => b = c

\* An identifier is handed over twice only further apart than the window that
\* remembers it, whichever duplicates the link made.
NoDuplicateInWindow ==
  \A s \in Streams : \A b, c \in ready[s] :
    Identity(s, b) = Identity(s, c) /\ b.seq < c.seq => c.seq - b.seq > Window[s]

\* Consumers see growing numbers and versions on every stream.
HandedOver ==
  [s \in Streams |-> IF watermark[s] = Nothing THEN [seq |-> 0, version |-> 0]
                     ELSE [seq |-> watermark[s].seq, version |-> watermark[s].version]]

Ordered == INSTANCE OrderedDelivery WITH latest <- HandedOver
DeliversInOrder == Ordered!Spec
=============================================================================
