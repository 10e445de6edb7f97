--------------------------- MODULE ExchangeProofs ----------------------------
(***************************************************************************)
(* What the exchange of messages and snapshots never does, for any         *)
(* streams, windows, policies, senders, sensors, ages and bounds, whatever *)
(* the link loses, repeats or reorders.                                    *)
(***************************************************************************)
EXTENDS CommunicationRecovery, SynchronizedCapture, FiniteSetTheorems,
        WellFoundedInduction, TLAPS

-----------------------------------------------------------------------------
(***************************************************************************)
(* The message gate: nothing is lost silently, the buffer is bounded, no   *)
(* identifier comes twice, and the gate implements ordered delivery.       *)
(***************************************************************************)

\* The variables are functions of the streams.
Functions ==
  /\ DOMAIN sent = Streams /\ DOMAIN nextSeq = Streams /\ DOMAIN lastReceive = Streams
  /\ DOMAIN watermark = Streams /\ DOMAIN buffered = Streams /\ DOMAIN acceptedIds = Streams
  /\ DOMAIN ready = Streams /\ DOMAIN accounted = Streams

StreamTyped(s) ==
  /\ sent[s] \subseteq Message(s) /\ IsFiniteSet(sent[s])
  /\ nextSeq[s] \in 1..LastSeq[s] + 1
  /\ lastReceive[s] \in Instants \cup {Nothing}
  /\ watermark[s] \in Message(s) \cup {Nothing}
  /\ buffered[s] \subseteq Message(s)
  /\ ready[s] \subseteq Message(s)

\* What was handed over has numbers below the next one.
Behind(s) ==
  /\ watermark[s] # Nothing => watermark[s].seq < nextSeq[s]
  /\ \A b \in ready[s] : b.seq < nextSeq[s]

\* The identifiers handed over within the window are on record.
IdsKnown(s) ==
  \A b \in ready[s] :
    nextSeq[s] - b.seq <= Window[s] => [seq |-> b.seq, id |-> Identity(s, b)] \in acceptedIds[s]

\* What waits shares its identifier with nothing on record and nothing else that waits.
BufferedAreNew(s) ==
  /\ \A b \in buffered[s] : \A a \in acceptedIds[s] : a.id # Identity(s, b)
  /\ \A b, c \in buffered[s] : Identity(s, b) = Identity(s, c) => b = c

BufferOf(s) ==
  /\ s \notin Reorders => buffered[s] = {}
  /\ \A b \in buffered[s] : nextSeq[s] < b.seq /\ b.seq < nextSeq[s] + Window[s]
  /\ \A b, c \in buffered[s] : b.seq = c.seq => b = c

DistinctIds(s) ==
  \A b, c \in ready[s] :
    Identity(s, b) = Identity(s, c) /\ b.seq < c.seq => c.seq - b.seq > Window[s]

AccountedFor(s) == accounted[s] = 1 .. nextSeq[s] - 1

StreamInv(s) ==
  /\ StreamTyped(s) /\ Behind(s) /\ IdsKnown(s) /\ BufferedAreNew(s)
  /\ BufferOf(s) /\ DistinctIds(s) /\ AccountedFor(s)

StreamsInv ==
  /\ linkClock \in Instants
  /\ Functions
  /\ \A s \in Streams : StreamInv(s)

-----------------------------------------------------------------------------
(* Lemmas about the operators                                              *)

\* The constants of a stream.
LEMMA StreamConstants ==
  ASSUME NEW s \in Streams
  PROVE  LastSeq[s] \in Nat /\ LastVersion[s] \in Nat /\ Window[s] \in Nat /\ Window[s] > 0
BY StreamsAssumption DEF StreamsAssumption

\* A bounded set of numbers that is not empty has a largest element.
LEMMA Largest ==
  ASSUME NEW n \in Nat, NEW S, S \subseteq 1..n, S # {}
  PROVE  \E x \in S : \A y \in S : y <= x
<1> DEFINE Above(x) == {y \in S : y > x}
           Uppers == {Above(x) : x \in S}
<1>1. IsFiniteSet(S)
  <2>1. IsFiniteSet(1..n)
        BY FS_Interval
  <2>2. QED
        BY <2>1, FS_Subset
<1>2. Uppers \subseteq FiniteSubsetsOf(S) /\ Uppers # {}
  <2>1. FiniteSubsetsOf(S) = SUBSET S
        BY <1>1, FS_FiniteSubsetsOfFinite
  <2>2. \A x \in S : Above(x) \in SUBSET S
        OBVIOUS
  <2>3. \E x : x \in S
        OBVIOUS
  <2>4. Uppers \subseteq SUBSET S
    <3> HIDE DEF Above
    <3>1. QED
          BY <2>2
  <2>5. Uppers # {}
    <3> HIDE DEF Above
    <3>1. QED
          BY <2>3
  <2>6. QED
        BY <2>1, <2>4, <2>5
<1>3. PICK least \in Uppers : \A other \in Uppers : <<other, least>> \notin StrictSubsetOrdering(S)
  <2> HIDE DEF Uppers
  <2>1. QED
        BY <1>2, FS_StrictSubsetOrderingWellFounded, WFMin
<1>4. PICK x \in S : least = Above(x)
      BY <1>3
<1>5. ASSUME NEW y \in S, y > x PROVE FALSE
  <2>1. x \in Int /\ y \in Int /\ S \subseteq Int
        OBVIOUS
  <2>2. y \in Above(x)
        BY <1>5
  <2>3. y \notin Above(y)
        BY <2>1
  <2>4. \A z \in S : z > y => z > x
        BY <2>1, <1>5
  <2>5. Above(y) \subseteq Above(x)
        BY <2>4
  <2>6. Above(y) \subseteq Above(x) /\ Above(y) # Above(x)
    <3> HIDE DEF Above
    <3>1. QED
          BY <2>2, <2>3, <2>5
  <2>7. <<Above(y), Above(x)>> \in StrictSubsetOrdering(S)
        BY <2>6 DEF StrictSubsetOrdering
  <2>8. QED
        BY <1>3, <1>4, <2>7
<1>6. QED
      BY <1>5

\* Newest picks the message with the largest number.
LEMMA NewestFacts ==
  ASSUME NEW s \in Streams, NEW X, X \subseteq Message(s), X # {}
  PROVE  Newest(X) \in X /\ \A c \in X : c.seq <= Newest(X).seq
<1> DEFINE S == {b.seq : b \in X}
<1>1. S \subseteq 1..LastSeq[s] /\ S # {}
      BY DEF Message
<1>2. PICK x \in S : \A y \in S : y <= x
  <2> HIDE DEF S
  <2>1. QED
        BY <1>1, Largest, StreamConstants
<1>3. \E b \in X : \A c \in X : c.seq <= b.seq
      BY <1>2
<1>4. QED
      BY <1>3 DEF Newest

\* What an admitted message has passed.
LEMMA AdmittedFacts ==
  ASSUME NEW s, NEW m, NEW t, Disposition(s, m, t) = "admitted"
  PROVE  /\ StillFresh(m, t) /\ ~Known(s, m) /\ ~Regressive(s, m) /\ ~OutsideWindow(s, m)
         /\ ~(m.seq < nextSeq[s])
         /\ ~\E b \in buffered[s] : b.seq = m.seq
BY DEF Disposition

-----------------------------------------------------------------------------
(* What an accepted message brings with it                                 *)

\* The message was sent, is due or beyond, and is not among those that wait.
LEMMA AdmittedTyped ==
  ASSUME NEW s \in Streams, StreamInv(s), NEW m \in sent[s], NEW t,
         Disposition(s, m, t) = "admitted"
  PROVE  /\ m \in Message(s) /\ m.seq \in 1..LastSeq[s]
         /\ nextSeq[s] \in 1..LastSeq[s] + 1 /\ nextSeq[s] <= m.seq
         /\ m.seq < nextSeq[s] + Window[s]
         /\ \A b \in buffered[s] : b.seq # m.seq /\ Identity(s, b) # Identity(s, m)
         /\ \A a \in acceptedIds[s] : a.id # Identity(s, m)
<1>1. m \in Message(s) /\ m.seq \in 1..LastSeq[s] /\ nextSeq[s] \in 1..LastSeq[s] + 1
      BY DEF StreamInv, StreamTyped, Message
<1>2. ~(m.seq < nextSeq[s]) /\ ~OutsideWindow(s, m) /\ ~Known(s, m)
      BY AdmittedFacts
<1>3. ~\E b \in buffered[s] : b.seq = m.seq
      BY AdmittedFacts
<1>4. nextSeq[s] <= m.seq
      BY <1>1, <1>2, StreamConstants
<1>5. m.seq < nextSeq[s] + Window[s]
      BY <1>1, <1>2, StreamConstants DEF OutsideWindow
<1>6. QED
      BY <1>1, <1>2, <1>3, <1>4, <1>5 DEF Known

\* The run that an accepted message completes is unbroken, and nothing that waits
\* behind it is due.
LEMMA RunFacts ==
  ASSUME NEW s \in Streams, StreamInv(s), NEW m \in sent[s], NEW t,
         Disposition(s, m, t) = "admitted", m.seq = Continues(s, m),
         NEW run, run = RunFrom(s, m)
  PROVE  /\ m \in run /\ run \subseteq buffered[s] \cup {m} /\ run \subseteq Message(s)
         /\ Newest(run) \in run /\ \A b \in run : m.seq <= b.seq /\ b.seq <= Newest(run).seq
         /\ \A n \in m.seq .. Newest(run).seq : \E c \in run : c.seq = n
         /\ \A b \in buffered[s] \ run : b.seq > Newest(run).seq + 1
<1>1. /\ m \in Message(s) /\ m.seq \in 1..LastSeq[s]
      /\ nextSeq[s] \in 1..LastSeq[s] + 1 /\ nextSeq[s] <= m.seq
      BY AdmittedTyped
<1>2. /\ buffered[s] \subseteq Message(s)
      /\ \A b \in Message(s) : b.seq \in Int
      BY DEF StreamInv, StreamTyped, Message
<1>3. \A b \in buffered[s] : m.seq < b.seq
      BY <1>1, <1>2 DEF StreamInv, BufferOf, Continues
<1>4. run = {b \in buffered[s] \cup {m} :
               \A n \in m.seq .. b.seq : \E c \in buffered[s] \cup {m} : c.seq = n}
      BY DEF RunFrom
<1>5. m \in run
      BY <1>1, <1>4
<1>6. run \subseteq buffered[s] \cup {m} /\ run \subseteq Message(s)
      BY <1>1, <1>2, <1>4
<1>7. Newest(run) \in run /\ \A b \in run : b.seq <= Newest(run).seq
      BY <1>5, <1>6, NewestFacts
<1>8. \A b \in run : m.seq <= b.seq
      BY <1>1, <1>2, <1>3, <1>6
<1> DEFINE top == Newest(run).seq
<1>9. top \in Int /\ m.seq \in Int
      BY <1>1, <1>2, <1>6, <1>7
<1>10. \A n \in m.seq .. top : \E c \in buffered[s] \cup {m} : c.seq = n
      BY <1>4, <1>7
<1>11. ASSUME NEW n \in m.seq .. top PROVE \E c \in run : c.seq = n
  <2>1. PICK c \in buffered[s] \cup {m} : c.seq = n
        BY <1>10
  <2>2. m.seq .. c.seq \subseteq m.seq .. top
        BY <1>9, <2>1
  <2>3. c \in run
        BY <1>4, <1>10, <2>2
  <2>4. QED
        BY <2>1, <2>3
<1>12. ASSUME NEW b \in buffered[s] \ run, ~(b.seq > top + 1) PROVE FALSE
  <2>1. b.seq \in Int /\ b.seq <= top + 1
        BY <1>2, <1>9, <1>12
  <2>2. ASSUME NEW n \in m.seq .. b.seq PROVE \E c \in buffered[s] \cup {m} : c.seq = n
    <3>1. CASE n <= top
          BY <1>9, <1>10, <2>1, <3>1
    <3>2. CASE ~(n <= top)
      <4>1. n = b.seq
            BY <1>9, <2>1, <3>2
      <4>2. QED
            BY <4>1
    <3>3. QED
          BY <3>1, <3>2
  <2>3. QED
        BY <1>4, <1>12, <2>2
<1>13. QED
      BY <1>5, <1>6, <1>7, <1>8, <1>11, <1>12

\* Of a run, at least the message that completes it is handed over.
LEMMA ReleasedFacts ==
  ASSUME NEW s \in Streams, StreamInv(s), NEW m \in sent[s], NEW t,
         Disposition(s, m, t) = "admitted", m.seq = Continues(s, m),
         NEW out, out = Released(s, RunFrom(s, m), t)
  PROVE  /\ m \in out /\ out \subseteq RunFrom(s, m)
         /\ Newest(out) \in out /\ Newest(out) \in Message(s)
         /\ ~Regressive(s, Newest(out))
<1> DEFINE run == RunFrom(s, m)
<1>1. m \in run /\ run \subseteq Message(s) /\ \A b \in run : m.seq <= b.seq
      BY RunFacts
<1>2. StillFresh(m, t) /\ ~Regressive(s, m)
      BY AdmittedFacts
<1>3. m.seq \in Int /\ \A b \in run : b.seq \in Int
      BY <1>1 DEF Message
<1>4. m \in out
      BY <1>1, <1>2, <1>3 DEF Released
<1>5. out \subseteq run /\ \A b \in out : ~Regressive(s, b)
      BY DEF Released
<1>6. out \subseteq Message(s)
      BY <1>1, <1>5
<1>7. Newest(out) \in out
      BY <1>4, <1>6, NewestFacts
<1>8. QED
      BY <1>4, <1>5, <1>6, <1>7

-----------------------------------------------------------------------------
(* A step of the gate                                                      *)

\* What Buffer and Accept assign, at the stream they are about.
LEMMA AcceptAssigns ==
  ASSUME NEW s \in Streams, Functions, NEW m, NEW t, Accept(s, m, t),
         NEW run, run = RunFrom(s, m), NEW out, out = Released(s, run, t)
  PROVE  /\ lastReceive'[s] = t /\ buffered'[s] = buffered[s] \ run
         /\ nextSeq'[s] = Newest(run).seq + 1 /\ watermark'[s] = Newest(out)
         /\ acceptedIds'[s] =
              {a \in acceptedIds[s] \cup {[seq |-> b.seq, id |-> Identity(s, b)] : b \in out} :
                 (Newest(run).seq + 1) - a.seq <= Window[s]}
         /\ ready'[s] = ready[s] \cup out
         /\ accounted'[s] = accounted[s] \cup {b.seq : b \in run} \cup Missing(s, m)
<1>1. /\ lastReceive' = [lastReceive EXCEPT ![s] = t]
      /\ buffered' = [buffered EXCEPT ![s] = @ \ run]
      /\ nextSeq' = [nextSeq EXCEPT ![s] = Following(run)]
      /\ watermark' = [watermark EXCEPT ![s] = Newest(out)]
      /\ acceptedIds' = [acceptedIds EXCEPT ![s] = Remembered(s,
           @ \cup {[seq |-> b.seq, id |-> Identity(s, b)] : b \in out}, Following(run))]
      /\ ready' = [ready EXCEPT ![s] = @ \cup out]
      /\ accounted' = [accounted EXCEPT ![s] = @ \cup {b.seq : b \in run} \cup Missing(s, m)]
      BY DEF Accept
<1>2. /\ lastReceive'[s] = t /\ buffered'[s] = buffered[s] \ run
      /\ nextSeq'[s] = Newest(run).seq + 1 /\ watermark'[s] = Newest(out)
      BY <1>1 DEF Functions, Following
<1> DEFINE known == acceptedIds[s] \cup {[seq |-> b.seq, id |-> Identity(s, b)] : b \in out}
<1>3. acceptedIds'[s] = {a \in known : (Newest(run).seq + 1) - a.seq <= Window[s]}
  <2>1. acceptedIds'[s] = Remembered(s, known, Following(run))
        BY <1>1, Zenon DEF Functions
  <2>2. Remembered(s, known, Following(run)) = {a \in known : (Newest(run).seq + 1) - a.seq <= Window[s]}
    <3> HIDE DEF known
    <3>1. QED
          BY DEF Remembered, Following
  <2> HIDE DEF known
  <2>3. QED
        BY <2>1, <2>2
<1>4. ready'[s] = ready[s] \cup out
      BY <1>1 DEF Functions
<1>5. accounted'[s] = accounted[s] \cup {b.seq : b \in run} \cup Missing(s, m)
      BY <1>1, Zenon DEF Functions
<1>6. QED
      BY <1>2, <1>3, <1>4, <1>5, Zenon

\* A message that is accepted keeps everything the stream relies on.
LEMMA AcceptKeeps ==
  ASSUME NEW s \in Streams, StreamsInv, NEW m \in sent[s], NEW t \in 0..linkClock, Accept(s, m, t),
         UNCHANGED linkVars
  PROVE  StreamInv(s)'
<1> DEFINE run == RunFrom(s, m)
           out == Released(s, run, t)
           top == Newest(run).seq
<1>1. StreamInv(s) /\ Functions /\ linkClock \in Instants
      BY DEF StreamsInv
<1>2. Disposition(s, m, t) = "admitted" /\ m.seq = Continues(s, m)
      BY DEF Accept
<1>3. /\ m \in Message(s) /\ m.seq \in 1..LastSeq[s]
      /\ nextSeq[s] \in 1..LastSeq[s] + 1 /\ nextSeq[s] <= m.seq
      /\ \A b \in buffered[s] : Identity(s, b) # Identity(s, m)
      /\ \A a \in acceptedIds[s] : a.id # Identity(s, m)
      BY <1>1, <1>2, AdmittedTyped
<1>4. /\ m \in run /\ run \subseteq buffered[s] \cup {m} /\ run \subseteq Message(s)
      /\ Newest(run) \in run /\ \A b \in run : m.seq <= b.seq /\ b.seq <= top
      /\ \A n \in m.seq .. top : \E c \in run : c.seq = n
      /\ \A b \in buffered[s] \ run : b.seq > top + 1
      BY <1>1, <1>2, RunFacts
<1>5. /\ m \in out /\ out \subseteq run /\ Newest(out) \in out /\ Newest(out) \in Message(s)
      BY <1>1, <1>2, ReleasedFacts
<1>6. /\ lastReceive'[s] = t /\ buffered'[s] = buffered[s] \ run
      /\ nextSeq'[s] = top + 1 /\ watermark'[s] = Newest(out)
      /\ acceptedIds'[s] =
           {a \in acceptedIds[s] \cup {[seq |-> b.seq, id |-> Identity(s, b)] : b \in out} :
              (top + 1) - a.seq <= Window[s]}
      /\ ready'[s] = ready[s] \cup out
      /\ accounted'[s] = accounted[s] \cup {b.seq : b \in run} \cup Missing(s, m)
      BY <1>1, AcceptAssigns
<1>7. /\ LastSeq[s] \in Nat /\ Window[s] \in Nat
      /\ top \in 1..LastSeq[s] /\ m.seq <= top
      /\ \A b \in Message(s) : b.seq \in 1..LastSeq[s]
      BY <1>3, <1>4, StreamConstants DEF Message
<1> HIDE DEF run, out, top
<1>8. StreamTyped(s)'
  <2>1. sent'[s] \subseteq Message(s) /\ IsFiniteSet(sent'[s])
        BY <1>1 DEF StreamInv, StreamTyped, linkVars
  <2>2. nextSeq'[s] \in 1..LastSeq[s] + 1
        BY <1>6, <1>7
  <2>3. lastReceive'[s] \in Instants
        BY <1>1, <1>6, StreamsAssumption DEF Instants, StreamsAssumption
  <2>4. watermark'[s] \in Message(s)
        BY <1>5, <1>6
  <2>5. buffered'[s] \subseteq Message(s) /\ ready'[s] \subseteq Message(s)
        BY <1>1, <1>4, <1>5, <1>6 DEF StreamInv, StreamTyped
  <2>6. QED
        BY <2>1, <2>2, <2>3, <2>4, <2>5 DEF StreamTyped
<1>9. Behind(s)'
  <2>1. \A b \in ready[s] : b.seq \in Int /\ b.seq < nextSeq[s]
        BY <1>1, <1>7 DEF StreamInv, StreamTyped, Behind
  <2>2. \A b \in out : b.seq \in Int /\ b.seq <= top
        BY <1>4, <1>5, <1>7
  <2>3. \A b \in ready[s] \cup out : b.seq < top + 1
        BY <1>3, <1>7, <2>1, <2>2
  <2>4. QED
        BY <1>5, <1>6, <2>3 DEF Behind
<1>10. IdsKnown(s)'
  <2> SUFFICES ASSUME NEW b \in ready'[s], nextSeq'[s] - b.seq <= Window[s]
               PROVE  [seq |-> b.seq, id |-> Identity(s, b)] \in acceptedIds'[s]
      BY Zenon DEF IdsKnown, Identity
  <2>0. b \in ready[s] \cup out /\ (top + 1) - b.seq <= Window[s]
    <3>1. nextSeq'[s] = top + 1 /\ ready'[s] = ready[s] \cup out
          BY <1>6
    <3>2. QED
          BY <3>1
  <2> DEFINE record == [seq |-> b.seq, id |-> Identity(s, b)]
  <2>1. record \in acceptedIds[s] \cup {[seq |-> c.seq, id |-> Identity(s, c)] : c \in out}
    <3>1. CASE b \in out
          BY <3>1
    <3>2. CASE b \in ready[s]
      <4>1. b.seq \in Int
            BY <1>1, <1>7, <3>2 DEF StreamInv, StreamTyped
      <4>2. nextSeq[s] - b.seq <= Window[s]
            BY <1>3, <1>7, <2>0, <4>1
      <4>3. QED
            BY <1>1, <3>2, <4>2 DEF StreamInv, IdsKnown
    <3>3. QED
          BY <2>0, <3>1, <3>2
  <2>2. record.seq = b.seq
        OBVIOUS
  <2> HIDE DEF record
  <2>3. record \in acceptedIds'[s]
        BY <1>6, <2>0, <2>1, <2>2
  <2>4. QED
        BY <2>3 DEF record
<1>11. BufferedAreNew(s)'
  <2>1. /\ \A b \in buffered[s] : \A a \in acceptedIds[s] : a.id # Identity(s, b)
        /\ \A b, c \in buffered[s] : Identity(s, b) = Identity(s, c) => b = c
        BY <1>1 DEF StreamInv, BufferedAreNew
  <2>2. ASSUME NEW b \in buffered'[s], NEW a \in acceptedIds'[s] PROVE a.id # Identity(s, b)
    <3>1. b \in buffered[s] /\ b \notin run
          BY <1>6
    <3>2. CASE a \in acceptedIds[s]
          BY <2>1, <3>1, <3>2
    <3>3. CASE a \notin acceptedIds[s]
      <4>1. PICK c \in out : a = [seq |-> c.seq, id |-> Identity(s, c)]
            BY <1>6, <3>3
      <4>2. a.id = Identity(s, c)
            BY <4>1
      <4>3. c \in run /\ c \in buffered[s] \cup {m}
            BY <1>4, <1>5
      <4>4. c # b
            BY <3>1, <4>3
      <4>5. QED
            BY <1>3, <2>1, <3>1, <4>2, <4>3, <4>4
    <3>4. QED
          BY <3>2, <3>3
  <2>3. \A b, c \in buffered'[s] : Identity(s, b) = Identity(s, c) => b = c
        BY <1>6, <2>1
  <2>4. QED
        BY <2>2, <2>3 DEF BufferedAreNew, Identity
<1>12. BufferOf(s)'
  <2>1. /\ s \notin Reorders => buffered'[s] = {}
        /\ \A b, c \in buffered'[s] : b.seq = c.seq => b = c
        BY <1>1, <1>6 DEF StreamInv, BufferOf
  <2>2. ASSUME NEW b \in buffered'[s] PROVE top + 1 < b.seq /\ b.seq < top + 1 + Window[s]
    <3>1. b \in buffered[s] /\ b \notin run
          BY <1>6
    <3>2. b.seq \in Int /\ b.seq < nextSeq[s] + Window[s]
          BY <1>1, <1>7, <3>1 DEF StreamInv, StreamTyped, BufferOf
    <3>3. top + 1 < b.seq
          BY <1>4, <1>7, <3>1, <3>2
    <3>4. QED
          BY <1>3, <1>7, <3>2, <3>3
  <2>3. QED
        BY <1>6, <2>1, <2>2 DEF BufferOf
<1>13. DistinctIds(s)'
  <2> SUFFICES ASSUME NEW b \in ready[s] \cup out, NEW c \in ready[s] \cup out,
                      Identity(s, b) = Identity(s, c), b.seq < c.seq
               PROVE  c.seq - b.seq > Window[s]
      BY <1>6 DEF DistinctIds, Identity
  <2>1. /\ \A x \in ready[s] : x.seq \in Int /\ x.seq < nextSeq[s]
        /\ \A x \in out : x.seq \in Int /\ nextSeq[s] <= x.seq
        BY <1>1, <1>3, <1>4, <1>5, <1>7 DEF StreamInv, StreamTyped, Behind
  <2>2. CASE c \in ready[s]
    <3>1. b \in ready[s]
          BY <1>3, <2>1, <2>2
    <3>2. QED
          BY <1>1, <2>2, <3>1 DEF StreamInv, DistinctIds
  <2>3. CASE c \in out /\ b \in out
    <3>1. b \in buffered[s] \cup {m} /\ c \in buffered[s] \cup {m}
          BY <1>4, <1>5, <2>3
    <3>2. b = c
          BY <1>1, <1>3, <3>1 DEF StreamInv, BufferedAreNew
    <3>3. QED
          BY <2>1, <2>3, <3>2
  <2>4. CASE c \in out /\ b \in ready[s]
    <3>1. c \in buffered[s] \cup {m}
          BY <1>4, <1>5, <2>4
    <3>2. ASSUME nextSeq[s] - b.seq <= Window[s] PROVE FALSE
      <4> DEFINE record == [seq |-> b.seq, id |-> Identity(s, b)]
      <4>1. record \in acceptedIds[s]
            BY <1>1, <2>4, <3>2 DEF StreamInv, IdsKnown
      <4>2. record.id = Identity(s, c)
            OBVIOUS
      <4> HIDE DEF record
      <4>3. QED
            BY <1>1, <1>3, <3>1, <4>1, <4>2 DEF StreamInv, BufferedAreNew
    <3>3. QED
          BY <1>3, <1>7, <2>1, <2>4, <3>2
  <2>5. QED
        BY <2>2, <2>3, <2>4
<1>14. AccountedFor(s)'
  <2>1. accounted[s] = 1 .. nextSeq[s] - 1
        BY <1>1 DEF StreamInv, AccountedFor
  <2>2. {b.seq : b \in run} = m.seq .. top
    <3>1. \A b \in run : b.seq \in m.seq .. top
          BY <1>3, <1>4, <1>7
    <3>2. QED
          BY <1>4, <3>1
  <2>3. Missing(s, m) = nextSeq[s] .. m.seq - 1
        BY <1>2 DEF Missing
  <2>4. accounted'[s] = (1 .. nextSeq[s] - 1) \cup (m.seq .. top) \cup (nextSeq[s] .. m.seq - 1)
        BY <1>6, <2>1, <2>2, <2>3
  <2>5. QED
        BY <1>3, <1>6, <1>7, <2>4 DEF AccountedFor
<1>15. QED
      BY <1>8, <1>9, <1>10, <1>11, <1>12, <1>13, <1>14 DEF StreamInv

\* A message that waits keeps it as well.
LEMMA BufferKeeps ==
  ASSUME NEW s \in Streams, StreamsInv, NEW m \in sent[s], NEW t \in 0..linkClock, Buffer(s, m, t),
         UNCHANGED linkVars
  PROVE  StreamInv(s)'
<1>1. StreamInv(s) /\ Functions /\ linkClock \in Instants
      BY DEF StreamsInv
<1>2. /\ Disposition(s, m, t) = "admitted" /\ m.seq # Continues(s, m)
      /\ lastReceive' = [lastReceive EXCEPT ![s] = t]
      /\ buffered' = [buffered EXCEPT ![s] = @ \cup {m}]
      /\ UNCHANGED <<nextSeq, watermark, acceptedIds, ready, accounted>>
      BY DEF Buffer
<1>3. /\ m \in Message(s) /\ m.seq \in 1..LastSeq[s]
      /\ nextSeq[s] \in 1..LastSeq[s] + 1 /\ nextSeq[s] <= m.seq
      /\ m.seq < nextSeq[s] + Window[s]
      /\ \A b \in buffered[s] : b.seq # m.seq /\ Identity(s, b) # Identity(s, m)
      /\ \A a \in acceptedIds[s] : a.id # Identity(s, m)
      BY <1>1, <1>2, AdmittedTyped
<1>4. s \in Reorders /\ nextSeq[s] < m.seq
      BY <1>2, <1>3, StreamConstants DEF Continues
<1>5. lastReceive'[s] = t /\ buffered'[s] = buffered[s] \cup {m}
      BY <1>1, <1>2 DEF Functions
<1>6. StreamTyped(s)'
  <2>1. t \in Instants
        BY <1>1, StreamsAssumption DEF Instants, StreamsAssumption
  <2>2. QED
        BY <1>1, <1>2, <1>3, <1>5, <2>1 DEF StreamInv, StreamTyped, linkVars
<1>7. Behind(s)'
      BY <1>1, <1>2 DEF StreamInv, Behind
<1>8. IdsKnown(s)'
      BY <1>1, <1>2 DEF StreamInv, IdsKnown, Identity
<1>9. BufferedAreNew(s)'
  <2>1. /\ \A b \in buffered[s] : \A a \in acceptedIds[s] : a.id # Identity(s, b)
        /\ \A b, c \in buffered[s] : Identity(s, b) = Identity(s, c) => b = c
        BY <1>1 DEF StreamInv, BufferedAreNew
  <2>2. \A b \in buffered'[s] : \A a \in acceptedIds'[s] : a.id # Identity(s, b)
        BY <1>2, <1>3, <1>5, <2>1
  <2>3. \A b, c \in buffered'[s] : Identity(s, b) = Identity(s, c) => b = c
        BY <1>3, <1>5, <2>1
  <2>4. QED
        BY <2>2, <2>3 DEF BufferedAreNew, Identity
<1>10. BufferOf(s)'
      BY <1>1, <1>2, <1>3, <1>4, <1>5 DEF StreamInv, BufferOf
<1>11. DistinctIds(s)' /\ AccountedFor(s)'
      BY <1>1, <1>2 DEF StreamInv, DistinctIds, AccountedFor, Identity
<1>12. QED
      BY <1>6, <1>7, <1>8, <1>9, <1>10, <1>11 DEF StreamInv

\* What does not change a stream keeps all of it.
LEMMA Untouched ==
  ASSUME NEW s \in Streams, StreamInv(s),
         sent'[s] = sent[s], nextSeq'[s] = nextSeq[s], lastReceive'[s] = lastReceive[s],
         watermark'[s] = watermark[s], buffered'[s] = buffered[s],
         acceptedIds'[s] = acceptedIds[s], ready'[s] = ready[s], accounted'[s] = accounted[s]
  PROVE  StreamInv(s)'
<1>1. StreamTyped(s)' /\ Behind(s)' /\ BufferOf(s)' /\ AccountedFor(s)'
      BY DEF StreamInv, StreamTyped, Behind, BufferOf, AccountedFor
<1>2. IdsKnown(s)' /\ BufferedAreNew(s)' /\ DistinctIds(s)'
      BY DEF StreamInv, IdsKnown, BufferedAreNew, DistinctIds, Identity
<1>3. QED
      BY <1>1, <1>2 DEF StreamInv

\* A step at one stream keeps the domains and leaves the others alone.
LEMMA ReceiveIsLocal ==
  ASSUME NEW s \in Streams, Functions, NEW m, NEW t, Receive(s, m, t), UNCHANGED linkVars
  PROVE  /\ Functions'
         /\ \A u \in Streams \ {s} :
              /\ sent'[u] = sent[u] /\ nextSeq'[u] = nextSeq[u] /\ lastReceive'[u] = lastReceive[u]
              /\ watermark'[u] = watermark[u] /\ buffered'[u] = buffered[u]
              /\ acceptedIds'[u] = acceptedIds[u] /\ ready'[u] = ready[u]
              /\ accounted'[u] = accounted[u]
<1>1. CASE Buffer(s, m, t)
      BY <1>1 DEF Buffer, Functions, linkVars
<1>2. CASE Accept(s, m, t)
  <2>1. PICK following, mark, ids, out, numbers :
          /\ lastReceive' = [lastReceive EXCEPT ![s] = t]
          /\ buffered' = [buffered EXCEPT ![s] = @ \ RunFrom(s, m)]
          /\ nextSeq' = [nextSeq EXCEPT ![s] = following]
          /\ watermark' = [watermark EXCEPT ![s] = mark]
          /\ acceptedIds' = [acceptedIds EXCEPT ![s] = ids]
          /\ ready' = [ready EXCEPT ![s] = out]
          /\ accounted' = [accounted EXCEPT ![s] = numbers]
        BY <1>2, Zenon DEF Accept
  <2>2. QED
        BY <2>1 DEF Functions, linkVars
<1>3. QED
      BY <1>1, <1>2 DEF Receive

LEMMA GateKeeps == StreamsInv /\ GateNext => StreamsInv'
<1> SUFFICES ASSUME StreamsInv, GateNext PROVE StreamsInv'
    OBVIOUS
<1>0. PICK s \in Streams : \E m \in sent[s], t \in 0..linkClock : Receive(s, m, t)
      BY DEF GateNext
<1>1. PICK m \in sent[s], t \in 0..linkClock : Receive(s, m, t)
      BY <1>0
<1>2. UNCHANGED linkVars
      BY DEF GateNext
<1>3. linkClock' \in Instants /\ Functions
      BY <1>2 DEF StreamsInv, linkVars
<1>4. StreamInv(s)'
      BY <1>1, <1>2, AcceptKeeps, BufferKeeps DEF Receive
<1>5. Functions'
      BY <1>1, <1>2, <1>3, ReceiveIsLocal
<1>6. ASSUME NEW u \in Streams, u # s PROVE StreamInv(u)'
  <2>1. /\ sent'[u] = sent[u] /\ nextSeq'[u] = nextSeq[u] /\ lastReceive'[u] = lastReceive[u]
        /\ watermark'[u] = watermark[u] /\ buffered'[u] = buffered[u]
        /\ acceptedIds'[u] = acceptedIds[u] /\ ready'[u] = ready[u] /\ accounted'[u] = accounted[u]
        BY <1>1, <1>2, <1>3, <1>6, ReceiveIsLocal
  <2>2. StreamInv(u)
        BY DEF StreamsInv
  <2>3. QED
        BY <2>1, <2>2, Untouched
<1>7. QED
      BY <1>3, <1>4, <1>5, <1>6 DEF StreamsInv

LEMMA LinkKeeps == StreamsInv /\ LinkNext => StreamsInv'
<1> SUFFICES ASSUME StreamsInv, LinkNext PROVE StreamsInv'
    OBVIOUS
<1>1. UNCHANGED gateVars
      BY DEF LinkNext
<1>2. CASE LinkTick
  <2>1. linkClock' \in Instants /\ sent' = sent
        BY <1>2, StreamsAssumption DEF LinkTick, StreamsInv, Instants, StreamsAssumption
  <2>2. \A s \in Streams : StreamInv(s)'
        BY <1>1, <2>1, Untouched DEF StreamsInv, gateVars
  <2>3. QED
        BY <1>1, <2>1, <2>2 DEF StreamsInv, Functions, gateVars
<1>3. ASSUME NEW s \in Streams, Publish(s) PROVE StreamsInv'
  <2>1. PICK version \in 1..LastVersion[s], key \in Keys(s) :
          LET m == [seq |-> Cardinality(sent[s]) + 1, version |-> version, at |-> linkClock,
                    key |-> key]
          IN  m.seq <= LastSeq[s] /\ sent' = [sent EXCEPT ![s] = @ \cup {m}]
        BY <1>3 DEF Publish
  <2> DEFINE m == [seq |-> Cardinality(sent[s]) + 1, version |-> version, at |-> linkClock,
                   key |-> key]
  <2>2. StreamInv(s) /\ Functions /\ linkClock \in Instants /\ linkClock' = linkClock
        BY <1>3 DEF StreamsInv, Publish
  <2>3. Cardinality(sent[s]) \in Nat
        BY <2>2, FS_CardinalityType DEF StreamInv, StreamTyped
  <2>4. m \in Message(s)
        BY <2>1, <2>2, <2>3, StreamConstants DEF Message
  <2>5. sent' = [sent EXCEPT ![s] = @ \cup {m}]
        BY <2>1
  <2> HIDE DEF m
  <2>6. sent'[s] = sent[s] \cup {m} /\ DOMAIN sent' = Streams
        /\ \A u \in Streams \ {s} : sent'[u] = sent[u]
        BY <2>2, <2>5 DEF Functions
  <2>7. sent'[s] \subseteq Message(s) /\ IsFiniteSet(sent'[s])
        BY <2>2, <2>4, <2>6, FS_AddElement DEF StreamInv, StreamTyped
  <2>8. StreamTyped(s)' /\ Behind(s)' /\ BufferOf(s)' /\ AccountedFor(s)'
        BY <1>1, <2>2, <2>7
           DEF StreamInv, StreamTyped, Behind, BufferOf, AccountedFor, gateVars
  <2>9. IdsKnown(s)' /\ BufferedAreNew(s)' /\ DistinctIds(s)'
        BY <1>1, <2>2 DEF StreamInv, IdsKnown, BufferedAreNew, DistinctIds, Identity, gateVars
  <2>10. StreamInv(s)'
        BY <2>8, <2>9 DEF StreamInv
  <2>11. \A u \in Streams \ {s} : StreamInv(u)'
        BY <1>1, <2>6, Untouched DEF StreamsInv, gateVars
  <2>12. QED
        BY <1>1, <2>2, <2>6, <2>10, <2>11 DEF StreamsInv, Functions, gateVars
<1>4. QED
      BY <1>2, <1>3 DEF LinkNext

LEMMA GateStarts == GateInit => StreamsInv
<1> SUFFICES ASSUME GateInit PROVE StreamsInv
    OBVIOUS
<1>1. linkClock \in Instants /\ Functions
      BY StreamsAssumption DEF GateInit, Instants, Functions, StreamsAssumption
<1>2. ASSUME NEW s \in Streams PROVE StreamInv(s)
  <2>1. /\ sent[s] = {} /\ nextSeq[s] = 1 /\ lastReceive[s] = Nothing /\ watermark[s] = Nothing
        /\ buffered[s] = {} /\ acceptedIds[s] = {} /\ ready[s] = {} /\ accounted[s] = {}
        BY DEF GateInit
  <2>2. StreamTyped(s) /\ Behind(s)
        BY <2>1, StreamConstants, FS_EmptySet DEF StreamTyped, Behind
  <2>3. IdsKnown(s) /\ BufferedAreNew(s) /\ BufferOf(s) /\ DistinctIds(s) /\ AccountedFor(s)
        BY <2>1 DEF IdsKnown, BufferedAreNew, BufferOf, DistinctIds, AccountedFor
  <2>4. QED
        BY <2>2, <2>3 DEF StreamInv
<1>3. QED
      BY <1>1, <1>2 DEF StreamsInv

LEMMA GateInvariance == GateSpec => []StreamsInv
<1>1. StreamsInv /\ UNCHANGED <<linkVars, gateVars>> => StreamsInv'
  <2> SUFFICES ASSUME StreamsInv, UNCHANGED <<linkVars, gateVars>> PROVE StreamsInv'
      OBVIOUS
  <2>1. \A s \in Streams : StreamInv(s)'
        BY Untouched DEF StreamsInv, linkVars, gateVars
  <2>2. QED
        BY <2>1 DEF StreamsInv, Functions, linkVars, gateVars
<1>2. QED
      BY <1>1, GateStarts, GateKeeps, LinkKeeps, PTL DEF GateSpec

-----------------------------------------------------------------------------
LEMMA GateTypes == StreamsInv => GateTypeOK
<1> SUFFICES ASSUME StreamsInv PROVE GateTypeOK
    OBVIOUS
<1>1. linkClock \in Instants
      BY DEF StreamsInv
<1>2. ASSUME NEW s \in Streams PROVE StreamTyped(s) /\ accounted[s] \subseteq 1..LastSeq[s]
  <2>1. StreamTyped(s) /\ accounted[s] = 1 .. nextSeq[s] - 1
        BY DEF StreamsInv, StreamInv, AccountedFor
  <2>2. LastSeq[s] \in Nat /\ nextSeq[s] \in 1..LastSeq[s] + 1
        BY <2>1, StreamConstants DEF StreamTyped
  <2>3. QED
        BY <2>1, <2>2
<1>3. QED
      BY <1>1, <1>2 DEF GateTypeOK, StreamTyped

\* Every variable of the gate stays in its domain.
THEOREM GateTyped == GateSpec => []GateTypeOK
BY GateTypes, GateInvariance, PTL

\* Every number below the next one was handed over, discarded or reported missing.
THEOREM NothingIsLostSilently == GateSpec => []NoSilentLoss
<1>1. StreamsInv => NoSilentLoss
      BY DEF StreamsInv, StreamInv, AccountedFor, NoSilentLoss
<1>2. QED
      BY <1>1, GateInvariance, PTL

\* What waits is within the window, each number once, and none of it due.
THEOREM BufferIsBounded == GateSpec => []BufferWithinWindow
<1>1. StreamsInv => BufferWithinWindow
      BY DEF StreamsInv, StreamInv, BufferOf, BufferWithinWindow
<1>2. QED
      BY <1>1, GateInvariance, PTL

\* No identifier is handed over twice within the window.
THEOREM IdentifiersAreDistinct == GateSpec => []NoDuplicateInWindow
<1>1. StreamsInv => NoDuplicateInWindow
      BY DEF StreamsInv, StreamInv, DistinctIds, NoDuplicateInWindow
<1>2. QED
      BY <1>1, GateInvariance, PTL

\* The gate implements ordered delivery: a step of a stream hands over higher numbers
\* with versions that do not decrease, and every other step changes nothing there.
THEOREM GateDeliversInOrder == GateSpec => DeliversInOrder
<1>1. GateInit => Ordered!Init
      BY DEF GateInit, Ordered!Init, HandedOver
<1>2. ASSUME StreamsInv, GateNext PROVE [Ordered!Next]_HandedOver
  <2>0. PICK s \in Streams : \E m \in sent[s], t \in 0..linkClock : Receive(s, m, t)
        BY <1>2 DEF GateNext
  <2>1. PICK m \in sent[s], t \in 0..linkClock : Receive(s, m, t)
        BY <2>0
  <2>2. StreamInv(s) /\ Functions
        BY <1>2 DEF StreamsInv
  <2>3. CASE Buffer(s, m, t)
        BY <2>3 DEF Buffer, HandedOver
  <2>4. CASE Accept(s, m, t)
    <3> DEFINE out == Released(s, RunFrom(s, m), t)
               mark == Newest(out)
               old == HandedOver[s]
    <3>1. Disposition(s, m, t) = "admitted" /\ m.seq = Continues(s, m)
          BY <2>4 DEF Accept
    <3>2. /\ mark \in out /\ out \subseteq RunFrom(s, m) /\ mark \in Message(s)
          /\ ~Regressive(s, mark)
          BY <2>2, <3>1, ReleasedFacts
    <3>3. \A b \in RunFrom(s, m) : m.seq <= b.seq
          BY <2>2, <3>1, RunFacts
    <3>4. /\ nextSeq[s] <= m.seq /\ m.seq \in Int /\ nextSeq[s] \in Int
          BY <2>2, <3>1, AdmittedTyped
    <3>5. mark.seq \in 1..LastSeq[s] /\ mark.version \in 1..LastVersion[s]
          BY <3>2 DEF Message
    <3>6. nextSeq[s] <= mark.seq
          BY <3>2, <3>3, <3>4, <3>5
    <3>7. watermark' = [watermark EXCEPT ![s] = mark]
          BY <2>4 DEF Accept
    <3> HIDE DEF mark
    <3>8. old.seq < mark.seq /\ old.version <= mark.version
      <4>1. CASE watermark[s] = Nothing
            BY <3>5, <4>1 DEF HandedOver
      <4>2. CASE watermark[s] # Nothing
        <5>1. /\ old = [seq |-> watermark[s].seq, version |-> watermark[s].version]
              /\ watermark[s] \in Message(s) /\ watermark[s].seq < nextSeq[s]
              BY <2>2, <4>2 DEF HandedOver, StreamInv, StreamTyped, Behind
        <5>2. watermark[s].seq \in Int /\ watermark[s].version \in Int
              BY <5>1 DEF Message
        <5>3. QED
              BY <3>2, <3>4, <3>5, <3>6, <4>2, <5>1, <5>2 DEF Regressive
      <4>3. QED
            BY <4>1, <4>2
    <3>9. mark # Nothing
          BY <3>2, NothingAssumption
    <3>10. watermark'[s] = mark /\ \A u \in Streams \ {s} : watermark'[u] = watermark[u]
          BY <2>2, <3>7 DEF Functions
    <3>11. HandedOver'[s] = [seq |-> mark.seq, version |-> mark.version]
          BY <3>9, <3>10 DEF HandedOver
    <3>12. \A u \in Streams \ {s} : HandedOver'[u] = HandedOver[u]
          BY <3>10 DEF HandedOver
    <3>13. HandedOver' = [HandedOver EXCEPT ![s] = HandedOver'[s]]
      <4>1. /\ HandedOver = [u \in Streams |-> HandedOver[u]]
            /\ HandedOver' = [u \in Streams |-> HandedOver'[u]]
            BY DEF HandedOver
      <4>2. QED
            BY <3>12, <4>1
    <3>14. Ordered!Advance(s)
          BY <3>5, <3>8, <3>11, <3>13 DEF Ordered!Advance
    <3>15. QED
          BY <3>14 DEF Ordered!Next
  <2>5. QED
        BY <2>1, <2>3, <2>4 DEF Receive
<1>3. ASSUME LinkNext PROVE [Ordered!Next]_HandedOver
      BY <1>3 DEF LinkNext, gateVars, HandedOver
<1>4. ASSUME UNCHANGED <<linkVars, gateVars>> PROVE [Ordered!Next]_HandedOver
      BY <1>4 DEF gateVars, HandedOver
<1>5. QED
      BY <1>1, <1>2, <1>3, <1>4, GateInvariance, PTL DEF GateSpec, DeliversInOrder, Ordered!Spec

-----------------------------------------------------------------------------
(***************************************************************************)
(* The recovery gate: communication recovers on new evidence only,         *)
(* although the watermarks are read one by one while messages arrive.      *)
(***************************************************************************)

\* A sender stamps its messages in the order of their numbers.
StampsInOrder(s) ==
  /\ \A m \in sent[s] : m.seq <= Cardinality(sent[s]) /\ m.at <= linkClock
  /\ \A m, n \in sent[s] : m.seq <= n.seq => m.at <= n.at

\* What the gate holds was sent, and the watermark is the newest of what it handed over.
WatermarkOnTop(s) ==
  /\ buffered[s] \subseteq sent[s] /\ ready[s] \subseteq sent[s]
  /\ watermark[s] = Nothing => ready[s] = {}
  /\ watermark[s] # Nothing => watermark[s] \in ready[s] /\ \A b \in ready[s] : b.seq <= watermark[s].seq

GateInv == StreamsInv /\ \A s \in Streams : StampsInOrder(s) /\ WatermarkOnTop(s)

\* The baseline of a stream is no older than what had been handed over at the boundary.
BaselineCovers(s) ==
  \A b \in before[s] : baseline[s] # Nothing /\ b.seq <= baseline[s].seq

\* The stream has moved beyond the boundary, and stays there.
Moved(s) ==
  /\ watermark[s] # Nothing /\ watermark[s].at >= restoredAt
  /\ \A b \in before[s] : b.seq < watermark[s].seq

\* The number in the context is that of a message from beyond the boundary.
Held(s) == \E m \in ready[s] \ before[s] : m.seq = context[s] /\ m.at >= restoredAt

RecoveryTyped ==
  /\ recovering \in BOOLEAN /\ restoredAt \in Instants
  /\ DOMAIN baseline = RequiredStreams /\ DOMAIN before = RequiredStreams
  /\ \A s \in RequiredStreams : baseline[s] \in Message(s) \cup {Nothing} /\ before[s] \subseteq ready[s]
  /\ step \in Steps /\ result \in Statuses /\ context \in Contexts
  /\ next \in 1..Len(Required) + 1 /\ (step # "idle" => next <= Len(Required))

\* What each place of the two passes relies on.
PassInv ==
  /\ step = "baselines" => \A i \in 1..next - 1 : BaselineCovers(Required[i])
  /\ step # "baselines" => \A s \in RequiredStreams : BaselineCovers(s)
  /\ step = "advanced" => \A i \in 1..next - 1 : Moved(Required[i])
  /\ step = "matching" =>
       /\ \A s \in RequiredStreams : Moved(s)
       /\ \A i \in 1..next - 1 : Held(Required[i])
  /\ step \in {"advanced", "matching"} => result # "authorized"

RecoveryInv == GateInv /\ RecoveryTyped /\ PassInv /\ RecoveryOnNewEvidence

-----------------------------------------------------------------------------
LEMMA RequiredFacts ==
  /\ Len(Required) \in Nat /\ Len(Required) > 0
  /\ \A i \in 1..Len(Required) : Required[i] \in RequiredStreams
  /\ \A s \in RequiredStreams : \E i \in 1..Len(Required) : s = Required[i]
  /\ RequiredStreams \subseteq Streams
<1>1. Required \in Seq(Streams) /\ Required # <<>>
      BY RequiredAssumption DEF RequiredAssumption
<1>2. Len(Required) \in Nat /\ DOMAIN Required = 1..Len(Required)
      /\ \A i \in 1..Len(Required) : Required[i] \in Streams
      BY <1>1
<1>3. Len(Required) > 0
      BY <1>1, <1>2
<1>4. QED
      BY <1>2, <1>3 DEF RequiredStreams

LEMMA RequiredNumbers ==
  ASSUME NEW s \in RequiredStreams, NEW n \in 0..LastSeq[s]
  PROVE  n \in Numbers
BY DEF Numbers

-----------------------------------------------------------------------------
(* Steps of the gate and the link                                          *)

LEMMA StampFacts ==
  ASSUME NEW s \in Streams, StreamsInv
  PROVE  /\ Cardinality(sent[s]) \in Nat /\ linkClock \in Nat
         /\ \A m \in sent[s] : m.seq \in Nat /\ m.at \in Nat
<1>1. IsFiniteSet(sent[s]) /\ sent[s] \subseteq Message(s)
      BY DEF StreamsInv, StreamInv, StreamTyped
<1>2. Cardinality(sent[s]) \in Nat
      BY <1>1, FS_CardinalityType
<1>3. \A m \in Message(s) : m.seq \in Nat /\ m.at \in Nat
      BY DEF Message, Instants
<1>4. QED
      BY <1>1, <1>2, <1>3 DEF StreamsInv, Instants

LEMMA PublishKeepsStamps ==
  ASSUME NEW s \in Streams, StreamsInv, StampsInOrder(s), Publish(s)
  PROVE  StampsInOrder(s)' /\ sent[s] \subseteq sent'[s]
<1>1. PICK version \in 1..LastVersion[s], key \in Keys(s) :
        sent' = [sent EXCEPT ![s] = @ \cup {[seq |-> Cardinality(sent[s]) + 1, version |-> version,
                                             at |-> linkClock, key |-> key]}]
      BY DEF Publish
<1> DEFINE m == [seq |-> Cardinality(sent[s]) + 1, version |-> version, at |-> linkClock, key |-> key]
<1>2. m.seq = Cardinality(sent[s]) + 1 /\ m.at = linkClock
      OBVIOUS
<1>3. sent'[s] = sent[s] \cup {m}
      BY <1>1 DEF StreamsInv, Functions
<1> HIDE DEF m
<1>4. /\ Cardinality(sent[s]) \in Nat /\ linkClock \in Nat
      /\ \A n \in sent[s] : n.seq \in Nat /\ n.at \in Nat
      BY StampFacts
<1>5. \A n \in sent[s] : n.seq < m.seq /\ n.at <= m.at
      BY <1>2, <1>4 DEF StampsInOrder
<1>6. m \notin sent[s]
      BY <1>2, <1>4, <1>5
<1>7. Cardinality(sent'[s]) = Cardinality(sent[s]) + 1
  <2>1. IsFiniteSet(sent[s])
        BY DEF StreamsInv, StreamInv, StreamTyped
  <2>2. Cardinality(sent[s] \cup {m}) = Cardinality(sent[s]) + 1
        BY <1>6, <2>1, FS_AddElement
  <2>3. QED
        BY <1>3, <2>2
<1>8. linkClock' = linkClock
      BY DEF Publish
<1>9. \A n \in sent'[s] : n.seq <= Cardinality(sent'[s]) /\ n.at <= linkClock'
      BY <1>2, <1>3, <1>4, <1>7, <1>8 DEF StampsInOrder
<1>10. ASSUME NEW a \in sent'[s], NEW b \in sent'[s], a.seq <= b.seq
       PROVE  a.at <= b.at
  <2>1. CASE a \in sent[s] /\ b \in sent[s]
        BY <1>10, <2>1 DEF StampsInOrder
  <2>2. CASE b = m
        BY <1>2, <1>3, <1>4, <1>5, <2>2
  <2>3. CASE a = m /\ b \in sent[s]
        BY <1>2, <1>4, <1>5, <1>10, <2>3
  <2>4. QED
        BY <1>3, <2>1, <2>2, <2>3
<1>11. QED
       BY <1>3, <1>9, <1>10 DEF StampsInOrder

LEMMA LinkKeepsOrder ==
  ASSUME GateInv, LinkNext, NEW s \in Streams
  PROVE  StampsInOrder(s)' /\ WatermarkOnTop(s)' /\ ready'[s] = ready[s]
<1>1. buffered' = buffered /\ ready' = ready /\ watermark' = watermark
      BY DEF LinkNext, gateVars
<1>2. CASE LinkTick
  <2>1. linkClock' = linkClock + 1 /\ sent' = sent
        BY <1>2 DEF LinkTick
  <2>2. StampsInOrder(s)'
        BY <2>1, StampFacts DEF GateInv, StampsInOrder
  <2>3. QED
        BY <1>1, <2>1, <2>2 DEF GateInv, WatermarkOnTop
<1>3. ASSUME NEW u \in Streams, Publish(u) PROVE StampsInOrder(s)' /\ sent[s] \subseteq sent'[s]
  <2>1. CASE u = s
        BY <1>3, <2>1, PublishKeepsStamps DEF GateInv
  <2>2. CASE u # s
    <3>1. sent'[s] = sent[s] /\ linkClock' = linkClock
          BY <1>3, <2>2 DEF Publish, GateInv, StreamsInv, Functions
    <3>2. QED
          BY <3>1 DEF GateInv, StampsInOrder
  <2>3. QED
        BY <2>1, <2>2
<1>4. QED
  <2>1. ASSUME NEW u \in Streams, Publish(u) PROVE WatermarkOnTop(s)'
        BY <1>1, <1>3, <2>1 DEF GateInv, WatermarkOnTop
  <2>2. QED
        BY <1>1, <1>2, <1>3, <2>1 DEF LinkNext

LEMMA AcceptKeepsTop ==
  ASSUME NEW s \in Streams, StreamsInv, WatermarkOnTop(s), NEW m \in sent[s], NEW t, Accept(s, m, t),
         UNCHANGED linkVars
  PROVE  WatermarkOnTop(s)' /\ ready[s] \subseteq ready'[s]
<1> DEFINE run == RunFrom(s, m)
           out == Released(s, run, t)
<1>1. StreamInv(s) /\ Functions /\ sent' = sent
      BY DEF StreamsInv, linkVars
<1>2. Disposition(s, m, t) = "admitted" /\ m.seq = Continues(s, m)
      BY DEF Accept
<1>3. buffered'[s] = buffered[s] \ run /\ watermark'[s] = Newest(out) /\ ready'[s] = ready[s] \cup out
      BY <1>1, AcceptAssigns
<1>4. run \subseteq buffered[s] \cup {m} /\ run \subseteq Message(s)
      BY <1>1, <1>2, RunFacts
<1>5. m \in out /\ out \subseteq run /\ Newest(out) \in out /\ Newest(out) \in Message(s)
      BY <1>1, <1>2, ReleasedFacts
<1>6. \A c \in out : c.seq <= Newest(out).seq
  <2>1. out \subseteq Message(s) /\ out # {}
        BY <1>4, <1>5
  <2>2. QED
        BY <2>1, NewestFacts
<1>7. \A b \in ready[s] : b.seq < m.seq
  <2>1. nextSeq[s] <= m.seq /\ nextSeq[s] \in Nat /\ m.seq \in Nat
        BY <1>1, <1>2, AdmittedTyped
  <2>2. \A b \in ready[s] : b.seq < nextSeq[s] /\ b.seq \in Nat
        BY <1>1 DEF StreamInv, Behind, StreamTyped, Message
  <2>3. QED
        BY <2>1, <2>2
<1>8. \A b \in ready'[s] : b.seq <= Newest(out).seq
  <2>1. m.seq \in Nat /\ Newest(out).seq \in Nat /\ m.seq <= Newest(out).seq
        BY <1>1, <1>5, <1>6 DEF StreamInv, StreamTyped, Message
  <2>2. \A b \in ready[s] : b.seq \in Nat
        BY <1>1 DEF StreamInv, StreamTyped, Message
  <2> HIDE DEF out
  <2>3. QED
        BY <1>3, <1>6, <1>7, <2>1, <2>2
<1>9. Newest(out) # Nothing
      BY <1>5, NothingAssumption DEF NothingAssumption
<1>10. buffered'[s] \subseteq sent'[s] /\ ready'[s] \subseteq sent'[s]
       BY <1>1, <1>3, <1>4, <1>5 DEF WatermarkOnTop
<1> HIDE DEF out, run
<1>11. QED
       BY <1>3, <1>5, <1>8, <1>9, <1>10 DEF WatermarkOnTop

LEMMA GateKeepsOrder ==
  ASSUME GateInv, GateNext, NEW u \in Streams
  PROVE  StampsInOrder(u)' /\ WatermarkOnTop(u)' /\ ready[u] \subseteq ready'[u]
<1>1. PICK s \in Streams : \E m \in sent[s], t \in 0..linkClock : Receive(s, m, t)
      BY DEF GateNext
<1>2. PICK m \in sent[s], t \in 0..linkClock : Receive(s, m, t)
      BY <1>1
<1>3. UNCHANGED linkVars /\ StreamsInv /\ Functions
      BY DEF GateNext, GateInv, StreamsInv
<1>4. StampsInOrder(u)'
      BY <1>3 DEF GateInv, StampsInOrder, linkVars
<1>5. CASE u # s
  <2>1. /\ sent'[u] = sent[u] /\ watermark'[u] = watermark[u] /\ buffered'[u] = buffered[u]
        /\ ready'[u] = ready[u]
        BY <1>2, <1>3, <1>5, ReceiveIsLocal
  <2>2. QED
        BY <1>4, <2>1 DEF GateInv, WatermarkOnTop
<1>6. CASE u = s
  <2>1. WatermarkOnTop(s)
        BY DEF GateInv
  <2>2. CASE Accept(s, m, t)
        BY <1>3, <1>4, <1>6, <2>1, <2>2, AcceptKeepsTop
  <2>3. CASE Buffer(s, m, t)
    <3>1. buffered'[s] = buffered[s] \cup {m} /\ watermark' = watermark /\ ready' = ready /\ sent' = sent
          BY <1>3, <2>3 DEF Buffer, Functions, linkVars
    <3>2. QED
          BY <1>4, <1>6, <2>1, <3>1 DEF WatermarkOnTop
  <2>4. QED
        BY <1>2, <2>2, <2>3 DEF Receive
<1>7. QED
      BY <1>5, <1>6

\* Whatever moves on the link or in the gate only adds to what was handed over.
LEMMA GateInvKept ==
  ASSUME GateInv, LinkNext \/ GateNext
  PROVE  GateInv' /\ \A s \in Streams : ready[s] \subseteq ready'[s]
<1>1. StreamsInv'
      BY GateKeeps, LinkKeeps DEF GateInv
<1>2. QED
      BY <1>1, LinkKeepsOrder, GateKeepsOrder DEF GateInv

\* Whatever arrives, what a pass relies on stays.
LEMMA ArrivalsKeep ==
  ASSUME RecoveryInv, LinkNext \/ GateNext, UNCHANGED recoveryVars
  PROVE  RecoveryInv'
<1>1. GateInv' /\ \A s \in Streams : ready[s] \subseteq ready'[s]
      BY GateInvKept DEF RecoveryInv
<1>2. RequiredStreams \subseteq Streams /\ \A i \in 1..Len(Required) : Required[i] \in RequiredStreams
      BY RequiredFacts
<1>3. /\ recovering' = recovering /\ restoredAt' = restoredAt /\ baseline' = baseline
      /\ step' = step /\ next' = next /\ context' = context /\ result' = result /\ before' = before
      BY DEF recoveryVars
<1>4. RecoveryTyped /\ PassInv /\ GateInv
      BY DEF RecoveryInv
<1>5. RecoveryTyped'
      BY <1>1, <1>2, <1>3, <1>4 DEF RecoveryTyped, Message, Instants, Keys, Contexts, Numbers,
                                    RequiredStreams
<1>6. \A s \in RequiredStreams : BaselineCovers(s) => BaselineCovers(s)'
      BY <1>3 DEF BaselineCovers
<1>7. \A s \in RequiredStreams : Held(s) => Held(s)'
      BY <1>1, <1>2, <1>3 DEF Held
<1>8. ASSUME NEW s \in RequiredStreams, Moved(s) PROVE Moved(s)'
  <2>1. s \in Streams /\ watermark[s] \in ready[s] /\ ready[s] \subseteq ready'[s]
        BY <1>1, <1>2, <1>4, <1>8 DEF Moved, GateInv, WatermarkOnTop
  <2>2. watermark[s] \in ready'[s] /\ watermark'[s] # Nothing /\ watermark'[s] \in ready'[s]
        /\ watermark[s].seq <= watermark'[s].seq
        BY <1>1, <2>1 DEF GateInv, WatermarkOnTop
  <2>3. watermark[s] \in sent'[s] /\ watermark'[s] \in sent'[s]
        BY <1>1, <2>1, <2>2 DEF GateInv, WatermarkOnTop
  <2>4. watermark[s].at <= watermark'[s].at
        BY <1>1, <2>1, <2>2, <2>3 DEF GateInv, StampsInOrder
  <2>5. /\ watermark[s].at \in Int /\ watermark'[s].at \in Int
        /\ watermark[s].seq \in Int /\ watermark'[s].seq \in Int
        /\ restoredAt \in Int /\ \A b \in before[s] : b.seq \in Int
    <3>1. sent'[s] \subseteq Message(s)
          BY <1>1, <2>1 DEF GateInv, StreamsInv, StreamInv, StreamTyped, Message, Keys, Instants
    <3>2. before[s] \subseteq ready[s] /\ ready[s] \subseteq sent[s] /\ sent[s] \subseteq Message(s)
          BY <1>4, <2>1 DEF RecoveryTyped, GateInv, WatermarkOnTop, StreamsInv, StreamInv, StreamTyped
    <3>3. restoredAt \in Instants
          BY <1>4 DEF RecoveryTyped
    <3>4. QED
          BY <2>3, <3>1, <3>2, <3>3 DEF Message, Instants
  <2>6. QED
        BY <1>3, <1>8, <2>2, <2>4, <2>5 DEF Moved
<1>9. PassInv'
  <2>1. step = "advanced" => \A i \in 1..next - 1 : Moved(Required[i])'
    <3>1. step = "advanced" => \A i \in 1..next - 1 : Required[i] \in RequiredStreams
          BY <1>2, <1>4 DEF RecoveryTyped
    <3>2. QED
          BY <1>4, <1>8, <3>1 DEF PassInv
  <2>2. step = "matching" => /\ \A s \in RequiredStreams : Moved(s)'
                             /\ \A i \in 1..next - 1 : Held(Required[i])'
    <3>1. step = "matching" => \A i \in 1..next - 1 : Required[i] \in RequiredStreams
          BY <1>2, <1>4 DEF RecoveryTyped
    <3>2. QED
          BY <1>4, <1>7, <1>8, <3>1 DEF PassInv
  <2>3. step = "baselines" => \A i \in 1..next - 1 : BaselineCovers(Required[i])'
    <3>1. step = "baselines" => \A i \in 1..next - 1 : Required[i] \in RequiredStreams
          BY <1>2, <1>4 DEF RecoveryTyped
    <3>2. QED
          BY <1>4, <1>6, <3>1 DEF PassInv
  <2>4. step # "baselines" => \A s \in RequiredStreams : BaselineCovers(s)'
        BY <1>4, <1>6 DEF PassInv
  <2>5. step \in {"advanced", "matching"} => result # "authorized"
        BY <1>4 DEF PassInv
  <2>6. RequiredStreams' = RequiredStreams
        BY DEF RequiredStreams
  <2>7. QED
        BY <1>3, <2>1, <2>2, <2>3, <2>4, <2>5, <2>6 DEF PassInv
<1>10. RecoveryOnNewEvidence'
  <2>1. result = "authorized" => \A s \in RequiredStreams : Held(s)
        BY DEF RecoveryInv, RecoveryOnNewEvidence, Held
  <2>2. result' = "authorized" => \A s \in RequiredStreams : Held(s)'
        BY <1>3, <1>7, <2>1
  <2>3. QED
        BY <2>2 DEF RecoveryOnNewEvidence, Held, RequiredStreams
<1>11. QED
       BY <1>1, <1>5, <1>9, <1>10 DEF RecoveryInv

-----------------------------------------------------------------------------
(* Steps of the recovery                                                   *)

\* While the recovery reads, the gate is as it was.
LEMMA GateStands ==
  ASSUME GateInv, UNCHANGED <<gateVars, linkVars>>
  PROVE  /\ GateInv'
         /\ watermark' = watermark /\ ready' = ready
         /\ RequiredStreams' = RequiredStreams
         /\ \A s \in Streams : Message(s)' = Message(s)
<1>1. /\ linkClock' = linkClock /\ sent' = sent /\ nextSeq' = nextSeq /\ lastReceive' = lastReceive
      /\ watermark' = watermark /\ buffered' = buffered /\ acceptedIds' = acceptedIds
      /\ ready' = ready /\ accounted' = accounted
      BY DEF gateVars, linkVars
<1>2. \A s \in Streams : StreamInv(s)'
      BY <1>1, Untouched DEF GateInv, StreamsInv
<1>3. StreamsInv'
      BY <1>1, <1>2 DEF GateInv, StreamsInv, Functions
<1>4. \A s \in Streams : StampsInOrder(s)' /\ WatermarkOnTop(s)'
      BY <1>1 DEF GateInv, StampsInOrder, WatermarkOnTop
<1>5. QED
      BY <1>1, <1>3, <1>4 DEF GateInv, RequiredStreams, Message, Keys, Instants

\* The watermark of a required stream.
LEMMA WatermarkFacts ==
  ASSUME GateInv, RecoveryTyped, NEW s \in RequiredStreams
  PROVE  /\ watermark[s] \in Message(s) \cup {Nothing}
         /\ watermark[s] # Nothing =>
              /\ watermark[s] \in ready[s] /\ watermark[s].seq \in Nat /\ watermark[s].at \in Nat
              /\ watermark[s].seq \in 0..LastSeq[s]
         /\ \A b \in before[s] :
              /\ b.seq \in Nat
              /\ watermark[s] # Nothing /\ b.seq <= watermark[s].seq
<1>1. s \in Streams
      BY RequiredFacts
<1>2. /\ watermark[s] \in Message(s) \cup {Nothing} /\ before[s] \subseteq ready[s]
      /\ ready[s] \subseteq Message(s)
      BY <1>1 DEF GateInv, StreamsInv, StreamInv, StreamTyped, RecoveryTyped
<1>3. \A m \in Message(s) : m.seq \in Nat /\ m.at \in Nat /\ m.seq \in 0..LastSeq[s]
  <2>1. LastSeq[s] \in Nat
        BY <1>1, StreamConstants
  <2>2. QED
        BY <2>1 DEF Message, Instants
<1>4. watermark[s] # Nothing => watermark[s] \in ready[s]
      BY <1>1 DEF GateInv, WatermarkOnTop
<1>5. \A b \in ready[s] : watermark[s] # Nothing /\ b.seq <= watermark[s].seq
      BY <1>1 DEF GateInv, WatermarkOnTop
<1>6. QED
      BY <1>2, <1>3, <1>4, <1>5

LEMMA BeginResynchronizationKeeps ==
  ASSUME RecoveryInv, BeginResynchronization, UNCHANGED <<gateVars, linkVars>>
  PROVE  RecoveryInv'
<1>1. /\ GateInv' /\ ready' = ready /\ RequiredStreams' = RequiredStreams
      /\ \A s \in Streams : Message(s)' = Message(s)
      BY GateStands DEF RecoveryInv
<1>2. /\ recovering' = TRUE /\ restoredAt' = linkClock /\ step' = "baselines" /\ next' = 1
      /\ result' = "none" /\ before' = [s \in RequiredStreams |-> ready[s]]
      /\ baseline' = baseline /\ context' = context
      BY DEF BeginResynchronization
<1>3. RequiredStreams \subseteq Streams /\ Len(Required) \in Nat /\ Len(Required) > 0
      BY RequiredFacts
<1>4. linkClock \in Instants /\ Instants' = Instants
      BY DEF RecoveryInv, GateInv, StreamsInv, Instants
<1>5. RecoveryTyped'
  <2>1. DOMAIN baseline' = RequiredStreams /\ context' \in Contexts
        /\ \A s \in RequiredStreams : baseline'[s] \in Message(s) \cup {Nothing}
        BY <1>2 DEF RecoveryInv, RecoveryTyped
  <2>2. Contexts' = Contexts
        BY DEF Contexts, Numbers, RequiredStreams
  <2>3. QED
        BY <1>1, <1>2, <1>3, <1>4, <2>1, <2>2 DEF RecoveryTyped, Steps, Statuses
<1>6. PassInv'
      BY <1>2 DEF PassInv
<1>7. RecoveryOnNewEvidence'
      BY <1>2 DEF RecoveryOnNewEvidence
<1>8. QED
      BY <1>1, <1>5, <1>6, <1>7 DEF RecoveryInv

LEMMA ReadBaselineKeeps ==
  ASSUME RecoveryInv, ReadBaseline, UNCHANGED <<gateVars, linkVars>>
  PROVE  RecoveryInv'
<1>1. /\ GateInv' /\ ready' = ready /\ RequiredStreams' = RequiredStreams
      /\ \A s \in Streams : Message(s)' = Message(s)
      BY GateStands DEF RecoveryInv
<1>2. /\ step = "baselines" /\ next' = next + 1
      /\ baseline' = [baseline EXCEPT ![Required[next]] = watermark[Required[next]]]
      /\ step' = IF next = Len(Required) THEN "idle" ELSE "baselines"
      /\ recovering' = recovering /\ restoredAt' = restoredAt /\ context' = context
      /\ result' = result /\ before' = before
      BY DEF ReadBaseline
<1>3. /\ RequiredStreams \subseteq Streams /\ Len(Required) \in Nat /\ Len(Required) > 0
      /\ \A i \in 1..Len(Required) : Required[i] \in RequiredStreams
      /\ \A s \in RequiredStreams : \E i \in 1..Len(Required) : s = Required[i]
      BY RequiredFacts
<1>4. GateInv /\ RecoveryTyped /\ PassInv
      BY DEF RecoveryInv
<1>5. next \in 1..Len(Required) /\ Required[next] \in RequiredStreams
      BY <1>2, <1>3, <1>4 DEF RecoveryTyped
<1>6. PICK r \in RequiredStreams : r = Required[next]
      BY <1>5
<1>7. /\ DOMAIN baseline' = RequiredStreams /\ baseline'[r] = watermark[r]
      /\ \A s \in RequiredStreams : s # r => baseline'[s] = baseline[s]
      BY <1>2, <1>4, <1>6 DEF RecoveryTyped
<1>8. RecoveryTyped'
  <2>1. \A s \in RequiredStreams : baseline'[s] \in Message(s) \cup {Nothing}
    <3>1. watermark[r] \in Message(r) \cup {Nothing}
          BY <1>4, WatermarkFacts
    <3>2. QED
          BY <1>4, <1>7, <3>1 DEF RecoveryTyped
  <2>2. next' \in 1..Len(Required) + 1 /\ (step' # "idle" => next' <= Len(Required))
        BY <1>2, <1>3, <1>5
  <2>3. step' \in Steps
        BY <1>2 DEF Steps
  <2>4. Contexts' = Contexts /\ Instants' = Instants
        BY DEF Contexts, Numbers, RequiredStreams, Instants
  <2>5. QED
        BY <1>1, <1>2, <1>3, <1>4, <1>7, <2>1, <2>2, <2>3, <2>4 DEF RecoveryTyped
<1>9. ASSUME NEW s \in RequiredStreams, s = r \/ BaselineCovers(s) PROVE BaselineCovers(s)'
  <2>1. CASE s = r
        BY <1>2, <1>4, <1>7, <2>1, WatermarkFacts DEF BaselineCovers
  <2>2. CASE s # r /\ BaselineCovers(s)
        BY <1>2, <1>7, <2>2 DEF BaselineCovers
  <2>3. QED
        BY <1>9, <2>1, <2>2
<1>10. \A i \in 1..next : BaselineCovers(Required[i])'
  <2> TAKE i \in 1..next
  <2>1. Required[i] \in RequiredStreams
        BY <1>3, <1>5
  <2>2. i = next \/ i \in 1..next - 1
        BY <1>5
  <2>3. Required[i] = r \/ BaselineCovers(Required[i])
        BY <1>2, <1>4, <1>6, <2>2 DEF PassInv
  <2>4. PICK s \in RequiredStreams : s = Required[i]
        BY <2>1
  <2>5. BaselineCovers(s)'
        BY <1>9, <2>3, <2>4
  <2>6. QED
        BY <2>4, <2>5
<1>11. PassInv'
  <2>1. CASE next = Len(Required)
    <3>1. \A s \in RequiredStreams : BaselineCovers(s)'
          BY <1>3, <1>10, <2>1
    <3>2. QED
          BY <1>1, <1>2, <2>1, <3>1 DEF PassInv
  <2>2. CASE next # Len(Required)
    <3>1. step' = "baselines" /\ next' - 1 = next
          BY <1>2, <1>5, <2>2
    <3>2. QED
          BY <1>10, <3>1 DEF PassInv
  <2>3. QED
        BY <2>1, <2>2
<1>12. RecoveryOnNewEvidence'
       BY <1>1, <1>2 DEF RecoveryInv, RecoveryOnNewEvidence
<1>13. QED
       BY <1>1, <1>8, <1>11, <1>12 DEF RecoveryInv

LEMMA BeginEvaluateKeeps ==
  ASSUME RecoveryInv, BeginEvaluate, UNCHANGED <<gateVars, linkVars>>
  PROVE  RecoveryInv'
<1>1. /\ GateInv' /\ ready' = ready /\ RequiredStreams' = RequiredStreams
      /\ \A s \in Streams : Message(s)' = Message(s)
      BY GateStands DEF RecoveryInv
<1>2. /\ step = "idle" /\ step' = "advanced" /\ next' = 1 /\ result' = "none"
      /\ context' = [s \in RequiredStreams |-> 0]
      /\ recovering' = recovering /\ restoredAt' = restoredAt /\ baseline' = baseline /\ before' = before
      BY DEF BeginEvaluate
<1>3. RequiredStreams \subseteq Streams /\ Len(Required) \in Nat /\ Len(Required) > 0
      BY RequiredFacts
<1>4. RecoveryTyped'
  <2>1. context' \in Contexts
    <3>1. \A s \in RequiredStreams : 0 \in Numbers
      <4> TAKE s \in RequiredStreams
      <4>1. 0 \in 0..LastSeq[s]
            BY <1>3, StreamConstants
      <4>2. QED
            BY <4>1, RequiredNumbers
    <3>2. QED
          BY <1>2, <3>1 DEF Contexts
  <2>2. Contexts' = Contexts /\ Instants' = Instants
        BY DEF Contexts, Numbers, RequiredStreams, Instants
  <2>3. QED
        BY <1>1, <1>2, <1>3, <2>1, <2>2 DEF RecoveryInv, RecoveryTyped, Steps, Statuses
<1>5. PassInv'
  <2>1. \A s \in RequiredStreams : BaselineCovers(s)'
        BY <1>2 DEF RecoveryInv, PassInv, BaselineCovers
  <2>2. QED
        BY <1>1, <1>2, <2>1 DEF PassInv
<1>6. RecoveryOnNewEvidence'
      BY <1>2 DEF RecoveryOnNewEvidence
<1>7. QED
      BY <1>1, <1>4, <1>5, <1>6 DEF RecoveryInv

\* A stream found advanced has moved beyond the boundary.
LEMMA AdvancedHasMoved ==
  ASSUME GateInv, RecoveryTyped, NEW s \in RequiredStreams, BaselineCovers(s), Advanced(s)
  PROVE  Moved(s)
<1>1. ASSUME NEW b \in before[s] PROVE b.seq < watermark[s].seq
  <2>1. baseline[s] # Nothing /\ b.seq <= baseline[s].seq /\ baseline[s].seq < watermark[s].seq
        BY DEF BaselineCovers, Advanced
  <2>2. baseline[s].seq \in Nat
        BY <2>1 DEF RecoveryTyped, Message
  <2>3. b.seq \in Nat /\ watermark[s].seq \in Nat
        BY WatermarkFacts
  <2>4. QED
        BY <2>1, <2>2, <2>3
<1>2. QED
      BY <1>1 DEF Moved, Advanced

LEMMA ReadAdvancedKeeps ==
  ASSUME RecoveryInv, ReadAdvanced \/ ReadLastAdvanced, UNCHANGED <<gateVars, linkVars>>
  PROVE  RecoveryInv'
<1>1. /\ GateInv' /\ ready' = ready /\ watermark' = watermark /\ RequiredStreams' = RequiredStreams
      /\ \A s \in Streams : Message(s)' = Message(s)
      BY GateStands DEF RecoveryInv
<1>2. /\ step = "advanced"
      /\ recovering' = recovering /\ restoredAt' = restoredAt /\ baseline' = baseline
      /\ context' = context /\ before' = before
      BY DEF ReadAdvanced, ReadLastAdvanced
<1>3. /\ RequiredStreams \subseteq Streams /\ Len(Required) \in Nat /\ Len(Required) > 0
      /\ \A i \in 1..Len(Required) : Required[i] \in RequiredStreams
      /\ \A s \in RequiredStreams : \E i \in 1..Len(Required) : s = Required[i]
      BY RequiredFacts
<1>4. GateInv /\ RecoveryTyped /\ PassInv
      BY DEF RecoveryInv
<1>5. next \in 1..Len(Required) /\ Required[next] \in RequiredStreams
      BY <1>2, <1>3, <1>4 DEF RecoveryTyped
<1>6. \A s \in RequiredStreams : BaselineCovers(s) /\ BaselineCovers(s)'
      BY <1>2, <1>4 DEF PassInv, BaselineCovers
<1>7. Contexts' = Contexts /\ Instants' = Instants
      BY DEF Contexts, Numbers, RequiredStreams, Instants
<1>8. ASSUME Advanced(Required[next]) PROVE \A i \in 1..next : Moved(Required[i])'
  <2> TAKE i \in 1..next
  <2>1. Moved(Required[i])
    <3>1. CASE i = next
      <4>1. PICK s \in RequiredStreams : s = Required[next]
            BY <1>5
      <4>2. QED
            BY <1>4, <1>6, <1>8, <3>1, <4>1, AdvancedHasMoved
    <3>2. CASE i # next
          BY <1>2, <1>4, <1>5, <3>2 DEF PassInv
    <3>3. QED
          BY <3>1, <3>2
  <2>2. QED
        BY <1>1, <1>2, <2>1 DEF Moved
<1>9. CASE ReadAdvanced /\ step' = "idle" /\ result' = "awaiting_resynchronization"
  <2>1. next' = next + 1
        BY <1>9 DEF ReadAdvanced
  <2>2. RecoveryTyped'
        BY <1>1, <1>2, <1>3, <1>4, <1>5, <1>7, <1>9, <2>1 DEF RecoveryTyped, Steps, Statuses
  <2>3. PassInv'
        BY <1>1, <1>6, <1>9 DEF PassInv
  <2>4. RecoveryOnNewEvidence'
        BY <1>9 DEF RecoveryOnNewEvidence
  <2>5. QED
        BY <1>1, <2>2, <2>3, <2>4 DEF RecoveryInv
<1>10. CASE ReadAdvanced /\ Advanced(Required[next]) /\ next < Len(Required) /\ UNCHANGED <<step, result>>
  <2>1. next' = next + 1
        BY <1>10 DEF ReadAdvanced
  <2>2. RecoveryTyped'
        BY <1>1, <1>2, <1>3, <1>4, <1>5, <1>7, <1>10, <2>1 DEF RecoveryTyped
  <2>3. next' - 1 = next
        BY <1>5, <2>1
  <2>4. PassInv'
        BY <1>1, <1>2, <1>4, <1>6, <1>8, <1>10, <2>3 DEF PassInv
  <2>5. RecoveryOnNewEvidence'
        BY <1>1, <1>2, <1>10 DEF RecoveryInv, RecoveryOnNewEvidence
  <2>6. QED
        BY <1>1, <2>2, <2>4, <2>5 DEF RecoveryInv
<1>11. CASE ReadLastAdvanced
  <2>1. /\ next = Len(Required) /\ Advanced(Required[next]) /\ next' = 1 /\ step' = "matching"
        /\ result' = result
        BY <1>11 DEF ReadLastAdvanced
  <2>2. RecoveryTyped'
        BY <1>1, <1>2, <1>3, <1>4, <1>7, <2>1 DEF RecoveryTyped, Steps
  <2>3. \A s \in RequiredStreams : Moved(s)'
        BY <1>3, <1>8, <2>1
  <2>4. PassInv'
        BY <1>1, <1>2, <1>4, <1>6, <2>1, <2>3 DEF PassInv
  <2>5. RecoveryOnNewEvidence'
        BY <1>1, <1>2, <2>1 DEF RecoveryInv, RecoveryOnNewEvidence
  <2>6. QED
        BY <1>1, <2>2, <2>4, <2>5 DEF RecoveryInv
<1>12. QED
       BY <1>9, <1>10, <1>11 DEF ReadAdvanced, Answer

\* The second reading may find a newer watermark than the first: a newer message yet.
LEMMA ReadMatchingKeeps ==
  ASSUME RecoveryInv, ReadMatching, UNCHANGED <<gateVars, linkVars>>
  PROVE  RecoveryInv'
<1>1. /\ GateInv' /\ ready' = ready /\ watermark' = watermark /\ RequiredStreams' = RequiredStreams
      /\ \A s \in Streams : Message(s)' = Message(s)
      BY GateStands DEF RecoveryInv
<1>2. /\ step = "matching" /\ next' = next + 1
      /\ recovering' = recovering /\ restoredAt' = restoredAt /\ baseline' = baseline
      /\ before' = before
      BY DEF ReadMatching
<1>3. /\ RequiredStreams \subseteq Streams /\ Len(Required) \in Nat /\ Len(Required) > 0
      /\ \A i \in 1..Len(Required) : Required[i] \in RequiredStreams
      /\ \A s \in RequiredStreams : \E i \in 1..Len(Required) : s = Required[i]
      BY RequiredFacts
<1>4. GateInv /\ RecoveryTyped /\ PassInv
      BY DEF RecoveryInv
<1>5. next \in 1..Len(Required) /\ Required[next] \in RequiredStreams
      BY <1>2, <1>3, <1>4 DEF RecoveryTyped
<1>6. PICK r \in RequiredStreams : r = Required[next]
      BY <1>5
<1>7. \A s \in RequiredStreams : BaselineCovers(s)'
      BY <1>2, <1>4 DEF PassInv, BaselineCovers
<1>8. \A s \in RequiredStreams : Moved(s)'
      BY <1>1, <1>2, <1>4 DEF PassInv, Moved
<1>9. Contexts' = Contexts /\ Instants' = Instants
      BY DEF Contexts, Numbers, RequiredStreams, Instants
<1>10. CASE step' = "idle" /\ result' = "context_mismatch" /\ context' = context
  <2>1. RecoveryTyped'
        BY <1>1, <1>2, <1>3, <1>4, <1>5, <1>9, <1>10 DEF RecoveryTyped, Steps, Statuses
  <2>2. PassInv'
        BY <1>1, <1>7, <1>10 DEF PassInv
  <2>3. RecoveryOnNewEvidence'
        BY <1>10 DEF RecoveryOnNewEvidence
  <2>4. QED
        BY <1>1, <2>1, <2>2, <2>3 DEF RecoveryInv
<1>11. CASE /\ context' = [context EXCEPT ![r] = watermark[r].seq]
            /\ \/ next < Len(Required) /\ UNCHANGED <<step, result>>
               \/ /\ next = Len(Required)
                  /\ step' = "idle" /\ result' \in {"authorization_invalid", "authorized"}
  <2>1. /\ watermark[r] \in ready[r] /\ watermark[r].seq \in Nat
        /\ watermark[r].at >= restoredAt /\ watermark[r].seq \in 0..LastSeq[r]
        /\ \A b \in before[r] : b.seq \in Nat /\ b.seq < watermark[r].seq
        BY <1>2, <1>4, WatermarkFacts DEF PassInv, Moved
  <2>2. watermark[r] \notin before[r]
        BY <2>1
  <2>3. /\ context'[r] = watermark[r].seq
        /\ \A s \in RequiredStreams : s # r => context'[s] = context[s]
        /\ context' \in Contexts
    <3>1. watermark[r].seq \in Numbers
          BY <2>1, RequiredNumbers
    <3>2. context \in [RequiredStreams -> Numbers]
          BY <1>4 DEF RecoveryTyped, Contexts
    <3>3. QED
          BY <1>11, <3>1, <3>2 DEF Contexts
  <2>4. Held(r)'
        BY <1>1, <1>2, <2>1, <2>2, <2>3 DEF Held
  <2>5. \A s \in RequiredStreams : Held(s) => Held(s)'
    <3> TAKE s \in RequiredStreams
    <3>1. CASE s = r
          BY <2>4, <3>1
    <3>2. CASE s # r
          BY <1>1, <1>2, <2>3, <3>2 DEF Held
    <3>3. QED
          BY <3>1, <3>2
  <2>6. \A i \in 1..next : Held(Required[i])'
    <3> TAKE i \in 1..next
    <3>1. PICK s \in RequiredStreams : s = Required[i]
          BY <1>3, <1>5
    <3>2. s = r \/ Held(s)
      <4>1. CASE i = next
            BY <1>6, <3>1, <4>1
      <4>2. CASE i # next
            BY <1>2, <1>4, <1>5, <3>1, <4>2 DEF PassInv
      <4>3. QED
            BY <4>1, <4>2
    <3>3. Held(s)'
          BY <2>4, <2>5, <3>2
    <3>4. QED
          BY <3>1, <3>3
  <2>7. CASE next < Len(Required) /\ UNCHANGED <<step, result>>
    <3>1. RecoveryTyped'
          BY <1>1, <1>2, <1>3, <1>4, <1>5, <1>9, <2>3, <2>7 DEF RecoveryTyped
    <3>2. next' - 1 = next
          BY <1>2, <1>5
    <3>3. PassInv'
          BY <1>1, <1>2, <1>4, <1>7, <1>8, <2>6, <2>7, <3>2 DEF PassInv
    <3>4. RecoveryOnNewEvidence'
          BY <1>2, <1>4, <2>7 DEF PassInv, RecoveryOnNewEvidence
    <3>5. QED
          BY <1>1, <3>1, <3>3, <3>4 DEF RecoveryInv
  <2>8. CASE /\ next = Len(Required)
             /\ step' = "idle" /\ result' \in {"authorization_invalid", "authorized"}
    <3>1. RecoveryTyped'
          BY <1>1, <1>2, <1>3, <1>4, <1>5, <1>9, <2>3, <2>8 DEF RecoveryTyped, Steps, Statuses
    <3>2. PassInv'
          BY <1>1, <1>7, <2>8 DEF PassInv
    <3>3. \A s \in RequiredStreams : Held(s)'
      <4> TAKE s \in RequiredStreams
      <4>1. PICK i \in 1..Len(Required) : s = Required[i]
            BY <1>3
      <4>2. QED
            BY <2>6, <2>8, <4>1
    <3>4. RecoveryOnNewEvidence'
          BY <1>1, <3>3 DEF RecoveryOnNewEvidence, Held
    <3>5. QED
          BY <1>1, <3>1, <3>2, <3>4 DEF RecoveryInv
  <2>9. QED
        BY <1>11, <2>7, <2>8
<1>12. QED
       BY <1>6, <1>10, <1>11 DEF ReadMatching, Answer

-----------------------------------------------------------------------------
LEMMA InitRecovers == CommunicationInit => RecoveryInv
<1> SUFFICES ASSUME CommunicationInit PROVE RecoveryInv
    OBVIOUS
<1>1. RequiredStreams \subseteq Streams /\ Len(Required) \in Nat /\ Len(Required) > 0
      BY RequiredFacts
<1>2. GateInit /\ StreamsInv
      BY GateStarts DEF CommunicationInit
<1>3. \A s \in Streams : StampsInOrder(s) /\ WatermarkOnTop(s)
      BY <1>2 DEF GateInit, StampsInOrder, WatermarkOnTop
<1>4. RecoveryTyped
  <2>1. context \in Contexts
    <3>1. \A s \in RequiredStreams : 0 \in Numbers
      <4> TAKE s \in RequiredStreams
      <4>1. 0 \in 0..LastSeq[s]
            BY <1>1, StreamConstants
      <4>2. QED
            BY <4>1, RequiredNumbers
    <3>2. QED
          BY <3>1 DEF CommunicationInit, Contexts
  <2>2. 0 \in Instants
        BY StreamsAssumption DEF StreamsAssumption, Instants
  <2>3. /\ DOMAIN baseline = RequiredStreams /\ DOMAIN before = RequiredStreams
        /\ \A s \in RequiredStreams : baseline[s] = Nothing /\ before[s] = {}
        BY DEF CommunicationInit
  <2>4. /\ recovering = FALSE /\ restoredAt = 0 /\ step = "idle" /\ next = 1 /\ result = "none"
        BY DEF CommunicationInit
  <2>5. next \in 1..Len(Required) + 1
        BY <1>1, <2>4
  <2>6. QED
        BY <2>1, <2>2, <2>3, <2>4, <2>5 DEF RecoveryTyped, Steps, Statuses
<1>5. PassInv
      BY DEF CommunicationInit, PassInv, BaselineCovers
<1>6. RecoveryOnNewEvidence
      BY DEF CommunicationInit, RecoveryOnNewEvidence
<1>7. QED
      BY <1>2, <1>3, <1>4, <1>5, <1>6 DEF RecoveryInv, GateInv

LEMMA NextRecovers ==
  ASSUME RecoveryInv, [CommunicationNext]_communicationVars
  PROVE  RecoveryInv'
<1>1. CASE (LinkNext \/ GateNext) /\ UNCHANGED recoveryVars
      BY <1>1, ArrivalsKeep
<1>2. CASE RecoveryNext
      BY <1>2, BeginResynchronizationKeeps, ReadBaselineKeeps, BeginEvaluateKeeps, ReadAdvancedKeeps,
         ReadMatchingKeeps
      DEF RecoveryNext
<1>3. CASE UNCHANGED communicationVars
  <2>1. /\ GateInv' /\ ready' = ready /\ watermark' = watermark /\ RequiredStreams' = RequiredStreams
        /\ \A s \in Streams : Message(s)' = Message(s)
        BY <1>3, GateStands DEF RecoveryInv, communicationVars
  <2>2. /\ recovering' = recovering /\ restoredAt' = restoredAt /\ baseline' = baseline
        /\ step' = step /\ next' = next /\ context' = context /\ result' = result /\ before' = before
        BY <1>3 DEF communicationVars, recoveryVars
  <2>3. RequiredStreams \subseteq Streams
        BY RequiredFacts
  <2>4. Contexts' = Contexts /\ Instants' = Instants
        BY DEF Contexts, Numbers, RequiredStreams, Instants
  <2>5. RecoveryTyped'
        BY <2>1, <2>2, <2>3, <2>4 DEF RecoveryInv, RecoveryTyped
  <2>6. PassInv'
        BY <2>1, <2>2 DEF RecoveryInv, PassInv, BaselineCovers, Moved, Held
  <2>7. RecoveryOnNewEvidence'
        BY <2>1, <2>2 DEF RecoveryInv, RecoveryOnNewEvidence
  <2>8. QED
        BY <2>1, <2>5, <2>6, <2>7 DEF RecoveryInv
<1>4. QED
      BY <1>1, <1>2, <1>3 DEF CommunicationNext

LEMMA RecoveryInvariance == CommunicationSpec => []RecoveryInv
<1>1. RecoveryInv /\ [CommunicationNext]_communicationVars => RecoveryInv'
      BY NextRecovers
<1>2. QED
      BY <1>1, InitRecovers, PTL DEF CommunicationSpec

\* The gate and the recovery over it stay in their domains.
THEOREM CommunicationTyped == CommunicationSpec => []CommunicationTypeOK
<1>1. RecoveryInv => CommunicationTypeOK
      BY GateTypes DEF RecoveryInv, GateInv, RecoveryTyped, CommunicationTypeOK
<1>2. QED
      BY <1>1, RecoveryInvariance, PTL

\* evaluate reads every watermark twice, under a lock of its own each time
\* (communication_recovery.cpp:76): whatever arrives in between, an authorized context
\* holds messages from beyond the boundary only.
THEOREM RecoversOnNewEvidence == CommunicationSpec => []RecoveryOnNewEvidence
<1>1. RecoveryInv => RecoveryOnNewEvidence
      BY DEF RecoveryInv
<1>2. QED
      BY <1>1, RecoveryInvariance, PTL

-----------------------------------------------------------------------------
(***************************************************************************)
(* Snapshots and captures: a version keeps its contents, and what          *)
(* validation runs on never goes back.                                     *)
(***************************************************************************)

Frames == [revision : 1..MaxRevision, sensor : [Sensors -> Samples \cup {None}],
           trackers : [batch : 1..MaxRevision, at : Times, line : Versions],
           touchdown : Touchdowns \cup {None}, snapshot : Snapshots]

CapturesTyped ==
  /\ CaptureTypeOK
  /\ sensor \in [Sensors -> Samples \cup {None}]
  /\ trackers.batch < revision
  /\ frame \in Frames \cup {None}

\* What was ever installed is behind the snapshot there is, part by part.
InstalledBehind ==
  /\ latest = None => installed = {}
  /\ latest # None =>
       \A a \in installed :
         /\ a.part \in Parts /\ a.version \in Nat
         /\ a.version <= latest.version[a.part]
         /\ a.version = latest.version[a.part] => a.payload = latest.payload[a.part]

SnapshotsInv == InstalledBehind /\ OnePayloadPerVersion

\* What was ever captured is behind the marks there are.
MapsBehind ==
  /\ last = None => \A m \in MapIds : validated[m] = 0
  /\ last # None => \A m \in MapIds : validated[m] <= last.map

TouchdownsBehind ==
  /\ last = None => touchdowns = {}
  /\ last # None =>
       \A t \in touchdowns :
         /\ last.touchdown # None /\ t.number \in Nat /\ t.batch \in Nat
         /\ t.number <= last.touchdown /\ t.batch <= last.batch

CapturesInv == MapsBehind /\ TouchdownsBehind /\ TouchdownsInOrder

InputsInv == CapturesTyped /\ SnapshotsInv /\ CapturesInv

-----------------------------------------------------------------------------
\* What an accepted update brings is not older than what is there, and no other
\* contents under the same version.
LEMMA UpdateMovesForward ==
  ASSUME NEW s \in Snapshots, Update(s), latest \in Snapshots \cup {None}, latest # None
  PROVE  \A p \in Parts :
           /\ latest.version[p] <= s.version[p]
           /\ latest.version[p] = s.version[p] => latest.payload[p] = s.payload[p]
<1>1. ~Conflicts(s, latest) /\ ~OutOfOrder(s, latest)
  <2>1. Status(s) = "accepted"
        BY DEF Update
  <2>2. QED
        BY <2>1 DEF Status
<1>2. \A p \in Parts : latest.version[p] \in Nat /\ s.version[p] \in Nat
      BY DEF Snapshots
<1>3. \A p \in Parts : ~(s.version[p] < latest.version[p])
      BY <1>1 DEF OutOfOrder
<1>4. \A p \in Parts : s.version[p] = latest.version[p] => s.payload[p] = latest.payload[p]
      BY <1>1 DEF Conflicts
<1>5. \A p \in Parts : latest.version[p] <= s.version[p]
  <2> TAKE p \in Parts
  <2>1. PICK old \in Nat, new \in Nat : old = latest.version[p] /\ new = s.version[p]
        BY <1>2
  <2>2. ~(new < old)
        BY <1>3, <2>1
  <2>3. QED
        BY <2>1, <2>2
<1>6. QED
      BY <1>4, <1>5

LEMMA UpdateKeeps ==
  ASSUME NEW s \in Snapshots, Update(s), latest \in Snapshots \cup {None}, SnapshotsInv
  PROVE  SnapshotsInv'
<1> DEFINE new == {[part |-> p, version |-> s.version[p], payload |-> s.payload[p]] : p \in Parts}
<1>1. latest' = s /\ installed' = installed \cup new
      BY DEF Update
<1>2. s # None
      BY NoSnapshotAssumption DEF NoSnapshotAssumption
<1>3. \A a \in new : /\ a.part \in Parts /\ a.version \in Nat
                     /\ a.version = s.version[a.part] /\ a.payload = s.payload[a.part]
      BY DEF Snapshots
<1>4. ASSUME NEW a \in installed
      PROVE  /\ a.part \in Parts /\ a.version \in Nat
             /\ a.version <= s.version[a.part]
             /\ a.version = s.version[a.part] => a.payload = s.payload[a.part]
  <2>1. latest # None
        BY DEF SnapshotsInv, InstalledBehind
  <2>2. /\ a.part \in Parts /\ a.version \in Nat
        /\ a.version <= latest.version[a.part]
        /\ a.version = latest.version[a.part] => a.payload = latest.payload[a.part]
        BY <2>1 DEF SnapshotsInv, InstalledBehind
  <2>3. /\ latest.version[a.part] <= s.version[a.part]
        /\ latest.version[a.part] = s.version[a.part] => latest.payload[a.part] = s.payload[a.part]
        BY <2>1, <2>2, UpdateMovesForward
  <2>4. latest.version[a.part] \in Nat /\ s.version[a.part] \in Nat
        BY <2>1, <2>2 DEF Snapshots
  <2>5. QED
        BY <2>2, <2>3, <2>4
<1> HIDE DEF new
<1>5. ASSUME NEW a \in installed'
      PROVE  /\ a.part \in Parts /\ a.version \in Nat
             /\ a.version <= s.version[a.part]
             /\ a.version = s.version[a.part] => a.payload = s.payload[a.part]
  <2>1. CASE a \in installed
        BY <1>4, <2>1
  <2>2. CASE a \in new
        BY <1>3, <2>2
  <2>3. QED
        BY <1>1, <1>5, <2>1, <2>2
<1>6. InstalledBehind'
      BY <1>1, <1>2, <1>5 DEF InstalledBehind
<1>7. ASSUME NEW a \in installed', NEW b \in installed', a.part = b.part, a.version = b.version
      PROVE  a.payload = b.payload
  <2>1. CASE a \in installed /\ b \in installed
        BY <1>7, <2>1 DEF SnapshotsInv, OnePayloadPerVersion
  <2>2. CASE a \in new
        BY <1>3, <1>5, <1>7, <2>2
  <2>3. CASE b \in new
        BY <1>3, <1>5, <1>7, <2>3
  <2>4. QED
        BY <1>1, <1>7, <2>1, <2>2, <2>3
<1>8. QED
      BY <1>6, <1>7 DEF SnapshotsInv, OnePayloadPerVersion

-----------------------------------------------------------------------------
\* The marks a frame gives, and what is kept of them.
LEMMA MarksFacts ==
  ASSUME CapturesTyped, frame # None, Complete
  PROVE  /\ MarksOf \in Marks
         /\ MarksOf.map = frame.snapshot.map.seq
         /\ MarksOf.batch = frame.trackers.batch
         /\ MarksOf.touchdown = frame.touchdown
<1>1. frame \in Frames
      BY DEF CapturesTyped
<1>2. [i \in Sensors |-> frame.sensor[i].seq] \in [Sensors -> 1..MaxSeq]
  <2>1. \A i \in Sensors : frame.sensor[i] \in Samples
        BY <1>1 DEF Complete, Frames
  <2>2. QED
        BY <2>1 DEF Samples
<1>3. /\ frame.revision \in 1..MaxRevision /\ frame.trackers.batch \in 1..MaxRevision
      /\ frame.snapshot.map.seq \in 1..MaxMapSeq /\ frame.touchdown \in Touchdowns \cup {None}
      BY <1>1 DEF Frames, Snapshots, MapVersions
<1>4. QED
      BY <1>2, <1>3 DEF MarksOf, Marks

LEMMA KeptFacts ==
  ASSUME NEW marks \in Marks, last \in Marks \cup {None}
  PROVE  /\ KeepTouchdown(marks) \in Marks
         /\ KeepTouchdown(marks).map = marks.map
         /\ KeepTouchdown(marks).batch = marks.batch
         /\ KeepTouchdown(marks).touchdown =
              IF marks.touchdown = None /\ last # None THEN last.touchdown ELSE marks.touchdown
<1>1. CASE marks.touchdown = None /\ last # None
  <2>1. last.touchdown \in Touchdowns \cup {None}
        BY <1>1 DEF Marks
  <2>2. QED
        BY <1>1, <2>1 DEF KeepTouchdown, Marks
<1>2. CASE ~(marks.touchdown = None /\ last # None)
      BY <1>2 DEF KeepTouchdown
<1>3. QED
      BY <1>1, <1>2

\* A capture that passes is not behind the last one, in the map as in the evidence.
LEMMA CaptureMovesForward ==
  ASSUME CapturesTyped, Capture, last # None
  PROVE  /\ last.map <= MarksOf.map
         /\ last.batch <= MarksOf.batch
         /\ MarksOf.touchdown # None /\ last.touchdown # None => last.touchdown <= MarksOf.touchdown
<1>1. frame # None /\ Complete /\ ~Regressed(MarksOf)
      BY DEF Capture
<1>2. MarksOf \in Marks /\ last \in Marks
      BY <1>1, MarksFacts DEF CapturesTyped, CaptureTypeOK
<1> PICK marks : marks = MarksOf
    OBVIOUS
<1>3. /\ marks.map \in Int /\ last.map \in Int /\ marks.batch \in Int /\ last.batch \in Int
      /\ marks.touchdown # None => marks.touchdown \in Int
      /\ last.touchdown # None => last.touchdown \in Int
      BY <1>2 DEF Marks, Touchdowns
<1>4. QED
      BY <1>1, <1>3 DEF Regressed

LEMMA CaptureKeeps ==
  ASSUME CapturesTyped, CapturesInv, Capture
  PROVE  /\ CapturesInv'
         /\ \A m \in MapIds : validated'[m] >= validated[m]
         /\ last' \in Marks
         /\ validated' \in [MapIds -> 0..MaxMapSeq]
<1> PICK marks : marks = MarksOf
    OBVIOUS
<1> DEFINE kept == KeepTouchdown(marks)
<1>1. frame # None /\ Complete /\ frame \in Frames
      BY DEF Capture, CapturesTyped
<1>2. /\ marks \in Marks /\ marks.map = frame.snapshot.map.seq
      /\ marks.batch = frame.trackers.batch /\ marks.touchdown = frame.touchdown
      BY <1>1, MarksFacts
<1>3. /\ marks.map \in 1..MaxMapSeq /\ marks.batch \in Nat
      /\ marks.touchdown # None => marks.touchdown \in Nat
      BY <1>2 DEF Marks, Touchdowns
<1>4. last' = kept /\ last \in Marks \cup {None}
      BY DEF Capture, CapturesTyped, CaptureTypeOK
<1>5. /\ kept \in Marks /\ kept.map = marks.map /\ kept.batch = marks.batch
      /\ kept.touchdown = IF marks.touchdown = None /\ last # None THEN last.touchdown
                          ELSE marks.touchdown
      BY <1>2, <1>4, KeptFacts
<1> HIDE DEF kept
<1>6. last' # None
      BY <1>4, <1>5, NoMarksAssumption DEF NoMarksAssumption
<1>7. last # None => /\ last.map <= marks.map /\ last.batch <= marks.batch
                     /\ marks.touchdown # None /\ last.touchdown # None
                          => last.touchdown <= marks.touchdown
                     /\ last.map \in Nat /\ last.batch \in Nat
                     /\ last.touchdown # None => last.touchdown \in Nat
  <2>1. last # None => last \in Marks
        BY <1>4
  <2>2. QED
        BY <2>1, CaptureMovesForward DEF Marks, Touchdowns
<1>8. /\ validated \in [MapIds -> 0..MaxMapSeq]
      /\ validated' = [validated EXCEPT ![frame.snapshot.map.id] = marks.map]
      BY <1>2 DEF Capture, CapturesTyped, CaptureTypeOK
<1>9. \A m \in MapIds : validated[m] <= marks.map /\ validated[m] \in Nat
  <2>1. CASE last = None
        BY <1>3, <1>8, <2>1 DEF CapturesInv, MapsBehind
  <2>2. CASE last # None
        BY <1>3, <1>7, <1>8, <2>2 DEF CapturesInv, MapsBehind
  <2>3. QED
        BY <2>1, <2>2
<1>10. \A m \in MapIds : /\ validated'[m] \in 0..MaxMapSeq
                         /\ validated'[m] <= marks.map /\ validated'[m] >= validated[m]
       BY <1>3, <1>8, <1>9
<1>11. MapsBehind'
       BY <1>4, <1>5, <1>6, <1>10 DEF MapsBehind
<1> DEFINE fresh == [number |-> marks.touchdown, batch |-> marks.batch]
<1>12. touchdowns' = IF marks.touchdown = None THEN touchdowns ELSE touchdowns \cup {fresh}
       BY <1>2 DEF Capture
<1>13. ASSUME NEW t \in touchdowns
       PROVE  /\ t.number \in Nat /\ t.batch \in Nat /\ kept.touchdown # None
              /\ t.batch <= marks.batch /\ t.number <= kept.touchdown
  <2>1. last # None
        BY DEF CapturesInv, TouchdownsBehind
  <2>2. /\ last.touchdown # None /\ t.number \in Nat /\ t.batch \in Nat
        /\ t.number <= last.touchdown /\ t.batch <= last.batch
        BY <2>1 DEF CapturesInv, TouchdownsBehind
  <2>3. QED
        BY <1>3, <1>5, <1>7, <2>1, <2>2
<1>14. marks.touchdown # None => kept.touchdown = marks.touchdown
       BY <1>5
<1>15. TouchdownsBehind'
  <2>1. ASSUME NEW t \in touchdowns'
        PROVE  /\ kept.touchdown # None /\ t.number \in Nat /\ t.batch \in Nat
               /\ t.number <= kept.touchdown /\ t.batch <= marks.batch
    <3>1. CASE t \in touchdowns
          BY <1>13, <3>1
    <3>2. CASE t \notin touchdowns
      <4>1. marks.touchdown # None /\ t = fresh
            BY <1>12, <2>1, <3>2
      <4>2. QED
            BY <1>3, <1>14, <4>1
    <3>3. QED
          BY <3>1, <3>2
  <2>2. QED
        BY <1>4, <1>5, <1>6, <2>1 DEF TouchdownsBehind
<1>16. TouchdownsInOrder'
  <2> SUFFICES ASSUME NEW a \in touchdowns', NEW b \in touchdowns', a.batch < b.batch
               PROVE  a.number <= b.number
      BY DEF TouchdownsInOrder
  <2>1. CASE a \in touchdowns /\ b \in touchdowns
        BY <2>1 DEF CapturesInv, TouchdownsInOrder
  <2>2. CASE a \notin touchdowns
    <3>1. a = fresh /\ marks.touchdown # None
          BY <1>12, <2>2
    <3>2. b \notin touchdowns
          BY <1>3, <1>13, <3>1
    <3>3. b = fresh
          BY <1>12, <3>2
    <3>4. QED
          BY <1>3, <3>1, <3>3
  <2>3. CASE a \in touchdowns /\ b \notin touchdowns
    <3>1. b = fresh /\ marks.touchdown # None
          BY <1>12, <2>3
    <3>2. QED
          BY <1>13, <1>14, <2>3, <3>1
  <2>4. QED
        BY <2>1, <2>2, <2>3
<1>17. validated' \in [MapIds -> 0..MaxMapSeq]
       BY <1>8, <1>10
<1>18. QED
       BY <1>4, <1>5, <1>10, <1>11, <1>15, <1>16, <1>17 DEF CapturesInv

-----------------------------------------------------------------------------
LEMMA InputsStart == Init => InputsInv
<1> SUFFICES ASSUME Init PROVE InputsInv
    OBVIOUS
<1>1. CapturesTyped
  <2>1. /\ 0 \in Times /\ 1 \in 1..MaxRevision /\ 0 \in Versions /\ 0 \in 0..MaxMapSeq
        /\ 0 \in 0..MaxRevision
        BY SnapshotAssumption, CaptureAssumption
        DEF SnapshotAssumption, CaptureAssumption, Times, Versions
  <2>2. QED
        BY <2>1 DEF Init, SnapshotInit, CapturesTyped, CaptureTypeOK, TrackerOutputs
<1>2. SnapshotsInv
      BY DEF Init, SnapshotInit, SnapshotsInv, InstalledBehind, OnePayloadPerVersion
<1>3. CapturesInv
      BY DEF Init, CapturesInv, MapsBehind, TouchdownsBehind, TouchdownsInOrder
<1>4. QED
      BY <1>1, <1>2, <1>3 DEF InputsInv

\* Nothing but a capture touches the marks and what was captured.
LEMMA CapturesUntouched ==
  ASSUME CapturesInv, UNCHANGED <<last, touchdowns, validated>>
  PROVE  CapturesInv'
  BY DEF CapturesInv, MapsBehind, TouchdownsBehind, TouchdownsInOrder

LEMMA SnapshotsUntouched ==
  ASSUME SnapshotsInv, UNCHANGED snapshotVars
  PROVE  SnapshotsInv'
  BY DEF SnapshotsInv, InstalledBehind, OnePayloadPerVersion, snapshotVars

\* The source only ever counts up.
LEMMA SourceTyped ==
  ASSUME CapturesTyped
  PROVE  /\ \A i \in Sensors : Arrive(i) => CapturesTyped'
         /\ InstallSnapshot => CapturesTyped' /\ latest' \in Snapshots \cup {None}
         /\ Tick => CapturesTyped'
<1>1. /\ revision \in Nat /\ MaxRevision \in Nat /\ MaxTime \in Nat /\ MaxSeq \in Nat
      /\ trackers.batch \in Nat
      BY SnapshotAssumption, CaptureAssumption
      DEF SnapshotAssumption, CaptureAssumption, CapturesTyped, CaptureTypeOK, TrackerOutputs
<1>2. ASSUME NEW i \in Sensors, Arrive(i) PROVE CapturesTyped'
  <2>1. /\ revision < MaxRevision /\ revision' = revision + 1
        /\ UNCHANGED <<clock, latest, trackers, frame, last, validated>>
        BY <1>2 DEF Arrive, Changed, snapshotVars, captureVars
  <2>2. PICK seq \in {1} \cup {sensor[i].seq + 1 : j \in {j \in {i} : sensor[j] # None}} :
          seq <= MaxSeq /\ sensor' = [sensor EXCEPT ![i] = [seq |-> seq, at |-> clock]]
        BY <1>2 DEF Arrive
  <2>3. seq \in 1..MaxSeq
    <3>1. sensor[i] # None => sensor[i].seq \in 1..MaxSeq
          BY DEF CapturesTyped, Samples
    <3>2. seq = 1 \/ (sensor[i] # None /\ seq = sensor[i].seq + 1)
          BY <2>2
    <3>3. QED
          BY <1>1, <2>2, <3>1, <3>2
  <2>4. sensor' \in [Sensors -> Samples \cup {None}]
        BY <2>2, <2>3 DEF CapturesTyped, CaptureTypeOK, Samples
  <2>5. revision' \in 1..MaxRevision /\ trackers'.batch < revision'
        BY <1>1, <2>1 DEF CapturesTyped, CaptureTypeOK
  <2>6. QED
        BY <2>1, <2>4, <2>5 DEF CapturesTyped, CaptureTypeOK
<1>3. ASSUME InstallSnapshot PROVE CapturesTyped' /\ latest' \in Snapshots \cup {None}
  <2>1. /\ revision < MaxRevision /\ revision' = revision + 1
        /\ UNCHANGED <<clock, sensor, trackers, frame, last, validated>>
        /\ latest' \in Snapshots
        BY <1>3 DEF InstallSnapshot, Update, Changed, captureVars
  <2>2. revision' \in 1..MaxRevision /\ trackers'.batch < revision'
        BY <1>1, <2>1 DEF CapturesTyped, CaptureTypeOK
  <2>3. QED
        BY <2>1, <2>2 DEF CapturesTyped, CaptureTypeOK
<1>4. ASSUME Tick PROVE CapturesTyped'
  <2>1. clock' \in Times
        BY <1>1, <1>4 DEF Tick, CapturesTyped, CaptureTypeOK, Times
  <2>2. QED
        BY <1>4, <2>1 DEF Tick, CapturesTyped, CaptureTypeOK, snapshotVars, sourceVars, captureVars
<1>5. QED
      BY <1>2, <1>3, <1>4

LEMMA FreezeTyped ==
  ASSUME CapturesTyped, Freeze
  PROVE  CapturesTyped'
<1>1. /\ latest \in Snapshots /\ revision < MaxRevision /\ revision' = revision + 1
      /\ UNCHANGED <<clock, latest, sensor, last, validated>>
      BY DEF Freeze, Changed, CapturesTyped, CaptureTypeOK, snapshotVars
<1>2. PICK line \in {trackers.line, latest.version["reference_line"]},
           touchdown \in Touchdowns \cup {None} :
        /\ trackers' = [batch |-> trackers.batch + 1, at |-> clock, line |-> line]
        /\ frame' = [revision |-> revision + 1, sensor |-> sensor,
                     trackers |-> [batch |-> trackers.batch + 1, at |-> clock, line |-> line],
                     touchdown |-> touchdown, snapshot |-> latest]
      BY DEF Freeze
<1>3. /\ revision \in Nat /\ MaxRevision \in Nat /\ trackers.batch \in Nat
      /\ trackers.batch < revision
      BY CaptureAssumption DEF CaptureAssumption, CapturesTyped, CaptureTypeOK, TrackerOutputs
<1>4. line \in Versions
  <2>1. latest.version["reference_line"] \in 1..MaxVersion
        BY <1>1, CaptureAssumption DEF CaptureAssumption, Snapshots
  <2>2. trackers.line \in Versions
        BY DEF CapturesTyped, CaptureTypeOK, TrackerOutputs
  <2>3. QED
        BY <1>2, <2>1, <2>2 DEF Versions
<1>5. trackers.batch + 1 \in 1..MaxRevision /\ revision + 1 \in 1..MaxRevision
      BY <1>1, <1>3
<1>6. clock \in Times
      BY DEF CapturesTyped, CaptureTypeOK
<1>7. frame' \in Frames
      BY <1>1, <1>2, <1>4, <1>5, <1>6 DEF Frames, CapturesTyped
<1>8. trackers' \in TrackerOutputs /\ trackers'.batch < revision'
      BY <1>1, <1>2, <1>3, <1>4, <1>5, <1>6 DEF TrackerOutputs
<1>9. QED
      BY <1>1, <1>5, <1>7, <1>8 DEF CapturesTyped, CaptureTypeOK

LEMMA InputsKept ==
  ASSUME InputsInv, [Next]_vars
  PROVE  InputsInv'
<1>1. ASSUME NEW i \in Sensors, Arrive(i) PROVE InputsInv'
      BY <1>1, SourceTyped, CapturesUntouched, SnapshotsUntouched DEF InputsInv, Arrive, captureVars
<1>2. CASE InstallSnapshot
  <2>1. SnapshotsInv'
    <3>1. PICK s \in Snapshots : Update(s)
          BY <1>2 DEF InstallSnapshot
    <3>2. QED
          BY <3>1, UpdateKeeps DEF InputsInv, CapturesTyped, CaptureTypeOK
  <2>2. QED
        BY <1>2, <2>1, SourceTyped, CapturesUntouched DEF InputsInv, InstallSnapshot, captureVars
<1>3. CASE Tick
      BY <1>3, SourceTyped, CapturesUntouched, SnapshotsUntouched DEF InputsInv, Tick, captureVars
<1>4. CASE Freeze
      BY <1>4, FreezeTyped, CapturesUntouched, SnapshotsUntouched DEF InputsInv, Freeze
<1>5. CASE Capture
  <2>1. CapturesTyped'
    <3>1. UNCHANGED <<clock, latest, sensor, trackers, revision>> /\ frame' = None
          BY <1>5 DEF Capture, snapshotVars, sourceVars
    <3>2. QED
          BY <1>5, <3>1, CaptureKeeps DEF InputsInv, CapturesTyped, CaptureTypeOK
  <2>2. QED
        BY <1>5, <2>1, CaptureKeeps, SnapshotsUntouched DEF InputsInv, Capture
<1>6. CASE Refuse
  <2>1. CapturesTyped'
        BY <1>6 DEF Refuse, InputsInv, CapturesTyped, CaptureTypeOK, snapshotVars, sourceVars
  <2>2. QED
        BY <1>6, <2>1, CapturesUntouched, SnapshotsUntouched DEF InputsInv, Refuse
<1>7. CASE UNCHANGED vars
  <2>1. CapturesTyped'
        BY <1>7 DEF vars, InputsInv, CapturesTyped, CaptureTypeOK, snapshotVars, sourceVars, captureVars
  <2>2. QED
        BY <1>7, <2>1, CapturesUntouched, SnapshotsUntouched DEF InputsInv, vars, captureVars
<1>8. QED
      BY <1>1, <1>2, <1>3, <1>4, <1>5, <1>6, <1>7 DEF Next

\* Every variable of the snapshots and of the captures stays in its domain.
THEOREM CaptureTyped == Spec => []CaptureTypeOK
<1>1. InputsInv => CaptureTypeOK
      BY DEF InputsInv, CapturesTyped
<1>2. InputsInv /\ [Next]_vars => InputsInv'
      BY InputsKept
<1>3. QED
      BY <1>1, <1>2, InputsStart, PTL DEF Spec

\* SnapshotManager compares a snapshot with the last one only (versioned_snapshot.cpp:581):
\* that is enough for a version never to come back with other contents.
THEOREM VersionsKeepTheirPayload == Spec => []OnePayloadPerVersion
<1>1. InputsInv => OnePayloadPerVersion
      BY DEF InputsInv, SnapshotsInv
<1>2. InputsInv /\ [Next]_vars => InputsInv'
      BY InputsKept
<1>3. QED
      BY <1>1, <1>2, InputsStart, PTL DEF Spec

\* Sequence watermarks move only when a capture passes, and captures without touchdown
\* come in between (synchronized_validation_inputs.cpp:319): neither the map of an id
\* nor the touchdown evidence validation runs on ever goes back.
THEOREM CapturesNeverRegress == Spec => ValidatedInputsNeverRegress
<1>1. InputsInv /\ [Next]_vars => InputsInv'
      BY InputsKept
<1>2. InputsInv /\ InputsInv' /\ [Next]_vars =>
        [/\ \A m \in MapIds : validated'[m] >= validated[m]
         /\ TouchdownsInOrder']_<<validated, touchdowns>>
  <2> SUFFICES ASSUME InputsInv, InputsInv', [Next]_vars, ~UNCHANGED <<validated, touchdowns>>
               PROVE  /\ \A m \in MapIds : validated'[m] >= validated[m]
                      /\ TouchdownsInOrder'
      OBVIOUS
  <2>1. Capture
        BY DEF Next, Arrive, InstallSnapshot, Tick, Freeze, Refuse, captureVars, vars
  <2>2. QED
        BY <2>1, CaptureKeeps DEF InputsInv, CapturesInv
<1>3. QED
      BY <1>1, <1>2, InputsStart, PTL DEF Spec, ValidatedInputsNeverRegress
=============================================================================
