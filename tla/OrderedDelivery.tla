--------------------------- MODULE OrderedDelivery ---------------------------
(***************************************************************************)
(* What a consumer behind the message gate relies on: on every stream the  *)
(* messages it is handed have growing numbers and versions that never      *)
(* decrease.  Numbers may be skipped, and several may come at once.        *)
(***************************************************************************)
EXTENDS Integers

CONSTANT Streams

VARIABLE latest   \* per stream: number and version of the last message handed over

Init == latest = [s \in Streams |-> [seq |-> 0, version |-> 0]]

\* One or more messages of a stream are handed over.
Advance(s) ==
  /\ latest'[s].seq > latest[s].seq
  /\ latest'[s].version >= latest[s].version
  /\ latest' = [latest EXCEPT ![s] = latest'[s]]

Next == \E s \in Streams : Advance(s)

Spec == Init /\ [][Next]_latest
=============================================================================
