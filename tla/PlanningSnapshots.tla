-------------------------- MODULE PlanningSnapshots --------------------------
(***************************************************************************)
(* SnapshotManager (versioned_snapshot.cpp): the map, the reference line   *)
(* and the two areas are installed together, each with a version of its    *)
(* own.                                                                    *)
(*                                                                         *)
(* Abstracted: a payload is a model value; an update whose fields are not  *)
(* valid is refused without effect, as is any update that is not admitted. *)
(***************************************************************************)
EXTENDS Integers

CONSTANTS
  Parts,       \* reference line, robot operating area, cable corridor
  MapIds,
  Payloads,
  MaxMapSeq,   \* bound on map sequence numbers
  MaxVersion,  \* bound on part versions
  MapAge,      \* maximum_age, 0 for no limit
  MaxTime,     \* the clock stops at MaxTime
  None         \* std::nullopt

ASSUME SnapshotAssumption == {MaxMapSeq, MaxVersion, MapAge, MaxTime} \subseteq Nat

VARIABLES
  clock,
  latest,      \* latest_
  installed    \* history: part, version and payload of everything installed

snapshotVars == <<latest, installed>>

Times == 0..MaxTime
MapVersions == [id : MapIds, seq : 1..MaxMapSeq, at : Times]
Snapshots == [map : MapVersions, cells : Payloads,
              version : [Parts -> 1..MaxVersion], payload : [Parts -> Payloads]]

ASSUME NoSnapshotAssumption == None \notin Snapshots

SnapshotInit ==
  /\ clock = 0
  /\ latest = None
  /\ installed = {}

-----------------------------------------------------------------------------
(* Faults the runs must notice                                             *)

OnlyWhenAllSame(s, old) ==
  s.map = old.map /\ s.version = old.version /\ s.payload # old.payload

-----------------------------------------------------------------------------
(* update                                                                  *)

Expired(s) ==
  \/ s.map.at > clock
  \/ MapAge > 0 /\ clock - s.map.at > MapAge

\* Some part has the installed version and another payload.
Conflicts(s, old) ==
  \/ s.map = old.map /\ s.cells # old.cells
  \/ \E p \in Parts : s.version[p] = old.version[p] /\ s.payload[p] # old.payload[p]

SamePayload(s, old) == s.cells = old.cells /\ s.payload = old.payload

\* Map numbers are compared within one map id only; what is no duplicate needs a
\* newer map, even to bring a newer part.
MapRolledBack(s, old) == s.map.id = old.map.id /\ s.map.seq <= old.map.seq

OutOfOrder(s, old) == \E p \in Parts : s.version[p] < old.version[p]

Status(s) ==
  CASE Expired(s)                                             -> "expired"
    [] latest = None                                          -> "accepted"
    [] Conflicts(s, latest)                                   -> "version_rollback"
    [] s.map = latest.map /\ s.version = latest.version
         /\ SamePayload(s, latest)                            -> "duplicate"
    [] MapRolledBack(s, latest)                            -> "version_rollback"
    [] OutOfOrder(s, latest)                                  -> "out_of_order"
    [] OTHER                                                  -> "accepted"

Update(s) ==
  /\ Status(s) = "accepted"
  /\ latest' = s
  /\ installed' = installed \cup
       {[part |-> p, version |-> s.version[p], payload |-> s.payload[p]] : p \in Parts}

-----------------------------------------------------------------------------
(* Properties                                                              *)

\* A version names one payload for good: however snapshots arrive, and whichever
\* maps they came with, no two installed ones ever had the same version of a part
\* and different contents.
OnePayloadPerVersion ==
  \A a, b \in installed :
    a.part = b.part /\ a.version = b.version => a.payload = b.payload
=============================================================================
