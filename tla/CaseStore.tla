------------------------------ MODULE CaseStore ------------------------------
(***************************************************************************)
(* The recovery case repositories under concurrent writers, for one case:  *)
(* what RecoveryService assumes of a save (one atomic compare-and-set on   *)
(* the version) against what the two implementations do.  The DynamoDB     *)
(* repository sends one conditional put.  The in-memory repository reads   *)
(* the stored version, copies the case, then assigns it, and another       *)
(* server thread may run in between.                                       *)
(*                                                                         *)
(* The content of a case is the set of things recorded in it; each save    *)
(* records one more (a decline, a decision, an execution result).          *)
(***************************************************************************)
EXTENDS Naturals, FiniteSets

CONSTANTS
  Writer,  \* server threads
  Record   \* things to record, each of them once

VARIABLES
  backend,  \* the repository the service was built with
  stored,   \* the item: its version, 0 when absent, and what it records
  pc,       \* writer |-> where its load-change-save stands
  copy,     \* writer |-> the case it loaded
  adding,   \* writer |-> what it is about to record
  taken,    \* records some writer has taken up
  acked     \* records whose save was acknowledged

vars == <<backend, stored, pc, copy, adding, taken, acked>>

Item == [version : Nat, records : SUBSET Record]

Absent == [version |-> 0, records |-> {}]

\* Every variable has its type.
TypeOK ==
  /\ backend \in {"dynamodb", "memory"}
  /\ stored \in Item
  /\ pc \in [Writer -> {"idle", "loaded", "checked"}]
  /\ copy \in [Writer -> Item]
  /\ adding \in [Writer -> SUBSET Record]
  /\ taken \subseteq Record
  /\ acked \subseteq Record

Init ==
  /\ backend \in {"dynamodb", "memory"}
  /\ stored = Absent
  /\ pc = [w \in Writer |-> "idle"]
  /\ copy = [w \in Writer |-> Absent]
  /\ adding = [w \in Writer |-> {}]
  /\ taken = {}
  /\ acked = {}

\* get, or nothing to get: a case is created by a save that expects none.
Load(w) ==
  /\ pc[w] = "idle"
  /\ \E r \in Record \ taken :
       /\ adding' = [adding EXCEPT ![w] = {r}]
       /\ taken' = taken \cup {r}
  /\ pc' = [pc EXCEPT ![w] = "loaded"]
  /\ copy' = [copy EXCEPT ![w] = stored]
  /\ UNCHANGED <<backend, stored, acked>>

\* Faulty: the version is left alone.
SuccessorUnnumbered(w) ==
  [version |-> copy[w].version, records |-> copy[w].records \cup adding[w]]

\* next_version: what the writer saves.
Successor(w) ==
  [version |-> copy[w].version + 1, records |-> copy[w].records \cup adding[w]]

Finish(w) ==
  /\ pc' = [pc EXCEPT ![w] = "idle"]
  /\ copy' = [copy EXCEPT ![w] = Absent]
  /\ adding' = [adding EXCEPT ![w] = {}]
  /\ UNCHANGED <<backend, taken>>

\* Faulty: any version that is not older passes.
UnchangedOrNewer(w) == stored.version >= copy[w].version

Unchanged(w) == stored.version = copy[w].version

\* put_item with its condition, applied; the answer may get lost, and the
\* retry of the client library is then refused by the condition.
Put(w) ==
  /\ backend = "dynamodb"
  /\ pc[w] = "loaded"
  /\ Unchanged(w)
  /\ stored' = Successor(w)
  /\ \/ acked' = acked \cup adding[w]
     \/ UNCHANGED acked
  /\ Finish(w)

\* RecoveryCaseVersionConflict
Conflict(w) ==
  /\ pc[w] = "loaded"
  /\ ~ Unchanged(w)
  /\ Finish(w)
  /\ UNCHANGED <<stored, acked>>

\* In-memory save, first half: the version is compared ...
Compare(w) ==
  /\ backend = "memory"
  /\ pc[w] = "loaded"
  /\ Unchanged(w)
  /\ pc' = [pc EXCEPT ![w] = "checked"]
  /\ UNCHANGED <<backend, stored, copy, adding, taken, acked>>

\* ... and, the deep copy made, the dictionary entry is assigned.
Assign(w) ==
  /\ pc[w] = "checked"
  /\ stored' = Successor(w)
  /\ acked' = acked \cup adding[w]
  /\ Finish(w)

Next ==
  \E w \in Writer : Load(w) \/ Put(w) \/ Conflict(w) \/ Compare(w) \/ Assign(w)

Spec == Init /\ [][Next]_vars

-----------------------------------------------------------------------------

\* DynamoDB: nothing a writer was told is saved is ever overwritten by
\* another writer, although answers get lost and puts are retried.
AcknowledgedIsKept == backend = "dynamodb" => acked \subseteq stored.records

\* DynamoDB: a version names one content, so a client that sends back the
\* version it saw was looking at the case its request will change.
VersionsIdentifyContent ==
  backend = "dynamodb" =>
    \A w \in Writer :
      pc[w] # "idle" /\ copy[w].version = stored.version => copy[w] = stored

\* The same of the in-memory repository: it does not hold, the comparison and
\* the assignment are two steps and no lock is held.
InMemoryKeepsAcknowledged == backend = "memory" => acked \subseteq stored.records

=============================================================================
