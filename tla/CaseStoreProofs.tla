--------------------------- MODULE CaseStoreProofs ---------------------------
(***************************************************************************)
(* The conditional put of the DynamoDB repository is enough, for any       *)
(* number of writers and records: no acknowledged save is ever             *)
(* overwritten.  The argument is that a writer's copy is never newer than  *)
(* the item, and is the item when it has its version; so a put that passes *)
(* its condition adds to what is stored.                                   *)
(***************************************************************************)
EXTENDS CaseStore, TLAPS

\* A writer that loaded the case holds an earlier item, or the stored one.
CopyIsCurrent(w) ==
  pc[w] # "idle" =>
    /\ copy[w].version <= stored.version
    /\ copy[w].version = stored.version => copy[w] = stored

IInv ==
  /\ TypeOK
  /\ \A w \in Writer : adding[w] \subseteq taken
  /\ backend = "dynamodb" =>
       /\ \A w \in Writer : pc[w] # "checked" /\ CopyIsCurrent(w)
       /\ acked \subseteq stored.records

\* What a writer saves is an item one version further, with more in it.
LEMMA SuccessorGrows ==
  ASSUME TypeOK, NEW w \in Writer
  PROVE  /\ Successor(w) \in Item
         /\ Successor(w).version = copy[w].version + 1
         /\ Successor(w).records = copy[w].records \cup adding[w]
<1>1. copy[w] \in Item /\ adding[w] \subseteq Record
  BY DEF TypeOK
<1> QED
  BY <1>1 DEF Successor, Item

\* A writer is done: it holds nothing any more.
LEMMA FinishKeepsTypes ==
  ASSUME IInv, NEW w \in Writer, Finish(w), stored' \in Item,
         acked' \subseteq acked \cup adding[w]
  PROVE  TypeOK' /\ \A v \in Writer : adding'[v] \subseteq taken'
<1>1. Absent \in Item
  BY DEF Absent, Item
<1> QED
  BY <1>1 DEF IInv, TypeOK, Finish

\* The same of what the other writers hold, when the item only moves on.
LEMMA FinishKeepsCopies ==
  ASSUME IInv, NEW w \in Writer, Finish(w), stored' \in Item,
         backend = "dynamodb",
         stored' = stored \/ stored'.version = stored.version + 1
  PROVE  \A v \in Writer : pc'[v] # "checked" /\ CopyIsCurrent(v)'
<1> TAKE v \in Writer
<1>1. pc[v] # "checked" /\ CopyIsCurrent(v)
  BY DEF IInv
<1>2. stored.version \in Nat /\ copy[v].version \in Nat
  BY DEF IInv, TypeOK, Item
<1>3. CASE v = w
  BY <1>3 DEF IInv, TypeOK, Finish, CopyIsCurrent
<1>4. CASE v # w
  <2>1. pc'[v] = pc[v] /\ copy'[v] = copy[v]
    BY <1>4 DEF IInv, TypeOK, Finish
  <2> QED
    BY <1>1, <1>2, <2>1 DEF CopyIsCurrent
<1> QED
  BY <1>3, <1>4

\* A put that passes its condition replaces what the writer had loaded.
LEMMA PutStep ==
  ASSUME IInv, NEW w \in Writer, Put(w)
  PROVE  IInv'
<1>1. copy[w] = stored
  BY DEF Put, IInv, CopyIsCurrent, Unchanged
<1>2. /\ stored' \in Item /\ stored'.version = stored.version + 1
      /\ stored'.records = stored.records \cup adding[w]
  BY <1>1, SuccessorGrows DEF Put, IInv
<1>3. acked' \subseteq acked \cup adding[w] /\ Finish(w) /\ backend = "dynamodb"
  BY DEF Put
<1>4. acked \subseteq stored.records
  BY <1>3 DEF IInv
<1>5. acked' \subseteq stored'.records
  BY <1>2, <1>3, <1>4
<1> QED
  BY <1>2, <1>3, <1>5, FinishKeepsTypes, FinishKeepsCopies DEF IInv

\* A refused put changes nothing.
LEMMA ConflictStep ==
  ASSUME IInv, NEW w \in Writer, Conflict(w)
  PROVE  IInv'
<1>1. /\ Finish(w) /\ stored' = stored /\ acked' = acked /\ backend' = backend
      /\ stored \in Item
  BY DEF Conflict, Finish, IInv, TypeOK
<1>2. TypeOK' /\ \A v \in Writer : adding'[v] \subseteq taken'
  BY <1>1, FinishKeepsTypes
<1>3. backend = "dynamodb" => \A v \in Writer : pc'[v] # "checked" /\ CopyIsCurrent(v)'
  BY <1>1, FinishKeepsCopies
<1> QED
  BY <1>1, <1>2, <1>3 DEF IInv

\* A writer that loads the case holds the stored item.
LEMMA LoadStep ==
  ASSUME IInv, NEW w \in Writer, Load(w)
  PROVE  IInv'
<1>1. PICK r \in Record \ taken :
        /\ adding' = [adding EXCEPT ![w] = {r}]
        /\ taken' = taken \cup {r}
  BY DEF Load
<1>2. TypeOK' /\ \A v \in Writer : adding'[v] \subseteq taken'
  BY <1>1 DEF IInv, TypeOK, Load
<1>3. ASSUME backend = "dynamodb", NEW v \in Writer
      PROVE  pc'[v] # "checked" /\ CopyIsCurrent(v)'
  <2>1. pc[v] # "checked" /\ CopyIsCurrent(v) /\ stored.version \in Nat
    BY <1>3 DEF IInv, TypeOK, Item
  <2>2. CASE v = w
    BY <2>1, <2>2 DEF IInv, TypeOK, Load, CopyIsCurrent
  <2>3. CASE v # w
    BY <2>1, <2>3 DEF IInv, TypeOK, Load, CopyIsCurrent
  <2> QED
    BY <2>2, <2>3
<1> QED
  BY <1>2, <1>3 DEF IInv, Load

\* The in-memory repository only matters to the types.
LEMMA MemoryStep ==
  ASSUME IInv, NEW w \in Writer, Compare(w) \/ Assign(w)
  PROVE  IInv'
<1>1. CASE Compare(w)
  BY <1>1 DEF IInv, TypeOK, Compare
<1>2. CASE Assign(w)
  <2>1. backend # "dynamodb" /\ backend' = backend /\ Finish(w)
    BY <1>2 DEF Assign, Finish, IInv
  <2>2. stored' \in Item /\ acked' \subseteq acked \cup adding[w]
    BY <1>2, SuccessorGrows DEF Assign, IInv
  <2> QED
    BY <2>1, <2>2, FinishKeepsTypes DEF IInv
<1> QED
  BY <1>1, <1>2

\* The inductive invariant holds throughout.
THEOREM StoreInvariance == Spec => []IInv
<1>1. Init => IInv
  BY DEF Init, IInv, TypeOK, Absent, Item, CopyIsCurrent
<1>2. IInv /\ [Next]_vars => IInv'
  <2> SUFFICES ASSUME IInv, [Next]_vars
               PROVE  IInv'
    OBVIOUS
  <2>1. CASE UNCHANGED vars
    BY <2>1 DEF vars, IInv, TypeOK, CopyIsCurrent
  <2>2. CASE Next
    BY <2>2, LoadStep, PutStep, ConflictStep, MemoryStep DEF Next
  <2> QED
    BY <2>1, <2>2
<1> QED
  BY <1>1, <1>2, PTL DEF Spec

\* Nothing a writer was told is saved is overwritten by another writer, when
\* the repository is DynamoDB's (dynamodb_recovery_case_repository.py, save).
THEOREM AcknowledgedStays == Spec => []AcknowledgedIsKept
<1>1. IInv => AcknowledgedIsKept
  BY DEF IInv, AcknowledgedIsKept
<1> QED
  BY <1>1, StoreInvariance, PTL

\* A version of a stored case names one content (next_version, save).
THEOREM VersionsAreIdentities == Spec => []VersionsIdentifyContent
<1>1. IInv => VersionsIdentifyContent
  BY DEF IInv, VersionsIdentifyContent, CopyIsCurrent
<1> QED
  BY <1>1, StoreInvariance, PTL

=============================================================================
