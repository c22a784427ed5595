----------------------------- MODULE SyncProofs -----------------------------
(***************************************************************************)
(* Contents: what a synchronisation writes, that an element shown as       *)
(* unchanged has the text of the database, that a synchronisation with     *)
(* nothing to write changes nothing, and that all of this makes the cache  *)
(* a WorkingCopy.                                                          *)
(***************************************************************************)
EXTENDS ForestProofs

-----------------------------------------------------------------------------
(***************************************************************************)
(* What a synchronisation writes.                                          *)
(***************************************************************************)
\* The change set has the text of each modified element.
LEMMA CollectedTexts ==
    ASSUME IInv, NEW order \in CreationOrders
    PROVE  /\ \A h \in NodesIn("Modified") :
                 /\ nodes[h].id \in DOMAIN CollectChanges(order).modified
                 /\ CollectChanges(order).modified[nodes[h].id] = nodes[h].payload
           /\ \A h \in DOMAIN nodes \ NodesIn("Modified") :
                 nodes[h].id \notin DOMAIN CollectChanges(order).modified
<1>1. \A g, h \in DOMAIN nodes : nodes[g].id = nodes[h].id => g = h
  BY NodeIds DEF IInv
<1>2. CollectChanges(order).modified =
          [id \in IdsIn("Modified") |->
              nodes[CHOOSE h \in NodesIn("Modified") : nodes[h].id = id].payload]
  BY DEF CollectChanges
<1>3. NodesIn("Modified") \subseteq DOMAIN nodes
  BY DEF NodesIn
<1>4. ASSUME NEW h \in NodesIn("Modified")
      PROVE  /\ nodes[h].id \in IdsIn("Modified")
             /\ (CHOOSE g \in NodesIn("Modified") : nodes[g].id = nodes[h].id) = h
  <2>1. nodes[h].id \in IdsIn("Modified")
    BY DEF IdsIn
  <2>2. \A g \in NodesIn("Modified") : nodes[g].id = nodes[h].id <=> g = h
    BY <1>1, <1>3
  <2> QED BY <2>1, <2>2
<1>5. ASSUME NEW h \in DOMAIN nodes \ NodesIn("Modified")
      PROVE  nodes[h].id \notin IdsIn("Modified")
  BY <1>1, <1>3 DEF IdsIn
<1> DEFINE modified == CollectChanges(order).modified
<1>6. DOMAIN modified = IdsIn("Modified")
  BY <1>2
<1>7. ASSUME NEW h \in NodesIn("Modified")
      PROVE  modified[nodes[h].id] = nodes[h].payload
  <2>1. modified[nodes[h].id] =
           nodes[CHOOSE g \in NodesIn("Modified") : nodes[g].id = nodes[h].id].payload
    BY <1>2, <1>4
  <2> QED BY <1>4, <2>1
<1> QED BY <1>4, <1>5, <1>6, <1>7

\* The i-th of n new ids lies before the next free one.
LEMMA NewIdInRange ==
    ASSUME NEW next \in Nat, NEW n \in Nat, NEW i \in 1..n, NEW new, new = next + n
    PROVE  next + i - 1 \in next..(new - 1)
OBVIOUS

\* The texts and deletions of the database after a synchronisation.
LEMMA ApplyEffect ==
    ASSUME IInv, NEW order \in CreationOrders, Synced(order)
    PROVE  /\ nextId' = nextId + Cardinality(NodesIn("New"))
           /\ DOMAIN nodes' = DOMAIN nodes
           /\ \A h \in DOMAIN nodes : /\ nodes'[h].payload = nodes[h].payload
                                      /\ nodes'[h].status = SyncedStatus(nodes[h].status)
                                      /\ h \notin NodesIn("New") => nodes'[h].id = nodes[h].id
           /\ \A h \in NodesIn("New") :
                 /\ nodes'[h].id \in nextId..(nextId' - 1)
                 /\ records'[nodes'[h].id].payload = nodes[h].payload
                 /\ records'[nodes'[h].id].parentId = nodes'[nodes[h].parent].id
           /\ \A h \in NodesIn("Modified") :
                 ~records[nodes[h].id].deleted =>
                    records'[nodes[h].id].payload = nodes[h].payload
           /\ \A h \in DOMAIN nodes \ NodesIn("Modified") :
                 nodes[h].id \in DOMAIN records =>
                    records'[nodes[h].id].payload = records[nodes[h].id].payload
           /\ \A id \in DOMAIN records : records[id].deleted => records'[id].deleted
           /\ \A id \in IdsIn("Deleted") \cap DOMAIN records : records'[id].deleted
<1> DEFINE n       == Cardinality(NodesIn("New"))
           changes == CollectChanges(order)
<1>1. TypeOK /\ IndexIsExact /\ KnownIds
  BY DEF IInv
<1>2. /\ IsChangeSet(changes)
      /\ n \in Nat
      /\ Len(changes.created) = n
      /\ \A i \in 1..n : /\ order[i] \in NodesIn("New")
                         /\ changes.created[i] = NewNodeChange(order[i])
      /\ \A h \in NodesIn("New") : \E i \in 1..n : order[i] = h
      /\ DOMAIN changes.modified = IdsIn("Modified")
      /\ changes.deleted = IdsIn("Deleted")
  BY <1>1, CollectedType
<1>3. /\ DOMAIN nodes' = DOMAIN nodes
      /\ \A h \in DOMAIN nodes :
            /\ nodes'[h].payload = nodes[h].payload
            /\ nodes'[h].status = SyncedStatus(nodes[h].status)
            /\ h \notin NodesIn("New") => nodes'[h].id = nodes[h].id
      /\ \A i \in 1..n : nodes'[order[i]].id = nextId + i - 1
  BY <1>1, ReconcileEffect
<1>4. /\ \A h \in NodesIn("Modified") :
            /\ nodes[h].id \in DOMAIN changes.modified
            /\ changes.modified[nodes[h].id] = nodes[h].payload
      /\ \A h \in DOMAIN nodes \ NodesIn("Modified") : nodes[h].id \notin DOMAIN changes.modified
  BY CollectedTexts
<1>5. \A i \in 1..n : records'[nextId + i - 1].parentId = nodes'[nodes[order[i]].parent].id
  BY CreatedPlace
<1>6. DOMAIN records = 1..(nextId - 1) /\ nextId \in Nat /\ nextId >= 1
  BY <1>1, RecordIds
<1> HIDE DEF changes, n
<1>7. /\ nextId' = nextId + n
      /\ DOMAIN records' = 1..(nextId + n - 1)
      /\ \A id \in DOMAIN records :
            /\ records[id].deleted => records'[id] = records[id]
            /\ records'[id].payload =
                  IF id \in DOMAIN changes.modified /\ ~records[id].deleted
                  THEN changes.modified[id] ELSE records[id].payload
            /\ records'[id].deleted <=>
                  \/ records[id].deleted
                  \/ id \in Below(ParentIn(records'), IdsIn("Deleted"))
      /\ \A i \in 1..n : nextId + i - 1 \notin DOMAIN changes.modified =>
            records'[nextId + i - 1].payload = changes.created[i].payload
  BY <1>1, <1>2, AppliedRows DEF Synced, TypeOK, changes, n
<1>8. \A h \in NodesIn("Modified") : h \in DOMAIN nodes /\ nodes[h].id \in DOMAIN records
  BY <1>1 DEF KnownIds, NodesIn
<1>9. \A i \in 1..n : nextId + i - 1 \notin DOMAIN changes.modified
  <2>1. IdsIn("Modified") \subseteq DOMAIN records
    BY <1>8 DEF IdsIn
  <2> QED BY <1>2, <1>6, <2>1
<1>10. ASSUME NEW h \in NodesIn("New")
       PROVE  /\ nodes'[h].id \in nextId..(nextId' - 1)
              /\ records'[nodes'[h].id].payload = nodes[h].payload
              /\ records'[nodes'[h].id].parentId = nodes'[nodes[h].parent].id
  <2>1. PICK i \in 1..n : order[i] = h
    BY <1>2
  <2>2. nodes'[h].id = nextId + i - 1
    BY <1>3, <2>1
  <2>3. changes.created[i].payload = nodes[h].payload
    <3>1. NewNodeChange(h).payload = nodes[h].payload
      BY DEF NewNodeChange
    <3> QED BY <1>2, <2>1, <3>1
  <2>4. records'[nextId + i - 1].payload = nodes[h].payload
    BY <1>7, <1>9, <2>3
  <2>5. nextId + i - 1 \in nextId..(nextId' - 1)
    BY <1>2, <1>6, <1>7, NewIdInRange
  <2>6. records'[nextId + i - 1].parentId = nodes'[nodes[h].parent].id
    BY <1>5, <2>1
  <2> QED BY <2>2, <2>4, <2>5, <2>6
<1>11. \A id \in IdsIn("Deleted") \cap DOMAIN records : records'[id].deleted
  <2>1. \A id \in DOMAIN records : id \in DOMAIN ParentIn(records')
    BY <1>2, <1>6, <1>7 DEF ParentIn
  <2> QED BY <1>7, <2>1, BelowContains
<1>12. \A h \in NodesIn("Modified") :
          ~records[nodes[h].id].deleted => records'[nodes[h].id].payload = nodes[h].payload
  BY <1>4, <1>7, <1>8
<1>13. \A h \in DOMAIN nodes \ NodesIn("Modified") :
          nodes[h].id \in DOMAIN records =>
             records'[nodes[h].id].payload = records[nodes[h].id].payload
  BY <1>4, <1>7
<1> QED BY <1>3, <1>7, <1>10, <1>11, <1>12, <1>13 DEF n

\* One call writes everything that is pending: new elements with their text
\* under the record of their parent, new texts of elements the database has
\* not deleted, and all deletions.
THEOREM ApplyWritesEverything == Spec => ApplyPersistsEverything
<1>1. ASSUME IInv, Apply
      PROVE  Persisted
  <2>1. PICK order \in CreationOrders : Synced(order)
    BY <1>1 DEF Apply, Synced
  <2>2. Pending' = {}
    <3>1. \A h \in DOMAIN nodes' : nodes'[h].status \notin {"New", "Modified"}
      BY <1>1, <2>1, ApplyEffect DEF SyncedStatus
    <3> QED BY <3>1 DEF Pending, NodesIn
  <2> QED BY <1>1, <2>1, <2>2, ApplyEffect DEF Persisted
<1>2. IInv => [Apply => Persisted]_vars
  BY <1>1
<1> QED BY <1>2, IdentityInvariant, PTL DEF ApplyPersistsEverything

-----------------------------------------------------------------------------
(***************************************************************************)
(* Unchanged elements.                                                     *)
(***************************************************************************)
\* A call that leaves the database alone: what is unchanged was so before or
\* has just been loaded.
LEMMA LocalContents ==
    ASSUME UnchangedMatchesDatabase, UNCHANGED records,
           \A h \in NodesIn("Unchanged")' :
              \/ /\ h \in NodesIn("Unchanged")
                 /\ nodes'[h].id = nodes[h].id
                 /\ nodes'[h].payload = nodes[h].payload
              \/ records[nodes'[h].id].payload = nodes'[h].payload
    PROVE  UnchangedMatchesDatabase'
<1>1. ASSUME NEW h \in NodesIn("Unchanged")', ~records'[nodes'[h].id].deleted
      PROVE  records'[nodes'[h].id].payload = nodes'[h].payload
  BY <1>1 DEF UnchangedMatchesDatabase
<1> QED BY <1>1 DEF UnchangedMatchesDatabase

\* After a synchronisation, what was new, modified or unchanged is unchanged.
LEMMA ApplyContents ==
    ASSUME IInv, UnchangedMatchesDatabase, Apply
    PROVE  UnchangedMatchesDatabase'
<1>1. PICK order \in CreationOrders : Synced(order)
  BY DEF Apply, Synced
<1>2. ASSUME NEW h \in DOMAIN nodes', nodes'[h].status = "Unchanged",
             ~records'[nodes'[h].id].deleted
      PROVE  records'[nodes'[h].id].payload = nodes'[h].payload
  <2>1. /\ h \in DOMAIN nodes
        /\ nodes'[h].payload = nodes[h].payload
        /\ nodes'[h].status = SyncedStatus(nodes[h].status)
        /\ h \notin NodesIn("New") => nodes'[h].id = nodes[h].id
    BY <1>1, <1>2, ApplyEffect
  <2>2. h \in NodesIn("New") \/ h \in NodesIn("Modified") \/ h \in NodesIn("Unchanged")
    BY <1>2, <2>1 DEF SyncedStatus, NodesIn
  <2>3. CASE h \in NodesIn("New")
    BY <1>1, <2>1, <2>3, ApplyEffect
  <2>4. ASSUME h \notin NodesIn("New")
        PROVE  /\ nodes'[h].id = nodes[h].id
               /\ nodes[h].id \in DOMAIN records
               /\ ~records[nodes[h].id].deleted
    <3>1. nodes'[h].id = nodes[h].id
      BY <2>1, <2>4
    <3>2. nodes[h].id \in DOMAIN records
      BY <2>1, <2>2, <2>4 DEF IInv, KnownIds, NodesIn
    <3>3. records[nodes[h].id].deleted => records'[nodes[h].id].deleted
      BY <1>1, <3>2, ApplyEffect
    <3> QED BY <1>2, <3>1, <3>2, <3>3
  <2>5. CASE h \in NodesIn("Modified")
    <3>1. h \notin NodesIn("New")
      BY <2>5 DEF NodesIn
    <3> QED BY <1>1, <2>1, <2>4, <2>5, <3>1, ApplyEffect
  <2>6. CASE h \in NodesIn("Unchanged")
    <3>1. h \notin NodesIn("New") /\ h \in DOMAIN nodes \ NodesIn("Modified")
      BY <2>6 DEF NodesIn
    <3>2. records'[nodes[h].id].payload = records[nodes[h].id].payload
      BY <1>1, <2>4, <3>1, ApplyEffect
    <3>3. records[nodes[h].id].payload = nodes[h].payload
      BY <2>4, <2>6, <3>1 DEF UnchangedMatchesDatabase
    <3> QED BY <2>1, <2>4, <3>1, <3>2, <3>3
  <2> QED BY <2>2, <2>3, <2>5, <2>6
<1>3. NodesIn("Unchanged")' = {h \in DOMAIN nodes' : nodes'[h].status = "Unchanged"}
  BY DEF NodesIn
<1> QED BY <1>2, <1>3 DEF UnchangedMatchesDatabase

LEMMA NextContents ==
    ASSUME IInv, UnchangedMatchesDatabase, [Next]_vars
    PROVE  UnchangedMatchesDatabase'
<1>1. TypeOK
  BY DEF IInv
<1>2. ASSUME NEW id \in DOMAIN records, LoadFromDatabase(id)
      PROVE  UnchangedMatchesDatabase'
  <2>1. /\ DOMAIN nodes' = DOMAIN nodes \cup {Len(nodes) + 1}
        /\ nodes'[Len(nodes) + 1].id = id
        /\ nodes'[Len(nodes) + 1].payload = records[id].payload
        /\ \A h \in DOMAIN nodes : /\ nodes'[h].id = nodes[h].id
                                   /\ nodes'[h].payload = nodes[h].payload
                                   /\ nodes'[h].status = nodes[h].status
        /\ UNCHANGED records
    BY <1>1, <1>2, LoadEffect
  <2> QED BY <2>1, LocalContents DEF NodesIn
<1>3. ASSUME NEW id \in DOMAIN index, NEW payload \in Payload, AddChild(id, payload)
      PROVE  UnchangedMatchesDatabase'
  BY <1>1, <1>3, AddChildEffect, LocalContents DEF NodesIn
<1>4. ASSUME NEW id \in DOMAIN index, NEW payload \in Payload, EditPayload(id, payload)
      PROVE  UnchangedMatchesDatabase'
  BY <1>1, <1>4, EditPayloadEffect, LocalContents DEF NodesIn, EditedStatus
<1>5. ASSUME NEW id \in DOMAIN index, Remove(id)
      PROVE  UnchangedMatchesDatabase'
  BY <1>1, <1>5, RemoveEffect, LocalContents DEF NodesIn
<1>6. CASE UNCHANGED vars
  BY <1>6, LocalContents DEF NodesIn, vars, dbVars, cacheVars
<1>7. CASE Apply
  BY <1>7, ApplyContents
<1>8. CASE Reset
  <2>1. DOMAIN nodes' = {}
    BY <1>8 DEF Reset, Clear
  <2> QED BY <2>1 DEF UnchangedMatchesDatabase, NodesIn
<1> QED BY <1>2, <1>3, <1>4, <1>5, <1>6, <1>7, <1>8 DEF Next

\* An element shown as unchanged has the text of the database, unless the
\* database has deleted it behind the back of the cache.
THEOREM UnchangedIsTrue == Spec => []UnchangedMatchesDatabase
<1>1. Init => UnchangedMatchesDatabase
  BY DEF Init, CacheInit, UnchangedMatchesDatabase, NodesIn
<1>2. IInv /\ UnchangedMatchesDatabase /\ [Next]_vars => UnchangedMatchesDatabase'
  BY NextContents
<1> QED BY <1>1, <1>2, IdentityInvariant, PTL DEF Spec

-----------------------------------------------------------------------------
(***************************************************************************)
(* Repeated synchronisation.                                               *)
(***************************************************************************)
\* The index is a function; its type says only what it holds.
IndexIsFunction == index = [id \in DOMAIN index |-> index[id]]

LEMMA NextFunction ==
    ASSUME IndexIsFunction, [Next]_vars
    PROVE  IndexIsFunction'
<1>1. ASSUME NEW map, NEW key, NEW value, index' = Emplace(map, key, value)
      PROVE  IndexIsFunction'
  BY <1>1 DEF Emplace, IndexIsFunction
<1>2. CASE Apply
  BY <1>2 DEF Apply, ReconcileCache, ReassignedIndex, IndexIsFunction
<1>3. CASE Reset
  BY <1>3 DEF Reset, Clear, IndexIsFunction
<1>4. CASE UNCHANGED index
  BY <1>4 DEF IndexIsFunction
<1> QED
  BY <1>1, <1>2, <1>3, <1>4
     DEF Next, LoadFromDatabase, InsertLoadedNode, AddChild, EditPayload, Remove, vars, cacheVars

\* Sending deletions again marks nothing that is not marked: what lies below
\* a deleted record is deleted.
LEMMA NothingNewDoomed ==
    ASSUME IInv, DeletionCascades, NothingToApply,
           NEW up, DOMAIN up = DOMAIN records,
           \A id \in DOMAIN records : up[id] = records[id].parentId,
           NEW id \in Below(up, IdsIn("Deleted"))
    PROVE  records[id].deleted
<1> DEFINE marked == {r \in DOMAIN records : records[r].deleted}
<1>1. \A r \in DOMAIN records : r # NoId
  BY RecordIds DEF IInv
<1>2. \A r \in DOMAIN records : up[r] \in marked => r \in marked
  BY <1>1 DEF DeletionCascades
<1>3. IdsIn("Deleted") \cap DOMAIN up \subseteq marked
  BY DEF NothingToApply
<1>4. marked \in ClosedAbove(up, IdsIn("Deleted"))
  BY <1>2, <1>3 DEF ClosedAbove
<1> QED BY <1>4, BelowLeast

LEMMA IdleApply ==
    ASSUME IInv, DeletionCascades, IndexIsFunction, NothingToApply, Apply
    PROVE  UNCHANGED vars
<1>1. PICK order \in CreationOrders : Synced(order)
  BY DEF Apply, Synced
<1> DEFINE changes  == CollectChanges(order)
           assigned == AssignedIds(changes)
<1>2. TypeOK /\ TypeOK'
  BY ApplyType DEF IInv
<1>3. /\ NodesIn("New") = {}
      /\ NodesIn("Modified") = {}
      /\ Cardinality(NodesIn("New")) = 0
  BY FS_EmptySet DEF NothingToApply, Pending
<1>4. /\ IsChangeSet(changes)
      /\ Len(changes.created) = 0
      /\ DOMAIN changes.created = {}
      /\ DOMAIN changes.modified = {}
      /\ changes.deleted = IdsIn("Deleted")
  BY <1>2, <1>3, CollectedType DEF IdsIn
<1>5. DOMAIN assigned = {}
  BY <1>4 DEF AssignedIds
<1>6. ReconcileCache(assigned)
  BY <1>1 DEF Synced
<1>7. DOMAIN records = 1..(nextId - 1) /\ nextId \in Nat
  BY <1>2, RecordIds
<1> HIDE DEF changes, assigned
<1>8. /\ nextId' = nextId + 0
      /\ DOMAIN records' = 1..(nextId + 0 - 1)
      /\ \A id \in DOMAIN records :
            /\ records'[id].parentId = records[id].parentId
            /\ records'[id].payload = records[id].payload
            /\ records'[id].deleted <=>
                  \/ records[id].deleted
                  \/ id \in Below(ParentIn(records'), IdsIn("Deleted"))
  <2>1. DbTypeOK /\ ApplyChanges(changes)
    BY <1>1, <1>2 DEF Synced, TypeOK, changes
  <2>2. nextId + Len(changes.created) <= MaxId + 1
    BY <1>2, <1>4, RecordIds
  <2>3. /\ nextId' = nextId + Len(changes.created)
        /\ DOMAIN records' = 1..(nextId + Len(changes.created) - 1)
        /\ \A id \in DOMAIN records :
              /\ records'[id].parentId = records[id].parentId
              /\ records'[id].payload =
                    IF id \in DOMAIN changes.modified /\ ~records[id].deleted
                    THEN changes.modified[id] ELSE records[id].payload
              /\ records'[id].deleted <=>
                    \/ records[id].deleted
                    \/ id \in Below(ParentIn(records'), changes.deleted)
    BY <1>4, <2>1, <2>2, AppliedRows
  <2> QED BY <1>4, <2>3
<1>9. nextId' = nextId /\ DOMAIN records' = DOMAIN records
  BY <1>7, <1>8
<1>10. ASSUME NEW id \in DOMAIN records
       PROVE  records'[id].deleted <=> records[id].deleted
  <2>1. /\ DOMAIN ParentIn(records') = DOMAIN records
        /\ \A r \in DOMAIN records : ParentIn(records')[r] = records[r].parentId
    BY <1>8, <1>9 DEF ParentIn
  <2>2. id \in Below(ParentIn(records'), IdsIn("Deleted")) => records[id].deleted
    BY <2>1, NothingNewDoomed
  <2> QED BY <1>8, <2>2
<1>11. records' = records
  <2>1. records \in [DOMAIN records -> Record] /\ records' \in [DOMAIN records -> Record]
    BY <1>2, <1>9 DEF TypeOK, DbTypeOK
  <2>2. ASSUME NEW id \in DOMAIN records
        PROVE  records'[id] = records[id]
    <3>1. records[id] \in Record /\ records'[id] \in Record
      BY <2>1
    <3>2. records'[id].deleted = records[id].deleted
      BY <1>10, <3>1 DEF Record
    <3> QED BY <1>8, <3>1, <3>2, RecordEqual
  <2> QED BY <2>1, <2>2
<1>12. nodes' = nodes
  <2>1. nodes' = [h \in DOMAIN nodes |->
                    [nodes[h] EXCEPT !.id = ReassignedNodeId(assigned, h),
                                     !.status = SyncedStatus(@)]]
    BY <1>6 DEF ReconcileCache
  <2>2. nodes \in [DOMAIN nodes -> TreeNode]
    BY <1>2, NodesFunction DEF TypeOK
  <2>3. ASSUME NEW h \in DOMAIN nodes
        PROVE  nodes'[h] = nodes[h]
    <3>1. ReassignedNodeId(assigned, h) = nodes[h].id
      BY <1>5 DEF ReassignedNodeId
    <3>2. SyncedStatus(nodes[h].status) = nodes[h].status
      BY <1>3 DEF SyncedStatus, NodesIn
    <3> QED BY <2>1, <2>2, <3>1, <3>2 DEF TreeNode
  <2> QED BY <2>1, <2>2, <2>3
<1>13. index' = index
  <2>1. {i \in DOMAIN assigned : assigned[i].temporaryId \in DOMAIN index} = {}
    BY <1>5
  <2>2. index' = [id \in DOMAIN index |-> index[id]]
    BY <1>6, <2>1 DEF ReconcileCache, ReassignedIndex
  <2> QED BY <2>2 DEF IndexIsFunction
<1>14. UNCHANGED <<roots, nextTemporaryId>>
  BY <1>6 DEF ReconcileCache
<1> QED BY <1>9, <1>11, <1>12, <1>13, <1>14 DEF vars, dbVars, cacheVars

\* Synchronising again when nothing is pending changes nothing at all,
\* neither in the database nor in the cache.
THEOREM SecondApplyIsIdle == Spec => RepeatedApplyIsIdle
<1>1. Init => IndexIsFunction
  BY DEF Init, CacheInit, IndexIsFunction
<1>2. IndexIsFunction /\ [Next]_vars => IndexIsFunction'
  BY NextFunction
<1>3. IInv /\ DeletionCascades /\ IndexIsFunction
         => [Apply /\ NothingToApply => UNCHANGED vars]_vars
  BY IdleApply
<1> QED BY <1>1, <1>2, <1>3, IdentityInvariant, DeletionStaysClosed, PTL
        DEF Spec, RepeatedApplyIsIdle

-----------------------------------------------------------------------------
(***************************************************************************)
(* The cache implements WorkingCopy: a step of the program is, for its     *)
(* user, the step of the working copy that has the same name.  The nodes   *)
(* as items:                                                               *)
(***************************************************************************)
\* The row an id stands for: temporary ids stand for none.
RowOf(id) == IF id < TempBase THEN id ELSE NoId

LEMMA ShownFields ==
    /\ DOMAIN Shown = DOMAIN nodes
    /\ \A h \in DOMAIN nodes :
          Shown[h] = [row |-> RowOf(nodes[h].id), place |-> nodes[h].parent,
                      text |-> nodes[h].payload, status |-> nodes[h].status]
BY DEF Shown, RowOf

\* A number n of different ids, each one of 1..a or of the next b after base.
LEMMA IdsCount ==
    ASSUME NEW n \in Nat, NEW a \in Nat, NEW base \in Nat, NEW b \in Nat,
           NEW ids, \A h \in 1..n : ids[h] \in 1..a \cup base..(base + b - 1),
           \A g, h \in 1..n : ids[g] = ids[h] => g = h
    PROVE  n <= a + b
<1> DEFINE R == 1..a
           T == base..(base + b - 1)
           f == [h \in 1..n |-> ids[h]]
<1>1. /\ IsFiniteSet(R) /\ Cardinality(R) = a
      /\ IsFiniteSet(T) /\ Cardinality(T) = b
  BY FS_Interval
<1>2. /\ IsFiniteSet(R \cup T)
      /\ IsFiniteSet(R \cap T)
      /\ Cardinality(R \cup T) = a + b - Cardinality(R \cap T)
  BY <1>1, FS_Union, FS_Intersection
<1>3. Cardinality(R \cap T) \in Nat
  BY <1>2, FS_CardinalityType
<1>4. IsFiniteSet(1..n) /\ Cardinality(1..n) = n
  BY FS_Interval
<1>5. f \in [1..n -> R \cup T] /\ \A g, h \in 1..n : f[g] = f[h] => g = h
  OBVIOUS
<1> HIDE DEF R, T, f
<1>6. f \in Injection(1..n, R \cup T)
  BY <1>5 DEF Injection, IsInjective
<1>7. Cardinality(1..n) <= Cardinality(R \cup T)
  BY <1>2, <1>4, <1>6, FS_Injection
<1> QED BY <1>2, <1>3, <1>4, <1>7

\* There are never more nodes than records and temporary ids handed out, so
\* each node is one of the items.
NodesFit == DOMAIN nodes \subseteq 1..(MaxId + MaxTemp)

LEMMA NodesAreItems == IInv => NodesFit
<1> SUFFICES ASSUME IInv PROVE NodesFit
  OBVIOUS
<1>1. TypeOK /\ IndexIsExact /\ KnownIds
  BY DEF IInv
<1> DEFINE n == Len(nodes)
           b == nextTemporaryId - TempBase
           ids == [h \in DOMAIN nodes |-> nodes[h].id]
<1>2. DOMAIN nodes = 1..n /\ n \in Nat
  BY <1>1, NodesFunction DEF TypeOK
<1>3. /\ DOMAIN records = 1..(nextId - 1)
      /\ nextId - 1 \in Nat /\ nextId - 1 <= MaxId /\ MaxId \in Nat
      /\ TempBase \in Nat
  BY <1>1, RecordIds
<1>4. b \in Nat /\ b <= MaxTemp /\ MaxTemp \in Nat /\ nextTemporaryId = TempBase + b
  BY <1>1, CacheAssumption DEF TypeOK, CacheTypeOK, CacheAssumption
<1>5. /\ \A h \in DOMAIN nodes : ids[h] = nodes[h].id
      /\ \A h \in DOMAIN nodes : nodes[h].id \in DOMAIN records \cup TempBase..(nextTemporaryId - 1)
      /\ \A g, h \in DOMAIN nodes : nodes[g].id = nodes[h].id => g = h
  BY <1>1, NodeIds DEF KnownIds
<1> HIDE DEF n, b, ids
<1>6. \A h \in 1..n : ids[h] \in 1..(nextId - 1) \cup TempBase..(TempBase + b - 1)
  BY <1>2, <1>3, <1>4, <1>5
<1>7. \A g, h \in 1..n : ids[g] = ids[h] => g = h
  BY <1>2, <1>5
<1> DEFINE a == nextId - 1
<1>8. a \in Nat /\ \A h \in 1..n : ids[h] \in 1..a \cup TempBase..(TempBase + b - 1)
  BY <1>3, <1>6
<1> HIDE DEF a
<1>9. n <= a + b
  BY <1>2, <1>3, <1>4, <1>7, <1>8, IdsCount
<1> QED BY <1>2, <1>3, <1>4, <1>9 DEF NodesFit, a

\* What is looked up is the row alone.
LEMMA SameItem ==
    ASSUME NEW f, NEW g, DOMAIN f = DOMAIN g, \A i \in DOMAIN f : f[i].row = g[i].row, NEW row
    PROVE  Copy!ItemOf(f, row) = Copy!ItemOf(g, row)
<1> DEFINE held(copy) == {i \in DOMAIN copy : copy[i].row = row /\ row # Copy!Nowhere}
<1>1. held(f) = held(g)
  OBVIOUS
<1>2. /\ Copy!ItemOf(f, row) = IF held(f) = {} THEN Copy!Nowhere ELSE CHOOSE i \in held(f) : TRUE
      /\ Copy!ItemOf(g, row) = IF held(g) = {} THEN Copy!Nowhere ELSE CHOOSE i \in held(g) : TRUE
  BY DEF Copy!ItemOf
<1> HIDE DEF held
<1> QED BY <1>1, <1>2

\* The item of a row is what the index finds under the id.
RowsFound == \A id \in DOMAIN records \cup {NoId} : Copy!ItemOf(Shown, id) = FindNode(id)

LEMMA RowsAreFound == IInv => RowsFound
<1> SUFFICES ASSUME IInv, NEW id \in DOMAIN records \cup {NoId}
             PROVE  Copy!ItemOf(Shown, id) = FindNode(id)
  BY DEF RowsFound
<1>1. TypeOK /\ IndexIsExact /\ KnownIds
  BY DEF IInv
<1> DEFINE held == {i \in DOMAIN Shown : Shown[i].row = id /\ id # Copy!Nowhere}
<1>2. Copy!ItemOf(Shown, id) = IF held = {} THEN Copy!Nowhere ELSE CHOOSE i \in held : TRUE
  BY DEF Copy!ItemOf
<1>3. Copy!Nowhere = NoId /\ NoNode = Copy!Nowhere
  BY DEF Copy!Nowhere, NoId, NoNode
<1>4. /\ DOMAIN Shown = DOMAIN nodes
      /\ \A h \in DOMAIN nodes : Shown[h].row = RowOf(nodes[h].id)
  BY ShownFields
<1>5. ASSUME NEW h \in DOMAIN nodes, id # NoId
      PROVE  RowOf(nodes[h].id) = id <=> nodes[h].id = id
  BY <1>1, <1>5, RecordIds DEF RowOf
<1>6. /\ \A h \in DOMAIN nodes : nodes[h].id \in DOMAIN index /\ index[nodes[h].id] = h
      /\ \A k \in DOMAIN index : index[k] \in DOMAIN nodes /\ nodes[index[k]].id = k /\ k # NoId
  BY <1>1, NodeIds, IndexedIds
<1>7. CASE id \in DOMAIN index
  <2>1. held = {index[id]}
    BY <1>3, <1>4, <1>5, <1>6, <1>7
  <2> HIDE DEF held
  <2> QED BY <1>2, <1>7, <2>1 DEF FindNode
<1>8. CASE id \notin DOMAIN index
  <2>1. held = {}
    BY <1>3, <1>4, <1>5, <1>6, <1>8
  <2> HIDE DEF held
  <2> QED BY <1>2, <1>3, <1>8, <2>1 DEF FindNode
<1> QED BY <1>7, <1>8

-----------------------------------------------------------------------------
(***************************************************************************)
(* The calls on one element.                                               *)
(***************************************************************************)
\* The items after a step.
ShownNext ==
    /\ DOMAIN Shown' = DOMAIN nodes'
    /\ \A h \in DOMAIN nodes' :
          Shown'[h] = [row |-> RowOf(nodes'[h].id), place |-> nodes'[h].parent,
                       text |-> nodes'[h].payload, status |-> nodes'[h].status]
    /\ Shown' = [h \in DOMAIN nodes' |-> Shown'[h]]

LEMMA ShownAfter == ShownNext
BY DEF ShownNext, Shown, RowOf

LEMMA LoadCopies ==
    ASSUME IInv, IInv', NodesFit', RowsFound', NEW id \in DOMAIN records, LoadFromDatabase(id)
    PROVE  Copy!Load(id)
<1> DEFINE raw  == Len(nodes) + 1
           item == [row |-> id, place |-> Copy!Nowhere, text |-> records[id].payload,
                    status |-> IF records[id].deleted THEN "Deleted" ELSE "Unchanged"]
           wide == Copy!With(raw, item)
<1>1. TypeOK /\ IndexIsExact /\ KnownIds
  BY DEF IInv
<1>2. /\ id \notin DOMAIN index
      /\ raw \notin DOMAIN nodes
      /\ DOMAIN nodes' = DOMAIN nodes \cup {raw}
      /\ nodes'[raw].id = id
      /\ nodes'[raw].payload = records[id].payload
      /\ nodes'[raw].status = IF records[id].deleted THEN "Deleted" ELSE "Unchanged"
      /\ \A h \in DOMAIN nodes :
            /\ nodes'[h].id = nodes[h].id
            /\ nodes'[h].payload = nodes[h].payload
            /\ nodes'[h].status = nodes[h].status
            /\ nodes'[h].parent = IF h \in Orphans(id) THEN raw ELSE nodes[h].parent
      /\ records' = records
  BY <1>1, LoadEffect
<1>3. Copy!ItemOf(Shown, id) = Copy!Nowhere
  BY <1>2, RowsAreFound DEF RowsFound, FindNode, NoNode, Copy!Nowhere
<1>4. raw \in Copy!NewItem
  BY <1>2, ShownFields DEF Copy!NewItem, NodesFit
<1> HIDE DEF raw
<1>5. /\ DOMAIN wide = DOMAIN nodes'
      /\ wide[raw] = item
      /\ \A h \in DOMAIN nodes : wide[h] = Shown[h]
  BY <1>2, ShownFields DEF Copy!With
<1>6. RowOf(id) = id
  BY <1>1, RecordIds DEF RowOf
<1>7. ASSUME NEW h \in DOMAIN nodes'
      PROVE  \E place : wide[h] = [Shown'[h] EXCEPT !.place = place]
  <2>1. Shown'[h] = [row |-> RowOf(nodes'[h].id), place |-> nodes'[h].parent,
                     text |-> nodes'[h].payload, status |-> nodes'[h].status]
    BY ShownAfter DEF ShownNext
  <2>2. PICK place : wide[h] = [row |-> RowOf(nodes'[h].id), place |-> place,
                                text |-> nodes'[h].payload, status |-> nodes'[h].status]
    <3>1. CASE h = raw
      <4>1. wide[h] = [row |-> RowOf(nodes'[h].id), place |-> Copy!Nowhere,
                       text |-> nodes'[h].payload, status |-> nodes'[h].status]
        BY <1>2, <1>5, <1>6, <3>1
      <4> HIDE DEF wide
      <4> QED BY <4>1
    <3>2. CASE h # raw
      <4>1. wide[h] = [row |-> RowOf(nodes'[h].id), place |-> nodes[h].parent,
                       text |-> nodes'[h].payload, status |-> nodes'[h].status]
        BY <1>2, <1>5, <3>2, ShownFields
      <4> HIDE DEF wide
      <4> QED BY <4>1
    <3> QED BY <3>1, <3>2
  <2> HIDE DEF wide
  <2>3. wide[h] = [Shown'[h] EXCEPT !.place = place]
    BY <2>1, <2>2
  <2> QED BY <2>3
<1>8. ASSUME NEW h \in DOMAIN nodes', wide[h].row # Copy!Nowhere
      PROVE  Shown'[h].place = Copy!ItemOf(wide, records[wide[h].row].parentId)
  <2> DEFINE row == nodes'[h].id
             p   == records[row].parentId
  <2>1. Shown'[h].row = RowOf(row) /\ Shown'[h].place = nodes'[h].parent
    BY ShownAfter DEF ShownNext
  <2>2. wide[h].row = row /\ row \in DOMAIN records
    <3>1. row \in DOMAIN records' \cup TempBase..(nextTemporaryId' - 1)
      BY DEF IInv, KnownIds
    <3>2. RowOf(row) # NoId /\ wide[h].row = RowOf(row)
      BY <1>7, <1>8, <2>1, ShownAfter DEF Copy!Nowhere, NoId, ShownNext
    <3> QED BY <1>1, <1>2, <3>1, <3>2, RecordIds DEF RowOf
  <2> HIDE DEF row
  <2>3. p \in DOMAIN records \cup {NoId}
    <3>1. DOMAIN records = 1..(nextId - 1) /\ nextId \in Nat /\ p \in 0..(row - 1)
      BY <1>1, <2>2, RecordIds DEF IInv, ParentsArePersisted
    <3> HIDE DEF p
    <3> QED BY <2>2, <3>1, ParentIsRecord DEF NoId
  <2>4. nodes'[h].parent = Found(index', p)
    <3>1. HierarchyMatchesDatabase'
      BY DEF IInv
    <3> QED BY <1>2, <2>2, <3>1 DEF HierarchyMatchesDatabase, row, FindNode, Found
  <2>5. Copy!ItemOf(Shown', p) = Found(index', p)
    <3>1. \A k \in DOMAIN records' \cup {NoId} : Copy!ItemOf(Shown', k) = Found(index', k)
      BY DEF RowsFound, FindNode, Found
    <3> HIDE DEF p
    <3> QED BY <1>2, <2>3, <3>1
  <2>6. Copy!ItemOf(wide, p) = Copy!ItemOf(Shown', p)
    <3>1. DOMAIN wide = DOMAIN Shown' /\ \A i \in DOMAIN wide : wide[i].row = Shown'[i].row
      <4> HIDE DEF wide
      <4> QED BY <1>5, <1>7, ShownAfter DEF ShownNext
    <3> HIDE DEF wide, p
    <3> QED BY <3>1, SameItem
  <2> QED BY <2>1, <2>2, <2>4, <2>5, <2>6
<1>9. ASSUME NEW h \in DOMAIN nodes', wide[h].row = Copy!Nowhere
      PROVE  Shown'[h] = wide[h]
  <2>1. h # raw
    BY <1>1, <1>5, <1>9, RecordIds DEF Copy!Nowhere, NoId
  <2>2. nodes[h].id \notin DOMAIN records
    <3>1. wide[h].row = RowOf(nodes[h].id)
      BY <1>2, <1>5, <2>1, ShownFields
    <3> QED BY <1>1, <1>9, <3>1, RecordIds DEF RowOf, Copy!Nowhere, NoId
  <2>3. h \in DOMAIN nodes /\ h \notin Orphans(id)
    BY <1>2, <2>1, <2>2 DEF Orphans, IInv, Links
  <2> QED BY <1>2, <1>5, <2>3, ShownFields, ShownAfter DEF ShownNext
<1>10. Shown' = Copy!Arranged(wide)
  <2> DEFINE put(h) == Copy!ItemOf(wide, records[wide[h].row].parentId)
  <2>1. ASSUME NEW h \in DOMAIN nodes'
        PROVE  Shown'[h] = IF wide[h].row = Copy!Nowhere THEN wide[h]
                           ELSE [wide[h] EXCEPT !.place = put(h)]
    <3>1. CASE wide[h].row = Copy!Nowhere
      BY <1>9, <3>1
    <3>2. CASE wide[h].row # Copy!Nowhere
      <4>1. Shown'[h].place = put(h)
        BY <1>8, <3>2
      <4>2. PICK r, q, t, s : Shown'[h] = [row |-> r, place |-> q, text |-> t, status |-> s]
        BY ShownAfter DEF ShownNext
      <4>3. PICK place : wide[h] = [Shown'[h] EXCEPT !.place = place]
        BY <1>7
      <4> HIDE DEF wide, put
      <4>4. Shown'[h] = [wide[h] EXCEPT !.place = put(h)]
        BY <4>1, <4>2, <4>3
      <4> QED BY <3>2, <4>4
    <3> QED BY <3>1, <3>2
  <2>2. Copy!Arranged(wide) = [h \in DOMAIN nodes' |->
                                  IF wide[h].row = Copy!Nowhere THEN wide[h]
                                  ELSE [wide[h] EXCEPT !.place = put(h)]]
    BY <1>5 DEF Copy!Arranged
  <2>3. Shown' = [h \in DOMAIN nodes' |-> Shown'[h]]
    BY ShownAfter DEF ShownNext
  <2> HIDE DEF wide, put
  <2> QED BY <2>1, <2>2, <2>3
<1> QED BY <1>2, <1>3, <1>4, <1>10 DEF Copy!Load

LEMMA AddChildCopies ==
    ASSUME IInv, NodesFit', NEW id \in DOMAIN index, NEW payload \in Payload,
           AddChild(id, payload)
    PROVE  FindNode(id) \in DOMAIN Shown /\ Copy!Create(FindNode(id), payload)
<1> DEFINE raw    == Len(nodes) + 1
           parent == FindNode(id)
           item   == [row |-> Copy!Nowhere, place |-> parent, text |-> payload, status |-> "New"]
           wide   == Copy!With(raw, item)
<1>1. TypeOK
  BY DEF IInv
<1>2. /\ raw \notin DOMAIN nodes
      /\ DOMAIN nodes' = DOMAIN nodes \cup {raw}
      /\ parent \in DOMAIN nodes
      /\ nodes[parent].status # "Deleted"
      /\ nodes'[raw].id = nextTemporaryId
      /\ nodes'[raw].payload = payload
      /\ nodes'[raw].status = "New"
      /\ nodes'[raw].parent = parent
      /\ \A h \in DOMAIN nodes : /\ nodes'[h].id = nodes[h].id
                                 /\ nodes'[h].payload = nodes[h].payload
                                 /\ nodes'[h].status = nodes[h].status
                                 /\ nodes'[h].parent = nodes[h].parent
      /\ records' = records
  BY <1>1, AddChildEffect
<1> HIDE DEF parent
<1>3. parent \in DOMAIN Shown /\ Shown[parent].status # "Deleted"
  BY <1>2, ShownFields
<1>4. raw \in Copy!NewItem
  BY <1>2, ShownFields DEF Copy!NewItem, NodesFit
<1> HIDE DEF raw
<1>5. RowOf(nextTemporaryId) = Copy!Nowhere
  BY <1>1, RecordIds DEF RowOf, Copy!Nowhere, NoId
<1>6. wide = [h \in DOMAIN nodes' |-> IF h = raw THEN item ELSE Shown[h]]
  BY <1>2, ShownFields DEF Copy!With
<1>7. ASSUME NEW h \in DOMAIN nodes'
      PROVE  Shown'[h] = IF h = raw THEN item ELSE Shown[h]
  <2>1. Shown'[h] = [row |-> RowOf(nodes'[h].id), place |-> nodes'[h].parent,
                     text |-> nodes'[h].payload, status |-> nodes'[h].status]
    BY ShownAfter DEF ShownNext
  <2>2. CASE h = raw
    BY <1>2, <1>5, <2>1, <2>2
  <2>3. CASE h # raw
    BY <1>2, <2>1, <2>3, ShownFields
  <2> QED BY <2>2, <2>3
<1>8. Shown' = [h \in DOMAIN nodes' |-> Shown'[h]]
  BY ShownAfter DEF ShownNext
<1> HIDE DEF item, wide
<1>9. Shown' = wide
  BY <1>6, <1>7, <1>8
<1> QED BY <1>2, <1>3, <1>4, <1>9 DEF Copy!Create, parent, item, wide

\* An item with another text and another status.
LEMMA EditedItem ==
    ASSUME NEW item, NEW r, NEW p, NEW t, NEW s, NEW text, NEW status, NEW new,
           item = [row |-> r, place |-> p, text |-> t, status |-> s],
           new = [item EXCEPT !.text = text, !.status = status]
    PROVE  new = [row |-> r, place |-> p, text |-> text, status |-> status]
<1>1. item \in [row : {r}, place : {p}, text : {t, text}, status : {s, status}]
  OBVIOUS
<1>2. new.row = r /\ new.place = p /\ new.text = text /\ new.status = status
  BY <1>1
<1>3. new \in [row : {r}, place : {p}, text : {t, text}, status : {s, status}]
  BY <1>1
<1> QED BY <1>2, <1>3

LEMMA EditPayloadCopies ==
    ASSUME IInv, NEW id \in DOMAIN index, NEW payload \in Payload, EditPayload(id, payload)
    PROVE  FindNode(id) \in DOMAIN Shown /\ Copy!Edit(FindNode(id), payload)
<1> DEFINE n == FindNode(id)
           edited == [Shown EXCEPT ![n].text = payload,
                                   ![n].status = IF @ = "New" THEN "New" ELSE "Modified"]
<1>1. TypeOK
  BY DEF IInv
<1>2. /\ n \in DOMAIN nodes
      /\ nodes[n].status # "Deleted"
      /\ DOMAIN nodes' = DOMAIN nodes
      /\ nodes'[n].payload = payload
      /\ nodes'[n].status = EditedStatus(nodes[n].status)
      /\ \A h \in DOMAIN nodes :
            /\ nodes'[h].id = nodes[h].id
            /\ nodes'[h].parent = nodes[h].parent
            /\ h # n => /\ nodes'[h].payload = nodes[h].payload
                        /\ nodes'[h].status = nodes[h].status
      /\ records' = records
  BY <1>1, EditPayloadEffect
<1> HIDE DEF n
<1>3. n \in DOMAIN Shown /\ Shown[n].status # "Deleted"
  BY <1>2, ShownFields
<1>4. EditedStatus(nodes[n].status) = IF nodes[n].status = "New" THEN "New" ELSE "Modified"
  BY <1>1, <1>2, NodesFunction DEF TypeOK, TreeNode, Status, EditedStatus
<1>5. ASSUME NEW h \in DOMAIN nodes
      PROVE  Shown'[h] = edited[h]
  <2>1. /\ Shown'[h] = [row |-> RowOf(nodes'[h].id), place |-> nodes'[h].parent,
                        text |-> nodes'[h].payload, status |-> nodes'[h].status]
        /\ Shown[h] = [row |-> RowOf(nodes[h].id), place |-> nodes[h].parent,
                       text |-> nodes[h].payload, status |-> nodes[h].status]
    BY <1>2, ShownAfter, ShownFields DEF ShownNext
  <2>2. CASE h = n
    <3> DEFINE status == IF Shown[h].status = "New" THEN "New" ELSE "Modified"
    <3>1. edited[h] = [Shown[h] EXCEPT !.text = payload, !.status = status]
      BY <1>3, <2>2
    <3>2. status = nodes'[h].status
      BY <1>2, <1>4, <2>1, <2>2
    <3> HIDE DEF edited, status
    <3>3. edited[h] = [row |-> RowOf(nodes[h].id), place |-> nodes[h].parent,
                       text |-> payload, status |-> status]
      <4> DEFINE item == Shown[h]
                 new  == edited[h]
      <4>1. /\ item = [row |-> RowOf(nodes[h].id), place |-> nodes[h].parent,
                        text |-> nodes[h].payload, status |-> nodes[h].status]
            /\ new = [item EXCEPT !.text = payload, !.status = status]
        BY <2>1, <3>1
      <4> HIDE DEF item, new
      <4>2. new = [row |-> RowOf(nodes[h].id), place |-> nodes[h].parent,
                   text |-> payload, status |-> status]
        BY <4>1, EditedItem
      <4> QED BY <4>2 DEF new
    <3> QED BY <1>2, <2>1, <2>2, <3>2, <3>3
  <2>3. CASE h # n
    <3>1. edited[h] = Shown[h]
      BY <1>2, <1>3, <2>3, ShownFields
    <3> QED BY <1>2, <2>1, <2>3, <3>1
  <2> QED BY <2>2, <2>3
<1>6. Shown' = edited
  <2>1. Shown' = [h \in DOMAIN nodes |-> Shown'[h]]
    BY <1>2, ShownAfter DEF ShownNext
  <2>2. edited = [h \in DOMAIN nodes |-> edited[h]]
    BY ShownFields
  <2> HIDE DEF edited
  <2> QED BY <1>5, <2>1, <2>2
<1> HIDE DEF edited
<1> QED BY <1>2, <1>3, <1>6 DEF Copy!Edit, n, edited

LEMMA RemoveCopies ==
    ASSUME IInv, NEW id \in DOMAIN index, Remove(id)
    PROVE  FindNode(id) \in DOMAIN Shown /\ Copy!Delete(FindNode(id))
<1> DEFINE n      == FindNode(id)
           doomed == Below(Up, {n})
           marked == [h \in DOMAIN Shown |-> IF h \in doomed
                         THEN [Shown[h] EXCEPT !.status = "Deleted"] ELSE Shown[h]]
<1>1. TypeOK
  BY DEF IInv
<1>2. n \in DOMAIN nodes
  BY <1>1, FindNodeType DEF TypeOK, FindNode, CacheTypeOK
<1>3. /\ nodes' = [h \in DOMAIN nodes |->
                     IF h \in doomed THEN [nodes[h] EXCEPT !.status = "Deleted"] ELSE nodes[h]]
      /\ records' = records
  BY DEF Remove, dbVars
<1>4. Up = [h \in DOMAIN Shown |-> Shown[h].place]
  BY ShownFields DEF Up
<1>5. doomed = Copy!Below([h \in DOMAIN Shown |-> Shown[h].place], {n})
  BY <1>4 DEF Below, Copy!Below, ClosedAbove, Copy!ClosedAbove
<1> HIDE DEF doomed, n
<1>6. ASSUME NEW h \in DOMAIN nodes
      PROVE  Shown'[h] = marked[h]
  <2>1. /\ DOMAIN nodes' = DOMAIN nodes
        /\ nodes'[h] = IF h \in doomed THEN [nodes[h] EXCEPT !.status = "Deleted"] ELSE nodes[h]
    BY <1>3
  <2>2. /\ nodes'[h].id = nodes[h].id
        /\ nodes'[h].parent = nodes[h].parent
        /\ nodes'[h].payload = nodes[h].payload
        /\ nodes'[h].status = IF h \in doomed THEN "Deleted" ELSE nodes[h].status
    <3>1. nodes[h] \in TreeNode
      BY <1>1, NodesFunction DEF TypeOK
    <3> QED BY <2>1, <3>1 DEF TreeNode
  <2>3. /\ Shown'[h] = [row |-> RowOf(nodes'[h].id), place |-> nodes'[h].parent,
                        text |-> nodes'[h].payload, status |-> nodes'[h].status]
        /\ Shown[h] = [row |-> RowOf(nodes[h].id), place |-> nodes[h].parent,
                       text |-> nodes[h].payload, status |-> nodes[h].status]
    BY <2>1, ShownAfter, ShownFields DEF ShownNext
  <2>4. marked[h] = IF h \in doomed THEN [Shown[h] EXCEPT !.status = "Deleted"] ELSE Shown[h]
    BY ShownFields
  <2> HIDE DEF marked
  <2>5. CASE h \in doomed
    BY <2>2, <2>3, <2>4, <2>5
  <2>6. CASE h \notin doomed
    BY <2>2, <2>3, <2>4, <2>6
  <2> QED BY <2>5, <2>6
<1>7. Shown' = marked
  <2>1. Shown' = [h \in DOMAIN nodes |-> Shown'[h]]
    BY <1>3, ShownAfter DEF ShownNext
  <2>2. marked = [h \in DOMAIN nodes |-> marked[h]]
    BY ShownFields
  <2> HIDE DEF marked
  <2> QED BY <1>6, <2>1, <2>2
<1>8. FindNode(id) \in DOMAIN Shown
  BY <1>2, ShownFields DEF n
<1>9. /\ UNCHANGED records
      /\ Shown' = [h \in DOMAIN Shown |->
             IF h \in Copy!Below([i \in DOMAIN Shown |-> Shown[i].place], {n})
             THEN [Shown[h] EXCEPT !.status = "Deleted"] ELSE Shown[h]]
  BY <1>3, <1>5, <1>7
<1> QED BY <1>8, <1>9 DEF Copy!Delete, n

-----------------------------------------------------------------------------
(***************************************************************************)
(* Synchronisation.                                                        *)
(***************************************************************************)
\* All of what a synchronisation does to nodes and records.
Saved ==
    /\ DOMAIN nodes' = DOMAIN nodes
    /\ \A h \in DOMAIN nodes : /\ nodes'[h].payload = nodes[h].payload
                               /\ nodes'[h].parent = nodes[h].parent
                               /\ nodes'[h].status = SyncedStatus(nodes[h].status)
                               /\ h \notin NodesIn("New") => nodes'[h].id = nodes[h].id
    /\ \A h \in NodesIn("New") :
          /\ nodes'[h].id \in (1..MaxId) \ DOMAIN records
          /\ records'[nodes'[h].id].payload = nodes[h].payload
          /\ records'[nodes'[h].id].parentId = nodes'[nodes[h].parent].id
    /\ DOMAIN records' = DOMAIN records \cup {nodes'[h].id : h \in NodesIn("New")}
    /\ \A id \in DOMAIN records :
          /\ records'[id].parentId = records[id].parentId
          /\ records[id].deleted => records'[id] = records[id]
          /\ id \notin IdsIn("Modified") => records'[id].payload = records[id].payload
    /\ \A h \in NodesIn("Modified") :
          ~records[nodes[h].id].deleted => records'[nodes[h].id].payload = nodes[h].payload
    /\ \A id \in DOMAIN records' :
          records'[id].deleted <=> id \in Below(ParentIn(records'), IdsIn("Deleted"))

LEMMA FreshIds ==
    ASSUME NEW next \in Nat, next >= 1, NEW new \in Nat, new <= MaxId + 1,
           NEW id \in next..(new - 1)
    PROVE  id \in (1..MaxId) \ (1..(next - 1))
BY DatabaseAssumption DEF DatabaseAssumption

LEMMA RecordIdsBelow ==
    ASSUME NEW next \in 1..(MaxId + 1), NEW id \in 1..(next - 1)
    PROVE  id # NoId /\ id < TempBase
BY DatabaseAssumption, CacheAssumption DEF DatabaseAssumption, CacheAssumption, NoId

LEMMA ApplySaves ==
    ASSUME IInv, IInv', DeletionsAreRemembered, Apply
    PROVE  Saved
<1>1. PICK order \in CreationOrders : Synced(order)
  BY DEF Apply, Synced
<1> DEFINE changes == CollectChanges(order)
           n       == Cardinality(NodesIn("New"))
<1>2. TypeOK /\ DbTypeOK'
  BY DEF IInv, TypeOK
<1>3. /\ IsChangeSet(changes)
      /\ n \in Nat
      /\ Len(changes.created) = n
      /\ \A i \in 1..n : order[i] \in NodesIn("New")
      /\ \A h \in NodesIn("New") : \E i \in 1..n : order[i] = h
      /\ DOMAIN changes.modified = IdsIn("Modified")
  BY <1>2, CollectedType
<1>4. /\ DOMAIN nodes' = DOMAIN nodes
      /\ \A h \in DOMAIN nodes : nodes'[h].parent = nodes[h].parent
      /\ \A i \in 1..n : nodes'[order[i]].id = nextId + i - 1
  BY <1>1, <1>2, ReconcileEffect DEF IInv
<1>5. /\ nextId' = nextId + n
      /\ \A h \in DOMAIN nodes : /\ nodes'[h].payload = nodes[h].payload
                                 /\ nodes'[h].status = SyncedStatus(nodes[h].status)
                                 /\ h \notin NodesIn("New") => nodes'[h].id = nodes[h].id
      /\ \A h \in NodesIn("New") :
            /\ nodes'[h].id \in nextId..(nextId' - 1)
            /\ records'[nodes'[h].id].payload = nodes[h].payload
            /\ records'[nodes'[h].id].parentId = nodes'[nodes[h].parent].id
      /\ \A h \in NodesIn("Modified") :
            ~records[nodes[h].id].deleted =>
               records'[nodes[h].id].payload = nodes[h].payload
  BY <1>1, ApplyEffect
<1>6. /\ DOMAIN records = 1..(nextId - 1)
      /\ nextId \in Nat /\ nextId >= 1
  BY <1>2, RecordIds
<1> HIDE DEF changes, n
<1>7. /\ DOMAIN records' = 1..(nextId + n - 1)
      /\ \A id \in DOMAIN records :
            /\ records'[id].parentId = records[id].parentId
            /\ records[id].deleted => records'[id] = records[id]
            /\ id \notin IdsIn("Modified") => records'[id].payload = records[id].payload
  BY <1>1, <1>2, <1>3, AppliedRows DEF Synced, TypeOK, changes, n
<1>8. ASSUME NEW h \in NodesIn("New")
      PROVE  nodes'[h].id \in (1..MaxId) \ DOMAIN records
  <2>1. nextId' \in Nat /\ nextId' <= MaxId + 1
    <3>1. nextId' \in 1..(MaxId + 1)
      BY <1>2 DEF DbTypeOK
    <3> DEFINE new == nextId'
    <3> HIDE DEF new
    <3>2. new \in 1..(MaxId + 1)
      BY <3>1 DEF new
    <3>3. new \in Nat /\ new <= MaxId + 1
      BY <3>2, DatabaseAssumption DEF DatabaseAssumption
    <3> QED BY <3>3 DEF new
  <2> QED BY <1>5, <1>6, <2>1, FreshIds
<1>9. DOMAIN records' = DOMAIN records \cup {nodes'[h].id : h \in NodesIn("New")}
  <2>1. ASSUME NEW id \in 1..(nextId + n - 1), id \notin 1..(nextId - 1)
        PROVE  id - nextId + 1 \in 1..n /\ id = nextId + (id - nextId + 1) - 1
    BY <1>3, <1>6, <2>1
  <2>2. ASSUME NEW id \in 1..(nextId + n - 1), id \notin 1..(nextId - 1)
        PROVE  \E h \in NodesIn("New") : nodes'[h].id = id
    BY <1>3, <1>4, <2>1, <2>2
  <2>3. ASSUME NEW h \in NodesIn("New")
        PROVE  nodes'[h].id \in 1..(nextId + n - 1)
    BY <1>3, <1>4, <1>6
  <2>4. 1..(nextId - 1) \subseteq 1..(nextId + n - 1)
    BY <1>3, <1>6
  <2> QED BY <1>6, <1>7, <2>2, <2>3, <2>4
<1>10. \A id \in DOMAIN records' :
          records'[id].deleted <=> id \in Below(ParentIn(records'), IdsIn("Deleted"))
  BY ApplyDeletions
<1> QED BY <1>4, <1>5, <1>7, <1>8, <1>9, <1>10 DEF Saved

\* What lies below a set depends on its nodes only.
LEMMA BelowSame ==
    ASSUME NEW up, NEW S, NEW T, S \cap DOMAIN up = T \cap DOMAIN up
    PROVE  Copy!Below(up, S) = Below(up, T)
BY DEF Below, Copy!Below, ClosedAbove, Copy!ClosedAbove

\* Where the record of each item is after a synchronisation.
LEMMA SavedRows ==
    ASSUME IInv, IInv', Saved
    PROVE  /\ \A h \in DOMAIN nodes \ NodesIn("New") :
                 RowOf(nodes[h].id) = RowOf(nodes'[h].id)
           /\ \A h \in NodesIn("New") :
                 /\ RowOf(nodes'[h].id) = nodes'[h].id
                 /\ nodes[h].parent \in DOMAIN nodes
                 /\ RowOf(nodes'[nodes[h].parent].id) = nodes'[nodes[h].parent].id
           /\ \A h \in NodesIn("Modified") :
                 /\ nodes[h].id \in DOMAIN records
                 /\ RowOf(nodes'[h].id) = nodes[h].id
           /\ \A g, h \in NodesIn("New") : nodes'[g].id = nodes'[h].id => g = h
           /\ \A g, h \in DOMAIN nodes : nodes[g].id = nodes[h].id => g = h
<1>1. TypeOK /\ IndexIsExact /\ KnownIds /\ Links
  BY DEF IInv
<1>2. \A h \in DOMAIN nodes \ NodesIn("New") : nodes'[h].id = nodes[h].id
  BY DEF Saved
<1>3. TempBase \in Nat /\ MaxId \in Nat /\ MaxId < TempBase
  BY <1>1, RecordIds
<1>4. ASSUME NEW h \in NodesIn("New")
      PROVE  /\ RowOf(nodes'[h].id) = nodes'[h].id
             /\ nodes[h].parent \in DOMAIN nodes
             /\ RowOf(nodes'[nodes[h].parent].id) = nodes'[nodes[h].parent].id
  <2>1. nodes'[h].id \in 1..MaxId /\ nodes'[h].id \in DOMAIN records'
    BY DEF Saved
  <2>2. nodes[h].parent \in DOMAIN nodes
    BY <1>1, <1>4 DEF Links, NodesIn, KnownIds
  <2>3. records'[nodes'[h].id].parentId \in 0..(nodes'[h].id - 1)
    BY <2>1 DEF IInv, ParentsArePersisted
  <2>4. records'[nodes'[h].id].parentId = nodes'[nodes[h].parent].id
    BY DEF Saved
  <2> DEFINE own   == nodes'[h].id
             above == nodes'[nodes[h].parent].id
  <2>5. own \in 1..MaxId /\ above \in 0..(own - 1)
    BY <2>1, <2>3, <2>4
  <2> HIDE DEF own, above
  <2>6. own < TempBase /\ above < TempBase
    BY <1>3, <2>5
  <2> QED BY <2>2, <2>6 DEF RowOf, own, above
<1>5. ASSUME NEW h \in NodesIn("Modified")
      PROVE  nodes[h].id \in DOMAIN records /\ RowOf(nodes'[h].id) = nodes[h].id
  <2>1. h \in DOMAIN nodes \ NodesIn("New") /\ nodes[h].id \in DOMAIN records
    BY <1>1, <1>5 DEF NodesIn, KnownIds
  <2> QED BY <1>1, <1>2, <2>1, RecordIds DEF RowOf
<1>6. \A g, h \in NodesIn("New") : nodes'[g].id = nodes'[h].id => g = h
  <2>1. IndexIsExact'
    BY DEF IInv
  <2>2. \A h \in NodesIn("New") : h \in DOMAIN nodes'
    BY DEF Saved, NodesIn
  <2> QED BY <2>1, <2>2 DEF IndexIsExact, FindNode
<1>7. \A g, h \in DOMAIN nodes : nodes[g].id = nodes[h].id => g = h
  BY <1>1, NodeIds
<1> QED BY <1>2, <1>4, <1>5, <1>6, <1>7

\* An item with another row and another status.
LEMMA SavedItem ==
    ASSUME NEW item, NEW r, NEW p, NEW t, NEW s, NEW row, NEW status, NEW new,
           item = [row |-> r, place |-> p, text |-> t, status |-> s],
           new = [item EXCEPT !.row = row, !.status = status]
    PROVE  new = [row |-> row, place |-> p, text |-> t, status |-> status]
<1>1. item \in [row : {r, row}, place : {p}, text : {t}, status : {s, status}]
  OBVIOUS
<1>2. new.row = row /\ new.place = p /\ new.text = t /\ new.status = status
  BY <1>1
<1>3. new \in [row : {r, row}, place : {p}, text : {t}, status : {s, status}]
  BY <1>1
<1> QED BY <1>2, <1>3

LEMMA ApplyCopies ==
    ASSUME IInv, IInv', Saved
    PROVE  Copy!Save
<1> DEFINE keys  == [h \in NodesIn("New") |-> nodes'[h].id]
           rowOf == [h \in DOMAIN Shown |->
                        IF h \in Copy!Marked("New") THEN keys[h] ELSE Shown[h].row]
<1>1. TypeOK /\ DbTypeOK'
  BY DEF IInv, TypeOK
<1>2. /\ DOMAIN Shown = DOMAIN nodes
      /\ \A h \in DOMAIN nodes :
            Shown[h] = [row |-> RowOf(nodes[h].id), place |-> nodes[h].parent,
                        text |-> nodes[h].payload, status |-> nodes[h].status]
  BY ShownFields
<1>3. \A status : Copy!Marked(status) = NodesIn(status)
  BY <1>2 DEF Copy!Marked, NodesIn
<1>4. \A status : NodesIn(status) \subseteq DOMAIN nodes
  BY DEF NodesIn
<1>5. keys \in Copy!Assignments
  <2>1. \A h \in NodesIn("New") : keys[h] \in (1..MaxId) \ DOMAIN records
    BY DEF Saved
  <2>2. \A g, h \in NodesIn("New") : keys[g] = keys[h] => g = h
    BY SavedRows
  <2> QED BY <1>3, <2>1, <2>2 DEF Copy!Assignments
<1>6. ASSUME NEW h \in DOMAIN nodes
      PROVE  rowOf[h] = RowOf(nodes'[h].id)
  BY <1>2, <1>3, SavedRows
<1>7. DOMAIN rowOf = DOMAIN nodes
  BY <1>2
<1> HIDE DEF keys, rowOf
<1>8. Shown' = [h \in DOMAIN Shown |->
                  [Shown[h] EXCEPT !.row = rowOf[h],
                      !.status = IF @ = "Deleted" THEN "Deleted" ELSE "Unchanged"]]
  <2> DEFINE synced(h) == IF Shown[h].status = "Deleted" THEN "Deleted" ELSE "Unchanged"
             moved     == [h \in DOMAIN Shown |->
                              [Shown[h] EXCEPT !.row = rowOf[h], !.status = synced(h)]]
  <2>1. ASSUME NEW h \in DOMAIN nodes
        PROVE  Shown'[h] = moved[h]
    <3> DEFINE item == Shown[h]
               new  == moved[h]
    <3>1. /\ item = [row |-> RowOf(nodes[h].id), place |-> nodes[h].parent,
                     text |-> nodes[h].payload, status |-> nodes[h].status]
          /\ new = [item EXCEPT !.row = rowOf[h], !.status = synced(h)]
      BY <1>2
    <3>2. synced(h) = nodes'[h].status
      <4>1. nodes[h].status \in Status
        BY <1>1, NodesFunction DEF TypeOK, TreeNode
      <4> QED BY <1>2, <4>1 DEF Saved, SyncedStatus, Status
    <3> HIDE DEF item, new, synced, moved
    <3>3. new = [row |-> rowOf[h], place |-> nodes[h].parent,
                 text |-> nodes[h].payload, status |-> synced(h)]
      BY <3>1, SavedItem
    <3>4. Shown'[h] = [row |-> RowOf(nodes'[h].id), place |-> nodes'[h].parent,
                       text |-> nodes'[h].payload, status |-> nodes'[h].status]
      BY ShownAfter DEF ShownNext, Saved
    <3>5. Shown'[h] = new
      BY <1>6, <3>2, <3>3, <3>4 DEF Saved
    <3> QED BY <3>5 DEF new
  <2>2. Shown' = [h \in DOMAIN nodes |-> Shown'[h]]
    BY ShownAfter DEF ShownNext, Saved
  <2>3. moved = [h \in DOMAIN nodes |-> moved[h]]
    BY <1>2
  <2>4. Shown' = moved
    <3> HIDE DEF moved
    <3> QED BY <2>1, <2>2, <2>3
  <2> QED BY <2>4
<1>9. records' = Copy!Written(rowOf)
  <2> DEFINE New       == Copy!Marked("New")
             added     == {rowOf[i] : i \in New}
             source(r) == CHOOSE i \in New : rowOf[i] = r
             edited(r) == {i \in Copy!Marked("Modified") : rowOf[i] = r}
             grown     == [r \in DOMAIN records \cup added |->
                 IF r \in added
                 THEN [parentId |-> rowOf[Shown[source(r)].place],
                       payload  |-> Shown[source(r)].text, deleted |-> FALSE]
                 ELSE IF records[r].deleted \/ edited(r) = {} THEN records[r]
                 ELSE [records[r] EXCEPT !.payload = Shown[CHOOSE i \in edited(r) : TRUE].text]]
             parents   == [r \in DOMAIN grown |-> grown[r].parentId]
             doomed    == Copy!Below(parents, {rowOf[i] : i \in Copy!Marked("Deleted")})
  <2>1. Copy!Written(rowOf) = [r \in DOMAIN grown |->
                                  [grown[r] EXCEPT !.deleted = @ \/ r \in doomed]]
    BY DEF Copy!Written
  <2>2. /\ added = {nodes'[h].id : h \in NodesIn("New")}
        /\ \A h \in NodesIn("New") : rowOf[h] = nodes'[h].id
    BY <1>3, <1>4, <1>6, SavedRows
  <2>3. DOMAIN grown = DOMAIN records'
    BY <2>2 DEF Saved
  <2>4. \A r \in DOMAIN records : r \notin added
    BY <2>2 DEF Saved
  <2>5. records' \in [DOMAIN records' -> Record] /\ records \in [DOMAIN records -> Record]
    BY <1>1 DEF TypeOK, DbTypeOK
  <2>6. ASSUME NEW r \in DOMAIN records'
        PROVE  /\ grown[r] \in Record
               /\ grown[r].parentId = records'[r].parentId
               /\ grown[r].payload = records'[r].payload
               /\ grown[r].deleted = TRUE => records'[r].deleted = TRUE
    <3>1. CASE r \in added
      <4>1. PICK h \in NodesIn("New") : r = nodes'[h].id
        BY <2>2, <3>1
      <4>2. \A i \in New : rowOf[i] = r <=> i = h
        BY <1>3, <2>2, <4>1, SavedRows
      <4>3. source(r) = h
        BY <1>3, <4>2
      <4>4. h \in DOMAIN nodes /\ Shown[h].place = nodes[h].parent /\ Shown[h].text = nodes[h].payload
        BY <1>2, <1>4
      <4>5. rowOf[nodes[h].parent] = nodes'[nodes[h].parent].id
        BY <1>6, <4>1, SavedRows
      <4>6. grown[r] = [parentId |-> rowOf[Shown[source(r)].place],
                        payload  |-> Shown[source(r)].text, deleted |-> FALSE]
        BY <3>1
      <4>7. /\ rowOf[Shown[h].place] = records'[r].parentId
            /\ Shown[h].text = records'[r].payload
        BY <4>1, <4>4, <4>5 DEF Saved
      <4> HIDE DEF grown, source
      <4>8. grown[r] = [parentId |-> records'[r].parentId,
                        payload |-> records'[r].payload, deleted |-> FALSE]
        BY <4>3, <4>6, <4>7
      <4> QED BY <2>5, <4>8 DEF Record
    <3>2. CASE r \notin added
      <4>1. r \in DOMAIN records
        BY <2>2, <3>2 DEF Saved
      <4> DEFINE pick == CHOOSE i \in edited(r) : TRUE
                 text == Shown[pick].text
      <4>2. grown[r] = IF records[r].deleted \/ edited(r) = {} THEN records[r]
                       ELSE [records[r] EXCEPT !.payload = text]
        BY <3>2, <4>1
      <4>3. CASE records[r].deleted
        <5>1. grown[r] = records'[r]
          BY <4>1, <4>2, <4>3 DEF Saved
        <5> QED BY <2>5, <5>1
      <4>4. CASE ~records[r].deleted /\ edited(r) = {}
        <5>1. r \notin IdsIn("Modified")
          BY <1>3, <1>4, <1>6, <4>4, SavedRows DEF IdsIn
        <5>2. grown[r] = records[r]
          BY <4>2, <4>4
        <5> HIDE DEF grown
        <5> QED BY <2>5, <4>1, <4>4, <5>1, <5>2 DEF Saved
      <4>5. CASE ~records[r].deleted /\ edited(r) # {}
        <5>1. PICK h \in NodesIn("Modified") : rowOf[h] = r
          BY <1>3, <4>5
        <5>2. nodes[h].id = r /\ h \in DOMAIN nodes
          BY <1>4, <1>6, <5>1, SavedRows
        <5>3. edited(r) = {h}
          <6>1. \A i \in NodesIn("Modified") : rowOf[i] = nodes[i].id
            BY <1>4, <1>6, SavedRows
          <6> QED BY <1>3, <1>4, <5>1, <5>2, <6>1, SavedRows
        <5> HIDE DEF edited
        <5>4. text = nodes[h].payload
          <6>1. pick = h
            BY <5>3
          <6> HIDE DEF pick
          <6> QED BY <1>2, <5>2, <6>1
        <5>5. records'[r].payload = nodes[h].payload
          BY <4>5, <5>1, <5>2 DEF Saved
        <5>6. grown[r] = [records[r] EXCEPT !.payload = text]
          BY <4>2, <4>5
        <5> HIDE DEF grown, text
        <5>7. grown[r] = [records[r] EXCEPT !.payload = records'[r].payload]
          BY <5>4, <5>5, <5>6
        <5>8. /\ records[r] \in Record /\ records'[r] \in Record
              /\ records'[r].parentId = records[r].parentId
          BY <2>5, <4>1 DEF Saved
        <5> QED BY <4>5, <5>7, <5>8 DEF Record
      <4> QED BY <4>3, <4>4, <4>5
    <3> QED BY <3>1, <3>2
  <2> HIDE DEF grown, added
  <2>7. parents = ParentIn(records')
    BY <2>3, <2>6 DEF ParentIn
  <2>8. doomed = Below(ParentIn(records'), IdsIn("Deleted"))
    <3> DEFINE S == {rowOf[i] : i \in Copy!Marked("Deleted")}
               D == DOMAIN ParentIn(records')
    <3>1. D = DOMAIN records' /\ \A id \in D : id # NoId /\ id < TempBase
      <4>1. records' \in [1..(nextId' - 1) -> Record] /\ nextId' \in 1..(MaxId + 1)
        BY <1>1 DEF DbTypeOK
      <4> QED BY <4>1, RecordIdsBelow DEF ParentIn
    <3>2. S = {RowOf(nodes[i].id) : i \in NodesIn("Deleted")}
      <4>1. \A i \in NodesIn("Deleted") : rowOf[i] = RowOf(nodes[i].id)
        <5>1. \A i \in NodesIn("Deleted") : i \in DOMAIN nodes \ NodesIn("New")
          BY DEF NodesIn
        <5> QED BY <1>6, <5>1, SavedRows
      <4> QED BY <1>3, <4>1
    <3>3. S \cap D = IdsIn("Deleted") \cap D
      BY <3>1, <3>2 DEF IdsIn, RowOf
    <3> HIDE DEF S, D
    <3>4. Copy!Below(ParentIn(records'), S) = Below(ParentIn(records'), IdsIn("Deleted"))
      BY <3>3, BelowSame DEF D
    <3> QED BY <2>7, <3>4 DEF S
  <2> HIDE DEF parents, doomed
  <2>9. ASSUME NEW r \in DOMAIN records'
        PROVE  [grown[r] EXCEPT !.deleted = @ \/ r \in doomed] = records'[r]
    <3> DEFINE flag == grown[r].deleted \/ r \in doomed
               new  == [grown[r] EXCEPT !.deleted = flag]
    <3>1. flag \in BOOLEAN /\ grown[r] \in Record /\ records'[r] \in Record
      BY <2>5, <2>6
    <3>2. flag <=> r \in doomed
      BY <2>6, <2>8 DEF Saved, Record
    <3>3. records'[r].deleted <=> r \in doomed
      BY <2>8 DEF Saved
    <3>4. flag = records'[r].deleted
      BY <3>1, <3>2, <3>3 DEF Record
    <3> HIDE DEF flag
    <3>5. /\ new \in Record
          /\ new.parentId = grown[r].parentId
          /\ new.payload = grown[r].payload
          /\ new.deleted = flag
      BY <3>1 DEF Record
    <3> HIDE DEF new
    <3>6. new = records'[r]
      BY <2>6, <3>1, <3>4, <3>5, RecordEqual
    <3> QED BY <3>6 DEF new, flag
  <2> QED BY <2>1, <2>3, <2>5, <2>9
<1> QED BY <1>3, <1>5, <1>8, <1>9 DEF Copy!Save, keys, rowOf

-----------------------------------------------------------------------------
(***************************************************************************)
(* The refinement.                                                         *)
(***************************************************************************)
LEMMA StepCopies ==
    ASSUME IInv, IInv', NodesFit', RowsFound', DeletionsAreRemembered, [Next]_vars
    PROVE  [Copy!Next]_<<records, Shown>>
<1>1. ASSUME NEW id \in DOMAIN records, LoadFromDatabase(id)
      PROVE  Copy!Next
  BY <1>1, LoadCopies DEF Copy!Next
<1>2. ASSUME NEW id \in DOMAIN index, NEW payload \in Payload, AddChild(id, payload)
      PROVE  Copy!Next
  BY <1>2, AddChildCopies DEF Copy!Next
<1>3. ASSUME NEW id \in DOMAIN index, NEW payload \in Payload, EditPayload(id, payload)
      PROVE  Copy!Next
  BY <1>3, EditPayloadCopies DEF Copy!Next
<1>4. ASSUME NEW id \in DOMAIN index, Remove(id)
      PROVE  Copy!Next
  BY <1>4, RemoveCopies DEF Copy!Next
<1>5. ASSUME Apply
      PROVE  Copy!Next
  BY <1>5, ApplySaves, ApplyCopies DEF Copy!Next
<1>6. ASSUME Reset
      PROVE  Copy!Next
  <2>1. records' = SeedTestData /\ nodes' = << >>
    BY <1>6 DEF Reset, Clear, ResetDatabase
  <2>2. Shown' = << >>
    BY <2>1 DEF Shown
  <2> QED BY <2>1, <2>2 DEF Copy!Next, Copy!Restore
<1>7. ASSUME UNCHANGED vars
      PROVE  UNCHANGED <<records, Shown>>
  BY <1>7 DEF vars, dbVars, cacheVars, Shown
<1> QED BY <1>1, <1>2, <1>3, <1>4, <1>5, <1>6, <1>7 DEF Next

\* The cache is a working copy for its user: every call loads, creates,
\* edits, deletes, saves or restores items as WorkingCopy promises, for any
\* database, any texts and any bounds, although the program keeps temporary
\* ids, an index and parent ids that go stale.
THEOREM CacheImplementsWorkingCopy == Spec => WorkingCopySpec
<1>1. Init => Copy!Init
  BY DEF Init, DbInit, CacheInit, Copy!Init, Shown
<1>2. IInv /\ IInv' /\ NodesFit' /\ RowsFound' /\ DeletionsAreRemembered /\ [Next]_vars
         => [Copy!Next]_<<records, Shown>>
  BY StepCopies
<1> QED BY <1>1, <1>2, IdentityInvariant, DeletionsStayRemembered, NodesAreItems, RowsAreFound,
           PTL DEF Spec, WorkingCopySpec, Copy!Spec

=============================================================================
