---------------------------- MODULE ForestProofs ----------------------------
(***************************************************************************)
(* The two forests.  Every deletion in the database is remembered by the   *)
(* cache, deletion in the database is closed downwards, and the database   *)
(* is the append-only tree of SoftDeleteStore; in the cache every node     *)
(* lies below a root, and the mark of unloaded children is never wrong     *)
(* when it is there.                                                       *)
(***************************************************************************)
EXTENDS TreeCacheProofs

-----------------------------------------------------------------------------
(***************************************************************************)
(* What the calls on one element do to the nodes (loading is LoadEffect).  *)
(***************************************************************************)
\* addChild adds one new element and leaves the others as they are.
LEMMA AddChildEffect ==
    ASSUME TypeOK, NEW id \in DOMAIN index, NEW payload \in Payload, AddChild(id, payload)
    PROVE  /\ Len(nodes) + 1 \notin DOMAIN nodes
           /\ DOMAIN nodes' = DOMAIN nodes \cup {Len(nodes) + 1}
           /\ FindNode(id) \in DOMAIN nodes
           /\ nodes[FindNode(id)].status # "Deleted"
           /\ LET new == nodes'[Len(nodes) + 1]
              IN  /\ new.id = nextTemporaryId
                  /\ new.payload = payload
                  /\ new.status = "New"
                  /\ new.parent = FindNode(id)
                  /\ ~new.hasUnloadedChildren
           /\ \A h \in DOMAIN nodes :
                 /\ nodes'[h].id = nodes[h].id
                 /\ nodes'[h].parentId = nodes[h].parentId
                 /\ nodes'[h].payload = nodes[h].payload
                 /\ nodes'[h].status = nodes[h].status
                 /\ nodes'[h].parent = nodes[h].parent
                 /\ nodes'[h].hasUnloadedChildren =>
                       nodes[h].hasUnloadedChildren /\ h # FindNode(id)
           /\ UNCHANGED <<records, nextId>>
<1> DEFINE parent == FindNode(id)
           child  == [id |-> nextTemporaryId, parentId |-> id, payload |-> payload,
                      status |-> "New", hasUnloadedChildren |-> FALSE, parent |-> parent]
           others == [nodes EXCEPT ![parent].hasUnloadedChildren = FALSE]
<1>1. CacheTypeOK
  BY DEF TypeOK
<1>2. nodes' = Append(others, child) /\ UNCHANGED <<records, nextId>>
  BY DEF AddChild, dbVars
<1>3. id \in Nat /\ nextTemporaryId \in Nat /\ parent \in Nat
  BY <1>1, CacheAssumption, FindNodeType DEF CacheTypeOK, CacheAssumption
<1>4. /\ child \in TreeNode
      /\ child.id = nextTemporaryId
      /\ child.payload = payload
      /\ child.status = "New"
      /\ child.parent = parent
      /\ ~child.hasUnloadedChildren
  BY <1>3 DEF TreeNode, Status
<1>5. \A h \in DOMAIN nodes : nodes[h] \in TreeNode
  BY <1>1, NodesFunction
<1>6. ASSUME NEW h \in DOMAIN nodes
      PROVE  /\ others[h] \in TreeNode
             /\ others[h].id = nodes[h].id
             /\ others[h].parentId = nodes[h].parentId
             /\ others[h].payload = nodes[h].payload
             /\ others[h].status = nodes[h].status
             /\ others[h].parent = nodes[h].parent
             /\ others[h].hasUnloadedChildren =>
                   nodes[h].hasUnloadedChildren /\ h # parent
  BY <1>5 DEF TreeNode
<1>7. others \in [DOMAIN nodes -> TreeNode]
  BY <1>6
<1>8. parent \in DOMAIN nodes /\ nodes[parent].status # "Deleted"
  BY <1>1, FindNodeType DEF AddChild, ChangeResult
<1> HIDE DEF others, child, parent
<1> QED BY <1>1, <1>2, <1>4, <1>6, <1>7, <1>8, NodesAppended DEF parent

\* editPayload changes the text and the status of one element.
LEMMA EditPayloadEffect ==
    ASSUME TypeOK, NEW id \in DOMAIN index, NEW payload \in Payload, EditPayload(id, payload)
    PROVE  LET n == FindNode(id)
           IN  /\ n \in DOMAIN nodes
               /\ nodes[n].status # "Deleted"
               /\ DOMAIN nodes' = DOMAIN nodes
               /\ nodes'[n].payload = payload
               /\ nodes'[n].status = EditedStatus(nodes[n].status)
               /\ \A h \in DOMAIN nodes :
                     /\ nodes'[h].id = nodes[h].id
                     /\ nodes'[h].parentId = nodes[h].parentId
                     /\ nodes'[h].parent = nodes[h].parent
                     /\ nodes'[h].hasUnloadedChildren = nodes[h].hasUnloadedChildren
                     /\ h # n => /\ nodes'[h].payload = nodes[h].payload
                                 /\ nodes'[h].status = nodes[h].status
               /\ UNCHANGED <<records, nextId>>
<1> DEFINE n == FindNode(id)
<1>1. n \in DOMAIN nodes /\ nodes[n].status # "Deleted"
  BY FindNodeType DEF EditPayload, ChangeResult, TypeOK
<1>2. nodes' = [nodes EXCEPT ![n].payload = payload, ![n].status = EditedStatus(@)]
  BY DEF EditPayload
<1>3. UNCHANGED <<records, nextId>>
  BY DEF EditPayload, dbVars
<1> HIDE DEF n
<1>4. /\ DOMAIN nodes' = DOMAIN nodes
      /\ nodes'[n].payload = payload
      /\ nodes'[n].status = EditedStatus(nodes[n].status)
      /\ \A h \in DOMAIN nodes :
            /\ nodes'[h].id = nodes[h].id
            /\ nodes'[h].parentId = nodes[h].parentId
            /\ nodes'[h].parent = nodes[h].parent
            /\ nodes'[h].hasUnloadedChildren = nodes[h].hasUnloadedChildren
            /\ h # n => /\ nodes'[h].payload = nodes[h].payload
                        /\ nodes'[h].status = nodes[h].status
  BY <1>1, <1>2, NodesFunction DEF TreeNode, TypeOK
<1> QED BY <1>1, <1>3, <1>4 DEF n

\* remove changes statuses only, and only to deleted.
LEMMA RemoveEffect ==
    ASSUME TypeOK, NEW id \in DOMAIN index, Remove(id)
    PROVE  /\ DOMAIN nodes' = DOMAIN nodes
           /\ \A h \in DOMAIN nodes :
                 /\ nodes'[h].id = nodes[h].id
                 /\ nodes'[h].parentId = nodes[h].parentId
                 /\ nodes'[h].payload = nodes[h].payload
                 /\ nodes'[h].parent = nodes[h].parent
                 /\ nodes'[h].hasUnloadedChildren = nodes[h].hasUnloadedChildren
                 /\ nodes'[h].status \in {nodes[h].status, "Deleted"}
           /\ UNCHANGED <<records, nextId>>
<1> DEFINE doomed == Below(Up, {FindNode(id)})
<1>1. nodes' = [h \in DOMAIN nodes |->
                  IF h \in doomed THEN [nodes[h] EXCEPT !.status = "Deleted"] ELSE nodes[h]]
  BY DEF Remove
<1>2. UNCHANGED <<records, nextId>>
  BY DEF Remove, dbVars
<1> HIDE DEF doomed
<1> QED BY <1>1, <1>2, NodesFunction DEF TreeNode, TypeOK

-----------------------------------------------------------------------------
(***************************************************************************)
(* Deletions are remembered.                                               *)
(***************************************************************************)
\* An element deleted in the cache stays there, deleted, under its id.
DeletedNodesStay ==
    \A h \in NodesIn("Deleted") :
        /\ h \in DOMAIN nodes'
        /\ nodes'[h].status = "Deleted"
        /\ nodes'[h].id = nodes[h].id

LEMMA DeletedIdsStay ==
    ASSUME DeletedNodesStay
    PROVE  IdsIn("Deleted") \subseteq IdsIn("Deleted")'
BY DEF DeletedNodesStay, IdsIn, NodesIn

\* The records below a set of ids are still below a larger set, when rows
\* have been added and none has moved.
LEMMA StillBelow ==
    ASSUME NEW old, NEW new, NEW S, NEW T, S \subseteq T,
           DOMAIN old \subseteq DOMAIN new,
           \A id \in DOMAIN old : new[id].parentId = old[id].parentId
    PROVE  Below(ParentIn(old), S) \subseteq Below(ParentIn(new), T)
<1> DEFINE up   == ParentIn(old)
           wide == ParentIn(new)
<1>1. /\ DOMAIN up = DOMAIN old
      /\ DOMAIN wide = DOMAIN new
      /\ \A id \in DOMAIN up : wide[id] = up[id]
  BY DEF ParentIn
<1> HIDE DEF up, wide
<1>2. S \cap DOMAIN up \subseteq Below(wide, T)
  BY <1>1, BelowContains
<1>3. Below(up, S) \subseteq Below(wide, T)
  BY <1>1, <1>2, BelowMonotone
<1> QED BY <1>3 DEF up, wide

\* A call that leaves the database alone and keeps the deleted elements.
LEMMA LocalDeletions ==
    ASSUME DeletionsAreRemembered, DeletionCascades, DeletedNodesStay, UNCHANGED records
    PROVE  DeletionsAreRemembered' /\ DeletionCascades'
<1>1. IdsIn("Deleted") \subseteq IdsIn("Deleted")'
  BY DeletedIdsStay
<1>2. Below(ParentIn(records), IdsIn("Deleted"))
         \subseteq Below(ParentIn(records'), IdsIn("Deleted")')
  BY <1>1, StillBelow
<1>3. Below(ParentIn(records), IdsIn("Deleted"))'
         = Below(ParentIn(records'), IdsIn("Deleted")')
  BY DEF Below, ClosedAbove, ParentIn
<1>4. DeletionsAreRemembered'
  BY <1>2, <1>3 DEF DeletionsAreRemembered
<1>5. DeletionCascades'
  BY DEF DeletionCascades
<1> QED BY <1>4, <1>5

\* After a synchronisation exactly the records below a deleted element of
\* the cache are deleted: the deletions before it among them, because all
\* deletions are sent again.
LEMMA ApplyDeletions ==
    ASSUME IInv, DeletionsAreRemembered, Apply
    PROVE  /\ DeletedNodesStay
           /\ \A id \in DOMAIN records' :
                 records'[id].deleted
                    <=> id \in Below(ParentIn(records'), IdsIn("Deleted"))
<1>1. PICK order \in CreationOrders : Synced(order)
  BY DEF Apply, Synced
<1> DEFINE changes == CollectChanges(order)
           n       == Cardinality(NodesIn("New"))
           doomed  == Below(ParentIn(records'), IdsIn("Deleted"))
<1>2. TypeOK /\ IndexIsExact /\ KnownIds
  BY DEF IInv
<1>3. /\ IsChangeSet(changes)
      /\ Len(changes.created) = n /\ n \in Nat
      /\ changes.deleted = IdsIn("Deleted")
  BY <1>2, CollectedType
<1>4. /\ DOMAIN records' = 1..(nextId + n - 1)
      /\ \A id \in DOMAIN records :
            /\ records'[id].parentId = records[id].parentId
            /\ records'[id].deleted <=> records[id].deleted \/ id \in doomed
      /\ \A i \in 1..n :
            records'[nextId + i - 1].deleted <=> nextId + i - 1 \in doomed
  <2> HIDE DEF changes, n
  <2> QED BY <1>1, <1>2, <1>3, AppliedRows DEF Synced, TypeOK, changes, n
<1>5. DOMAIN records = 1..(nextId - 1) /\ nextId \in Nat /\ nextId >= 1
  BY <1>2, RecordIds
<1>6. \A id \in DOMAIN records : records[id].deleted => id \in doomed
  <2>1. DOMAIN records \subseteq DOMAIN records'
    BY <1>3, <1>4, <1>5
  <2>2. Below(ParentIn(records), IdsIn("Deleted")) \subseteq doomed
    BY <1>4, <2>1, StillBelow
  <2> QED BY <2>2 DEF DeletionsAreRemembered
<1>7. ASSUME NEW id \in DOMAIN records', id \notin DOMAIN records
      PROVE  id - nextId + 1 \in 1..n /\ id = nextId + (id - nextId + 1) - 1
  BY <1>3, <1>4, <1>5, <1>7
<1>8. DeletedNodesStay
  <2>1. \A h \in DOMAIN nodes :
           /\ h \in DOMAIN nodes'
           /\ nodes'[h].status = SyncedStatus(nodes[h].status)
           /\ h \notin NodesIn("New") => nodes'[h].id = nodes[h].id
    BY <1>1, <1>2, ReconcileEffect
  <2> QED BY <2>1 DEF DeletedNodesStay, NodesIn, SyncedStatus
<1> HIDE DEF doomed, n
<1>9. \A id \in DOMAIN records' : records'[id].deleted <=> id \in doomed
  BY <1>4, <1>6, <1>7
<1> QED BY <1>8, <1>9 DEF doomed

\* A parent other than 0, smaller than the id of a record, is a record.
LEMMA ParentIsRecord ==
    ASSUME NEW n \in Nat, NEW id \in 1..(n - 1), NEW parent \in 0..(id - 1), parent # 0
    PROVE  parent \in 1..(n - 1)
OBVIOUS

LEMMA NextIds == 1..(MaxId + 1) \subseteq Nat
BY DatabaseAssumption DEF DatabaseAssumption

LEMMA ApplyKeepsDeletions ==
    ASSUME IInv, IInv', DeletionsAreRemembered, Apply
    PROVE  DeletionsAreRemembered' /\ DeletionCascades'
<1> DEFINE doomed == Below(ParentIn(records'), IdsIn("Deleted"))
<1>1. /\ DeletedNodesStay
      /\ \A id \in DOMAIN records' : records'[id].deleted <=> id \in doomed
  BY ApplyDeletions
<1>2. DeletionsAreRemembered'
  <2>1. IdsIn("Deleted") \subseteq IdsIn("Deleted")'
    BY <1>1, DeletedIdsStay
  <2>2. doomed \subseteq Below(ParentIn(records'), IdsIn("Deleted")')
    BY <2>1, StillBelow
  <2>3. Below(ParentIn(records), IdsIn("Deleted"))'
           = Below(ParentIn(records'), IdsIn("Deleted")')
    BY DEF Below, ClosedAbove, ParentIn
  <2> QED BY <1>1, <2>2, <2>3 DEF DeletionsAreRemembered
<1>3. ASSUME NEW id \in DOMAIN records', records'[id].parentId # NoId,
             records'[records'[id].parentId].deleted
      PROVE  records'[id].deleted
  <2>1. records'[id].parentId \in DOMAIN records'
    <3>1. DbTypeOK' /\ ParentsArePersisted'
      BY DEF IInv, TypeOK
    <3> QED BY <1>3, <3>1, NextIds, ParentIsRecord DEF DbTypeOK, ParentsArePersisted, NoId
  <2>2. records'[id].parentId \in doomed
    BY <1>1, <1>3, <2>1
  <2>3. id \in doomed
    BY <2>2, BelowClosed DEF ParentIn
  <2> QED BY <1>1, <2>3
<1>4. DeletionCascades'
  BY <1>3 DEF DeletionCascades
<1> QED BY <1>2, <1>4

\* Nothing is deleted in a fresh database.
LEMMA SeedDeletions ==
    ASSUME IInv, records = SeedTestData
    PROVE  DeletionsAreRemembered /\ DeletionCascades
<1>1. \A id \in DOMAIN records : ~records[id].deleted
  BY DEF SeedTestData
<1>2. \A id \in DOMAIN records :
          records[id].parentId # NoId => records[id].parentId \in DOMAIN records
  BY RecordIds DEF IInv, ParentsArePersisted, NoId
<1> QED BY <1>1, <1>2 DEF DeletionsAreRemembered, DeletionCascades

\* The same after a reset.
LEMMA ResetDeletions ==
    ASSUME IInv', records' = SeedTestData
    PROVE  DeletionsAreRemembered' /\ DeletionCascades'
<1>1. \A id \in DOMAIN records' : ~records'[id].deleted
  BY DEF SeedTestData
<1>2. \A id \in DOMAIN records' :
          records'[id].parentId # NoId => records'[id].parentId \in DOMAIN records'
  <2>1. DbTypeOK' /\ ParentsArePersisted'
    BY DEF IInv, TypeOK
  <2> QED BY <2>1, NextIds, ParentIsRecord DEF DbTypeOK, ParentsArePersisted, NoId
<1> QED BY <1>1, <1>2 DEF DeletionsAreRemembered, DeletionCascades

LEMMA NextDeletions ==
    ASSUME IInv, IInv', DeletionsAreRemembered, DeletionCascades, [Next]_vars
    PROVE  DeletionsAreRemembered' /\ DeletionCascades'
<1>1. TypeOK
  BY DEF IInv
<1>2. ASSUME NEW id \in DOMAIN records, LoadFromDatabase(id)
      PROVE  DeletedNodesStay /\ UNCHANGED records
  BY <1>1, <1>2, LoadEffect DEF DeletedNodesStay, NodesIn
<1>3. ASSUME NEW id \in DOMAIN index, NEW payload \in Payload, AddChild(id, payload)
      PROVE  DeletedNodesStay /\ UNCHANGED records
  BY <1>1, <1>3, AddChildEffect DEF DeletedNodesStay, NodesIn
<1>4. ASSUME NEW id \in DOMAIN index, NEW payload \in Payload, EditPayload(id, payload)
      PROVE  DeletedNodesStay /\ UNCHANGED records
  BY <1>1, <1>4, EditPayloadEffect DEF DeletedNodesStay, NodesIn
<1>5. ASSUME NEW id \in DOMAIN index, Remove(id)
      PROVE  DeletedNodesStay /\ UNCHANGED records
  BY <1>1, <1>5, RemoveEffect DEF DeletedNodesStay, NodesIn
<1>6. CASE UNCHANGED vars
  BY <1>6, LocalDeletions DEF DeletedNodesStay, NodesIn, vars, dbVars, cacheVars
<1>7. CASE Apply
  BY <1>7, ApplyKeepsDeletions
<1>8. CASE Reset
  BY <1>8, ResetDeletions DEF Reset, ResetDatabase
<1> QED BY <1>2, <1>3, <1>4, <1>5, <1>6, <1>7, <1>8, LocalDeletions DEF Next

LEMMA DeletionInvariant == Spec => [](DeletionsAreRemembered /\ DeletionCascades)
<1>1. IInv /\ Init => DeletionsAreRemembered /\ DeletionCascades
  BY SeedDeletions DEF Init, DbInit
<1>2. IInv /\ IInv' /\ DeletionsAreRemembered /\ DeletionCascades /\ [Next]_vars
         => DeletionsAreRemembered' /\ DeletionCascades'
  BY NextDeletions
<1> QED BY <1>1, <1>2, IdentityInvariant, PTL DEF Spec

-----------------------------------------------------------------------------
\* The cache never forgets a deletion the database has: each record that is
\* deleted lies below an element the next synchronisation sends again.
THEOREM DeletionsStayRemembered == Spec => []DeletionsAreRemembered
BY DeletionInvariant, PTL

\* Deletion in the database is closed downwards, although children may be
\* added below an element whose deletion the cache does not know.
THEOREM DeletionStaysClosed == Spec => []DeletionCascades
BY DeletionInvariant, PTL

-----------------------------------------------------------------------------
(***************************************************************************)
(* The database implements SoftDeleteStore.                                *)
(***************************************************************************)
\* The database as its readers see it is a tree that only grows, whose
\* deletions are final, closed downwards and freeze what they cover, until a
\* reset; whatever the cache sends it.
THEOREM DatabaseImplementsStore == Spec => StoreSpec
<1>1. Init => Store!Init
  BY DEF Init, DbInit, Store!Init
<1>2. IInv /\ IInv' /\ DeletionCascades' /\ [Next]_vars => [Store!Next]_records
  <2> SUFFICES ASSUME IInv, IInv', DeletionCascades', [Next]_vars
               PROVE  [Store!Next]_records
    OBVIOUS
  <2>1. CASE UNCHANGED records
    BY <2>1
  <2>2. CASE Reset
    BY <2>2 DEF Reset, ResetDatabase, Store!Next, Store!Restore
  <2>3. CASE Apply
    <3>1. Store!Grows
      <4>1. PICK order \in CreationOrders : Synced(order)
        BY <2>3 DEF Apply, Synced
      <4> DEFINE changes == CollectChanges(order)
                 n       == Cardinality(NodesIn("New"))
      <4>2. TypeOK
        BY DEF IInv
      <4>3. IsChangeSet(changes) /\ Len(changes.created) = n /\ n \in Nat
        BY <4>2, CollectedType
      <4>4. /\ DOMAIN records' = 1..(nextId + n - 1)
            /\ \A id \in DOMAIN records :
                  /\ records'[id].parentId = records[id].parentId
                  /\ records[id].deleted => records'[id] = records[id]
        <5> HIDE DEF changes, n
        <5> QED BY <4>1, <4>2, <4>3, AppliedRows DEF Synced, TypeOK, changes, n
      <4>5. DOMAIN records \subseteq DOMAIN records'
        BY <4>2, <4>3, <4>4, RecordIds
      <4> QED BY <4>4, <4>5 DEF Store!Grows
    <3>2. Store!IsTree(records')
      BY DEF Store!IsTree, IInv, ParentsArePersisted
    <3>3. Store!DeletionIsClosed(records')
      <4>1. NoId \notin DOMAIN records'
        <5>1. DbTypeOK'
          BY DEF IInv, TypeOK
        <5> QED BY <5>1 DEF DbTypeOK, NoId
      <4> QED BY <4>1 DEF Store!DeletionIsClosed, DeletionCascades
    <3> QED BY <3>1, <3>2, <3>3 DEF Store!Next, Store!Commit
  <2> QED BY <2>1, <2>2, <2>3 DEF Next, LoadFromDatabase, AddChild, EditPayload, Remove,
                                 vars, dbVars
<1> QED BY <1>1, <1>2, IdentityInvariant, DeletionInvariant, PTL DEF Spec, StoreSpec, Store!Spec

-----------------------------------------------------------------------------
(***************************************************************************)
(* Ids grow from parents to children.  Handles do not: a parent may be     *)
(* loaded after its children.                                              *)
(***************************************************************************)
\* A node without a record hangs under one with a smaller id.
TemporaryIdsGrow ==
    \A h \in DOMAIN nodes :
        nodes[h].id \notin DOMAIN records =>
            nodes[h].parent \in DOMAIN nodes /\ nodes[nodes[h].parent].id < nodes[h].id

\* A node with a record does so because its parent is that of the record.
LEMMA IdsGrow ==
    ASSUME IInv, TemporaryIdsGrow, NEW h \in DOMAIN nodes, nodes[h].parent # NoNode
    PROVE  nodes[h].parent \in DOMAIN nodes /\ nodes[nodes[h].parent].id < nodes[h].id
<1> DEFINE p == nodes[h].parent
<1>1. p \in DOMAIN nodes
  BY DEF IInv, Links
<1>2. CASE nodes[h].id \notin DOMAIN records
  BY <1>2 DEF TemporaryIdsGrow
<1>3. CASE nodes[h].id \in DOMAIN records
  <2> DEFINE id == nodes[h].id
  <2>1. p = FindNode(records[id].parentId)
    BY <1>3 DEF IInv, HierarchyMatchesDatabase
  <2>2. p = index[records[id].parentId] /\ records[id].parentId \in DOMAIN index
    BY <2>1 DEF FindNode
  <2>3. nodes[p].id = records[id].parentId
    BY <2>2 DEF IInv, IndexIsExact
  <2>4. id \in Nat /\ records[id].parentId \in 0..(id - 1)
    BY <1>3, RecordIds DEF IInv, ParentsArePersisted
  <2> QED BY <1>1, <2>3, <2>4
<1> QED BY <1>1, <1>2, <1>3

\* The node with the least id among those not below a root would hang under
\* one with a still smaller id.
LEMMA GrowingIsSound ==
    ASSUME IInv, TemporaryIdsGrow
    PROVE  ForestIsSound
<1>1. roots = {h \in DOMAIN nodes : nodes[h].parent = NoNode}
  BY DEF IInv, Links
<1>2. DOMAIN Up = DOMAIN nodes /\ \A h \in DOMAIN nodes : Up[h] = nodes[h].parent
  BY DEF Up
<1>3. \A h \in DOMAIN nodes : nodes[h].id \in Nat
  BY NodesFunction DEF IInv, TypeOK, TreeNode
<1>4. ASSUME NEW C \in ClosedAbove(Up, roots)
      PROVE  DOMAIN nodes \subseteq C
  <2> DEFINE left == DOMAIN nodes \ C
             ids  == {nodes[h].id : h \in left}
  <2>1. SUFFICES ASSUME left # {} PROVE FALSE
    OBVIOUS
  <2>2. ids \in SUBSET Nat /\ ids # {}
    BY <1>3, <2>1
  <2>3. PICK least \in ids : \A id \in ids : least <= id
    <3> HIDE DEF ids
    <3> QED BY <2>2, LeastElement
  <2>4. PICK h \in left : nodes[h].id = least
    BY <2>3
  <2>5. nodes[h].parent # NoNode
    BY <1>1, <1>2, <2>4 DEF ClosedAbove
  <2>6. nodes[h].parent \in DOMAIN nodes /\ nodes[nodes[h].parent].id < nodes[h].id
    BY <2>4, <2>5, IdsGrow
  <2>7. nodes[h].parent \notin left
    <3>1. ASSUME nodes[h].parent \in left PROVE FALSE
      <4>1. nodes[nodes[h].parent].id \in ids
        BY <3>1
      <4>2. least <= nodes[nodes[h].parent].id
        BY <2>3, <4>1
      <4> QED BY <1>3, <2>4, <2>6, <4>2
    <3> QED BY <3>1
  <2> QED BY <1>2, <2>4, <2>6, <2>7 DEF ClosedAbove
<1>5. Below(Up, roots) = DOMAIN nodes
  BY <1>2, <1>4 DEF Below
<1> QED BY <1>1, <1>5 DEF ForestIsSound

-----------------------------------------------------------------------------
(***************************************************************************)
(* The mark.                                                               *)
(***************************************************************************)
\* A marked node has children in the database and none in the cache.
MarkedHaveNoChildren ==
    \A h \in DOMAIN nodes :
        nodes[h].hasUnloadedChildren =>
            /\ \E id \in DOMAIN records : records[id].parentId = nodes[h].id
            /\ \A c \in DOMAIN nodes : nodes[c].parent # h

LEMMA MarkedIsTruthful ==
    ASSUME IInv, MarkedHaveNoChildren
    PROVE  EllipsisIsTruthful
<1>1. ASSUME NEW h \in DOMAIN nodes, nodes[h].hasUnloadedChildren,
             NEW id \in DOMAIN records, records[id].parentId = nodes[h].id,
             id \in DOMAIN index
      PROVE  FALSE
  <2>1. index[id] \in DOMAIN nodes /\ nodes[index[id]].id = id
    BY <1>1, IndexedIds DEF IInv
  <2>2. nodes[index[id]].parent = FindNode(nodes[h].id)
    BY <1>1, <2>1 DEF IInv, HierarchyMatchesDatabase
  <2>3. FindNode(nodes[h].id) = h
    BY DEF IInv, IndexIsExact
  <2> QED BY <1>1, <2>1, <2>2, <2>3 DEF MarkedHaveNoChildren
<1> QED BY <1>1 DEF EllipsisIsTruthful, MarkedHaveNoChildren

-----------------------------------------------------------------------------
(***************************************************************************)
(* Both hold through every call.                                           *)
(***************************************************************************)
Shape == TemporaryIdsGrow /\ MarkedHaveNoChildren

LEMMA LoadShape ==
    ASSUME IInv, Shape, NEW id \in DOMAIN records, LoadFromDatabase(id)
    PROVE  Shape'
<1> DEFINE raw     == Len(nodes) + 1
           parent  == FindNode(records[id].parentId)
           orphans == Orphans(id)
<1>1. TypeOK /\ IndexIsExact /\ KnownIds /\ Links /\ HierarchyMatchesDatabase
  BY DEF IInv
<1>2. /\ id \notin DOMAIN index
      /\ raw \notin DOMAIN nodes
      /\ DOMAIN nodes' = DOMAIN nodes \cup {raw}
      /\ nodes'[raw].id = id
      /\ nodes'[raw].parent = parent
      /\ nodes'[raw].hasUnloadedChildren <=> HasChildren(id) /\ orphans = {}
      /\ \A h \in DOMAIN nodes :
            /\ nodes'[h].hasUnloadedChildren <=> FlagUnder(parent, h)
            /\ nodes'[h].id = nodes[h].id
            /\ nodes'[h].parent = IF h \in orphans THEN raw ELSE nodes[h].parent
      /\ UNCHANGED records
  BY <1>1, LoadEffect
<1>3. \A r \in orphans : nodes[r].parent = NoNode /\ nodes[r].id \in DOMAIN records
  BY <1>1 DEF Orphans, Links
<1>4. parent # raw
  BY <1>1, <1>2, FindNodeType, NodesFunction DEF TypeOK, NoNode
<1>5. raw # NoNode
  BY <1>1, NodesFunction DEF TypeOK, NoNode
<1>6. \A c \in DOMAIN nodes : nodes[c].parent # raw
  BY <1>1, <1>2, <1>5 DEF Links
<1> HIDE DEF raw, parent, orphans
<1>7. TemporaryIdsGrow'
  <2>1. ASSUME NEW h \in DOMAIN nodes', nodes'[h].id \notin DOMAIN records
        PROVE  /\ nodes'[h].parent \in DOMAIN nodes'
               /\ nodes'[nodes'[h].parent].id < nodes'[h].id
    <3>1. h \in DOMAIN nodes /\ nodes'[h].id = nodes[h].id /\ h \notin orphans
      BY <1>2, <1>3, <2>1
    <3>2. nodes[h].parent \in DOMAIN nodes /\ nodes[nodes[h].parent].id < nodes[h].id
      BY <2>1, <3>1 DEF Shape, TemporaryIdsGrow
    <3> QED BY <1>2, <3>1, <3>2
  <2> QED BY <1>2, <2>1 DEF TemporaryIdsGrow
<1>8. ASSUME NEW h \in DOMAIN nodes', nodes'[h].hasUnloadedChildren
      PROVE  /\ \E r \in DOMAIN records : records[r].parentId = nodes'[h].id
             /\ \A c \in DOMAIN nodes' : nodes'[c].parent # h
  <2>1. CASE h = raw
    BY <1>2, <1>4, <1>6, <1>8, <2>1 DEF HasChildren
  <2>2. CASE h # raw
    <3>1. h \in DOMAIN nodes /\ nodes[h].hasUnloadedChildren /\ h # parent
      BY <1>2, <1>8, <2>2 DEF FlagUnder
    <3>2. /\ \E r \in DOMAIN records : records[r].parentId = nodes[h].id
          /\ \A c \in DOMAIN nodes : nodes[c].parent # h
      BY <3>1 DEF Shape, MarkedHaveNoChildren
    <3> QED BY <1>2, <2>2, <3>1, <3>2
  <2> QED BY <2>1, <2>2
<1>9. MarkedHaveNoChildren'
  BY <1>2, <1>8 DEF MarkedHaveNoChildren
<1> QED BY <1>7, <1>9 DEF Shape

LEMMA AddChildShape ==
    ASSUME IInv, Shape, NEW id \in DOMAIN index, NEW payload \in Payload, AddChild(id, payload)
    PROVE  Shape'
<1> DEFINE raw    == Len(nodes) + 1
           parent == FindNode(id)
<1>1. TypeOK /\ IndexIsExact /\ KnownIds /\ Links
  BY DEF IInv
<1>2. /\ raw \notin DOMAIN nodes
      /\ DOMAIN nodes' = DOMAIN nodes \cup {raw}
      /\ parent \in DOMAIN nodes
      /\ nodes'[raw].id = nextTemporaryId
      /\ nodes'[raw].parent = parent
      /\ ~nodes'[raw].hasUnloadedChildren
      /\ \A h \in DOMAIN nodes :
            /\ nodes'[h].id = nodes[h].id
            /\ nodes'[h].parent = nodes[h].parent
            /\ nodes'[h].hasUnloadedChildren =>
                  nodes[h].hasUnloadedChildren /\ h # parent
      /\ UNCHANGED records
  BY <1>1, AddChildEffect
<1>3. nodes[parent].id < nextTemporaryId
  <2>1. nodes[parent].id \in DOMAIN records \cup TempBase..(nextTemporaryId - 1)
    BY <1>1, <1>2 DEF KnownIds
  <2> HIDE DEF parent
  <2> QED BY <1>1, <2>1, RecordIds
<1> HIDE DEF raw, parent
<1>4. TemporaryIdsGrow'
  <2>1. ASSUME NEW h \in DOMAIN nodes', nodes'[h].id \notin DOMAIN records
        PROVE  /\ nodes'[h].parent \in DOMAIN nodes'
               /\ nodes'[nodes'[h].parent].id < nodes'[h].id
    <3>1. CASE h = raw
      BY <1>2, <1>3, <3>1
    <3>2. CASE h \in DOMAIN nodes
      BY <1>2, <2>1, <3>2 DEF Shape, TemporaryIdsGrow
    <3> QED BY <1>2, <3>1, <3>2
  <2> QED BY <1>2, <2>1 DEF TemporaryIdsGrow
<1>5. MarkedHaveNoChildren'
  BY <1>2 DEF Shape, MarkedHaveNoChildren
<1> QED BY <1>4, <1>5 DEF Shape

\* A call that keeps ids, places and marks.
LEMMA SameShape ==
    ASSUME Shape, UNCHANGED records, DOMAIN nodes' = DOMAIN nodes,
           \A h \in DOMAIN nodes :
              /\ nodes'[h].id = nodes[h].id
              /\ nodes'[h].parent = nodes[h].parent
              /\ nodes'[h].hasUnloadedChildren = nodes[h].hasUnloadedChildren
    PROVE  Shape'
<1>1. TemporaryIdsGrow'
  BY DEF Shape, TemporaryIdsGrow
<1>2. MarkedHaveNoChildren'
  BY DEF Shape, MarkedHaveNoChildren
<1> QED BY <1>1, <1>2 DEF Shape

\* A new id of a record is smaller than any temporary one, and a new element
\* has no mark: the database has no children for a temporary id.
LEMMA ApplyShape ==
    ASSUME IInv, Shape, Apply
    PROVE  Shape'
<1>1. PICK order \in CreationOrders : Synced(order)
  BY DEF Apply, Synced
<1> DEFINE n       == Cardinality(NodesIn("New"))
           changes == CollectChanges(order)
<1>2. TypeOK /\ IndexIsExact /\ KnownIds /\ Links /\ ParentsArePersisted
  BY DEF IInv
<1>3. /\ IsChangeSet(changes)
      /\ n \in Nat
      /\ Len(changes.created) = n
      /\ \A h \in NodesIn("New") : \E i \in 1..n : order[i] = h
  BY <1>2, CollectedType
<1>4. /\ DOMAIN nodes' = DOMAIN nodes
      /\ \A h \in DOMAIN nodes :
            /\ nodes'[h].parent = nodes[h].parent
            /\ nodes'[h].hasUnloadedChildren = nodes[h].hasUnloadedChildren
            /\ h \notin NodesIn("New") => nodes'[h].id = nodes[h].id
      /\ \A i \in 1..n : nodes'[order[i]].id = nextId + i - 1
  BY <1>1, <1>2, ReconcileEffect
<1>5. nextId + n <= MaxId + 1
  BY <1>1 DEF Synced
<1> HIDE DEF changes, n
<1>6. /\ DOMAIN records' = 1..(nextId + n - 1)
      /\ \A id \in DOMAIN records : records'[id].parentId = records[id].parentId
  BY <1>1, <1>2, <1>3, AppliedRows DEF Synced, TypeOK, changes, n
<1>7. /\ DOMAIN records = 1..(nextId - 1) /\ nextId \in Nat /\ nextId >= 1
      /\ MaxId \in Nat /\ TempBase \in Nat /\ MaxId < TempBase
      /\ nextTemporaryId \in Nat
      /\ DOMAIN records \subseteq DOMAIN records'
  BY <1>2, <1>3, <1>6, RecordIds
<1>8. \A h \in NodesIn("New") : nodes'[h].id \in DOMAIN records' /\ nodes'[h].id < TempBase
  BY <1>3, <1>4, <1>5, <1>6, <1>7
<1>9. TemporaryIdsGrow'
  <2>1. ASSUME NEW h \in DOMAIN nodes, nodes'[h].id \notin DOMAIN records'
        PROVE  /\ nodes[h].parent \in DOMAIN nodes
               /\ nodes'[nodes[h].parent].id < nodes'[h].id
    <3>1. h \notin NodesIn("New") /\ nodes'[h].id = nodes[h].id
          /\ nodes[h].id \notin DOMAIN records
      BY <1>4, <1>7, <1>8, <2>1
    <3>2. nodes[h].parent \in DOMAIN nodes /\ nodes[nodes[h].parent].id < nodes[h].id
      BY <3>1 DEF Shape, TemporaryIdsGrow
    <3>3. nodes[h].id \in Nat /\ nodes[h].id >= TempBase
      BY <1>2, <1>7, <3>1 DEF KnownIds
    <3>4. CASE nodes[h].parent \in NodesIn("New")
      <4>1. \A i \in 1..n : nextId + i - 1 < TempBase
        BY <1>3, <1>5, <1>7
      <4>2. PICK i \in 1..n : order[i] = nodes[h].parent
        BY <1>3, <3>4
      <4>3. nodes'[nodes[h].parent].id = nextId + i - 1
        BY <1>4, <4>2
      <4>4. nextId + i - 1 < nodes[h].id
        BY <1>3, <1>7, <3>3, <4>1
      <4> QED BY <3>1, <3>2, <4>3, <4>4
    <3>5. CASE nodes[h].parent \notin NodesIn("New")
      BY <1>4, <3>1, <3>2, <3>5
    <3> QED BY <3>4, <3>5
  <2> QED BY <1>4, <2>1 DEF TemporaryIdsGrow
<1>10. ASSUME NEW h \in DOMAIN nodes, nodes[h].hasUnloadedChildren
       PROVE  \E id \in DOMAIN records' : records'[id].parentId = nodes'[h].id
  <2>1. PICK id \in DOMAIN records : records[id].parentId = nodes[h].id
    BY <1>10 DEF Shape, MarkedHaveNoChildren
  <2>2. nodes[h].id < TempBase /\ nodes[h].id \in Nat
    <3>1. records[id].parentId \in 0..(id - 1)
      BY <1>2 DEF ParentsArePersisted
    <3>2. id \in Nat /\ id < TempBase
      BY <1>2, RecordIds
    <3>3. nodes[h].id \in 0..(id - 1)
      BY <2>1, <3>1
    <3> QED BY <1>7, <3>2, <3>3
  <2>3. nodes[h].id \in DOMAIN records
    BY <1>2, <1>7, <2>2 DEF KnownIds
  <2>4. h \notin NodesIn("New")
    BY <1>2, <2>3 DEF KnownIds, NodesIn
  <2> QED BY <1>4, <1>6, <1>7, <2>1, <2>4
<1>11. MarkedHaveNoChildren'
  BY <1>4, <1>10 DEF Shape, MarkedHaveNoChildren
<1> QED BY <1>9, <1>11 DEF Shape

LEMMA NextShape ==
    ASSUME IInv, Shape, [Next]_vars
    PROVE  Shape'
<1>1. TypeOK
  BY DEF IInv
<1>2. ASSUME NEW id \in DOMAIN records, LoadFromDatabase(id)
      PROVE  Shape'
  BY <1>2, LoadShape
<1>3. ASSUME NEW id \in DOMAIN index, NEW payload \in Payload, AddChild(id, payload)
      PROVE  Shape'
  BY <1>3, AddChildShape
<1>4. ASSUME NEW id \in DOMAIN index, NEW payload \in Payload, EditPayload(id, payload)
      PROVE  Shape'
  BY <1>1, <1>4, EditPayloadEffect, SameShape
<1>5. ASSUME NEW id \in DOMAIN index, Remove(id)
      PROVE  Shape'
  BY <1>1, <1>5, RemoveEffect, SameShape
<1>6. CASE UNCHANGED vars
  BY <1>6, SameShape DEF vars, dbVars, cacheVars
<1>7. CASE Apply
  BY <1>7, ApplyShape
<1>8. CASE Reset
  <2>1. DOMAIN nodes' = {}
    BY <1>8 DEF Reset, Clear
  <2> QED BY <2>1 DEF Shape, TemporaryIdsGrow, MarkedHaveNoChildren
<1> QED BY <1>2, <1>3, <1>4, <1>5, <1>6, <1>7, <1>8 DEF Next

LEMMA ShapeInvariant == Spec => [](IInv /\ Shape)
<1>1. Init => Shape
  BY DEF Init, CacheInit, Shape, TemporaryIdsGrow, MarkedHaveNoChildren
<1>2. IInv /\ Shape /\ [Next]_vars => Shape'
  BY NextShape
<1> QED BY <1>1, <1>2, IdentityInvariant, PTL DEF Spec

\* Whatever order parents and children were loaded in, roots_ holds exactly
\* the nodes without parent, and the walk that synchronisation and the views
\* make from there misses no live node.
THEOREM ForestStaysSound == Spec => []ForestIsSound
<1>1. IInv /\ Shape => ForestIsSound
  BY GrowingIsSound DEF Shape
<1> QED BY <1>1, ShapeInvariant, PTL

\* The mark of unloaded children is never wrong when it is there.
THEOREM EllipsisStaysTruthful == Spec => []EllipsisIsTruthful
<1>1. IInv /\ Shape => EllipsisIsTruthful
  BY MarkedIsTruthful DEF Shape
<1> QED BY <1>1, ShapeInvariant, PTL

=============================================================================
