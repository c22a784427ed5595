----------------------------- MODULE TreeCache ------------------------------
(***************************************************************************)
(* The program below its user interface: database, cache, synchronisation  *)
(* and reset (application/ResetService), driven by one user.  Everything *)
(* runs on the thread of the user interface, one call at a time, so each   *)
(* operation is one action.  What the user asks for, and in which order,   *)
(* is arbitrary; nothing forces a call, so there is no fairness.           *)
(***************************************************************************)
EXTENDS SyncService

vars == <<dbVars, cacheVars>>

\* ResetService::reset
Reset == Clear /\ ResetDatabase

Init == DbInit /\ CacheInit

Next ==
    \/ \E id \in DOMAIN records : LoadFromDatabase(id)
    \/ \E id \in DOMAIN index, payload \in Payload : AddChild(id, payload)
    \/ \E id \in DOMAIN index, payload \in Payload : EditPayload(id, payload)
    \/ \E id \in DOMAIN index : Remove(id)
    \/ Apply
    \/ Reset

Spec == Init /\ [][Next]_vars

-----------------------------------------------------------------------------
(***************************************************************************)
(* Invariants.                                                             *)
(***************************************************************************)
\* Every variable has a value of its kind.
TypeOK == DbTypeOK /\ CacheTypeOK

\* index_ finds exactly the live nodes, each under the id it bears now.  No
\* operation (loading, generating a temporary id, replacing it after a
\* synchronisation, clearing) leaves a node without an entry, an entry that
\* leads to another node, or two nodes with one id.
IndexIsExact ==
    /\ \A id \in DOMAIN index : nodes[index[id]].id = id
    /\ \A h \in DOMAIN nodes : FindNode(nodes[h].id) = h

\* roots_ holds exactly the nodes without a parent, and the walk from
\* roots_ over children_ that synchronisation and the views make reaches
\* every live node, whatever order parents and children were loaded in.
ForestIsSound ==
    /\ roots = {h \in DOMAIN nodes : nodes[h].parent = NoNode}
    /\ Below(Up, roots) = DOMAIN nodes

\* The cached hierarchy is the hierarchy of the database: a cached element
\* hangs under its database parent whenever that is cached, and under
\* nothing else.  An element not in the database hangs under another, and
\* while it waits to be created its parentId_ is the present id of that one
\* (reassignId renames parents and leaves parentId_ of the children stale).
HierarchyMatchesDatabase ==
    \A h \in DOMAIN nodes :
        IF nodes[h].id \in DOMAIN records
        THEN nodes[h].parent = FindNode(records[nodes[h].id].parentId)
        ELSE /\ nodes[h].parent # NoNode
             /\ nodes[h].status = "New" => nodes[nodes[h].parent].id = nodes[h].parentId

\* An element is in the database exactly if its id is not temporary, and an
\* element waiting to be created has a temporary id.
IdsAgreeWithStatus ==
    \A h \in DOMAIN nodes :
        /\ nodes[h].id \in DOMAIN records <=> nodes[h].id < TempBase
        /\ nodes[h].status = "New" => nodes[h].id >= TempBase
        /\ nodes[h].status \in {"Unchanged", "Modified"} => nodes[h].id < TempBase

\* No temporary id reaches the database: the parent of a record is a record
\* with a smaller id, also for elements created below elements created in
\* the same synchronisation.
ParentsArePersisted ==
    \A id \in DOMAIN records : records[id].parentId \in 0..(id - 1)

\* In the database the descendants of a deleted element are deleted.  The
\* cache may still add a child to an element whose deletion it never learnt
\* of; every synchronisation therefore sends all deletions again.
DeletionCascades ==
    \A id \in DOMAIN records :
        records[id].parentId # NoId /\ records[records[id].parentId].deleted
            => records[id].deleted

\* Every deletion in the database stems from a deleted element that is
\* still in the cache and is sent again by the next synchronisation.
DeletionsAreRemembered ==
    {id \in DOMAIN records : records[id].deleted}
        \subseteq Below(ParentIn(records), IdsIn("Deleted"))

\* An element shown as unchanged has the payload of the database, unless the
\* database has it deleted.
UnchangedMatchesDatabase ==
    \A h \in NodesIn("Unchanged") :
        ~records[nodes[h].id].deleted => records[nodes[h].id].payload = nodes[h].payload

\* The mark of unloaded children is never wrong when it is there: the node
\* has children in the database and none of them is in the cache.
EllipsisIsTruthful ==
    \A h \in DOMAIN nodes :
        nodes[h].hasUnloadedChildren =>
            /\ \E id \in DOMAIN records : records[id].parentId = nodes[h].id
            /\ \A id \in DOMAIN records :
                  records[id].parentId = nodes[h].id => id \notin DOMAIN index

-----------------------------------------------------------------------------
(***************************************************************************)
(* Action properties.                                                      *)
(***************************************************************************)
Pending == NodesIn("New") \cup NodesIn("Modified")

\* What a synchronisation has to achieve.
Persisted ==
    /\ Pending' = {}
    /\ \A h \in NodesIn("New") :
          /\ nodes'[h].id \in nextId..(nextId' - 1)
          /\ records'[nodes'[h].id].payload = nodes[h].payload
          /\ records'[nodes'[h].id].parentId = nodes'[nodes[h].parent].id
    /\ \A h \in NodesIn("Modified") :
          ~records[nodes[h].id].deleted =>
              records'[nodes[h].id].payload = nodes[h].payload
    /\ \A id \in IdsIn("Deleted") \cap DOMAIN records : records'[id].deleted

\* One synchronisation leaves nothing pending: each new node is a record of
\* its payload under the record of the node it hangs from, each modified
\* element the database has not deleted has its new payload there, and each
\* deleted element of the database is deleted there.
ApplyPersistsEverything == [][Apply => Persisted]_vars

NothingToApply ==
    /\ Pending = {}
    /\ \A id \in IdsIn("Deleted") \cap DOMAIN records : records[id].deleted

\* Synchronising when nothing is pending and no deletion is new changes
\* nothing, although all deletions are sent again.
RepeatedApplyIsIdle == [][Apply /\ NothingToApply => UNCHANGED vars]_vars

\* The database as its readers see it is the append-only tree with closed,
\* final deletion of SoftDeleteStore.
Store == INSTANCE SoftDeleteStore WITH store <- records, Seed <- SeedTestData

StoreSpec == Store!Spec

\* What the user knows of a node: its text, its status, what it hangs from
\* and which record it stands for.
Shown ==
    [h \in DOMAIN nodes |->
        [row    |-> IF nodes[h].id < TempBase THEN nodes[h].id ELSE NoId,
         place  |-> nodes[h].parent,
         text   |-> nodes[h].payload,
         status |-> nodes[h].status]]

\* The cache as its user sees it is a working copy of the database.
Copy == INSTANCE WorkingCopy WITH
    table <- records, Seed <- SeedTestData, RowId <- 1..MaxId, Text <- Payload,
    Item  <- 1..(MaxId + MaxTemp), items <- Shown

WorkingCopySpec == Copy!Spec

-----------------------------------------------------------------------------
(***************************************************************************)
(* Statements of the documentation that the code does not meet; each is    *)
(* refuted by a run of its own.                                            *)
(***************************************************************************)
\* README.md:9: the descendants of a deleted element get the same mark.
LocalDeletionCascades ==
    \A h \in DOMAIN nodes :
        nodes[h].parent # NoNode /\ nodes[nodes[h].parent].status = "Deleted"
            => nodes[h].status = "Deleted"

\* README.md:9: a deleted element becomes unavailable for editing.
DeletedIsNotEditable ==
    \A h \in DOMAIN nodes :
        nodes[h].id \in DOMAIN records /\ records[nodes[h].id].deleted
            => ChangeResult(nodes[h].id) = "NodeDeleted"

\* README.md:9: the cache honestly shows that the loaded tree is incomplete.
EllipsisIsComplete ==
    \A h \in DOMAIN nodes, id \in DOMAIN records :
        records[id].parentId = nodes[h].id /\ id \notin DOMAIN index
            => nodes[h].hasUnloadedChildren

\* README.md:16: all changes are applied to the database in one action.
EveryEditReachesDatabase ==
    [][Apply => \A h \in NodesIn("Modified") :
                    records'[nodes[h].id].payload = nodes[h].payload]_vars

=============================================================================
