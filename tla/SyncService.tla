---------------------------- MODULE SyncService -----------------------------
(***************************************************************************)
(* Applying the cache to the database in one action                        *)
(* (application/SyncService): collect the pending changes of the forest, *)
(* hand them to the repository as one change set, then give the created    *)
(* nodes their persistent ids and mark everything synchronised.            *)
(*                                                                         *)
(* collectChanges and markSubtreeSynced walk the forest from roots_.  Every*)
(* live node is owned by roots_ or by its parent, so they visit all of     *)
(* nodes (ForestIsSound of TreeCache).                                     *)
(***************************************************************************)
EXTENDS CacheService, Functions

NodesIn(status) == {h \in DOMAIN nodes : nodes[h].status = status}

IdsIn(status) == {nodes[h].id : h \in NodesIn(status)}

\* Mutant: children are collected before their parent.
MutVisitedBefore(a, b) == a > b

\* a is visited before b by a depth-first walk that visits a node before its
\* children and the children in order: a is no descendant of b, and where
\* their paths part, the one to a is on the older branch.
VisitedBefore(a, b) ==
    /\ b \notin Path(Up, a)
    /\ \A x \in Path(Up, a), y \in Path(Up, b) :
          nodes[x].parent = nodes[y].parent => x <= y

\* The new nodes in the order of the walk; there is exactly one such sequence.
CreationOrders ==
    {order \in Bijection(1..Cardinality(NodesIn("New")), NodesIn("New")) :
        \A i, j \in DOMAIN order : i < j => VisitedBefore(order[i], order[j])}

NewNodeChange(h) ==
    [id |-> nodes[h].id, parentId |-> nodes[h].parentId, payload |-> nodes[h].payload]

\* Mutant: the modified nodes are left out.
MutCollectChanges(order) ==
    [created  |-> [i \in DOMAIN order |-> NewNodeChange(order[i])],
     modified |-> << >>,
     deleted  |-> IdsIn("Deleted")]

CollectChanges(order) ==
    [created  |-> [i \in DOMAIN order |-> NewNodeChange(order[i])],
     modified |-> [id \in IdsIn("Modified") |->
                     nodes[CHOOSE h \in NodesIn("Modified") : nodes[h].id = id].payload],
     deleted  |-> IdsIn("Deleted")]

\* CacheService::reassignId for each assignment; a temporary id that is not
\* in the index is skipped.
ReassignedNodeId(assigned, h) ==
    LET given == {i \in DOMAIN assigned : FindNode(assigned[i].temporaryId) = h}
    IN  IF given = {} THEN nodes[h].id
        ELSE assigned[CHOOSE i \in given : TRUE].persistentId

\* Mutant: the entry of the temporary id is not erased.
MutReassignedIndex(assigned) ==
    LET found == {i \in DOMAIN assigned : assigned[i].temporaryId \in DOMAIN index}
    IN  [id \in DOMAIN index \cup {assigned[i].persistentId : i \in found} |->
            IF id \in DOMAIN index THEN index[id]
            ELSE index[assigned[CHOOSE i \in found : assigned[i].persistentId = id].temporaryId]]

ReassignedIndex(assigned) ==
    LET found == {i \in DOMAIN assigned : assigned[i].temporaryId \in DOMAIN index}
        kept  == DOMAIN index \ {assigned[i].temporaryId : i \in found}
    IN  [id \in kept \cup {assigned[i].persistentId : i \in found} |->
            IF id \in kept THEN index[id]
            ELSE index[assigned[CHOOSE i \in found : assigned[i].persistentId = id].temporaryId]]

\* Mutant: deleted nodes are reset with the others.
MutSyncedStatus(status) == "Unchanged"

\* markSubtreeSynced: deleted nodes stay deleted.
SyncedStatus(status) == IF status \in {"New", "Modified"} THEN "Unchanged" ELSE status

\* reassignId leaves parentId_ of the children as it is.
ReconcileCache(assigned) ==
    /\ nodes' = [h \in DOMAIN nodes |->
                   [nodes[h] EXCEPT !.id = ReassignedNodeId(assigned, h),
                                    !.status = SyncedStatus(@)]]
    /\ index' = ReassignedIndex(assigned)
    /\ UNCHANGED <<roots, nextTemporaryId>>

\* The guard is the bound MaxId: the database is not full.
Apply ==
    /\ nextId + Cardinality(NodesIn("New")) <= MaxId + 1
    /\ \E order \in CreationOrders :
          /\ ApplyChanges(CollectChanges(order))
          /\ ReconcileCache(AssignedIds(CollectChanges(order)))

=============================================================================
