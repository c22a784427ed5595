---------------------------- MODULE CacheService ----------------------------
(***************************************************************************)
(* The local cache (application/CacheService, domain/TreeNode): a      *)
(* forest of TreeNode objects, the index from ids to objects, and the      *)
(* generator of temporary ids for elements not yet in the database.        *)
(*                                                                         *)
(* An object is named by its handle, its place in the order of             *)
(* construction since the last clear(); objects die only in clear().  The  *)
(* vectors roots_ and children_ are always in that order (only the newest  *)
(* object is ever pushed back, except that a new node, whose children_ is  *)
(* empty, adopts roots in the order of roots_), so they are kept as sets:  *)
(* children_ of h is {c : nodes[c].parent = h}.                            *)
(***************************************************************************)
EXTENDS InMemoryDatabase

CONSTANTS
    TempBase,   \* temporaryIdBase_
    MaxTemp     \* bound: temporary ids generated between two clears

ASSUME CacheAssumption ==
    /\ TempBase \in Nat
    /\ MaxId < TempBase
    /\ MaxTemp \in Nat

NoNode == 0     \* nullptr

VARIABLES
    nodes,              \* handle -> TreeNode
    roots,              \* roots_
    index,              \* index_: id -> handle
    nextTemporaryId     \* nextTemporaryId_

cacheVars == <<nodes, roots, index, nextTemporaryId>>

Status == {"Unchanged", "New", "Modified", "Deleted"}

TreeNode ==
    [id : Nat, parentId : Nat, payload : Payload, status : Status,
     hasUnloadedChildren : BOOLEAN, parent : Nat]

CacheTypeOK ==
    /\ nodes \in Seq(TreeNode)
    /\ roots \subseteq DOMAIN nodes
    /\ DOMAIN index \subseteq Nat
    /\ \A id \in DOMAIN index : index[id] \in DOMAIN nodes
    /\ nextTemporaryId \in TempBase..(TempBase + MaxTemp)

-----------------------------------------------------------------------------
Up == [h \in DOMAIN nodes |-> nodes[h].parent]

FindNode(id) == IF id \in DOMAIN index THEN index[id] ELSE NoNode

\* unordered_map::emplace: a key already present keeps its value.
Emplace(map, key, value) ==
    [k \in DOMAIN map \cup {key} |-> IF k \in DOMAIN map THEN map[k] ELSE value]

(***************************************************************************)
(* Results of the operations.  A refused call changes nothing, so only     *)
(* "Success" has an action.                                                *)
(***************************************************************************)
LoadResult(id) ==
    IF FindNode(id) # NoNode THEN "AlreadyInCache"
    ELSE IF id \notin DOMAIN records THEN "NodeNotFound"
    ELSE "Success"

\* Mutant: deleted elements are not refused.
MutChangeResult(id) == IF FindNode(id) = NoNode THEN "NodeNotFound" ELSE "Success"

ChangeResult(id) ==     \* of addChild and editPayload
    IF FindNode(id) = NoNode THEN "NodeNotFound"
    ELSE IF nodes[FindNode(id)].status = "Deleted" THEN "NodeDeleted"
    ELSE "Success"

RemoveResult(id) == IF FindNode(id) = NoNode THEN "NodeNotFound" ELSE "Success"

-----------------------------------------------------------------------------
(***************************************************************************)
(* insertLoadedNode with adoptOrphans: the new node goes under its parent  *)
(* if that is cached, else among the roots, and takes over every root that *)
(* names it as parent.                                                     *)
(***************************************************************************)
\* Mutant: only the first orphan is adopted.
MutOrphans(id) ==
    {r \in roots : /\ nodes[r].parentId = id
                   /\ \A q \in roots : nodes[q].parentId = id => r <= q}

Orphans(id) == {r \in roots : nodes[r].parentId = id}

\* Mutant: the flag of the parent is not refreshed.
MutFlagUnder(parent, h) == nodes[h].hasUnloadedChildren

\* refreshUnloadedFlag of the parent a node has just been put under.
FlagUnder(parent, h) == nodes[h].hasUnloadedChildren /\ h # parent

\* Mutant: orphans are attached but stay in roots_.
MutRootsAfter(orphans, raw, parent) ==
    roots \cup (IF parent = NoNode THEN {raw} ELSE {})

RootsAfter(orphans, raw, parent) ==
    (roots \ orphans) \cup (IF parent = NoNode THEN {raw} ELSE {})

InsertLoadedNode(snapshot) ==
    LET raw     == Len(nodes) + 1
        parent  == FindNode(snapshot.parentId)
        orphans == Orphans(snapshot.id)
        node    == [id |-> snapshot.id, parentId |-> snapshot.parentId,
                    payload |-> snapshot.payload,
                    status |-> IF snapshot.deleted THEN "Deleted" ELSE "Unchanged",
                    hasUnloadedChildren |-> snapshot.hasChildren /\ orphans = {},
                    parent |-> parent]
        others  == [h \in DOMAIN nodes |->
                      [nodes[h] EXCEPT
                          !.parent = IF h \in orphans THEN raw ELSE @,
                          !.hasUnloadedChildren = FlagUnder(parent, h)]]
    IN  /\ nodes' = Append(others, node)
        /\ roots' = RootsAfter(orphans, raw, parent)
        /\ index' = Emplace(index, snapshot.id, raw)

LoadFromDatabase(id) ==
    /\ LoadResult(id) = "Success"
    /\ InsertLoadedNode(MakeSnapshot(id))
    /\ UNCHANGED <<nextTemporaryId, dbVars>>

AddChild(parentId, payload) ==
    LET parent == FindNode(parentId)
        child  == [id |-> nextTemporaryId, parentId |-> parentId, payload |-> payload,
                   status |-> "New", hasUnloadedChildren |-> FALSE, parent |-> parent]
    IN  /\ ChangeResult(parentId) = "Success"
        /\ nextTemporaryId < TempBase + MaxTemp
        /\ nodes' = Append([nodes EXCEPT ![parent].hasUnloadedChildren = FALSE], child)
        /\ index' = Emplace(index, nextTemporaryId, Len(nodes) + 1)
        /\ nextTemporaryId' = nextTemporaryId + 1
        /\ UNCHANGED <<roots, dbVars>>

\* Mutants: a new element becomes a modified one; the status is not set.
MutEditedStatusOfNew(status) == IF status = "Deleted" THEN status ELSE "Modified"
MutEditedStatusUnset(status) == status

\* TreeNode::setPayload: a new element stays new.
EditedStatus(status) == IF status = "Unchanged" THEN "Modified" ELSE status

EditPayload(id, payload) ==
    /\ ChangeResult(id) = "Success"
    /\ nodes' = [nodes EXCEPT ![FindNode(id)].payload = payload,
                              ![FindNode(id)].status = EditedStatus(@)]
    /\ UNCHANGED <<roots, index, nextTemporaryId, dbVars>>

\* TreeNode::markDeletedRecursively over the cached descendants.
Remove(id) ==
    /\ RemoveResult(id) = "Success"
    /\ nodes' = [h \in DOMAIN nodes |->
                   IF h \in Below(Up, {FindNode(id)})
                   THEN [nodes[h] EXCEPT !.status = "Deleted"] ELSE nodes[h]]
    /\ UNCHANGED <<roots, index, nextTemporaryId, dbVars>>

CacheInit ==
    /\ nodes = << >>
    /\ roots = {}
    /\ index = << >>
    /\ nextTemporaryId = TempBase

\* Mutant: the index keeps its pointers to the destroyed nodes.
MutClear ==
    /\ nodes' = << >>
    /\ roots' = {}
    /\ nextTemporaryId' = TempBase
    /\ UNCHANGED index

Clear ==
    /\ nodes' = << >>
    /\ roots' = {}
    /\ index' = << >>
    /\ nextTemporaryId' = TempBase

=============================================================================
