---------------------------- MODULE RunningCalls ----------------------------
(***************************************************************************)
(* The calls TreeCache takes as single steps, executed: children_, roots_  *)
(* and the members of a change set are vectors, the recursive walks have a *)
(* stack of what is left to visit, and each round of a loop is a step.     *)
(* One call runs at a time, to its end; what the user sees meanwhile is    *)
(* what was there before.                                                  *)
(***************************************************************************)
EXTENDS InMemoryDatabase, Functions

CONSTANTS TempBase, MaxTemp     \* as in CacheService

ASSUME CallsAssumption == TempBase \in Nat /\ MaxTemp \in Nat /\ MaxId < TempBase

VARIABLES
    objects,            \* handle -> TreeNode with its vector children_
    rootList,           \* roots_
    index,              \* index_
    nextTemporaryId,    \* nextTemporaryId_
    call,               \* the running call: its place and its local variables
    before              \* history: what was there when the call began

cacheVars == <<objects, rootList, index, nextTemporaryId>>

callVars == <<dbVars, cacheVars, call, before>>

Seqs == INSTANCE SequencesExt

NoNode == 0

\* The sequences that list a set.
Orders(S) == Bijection(1..Cardinality(S), S)

\* unordered_map::emplace: an entry that is there is kept.
Emplace(table, key, value) ==
    [k \in DOMAIN table \cup {key} |-> IF k \in DOMAIN table THEN table[k] ELSE value]

FindNode(id) == IF id \in DOMAIN index THEN index[id] ELSE NoNode

-----------------------------------------------------------------------------
(***************************************************************************)
(* The call: where it is, the nodes or the ids a walk has still to visit,  *)
(* and the variables of the functions on the stack.                        *)
(***************************************************************************)
NoCall == [at |-> "idle", stack |-> << >>, node |-> NoNode, parent |-> NoNode,
           hasChildren |-> FALSE, created |-> << >>, modified |-> << >>, deleted |-> << >>,
           temporaryToPersistent |-> << >>, assignedIds |-> << >>]

Idle == call = NoCall

\* The program as TreeCache sees it: the nodes without their vectors.
Now ==
    [records |-> records, nextId |-> nextId,
     nodes   |-> [h \in DOMAIN objects |->
                    [f \in DOMAIN objects[h] \ {"children"} |-> objects[h][f]]],
     roots   |-> Seqs!ToSet(rootList), index |-> index, nextTemporaryId |-> nextTemporaryId]

Seen == IF Idle THEN Now ELSE before

Begin(frame) ==
    /\ Idle
    /\ call' = frame
    /\ before' = Now

Return ==
    /\ call' = NoCall
    /\ before' = << >>

\* A call without loops.
Straight == Idle /\ UNCHANGED <<call, before>>

-----------------------------------------------------------------------------
(***************************************************************************)
(* addChild and editPayload.                                               *)
(***************************************************************************)
AddChild(parentId, payload) ==
    LET parent == FindNode(parentId)
        raw    == Len(objects) + 1
    IN  /\ Straight
        /\ parent # NoNode /\ objects[parent].status # "Deleted"
        /\ nextTemporaryId < TempBase + MaxTemp
        /\ objects' = Append([objects EXCEPT ![parent].children = Append(@, raw),
                                             ![parent].hasUnloadedChildren = FALSE],
                             [id |-> nextTemporaryId, parentId |-> parentId,
                              payload |-> payload, status |-> "New",
                              hasUnloadedChildren |-> FALSE, parent |-> parent,
                              children |-> << >>])
        /\ index' = Emplace(index, nextTemporaryId, raw)
        /\ nextTemporaryId' = nextTemporaryId + 1
        /\ UNCHANGED <<rootList, dbVars>>

EditPayload(id, payload) ==
    LET node == FindNode(id)
    IN  /\ Straight
        /\ node # NoNode /\ objects[node].status # "Deleted"
        /\ objects' = [objects EXCEPT
               ![node].payload = payload,
               ![node].status  = IF @ = "Unchanged" THEN "Modified" ELSE @]
        /\ UNCHANGED <<rootList, index, nextTemporaryId, dbVars>>

-----------------------------------------------------------------------------
(***************************************************************************)
(* loadFromDatabase: insertLoadedNode up to the scan of roots_ for the ids *)
(* to adopt; detachRoot and attachChild for each; the two flags.           *)
(***************************************************************************)
\* The positions a scan of a vector comes to, in order.
Ascending(positions) ==
    {s \in Orders(positions) : \A i, j \in DOMAIN s : i < j => s[i] < s[j]}

LoadFromDatabase(id) ==
    LET snapshot == MakeSnapshot(id)
        raw      == Len(objects) + 1
        parent   == FindNode(snapshot.parentId)
        node     == [id |-> id, parentId |-> snapshot.parentId,
                     payload |-> snapshot.payload,
                     status |-> IF snapshot.deleted THEN "Deleted" ELSE "Unchanged",
                     hasUnloadedChildren |-> FALSE, parent |-> parent, children |-> << >>]
        orphans  == {i \in DOMAIN rootList : objects[rootList[i]].parentId = id}
    IN  /\ FindNode(id) = NoNode
        /\ objects' = Append(IF parent = NoNode THEN objects
                             ELSE [objects EXCEPT ![parent].children = Append(@, raw)], node)
        /\ rootList' = IF parent = NoNode THEN Append(rootList, raw) ELSE rootList
        /\ index' = Emplace(index, id, raw)
        /\ \E found \in Ascending(orphans) :
              Begin([NoCall EXCEPT
                  !.at = "adopt", !.node = raw, !.parent = parent,
                  !.hasChildren = snapshot.hasChildren,
                  !.stack = [i \in DOMAIN found |-> objects[rootList[found[i]]].id]])
        /\ UNCHANGED <<nextTemporaryId, dbVars>>

\* Mutant: the last root takes the place of the one that is detached.
MutAdoptOrphan ==
    LET place == CHOOSE i \in DOMAIN rootList : objects[rootList[i]].id = Head(call.stack)
        child == rootList[place]
    IN  /\ call.at = "adopt" /\ call.stack # << >>
        /\ rootList' = Seqs!Front([rootList EXCEPT ![place] = Seqs!Last(rootList)])
        /\ objects' = [objects EXCEPT ![call.node].children = Append(@, child),
                                      ![child].parent = call.node]
        /\ call' = [call EXCEPT !.stack = Tail(@)]
        /\ UNCHANGED <<index, nextTemporaryId, dbVars, before>>

\* Mutant: the orphan stays among the roots.
MutAdoptKeepsRoot ==
    LET hits  == {i \in DOMAIN rootList : objects[rootList[i]].id = Head(call.stack)}
        child == rootList[CHOOSE i \in hits : \A j \in hits : i <= j]
    IN  /\ call.at = "adopt" /\ call.stack # << >>
        /\ objects' = [objects EXCEPT ![call.node].children = Append(@, child),
                                      ![child].parent = call.node]
        /\ call' = [call EXCEPT !.stack = Tail(@)]
        /\ UNCHANGED <<rootList, index, nextTemporaryId, dbVars, before>>

\* detachRoot finds the root by its id.
AdoptOrphan ==
    LET hits  == {i \in DOMAIN rootList : objects[rootList[i]].id = Head(call.stack)}
        place == CHOOSE i \in hits : \A j \in hits : i <= j
        child == rootList[place]
    IN  /\ call.at = "adopt" /\ call.stack # << >>
        /\ IF hits = {} THEN UNCHANGED <<objects, rootList>>
           ELSE /\ rootList' = Seqs!RemoveAt(rootList, place)
                /\ objects' = [objects EXCEPT
                                  ![call.node].children = Append(@, child),
                                  ![child].parent = call.node]
        /\ call' = [call EXCEPT !.stack = Tail(@)]
        /\ UNCHANGED <<index, nextTemporaryId, dbVars, before>>

\* refreshUnloadedFlag only ever clears the flag of a node with children.
FinishLoading ==
    LET childless(h) == objects[h].children = << >>
    IN  /\ call.at = "adopt" /\ call.stack = << >>
        /\ objects' = [h \in DOMAIN objects |->
               [objects[h] EXCEPT !.hasUnloadedChildren =
                   CASE h = call.node   -> call.hasChildren /\ childless(h)
                     [] h = call.parent -> @ /\ childless(h)
                     [] OTHER           -> @]]
        /\ Return
        /\ UNCHANGED <<rootList, index, nextTemporaryId, dbVars>>

-----------------------------------------------------------------------------
(***************************************************************************)
(* remove: TreeNode::markDeletedRecursively.                               *)
(***************************************************************************)
Remove(id) ==
    /\ FindNode(id) # NoNode
    /\ Begin([NoCall EXCEPT !.at = "remove", !.stack = <<FindNode(id)>>])
    /\ UNCHANGED <<cacheVars, dbVars>>

\* The walk visits a node, then its children in order, then what was left.
Descend == objects[Head(call.stack)].children \o Tail(call.stack)

MarkDeleted ==
    /\ call.at = "remove" /\ call.stack # << >>
    /\ objects' = [objects EXCEPT ![Head(call.stack)].status = "Deleted"]
    /\ call' = [call EXCEPT !.stack = Descend]
    /\ UNCHANGED <<rootList, index, nextTemporaryId, dbVars, before>>

-----------------------------------------------------------------------------
(***************************************************************************)
(* SyncService::apply.                                                     *)
(***************************************************************************)
Apply ==
    /\ nextId + Cardinality({h \in DOMAIN objects : objects[h].status = "New"}) <= MaxId + 1
    /\ Begin([NoCall EXCEPT !.at = "collect", !.stack = rootList])
    /\ UNCHANGED <<cacheVars, dbVars>>

CollectChanges ==
    LET node   == objects[Head(call.stack)]
        change == [id |-> node.id, parentId |-> node.parentId, payload |-> node.payload]
        added(status, list) == IF node.status = status THEN Append(list, change) ELSE list
    IN  /\ call.at = "collect" /\ call.stack # << >>
        /\ call' = [call EXCEPT !.created  = added("New", @),
                                !.modified = added("Modified", @),
                                !.deleted  = added("Deleted", @),
                                !.stack    = Descend]
        /\ UNCHANGED <<cacheVars, dbVars, before>>

InsertRecord(parentId, payload) ==
    /\ records' = Emplace(records, nextId,
                          [parentId |-> parentId, payload |-> payload, deleted |-> FALSE])
    /\ nextId' = nextId + 1

\* Mutant: nothing is entered in temporaryToPersistent.
MutInsertCreated ==
    /\ call.at = "insert" /\ call.created # << >>
    /\ InsertRecord(Head(call.created).parentId, Head(call.created).payload)
    /\ call' = [call EXCEPT
           !.assignedIds = Append(@, [temporaryId |-> Head(call.created).id,
                                      persistentId |-> nextId]),
           !.created = Tail(@)]
    /\ UNCHANGED <<cacheVars, before>>

InsertCreated ==
    LET created == Head(call.created)
        mapped  == call.temporaryToPersistent
    IN  /\ call.at = "insert" /\ call.created # << >>
        /\ InsertRecord(IF created.parentId \in DOMAIN mapped THEN mapped[created.parentId]
                        ELSE created.parentId, created.payload)
        /\ call' = [call EXCEPT
               !.temporaryToPersistent = Emplace(@, created.id, nextId),
               !.assignedIds = Append(@, [temporaryId |-> created.id, persistentId |-> nextId]),
               !.created = Tail(@)]
        /\ UNCHANGED <<cacheVars, before>>

ModifyRecord ==
    LET modified == Head(call.modified)
    IN  /\ call.at = "modify" /\ call.modified # << >>
        /\ IF modified.id \in DOMAIN records /\ ~records[modified.id].deleted
           THEN records' = [records EXCEPT ![modified.id].payload = modified.payload]
           ELSE UNCHANGED records
        /\ call' = [call EXCEPT !.modified = Tail(@)]
        /\ UNCHANGED <<nextId, cacheVars, before>>

\* Mutant: the loop does not get to the next id.
MutDeleteNext ==
    /\ call.at = "delete" /\ call.stack = << >> /\ call.deleted # << >>
    /\ call' = [call EXCEPT !.stack = <<Head(call.deleted).id>>]
    /\ UNCHANGED <<cacheVars, dbVars, before>>

\* The recursion for one id of the change set, then for the next.
DeleteNext ==
    /\ call.at = "delete" /\ call.stack = << >> /\ call.deleted # << >>
    /\ call' = [call EXCEPT !.stack = <<Head(call.deleted).id>>, !.deleted = Tail(@)]
    /\ UNCHANGED <<cacheVars, dbVars, before>>

\* The hash table gives the children of a record in any order.
MarkRecord ==
    LET id       == Head(call.stack)
        children == {c \in DOMAIN records : records[c].parentId = id}
    IN  /\ call.at = "delete" /\ call.stack # << >>
        /\ IF id \notin DOMAIN records
           THEN call' = [call EXCEPT !.stack = Tail(@)] /\ UNCHANGED records
           ELSE /\ records' = [records EXCEPT ![id].deleted = TRUE]
                /\ \E childIds \in Orders(children) :
                      call' = [call EXCEPT !.stack = childIds \o Tail(@)]
        /\ UNCHANGED <<nextId, cacheVars, before>>

\* Mutant: the entry of the temporary id is not erased.
MutReassignId ==
    LET assigned == Head(call.assignedIds)
        node     == FindNode(assigned.temporaryId)
    IN  /\ call.at = "reassign" /\ call.assignedIds # << >>
        /\ objects' = [objects EXCEPT ![node].id = assigned.persistentId]
        /\ index' = Emplace(index, assigned.persistentId, node)
        /\ call' = [call EXCEPT !.assignedIds = Tail(@)]
        /\ UNCHANGED <<rootList, nextTemporaryId, dbVars, before>>

ReassignId ==
    LET assigned == Head(call.assignedIds)
        node     == FindNode(assigned.temporaryId)
    IN  /\ call.at = "reassign" /\ call.assignedIds # << >>
        /\ IF node = NoNode THEN UNCHANGED <<objects, index>>
           ELSE /\ objects' = [objects EXCEPT ![node].id = assigned.persistentId]
                /\ index' = Emplace(
                       [id \in DOMAIN index \ {assigned.temporaryId} |-> index[id]],
                       assigned.persistentId, node)
        /\ call' = [call EXCEPT !.assignedIds = Tail(@)]
        /\ UNCHANGED <<rootList, nextTemporaryId, dbVars, before>>

MarkSynced ==
    /\ call.at = "sync" /\ call.stack # << >>
    /\ objects' = [objects EXCEPT ![Head(call.stack)].status =
                      IF @ \in {"New", "Modified"} THEN "Unchanged" ELSE @]
    /\ call' = [call EXCEPT !.stack = Descend]
    /\ UNCHANGED <<rootList, index, nextTemporaryId, dbVars, before>>

\* From one loop of apply to the next.
Proceed ==
    /\ \/ /\ call.at = "collect" /\ call.stack = << >>
          /\ call' = [call EXCEPT !.at = "insert"]
       \/ /\ call.at = "insert" /\ call.created = << >>
          /\ call' = [call EXCEPT !.at = "modify"]
       \/ /\ call.at = "modify" /\ call.modified = << >>
          /\ call' = [call EXCEPT !.at = "delete"]
       \/ /\ call.at = "delete" /\ call.stack = << >> /\ call.deleted = << >>
          /\ call' = [call EXCEPT !.at = "reassign"]
       \/ /\ call.at = "reassign" /\ call.assignedIds = << >>
          /\ call' = [call EXCEPT !.at = "sync", !.stack = rootList]
    /\ UNCHANGED <<cacheVars, dbVars, before>>

-----------------------------------------------------------------------------
(***************************************************************************)
(* ResetService::reset, and the end of a call.                             *)
(***************************************************************************)
Reset ==
    /\ Begin([NoCall EXCEPT !.at = "seed"])
    /\ objects' = << >>
    /\ rootList' = << >>
    /\ index' = << >>
    /\ nextTemporaryId' = TempBase
    /\ records' = << >>
    /\ nextId' = 1

SeedRecord ==
    /\ call.at = "seed" /\ nextId <= Len(SeedRows)
    /\ InsertRecord(SeedRows[nextId].parentId, SeedRows[nextId].payload)
    /\ UNCHANGED <<cacheVars, call, before>>

Finish ==
    /\ \/ call.at \in {"remove", "sync"} /\ call.stack = << >>
       \/ call.at = "seed" /\ nextId > Len(SeedRows)
    /\ Return
    /\ UNCHANGED <<cacheVars, dbVars>>

-----------------------------------------------------------------------------
Init ==
    /\ DbInit
    /\ objects = << >>
    /\ rootList = << >>
    /\ index = << >>
    /\ nextTemporaryId = TempBase
    /\ call = NoCall
    /\ before = << >>

\* The user calls, or the running call goes on.
Call ==
    \/ \E id \in DOMAIN records : LoadFromDatabase(id)
    \/ \E id \in DOMAIN index, payload \in Payload : AddChild(id, payload)
    \/ \E id \in DOMAIN index, payload \in Payload : EditPayload(id, payload)
    \/ \E id \in DOMAIN index : Remove(id)
    \/ Apply
    \/ Reset

Step ==
    \/ AdoptOrphan \/ FinishLoading
    \/ MarkDeleted
    \/ CollectChanges \/ InsertCreated \/ ModifyRecord \/ DeleteNext \/ MarkRecord
    \/ ReassignId \/ MarkSynced \/ Proceed
    \/ SeedRecord
    \/ Finish

Next == Call \/ Step

\* A call that runs goes on running: it waits for nothing.  The user is free
\* never to call.
Fairness == WF_callVars(Step)

Spec == Init /\ [][Next]_callVars /\ Fairness

-----------------------------------------------------------------------------
\* The cache is an ownership forest at every step of every call: each live
\* object is in exactly one of the vectors, the one of its parent_, and each
\* vector is in the order in which its objects were constructed, which is
\* what TreeCache keeps of it.
OwnedOnce ==
    LET vector(h) == IF h = NoNode THEN rootList ELSE objects[h].children
    IN  \A h \in {NoNode} \cup DOMAIN objects :
            /\ Seqs!ToSet(vector(h)) = {c \in DOMAIN objects : objects[c].parent = h}
            /\ \A i, j \in DOMAIN vector(h) : i < j => vector(h)[i] < vector(h)[j]

\* index_ leads every id to the live object that bears it, also between two
\* steps of a call: no step works with an entry another has left behind.
IndexNeverDangles ==
    /\ \A id \in DOMAIN index : index[id] \in DOMAIN objects /\ objects[index[id]].id = id
    /\ \A h \in DOMAIN objects : FindNode(objects[h].id) = h

\* What the user sees of a call, from before it to after it, is the single
\* step of TreeCache: the loops and walks compute what that step says.
Atomic == INSTANCE TreeCache WITH
    records <- Seen.records, nextId <- Seen.nextId, nodes <- Seen.nodes, roots <- Seen.roots,
    index <- Seen.index, nextTemporaryId <- Seen.nextTemporaryId

AtomicSpec == Atomic!Spec

\* Every call returns: no walk runs in a circle, and no loop stands still.
EveryCallReturns == ~Idle ~> Idle

\* What is left of a walk: the nodes on its stack and everything below them.
Ahead(up, stack) == Seqs!ToSet(stack) \cup Below(up, Seqs!ToSet(stack))

\* What the running call has still to do: the loops from the present one on,
\* the rounds of the present loop, the visits of the present walk.
Remaining ==
    <<CASE call.at = "collect"  -> 6
        [] call.at = "insert"   -> 5
        [] call.at = "modify"   -> 4
        [] call.at = "delete"   -> 3
        [] call.at = "reassign" -> 2
        [] call.at = "idle"     -> 0
        [] OTHER                -> 1,
      CASE call.at = "adopt"    -> Len(call.stack)
        [] call.at = "insert"   -> Len(call.created)
        [] call.at = "modify"   -> Len(call.modified)
        [] call.at = "delete"   -> Len(call.deleted)
        [] call.at = "reassign" -> Len(call.assignedIds)
        [] call.at = "seed"     -> Len(SeedRows) + 1 - nextId
        [] OTHER                -> 0,
      CASE call.at \in {"remove", "collect", "sync"} ->
               Cardinality(Ahead([h \in DOMAIN objects |-> objects[h].parent], call.stack))
        [] call.at = "delete" -> Cardinality(Ahead(ParentIn(records), call.stack))
        [] OTHER -> 0>>

\* One is less than another in the first number in which they differ.
Less(a, b) ==
    /\ {a, b} \subseteq Nat \X Nat \X Nat
    /\ \E i \in 1..3 : a[i] < b[i] /\ \A j \in 1..(i - 1) : a[j] = b[j]

\* Each step of a call leaves less of it to do: no walk, in the cache or in
\* the database, comes to a node a second time, every round of a loop shortens
\* what the loop works off, and no loop is begun again.  This is why no call
\* goes on for ever.
EachStepLeavesLess == [][Step => Less(Remaining', Remaining)]_callVars

=============================================================================
