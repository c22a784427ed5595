-------------------------- MODULE InMemoryDatabase --------------------------
(***************************************************************************)
(* The emulated database (infrastructure/InMemoryDatabase), reached by   *)
(* the rest of the program through DatabaseRepository, which only forwards *)
(* each call.  Records are inserted under consecutive ids and never        *)
(* erased: deletion is a flag that cascades to the descendants.            *)
(***************************************************************************)
EXTENDS Integers, Sequences, FiniteSets, Forest

CONSTANTS
    Payload,    \* the values of the string field
    SeedRows,   \* the rows seedTestData inserts, in order: [parentId, payload]
    MaxId       \* bound: the largest id the database may hand out

NoId == 0       \* invalidNodeId; also stands for an empty optional<NodeId>

ASSUME DatabaseAssumption ==
    /\ SeedRows \in Seq([parentId : Nat, payload : Payload])
    /\ \A i \in 1..Len(SeedRows) : SeedRows[i].parentId < i
    /\ MaxId \in Nat
    /\ Len(SeedRows) <= MaxId

VARIABLES
    records,    \* records_: id -> [parentId, payload, deleted]
    nextId      \* nextId_

dbVars == <<records, nextId>>

Record == [parentId : Nat, payload : Payload, deleted : BOOLEAN]

DbTypeOK ==
    /\ nextId \in 1..(MaxId + 1)
    /\ records \in [1..(nextId - 1) -> Record]

-----------------------------------------------------------------------------
(***************************************************************************)
(* Reading.                                                                *)
(***************************************************************************)
HasChildren(id) == \E c \in DOMAIN records : records[c].parentId = id

MakeSnapshot(id) ==
    [id |-> id, parentId |-> records[id].parentId, payload |-> records[id].payload,
     deleted |-> records[id].deleted, hasChildren |-> HasChildren(id)]

-----------------------------------------------------------------------------
(***************************************************************************)
(* Applying a change set: a record with fields                             *)
(*   created   sequence of [id, parentId, payload], id being temporary;    *)
(*   modified  function from ids to new payloads (a client lists an id at  *)
(*             most once, so the order of the vector is immaterial);       *)
(*   deleted   set of ids (marking is idempotent and commutes).            *)
(***************************************************************************)

\* The id the i-th created element is inserted under.
PersistentId(i) == nextId + i - 1

AssignedIds(changes) ==
    [i \in DOMAIN changes.created |->
        [temporaryId |-> changes.created[i].id, persistentId |-> PersistentId(i)]]

\* Mutant: parents are not mapped to their persistent ids.
MutMappedParent(changes, i) == changes.created[i].parentId

\* The parent of the i-th created element: the persistent id of an element
\* created before it under that temporary id, else the id as it was given.
\* emplace keeps the first element of two with the same temporary id.
MappedParent(changes, i) ==
    LET given   == changes.created[i].parentId
        earlier == {j \in 1..(i - 1) : changes.created[j].id = given}
    IN  IF earlier = {} THEN given
        ELSE PersistentId(CHOOSE j \in earlier : \A k \in earlier : j <= k)

AfterCreation(rows, changes) ==
    [id \in DOMAIN rows \cup {PersistentId(i) : i \in DOMAIN changes.created} |->
        IF id \in DOMAIN rows THEN rows[id]
        ELSE LET i == id - nextId + 1
             IN  [parentId |-> MappedParent(changes, i),
                  payload  |-> changes.created[i].payload,
                  deleted  |-> FALSE]]

\* Mutant: deleted records are modified too.
MutAfterModification(rows, changes) ==
    [id \in DOMAIN rows |->
        IF id \in DOMAIN changes.modified
        THEN [rows[id] EXCEPT !.payload = changes.modified[id]]
        ELSE rows[id]]

AfterModification(rows, changes) ==
    [id \in DOMAIN rows |->
        IF id \in DOMAIN changes.modified /\ ~rows[id].deleted
        THEN [rows[id] EXCEPT !.payload = changes.modified[id]]
        ELSE rows[id]]

ParentIn(rows) == [id \in DOMAIN rows |-> rows[id].parentId]

\* Mutant: only the children are marked.
MutDoomed(rows, ids) ==
    {id \in DOMAIN rows : id \in ids \/ rows[id].parentId \in ids}

\* The records markDeletedRecursively reaches from ids; an id without a
\* record is skipped.
Doomed(rows, ids) == Below(ParentIn(rows), ids)

AfterDeletion(rows, changes) ==
    [id \in DOMAIN rows |->
        [rows[id] EXCEPT !.deleted = @ \/ id \in Doomed(rows, changes.deleted)]]

\* Mutant: deletions are applied before creations.
MutApplyChanges(changes) ==
    /\ records' = AfterModification(AfterCreation(AfterDeletion(records, changes), changes),
                                    changes)
    /\ nextId' = nextId + Len(changes.created)

ApplyChanges(changes) ==
    /\ records' = AfterDeletion(AfterModification(AfterCreation(records, changes), changes),
                                changes)
    /\ nextId' = nextId + Len(changes.created)

-----------------------------------------------------------------------------
SeedTestData ==
    [id \in 1..Len(SeedRows) |->
        [parentId |-> SeedRows[id].parentId, payload |-> SeedRows[id].payload,
         deleted |-> FALSE]]

DbInit ==
    /\ records = SeedTestData
    /\ nextId = Len(SeedRows) + 1

ResetDatabase ==
    /\ records' = SeedTestData
    /\ nextId' = Len(SeedRows) + 1

=============================================================================
