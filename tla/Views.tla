------------------------------- MODULE Views --------------------------------
(***************************************************************************)
(* The two trees of rows the window shows: CacheTreeProvider gives the     *)
(* live vectors of the cache, DatabaseTreeProvider a copy of the database. *)
(***************************************************************************)
EXTENDS TreeWalks, TreeModel

\* CacheTreeProvider: handles are the objects themselves.
CacheTreeProvider ==
    [rows   |-> [h \in {NoNode} \cup DOMAIN objects |-> Children(h)],
     parent |-> [h \in DOMAIN objects |-> objects[h].parent],
     id     |-> [h \in DOMAIN objects |-> objects[h].id]]

\* The records a scan of the table in the given order finds at these places.
Picked(order, places) ==
    LET found == CHOOSE s \in Ascending(places) : TRUE
    IN  [i \in DOMAIN found |-> order[found[i]]]

\* Mutant: elements marked as deleted are left out.
MutFetched(order, parentId) ==
    Picked(order, {i \in DOMAIN order : /\ records[order[i]].parentId = parentId
                                        /\ ~records[order[i]].deleted})

\* fetchRoots and fetchChildren, over a table iterated in the given order.
Fetched(order, parentId) ==
    Picked(order, {i \in DOMAIN order : records[order[i]].parentId = parentId})

\* DatabaseTreeProvider after a rebuild: one Node per record it fetched.
DatabaseTreeProvider(order) ==
    [rows   |-> [id \in {NoId} \cup DOMAIN records |-> Fetched(order, id)],
     parent |-> [id \in DOMAIN records |-> records[id].parentId],
     id     |-> [id \in DOMAIN records |-> id]]

-----------------------------------------------------------------------------
\* Between two calls each view may ask its model anything: the rows of the
\* cache fit together after every adoption, those of the database in every
\* order its hash table may give.
RowsFitTogether ==
    Idle => /\ KeepsContract(CacheTreeProvider)
            /\ \A order \in Seqs!SetToSeqs(DOMAIN records) :
                  KeepsContract(DatabaseTreeProvider(order))

\* notifyNodeChanged finds the row of every node of the index, and of no other.
SearchFollowsIndex ==
    Idle => \A id \in DOMAIN index \cup DOMAIN records :
                IndexForId(CacheTreeProvider, id).handle = FindNode(id)

\* A user who opens row after row on the left finds every record, in whatever
\* order they were fetched: none has a parent that is missing, and none is
\* left out.
EveryRecordHasItsRow ==
    Idle => \A order \in Seqs!SetToSeqs(DOMAIN records), id \in DOMAIN records :
                IndexForId(DatabaseTreeProvider(order), id).handle = id

=============================================================================
