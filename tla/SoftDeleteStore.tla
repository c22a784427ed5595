-------------------------- MODULE SoftDeleteStore ---------------------------
(***************************************************************************)
(* What the database promises to anyone who reads it, whatever the cache   *)
(* does: a tree that only grows, in which an element keeps its place,      *)
(* deletion is a mark that is never taken back, freezes the element and    *)
(* covers everything below it, and the only way back is a full reset.      *)
(***************************************************************************)
EXTENDS Integers, Sequences

CONSTANT Seed       \* the initial rows: [parentId, payload, deleted]

VARIABLE store      \* id -> row

Grows ==
    /\ DOMAIN store \subseteq DOMAIN store'
    /\ \A id \in DOMAIN store :
          /\ store'[id].parentId = store[id].parentId
          /\ store[id].deleted => store'[id] = store[id]

IsTree(rows) == \A id \in DOMAIN rows : rows[id].parentId \in 0..(id - 1)

DeletionIsClosed(rows) ==
    \A id \in DOMAIN rows :
        rows[id].parentId \in DOMAIN rows /\ rows[rows[id].parentId].deleted
            => rows[id].deleted

Init == store = Seed

Commit ==
    /\ Grows
    /\ IsTree(store')
    /\ DeletionIsClosed(store')

Restore == store' = Seed

Next == Commit \/ Restore

Spec == Init /\ [][Next]_store

=============================================================================
