---------------------------- MODULE WorkingCopy -----------------------------
(***************************************************************************)
(* What the cache promises its user: a working copy of part of a table of  *)
(* rows.  An item is put where the table has its row, by itself and in     *)
(* whatever order the rows were loaded; new items are put where the user   *)
(* wants them; saving makes the table what the items say, in one step.     *)
(* Nothing is said of temporary ids, of the index, of roots and vectors,   *)
(* nor of the order in which changes are written.                          *)
(***************************************************************************)
EXTENDS Forest

CONSTANTS Seed,     \* the initial table
          RowId,    \* the keys a table may have
          Item,     \* the items the user may have
          Text

Nowhere == 0        \* neither a key nor an item

VARIABLES table,    \* row id -> [parentId, payload, deleted]
          items     \* item -> [row, place, text, status]

NewItem == Item \ DOMAIN items

\* The items with one more.
With(item, content) ==
    [i \in DOMAIN items \cup {item} |-> IF i = item THEN content ELSE items[i]]

\* The item of a row, or Nowhere.
ItemOf(copy, row) ==
    LET held == {i \in DOMAIN copy : copy[i].row = row /\ row # Nowhere}
    IN  IF held = {} THEN Nowhere ELSE CHOOSE i \in held : TRUE

\* Every item of the table is below the item of its parent, if there is one.
Arranged(copy) ==
    [i \in DOMAIN copy |->
        IF copy[i].row = Nowhere THEN copy[i]
        ELSE [copy[i] EXCEPT !.place = ItemOf(copy, table[copy[i].row].parentId)]]

Init ==
    /\ table = Seed
    /\ items = << >>

-----------------------------------------------------------------------------
Load(row) ==
    /\ UNCHANGED table
    /\ ItemOf(items, row) = Nowhere
    /\ \E item \in NewItem :
          items' = Arranged(With(item,
              [row |-> row, place |-> Nowhere, text |-> table[row].payload,
               status |-> IF table[row].deleted THEN "Deleted" ELSE "Unchanged"]))

Create(place, text) ==
    /\ UNCHANGED table
    /\ items[place].status # "Deleted"
    /\ \E item \in NewItem :
          items' = With(item,
              [row |-> Nowhere, place |-> place, text |-> text, status |-> "New"])

Edit(item, text) ==
    /\ UNCHANGED table
    /\ items[item].status # "Deleted"
    /\ items' = [items EXCEPT
           ![item].text = text,
           ![item].status = IF @ = "New" THEN "New" ELSE "Modified"]

\* An item is deleted with everything the user sees below it.
Delete(item) ==
    LET places == [i \in DOMAIN items |-> items[i].place]
        doomed == Below(places, {item})
    IN  /\ UNCHANGED table
        /\ items' = [i \in DOMAIN items |->
               IF i \in doomed THEN [items[i] EXCEPT !.status = "Deleted"] ELSE items[i]]

-----------------------------------------------------------------------------
\* The items of one status.
Marked(status) == {i \in DOMAIN items : items[i].status = status}

\* The keys the new items get: each one of its own that was not in use.
Assignments ==
    {keys \in [Marked("New") -> RowId \ DOMAIN table] :
        \A i, j \in Marked("New") : i # j => keys[i] # keys[j]}

\* Everything in the table and everything deleted, with all that is below.
Written(rowOf) ==
    LET added   == {rowOf[i] : i \in Marked("New")}
        source(row) == CHOOSE i \in Marked("New") : rowOf[i] = row
        edited(row) == {i \in Marked("Modified") : rowOf[i] = row}
        grown   == [row \in DOMAIN table \cup added |->
            IF row \in added
            THEN [parentId |-> rowOf[items[source(row)].place],
                  payload  |-> items[source(row)].text, deleted |-> FALSE]
            ELSE IF table[row].deleted \/ edited(row) = {} THEN table[row]
            ELSE [table[row] EXCEPT !.payload = items[CHOOSE i \in edited(row) : TRUE].text]]
        parents == [row \in DOMAIN grown |-> grown[row].parentId]
        doomed  == Below(parents, {rowOf[i] : i \in Marked("Deleted")})
    IN  [row \in DOMAIN grown |->
            [grown[row] EXCEPT !.deleted = @ \/ row \in doomed]]

\* A row the table has deleted in the meantime keeps its text (the edit is
\* lost); the items are then as the table is, and deleted ones stay.
Save ==
    \E keys \in Assignments :
        LET rowOf == [i \in DOMAIN items |->
                         IF i \in Marked("New") THEN keys[i] ELSE items[i].row]
        IN  /\ items' = [i \in DOMAIN items |->
                   [items[i] EXCEPT
                       !.row = rowOf[i],
                       !.status = IF @ = "Deleted" THEN "Deleted" ELSE "Unchanged"]]
            /\ table' = Written(rowOf)

Restore ==
    /\ table' = Seed
    /\ items' = << >>

Next ==
    \/ \E row \in DOMAIN table : Load(row)
    \/ \E place \in DOMAIN items, text \in Text : Create(place, text)
    \/ \E item \in DOMAIN items, text \in Text : Edit(item, text)
    \/ \E item \in DOMAIN items : Delete(item)
    \/ Save
    \/ Restore

Spec == Init /\ [][Next]_<<table, items>>

=============================================================================
