----------------------------- MODULE TreeModel ------------------------------
(***************************************************************************)
(* presentation/TreeModel: the item model over a tree of rows, which its   *)
(* provider (ITreeDataProvider) gives as                                   *)
(*   rows    handle, or NoHandle -> its children, or the roots, in order   *)
(*   parent  handle -> the handle of its parent, NoHandle for a root       *)
(*   id      handle -> NodeId                                              *)
(* An index is a row with a handle.                                        *)
(***************************************************************************)
EXTENDS Integers, Sequences

NoHandle == 0

Root == [row |-> -1, handle |-> NoHandle]      \* QModelIndex{}

RowCount(provider, parent) == Len(provider.rows[parent.handle])

Index(provider, row, parent) ==
    IF row \in 0..(RowCount(provider, parent) - 1)
    THEN [row |-> row, handle |-> provider.rows[parent.handle][row + 1]]
    ELSE Root

\* Mutant: roots are not looked up among the roots.
MutIndexOfChild(provider, h) ==
    LET parent == provider.parent[h]
    IN  IF parent = NoHandle THEN 0
        ELSE CHOOSE row \in 0..Len(provider.rows[parent]) : provider.rows[parent][row + 1] = h

\* indexOfChild of both providers: among the siblings, or the roots.
IndexOfChild(provider, h) ==
    LET siblings == provider.rows[provider.parent[h]]
        rows     == {row \in 0..(Len(siblings) - 1) : siblings[row + 1] = h}
    IN  IF rows = {} THEN 0 ELSE CHOOSE row \in rows : TRUE

Parent(provider, child) ==
    LET parent == IF child = Root THEN NoHandle ELSE provider.parent[child.handle]
    IN  IF parent = NoHandle THEN Root
        ELSE [row |-> IndexOfChild(provider, parent), handle |-> parent]

\* Mutant: only the roots and their children are searched.
MutSearchIndex(provider, id, parent) ==
    LET children(p) == {Index(provider, row, p) : row \in 0..(RowCount(provider, p) - 1)}
        hits == {i \in children(Root) \cup UNION {children(p) : p \in children(Root)} :
                    provider.id[i.handle] = id}
    IN  IF hits = {} THEN Root ELSE CHOOSE i \in hits : TRUE

\* The first of some rows where something was found.
FirstHit(found) ==
    LET hits == {row \in DOMAIN found : found[row] # Root}
    IN  IF hits = {} THEN Root
        ELSE found[CHOOSE row \in hits : \A other \in hits : row <= other]

\* searchIndex: the first row whose node, or whose subtree, has the id.
SearchRows(provider, id, search, p) ==
    LET rows == provider.rows[p]
    IN  FirstHit([row \in 0..(Len(rows) - 1) |->
            IF provider.id[rows[row + 1]] = id THEN [row |-> row, handle |-> rows[row + 1]]
            ELSE search[rows[row + 1]]])

SearchIndex(provider, id, parent) ==
    LET search[p \in DOMAIN provider.rows] == SearchRows(provider, id, search, p)
    IN  search[parent.handle]

IndexForId(provider, id) == SearchIndex(provider, id, Root)

-----------------------------------------------------------------------------
\* The contract of QAbstractItemModel: the parent of the index of a child is
\* the index of the parent, at every depth.
Indices(provider) ==
    {Root} \cup {[row |-> IndexOfChild(provider, h), handle |-> h] : h \in DOMAIN provider.id}

KeepsContract(provider) ==
    \A parent \in Indices(provider) : \A row \in 0..(RowCount(provider, parent) - 1) :
        /\ Index(provider, row, parent) \in Indices(provider)
        /\ Parent(provider, Index(provider, row, parent)) = parent

=============================================================================
