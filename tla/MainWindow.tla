----------------------------- MODULE MainWindow -----------------------------
(***************************************************************************)
(* The window (presentation/MainWindow) over TreeCache: the copy of the    *)
(* database its left view shows (DatabaseTreeProvider), the current item   *)
(* of each view, the buttons, the editor the right view opens in place     *)
(* (TreeModel), and what is painted (NodeItemDelegate): a picture stays    *)
(* until its model reports a change.  The right view shows the nodes of    *)
(* the cache themselves.                                                   *)
(*                                                                         *)
(* Dialogs and menus are modal and nothing else runs, so a command with    *)
(* its dialog is one step; a dismissed dialog changes nothing.  An open    *)
(* editor is a state: it ends, committing or not, before the focus goes    *)
(* anywhere else.                                                          *)
(***************************************************************************)
EXTENDS TreeCache, NodeItemDelegate

CONSTANT EmptyText      \* what a QVariant without value is as a text

ASSUME WindowAssumption == EmptyText \in Payload

VARIABLES
    shown,      \* roots_ of DatabaseTreeProvider: id -> record, as copied
    current,    \* currentIndex() of the views: an id in shown, a node
    enabled,    \* the buttons
    editor,     \* the open editor: its node, its text, whether it was typed in
    painted     \* the pictures of the items of each view, as last painted

windowVars == <<shown, current, enabled, editor, painted>>

allVars == <<vars, windowVars>>

Buttons == {"load", "add", "edit", "remove", "apply"}

Closed == [node |-> NoNode, text |-> EmptyText, typed |-> FALSE]

-----------------------------------------------------------------------------
\* DatabaseTreeProvider::rebuild copies what it reaches from the roots.
Copied(rows) ==
    [id \in Below(ParentIn(rows), {r \in DOMAIN rows : rows[r].parentId = NoId}) |-> rows[id]]

\* updateActionStates, from the current items and roots_.
ActionStates(now, top) ==
    [load |-> now.database # NoId, add |-> now.cache # NoNode, edit |-> now.cache # NoNode,
     remove |-> now.cache # NoNode, apply |-> top # {}]

\* What the delegate paints of the data the models give it now.
DatabasePictures ==
    [id \in DOMAIN shown |->
        Paint(shown[id].payload, IF shown[id].deleted THEN "Deleted" ELSE "Unchanged", FALSE)]

CachePictures ==
    [h \in DOMAIN nodes |->
        Paint(nodes[h].payload, nodes[h].status, nodes[h].hasUnloadedChildren)]

\* TreeModel::flags: the right view has an edit callback.
IsEditable(h) == nodes[h].status # "Deleted"

\* TreeModel::data has no case for Qt::EditRole, which the editor asks for.
EditRoleData(h) == EmptyText

\* A command is given by its button or from the menu of the current item,
\* which disables two commands on a deleted element.
Offered(command) ==
    \/ enabled[command]
    \/ command = "load" /\ current.database # NoId
    \/ command = "remove" /\ current.cache # NoNode
    \/ command \in {"add", "edit"} /\ current.cache # NoNode /\ IsEditable(current.cache)

Idle == editor = Closed

-----------------------------------------------------------------------------
(***************************************************************************)
(* Qt: the items the user makes current.  A click selects, which reports   *)
(* a new selection; a view that gets the focus by keyboard makes its first *)
(* item current and reports nothing.  The first root of the database is    *)
(* whichever its hash table gives first.                                   *)
(***************************************************************************)
SelectInDatabase(id) ==
    /\ Idle
    /\ current' = [current EXCEPT !.database = id]
    /\ enabled' = ActionStates(current', roots)
    /\ UNCHANGED <<vars, shown, editor, painted>>

SelectInCache(h) ==
    /\ Idle
    /\ current' = [current EXCEPT !.cache = h]
    /\ enabled' = ActionStates(current', roots)
    /\ UNCHANGED <<vars, shown, editor, painted>>

FocusDatabase ==
    /\ Idle
    /\ current.database = NoId
    /\ \E id \in DOMAIN shown : /\ shown[id].parentId = NoId
                                /\ current' = [current EXCEPT !.database = id]
    /\ UNCHANGED <<vars, shown, enabled, editor, painted>>

FocusCache ==
    /\ Idle
    /\ current.cache = NoNode
    /\ \E h \in roots : /\ \A r \in roots : h <= r
                        /\ current' = [current EXCEPT !.cache = h]
    /\ UNCHANGED <<vars, shown, enabled, editor, painted>>

-----------------------------------------------------------------------------
(***************************************************************************)
(* The commands.  refreshAll of a model makes its view lose the current    *)
(* item.                                                                   *)
(***************************************************************************)
\* Mutant: the buttons are left as they were.
MutRefreshCache ==
    /\ current' = [current EXCEPT !.cache = NoNode]
    /\ painted' = [painted EXCEPT !.cache = CachePictures']
    /\ UNCHANGED <<shown, enabled, editor>>

RefreshCache ==
    /\ current' = [current EXCEPT !.cache = NoNode]
    /\ enabled' = ActionStates(current', roots')
    /\ painted' = [painted EXCEPT !.cache = CachePictures']
    /\ UNCHANGED <<shown, editor>>

\* Mutant: the model of the cache reports changed rows instead of a reset.
MutRefreshViews ==
    /\ current' = [current EXCEPT !.database = NoId]
    /\ enabled' = ActionStates(current', roots')
    /\ shown' = Copied(records')
    /\ painted' = [database |-> DatabasePictures', cache |-> CachePictures']
    /\ UNCHANGED editor

\* databaseProvider_->rebuild(), refreshViews and updateActionStates.
RefreshViews ==
    /\ current' = [database |-> NoId, cache |-> NoNode]
    /\ enabled' = ActionStates(current', roots')
    /\ shown' = Copied(records')
    /\ painted' = [database |-> DatabasePictures', cache |-> CachePictures']
    /\ UNCHANGED editor

\* Mutant: only the roots are searched.
MutNotifyNodeChanged(id) ==
    painted' = IF FindNode(id) \in roots
               THEN [painted EXCEPT !.cache[FindNode(id)] = CachePictures'[FindNode(id)]]
               ELSE painted

\* dataChanged for the row of one node.
NotifyNodeChanged(id) ==
    painted' = [painted EXCEPT !.cache[FindNode(id)] = CachePictures'[FindNode(id)]]

Refused(result) == result # "Success" /\ UNCHANGED vars

OnLoadToCache ==
    LET id == current.database
    IN  /\ Idle /\ Offered("load") /\ id # NoId
        /\ LoadFromDatabase(id) \/ Refused(LoadResult(id))
        /\ RefreshCache

SelectedId == nodes[current.cache].id

OnAddChild(payload) ==
    /\ Idle /\ Offered("add") /\ current.cache # NoNode
    /\ AddChild(SelectedId, payload) \/ Refused(ChangeResult(SelectedId))
    /\ RefreshCache

\* The node stays current: only its own row is refreshed.
OnEditPayload(payload) ==
    /\ Idle /\ Offered("edit") /\ current.cache # NoNode
    /\ \/ EditPayload(SelectedId, payload) /\ NotifyNodeChanged(SelectedId)
       \/ Refused(ChangeResult(SelectedId)) /\ UNCHANGED painted
    /\ enabled' = ActionStates(current, roots)
    /\ UNCHANGED <<shown, current, editor>>

OnRemove ==
    /\ Idle /\ Offered("remove") /\ current.cache # NoNode
    /\ Remove(SelectedId) \/ Refused(RemoveResult(SelectedId))
    /\ RefreshCache

OnApplyToDatabase ==
    /\ Idle /\ enabled["apply"] /\ roots # {}
    /\ Apply
    /\ RefreshViews

\* Mutants: the database is not reset; its copy is not rebuilt.
MutOnReset == Idle /\ Clear /\ UNCHANGED dbVars /\ RefreshViews

MutOnResetOldCopy ==
    /\ Idle
    /\ Reset
    /\ current' = [database |-> NoId, cache |-> NoNode]
    /\ enabled' = ActionStates(current', roots')
    /\ painted' = [database |-> DatabasePictures, cache |-> CachePictures']
    /\ UNCHANGED <<shown, editor>>

OnReset ==
    /\ Idle
    /\ Reset
    /\ RefreshViews

-----------------------------------------------------------------------------
(***************************************************************************)
(* Editing in place: a double click, which makes the item current, or the  *)
(* edit key on the current item.  Leaving the editor commits it, Escape    *)
(* does not.                                                               *)
(***************************************************************************)
OpenEditor(h) ==
    /\ Idle
    /\ IsEditable(h)
    /\ editor' = [node |-> h, text |-> EditRoleData(h), typed |-> FALSE]
    /\ \/ /\ current' = [current EXCEPT !.cache = h]
          /\ enabled' = ActionStates(current', roots)
       \/ h = current.cache /\ UNCHANGED <<current, enabled>>
    /\ UNCHANGED <<vars, shown, painted>>

TypeInEditor(payload) ==
    /\ ~Idle
    /\ editor' = [editor EXCEPT !.text = payload, !.typed = TRUE]
    /\ UNCHANGED <<vars, shown, current, enabled, painted>>

\* TreeModel::setData through the callback of MainWindow.
CommitEditor ==
    /\ ~Idle
    /\ LET id == nodes[editor.node].id
       IN  \/ EditPayload(id, editor.text) /\ NotifyNodeChanged(id)
           \/ Refused(ChangeResult(id)) /\ UNCHANGED painted
    /\ editor' = Closed
    /\ UNCHANGED <<shown, current, enabled>>

CancelEditor ==
    /\ ~Idle
    /\ editor' = Closed
    /\ UNCHANGED <<vars, shown, current, enabled, painted>>

-----------------------------------------------------------------------------
WindowInit ==
    /\ Init
    /\ shown = Copied(records)
    /\ current = [database |-> NoId, cache |-> NoNode]
    /\ enabled = ActionStates(current, roots)
    /\ editor = Closed
    /\ painted = [database |-> DatabasePictures, cache |-> CachePictures]

WindowNext ==
    \/ \E id \in DOMAIN shown : SelectInDatabase(id)
    \/ \E h \in DOMAIN nodes : SelectInCache(h)
    \/ FocusDatabase
    \/ FocusCache
    \/ OnLoadToCache
    \/ \E payload \in Payload : OnAddChild(payload)
    \/ \E payload \in Payload : OnEditPayload(payload)
    \/ OnRemove
    \/ OnApplyToDatabase
    \/ OnReset
    \/ \E h \in DOMAIN nodes : OpenEditor(h)
    \/ \E payload \in Payload : TypeInEditor(payload)
    \/ CommitEditor
    \/ CancelEditor

WindowSpec == WindowInit /\ [][WindowNext]_allVars

-----------------------------------------------------------------------------
\* The left view always shows the whole database as it is: each command that
\* changes the database copies it again, and no record is out of reach of
\* the roots the copy starts from.
LeftViewIsUpToDate == shown = records

\* The current items and the open editor are on objects that exist, and a
\* command goes to the very node its item shows: nothing keeps an object
\* that loading moved, synchronising renamed or resetting destroyed.
ItemsAreLive ==
    /\ current.database \in DOMAIN shown \cup {NoId}
    /\ current.cache # NoNode =>
          /\ current.cache \in DOMAIN nodes
          /\ FindNode(SelectedId) = current.cache
    /\ editor.node # NoNode => editor.node \in DOMAIN nodes /\ IsEditable(editor.node)

\* README.md:24: green marks a new element, orange a changed one, grey with
\* the text struck out a deleted one.
Signs(picture, text, status) ==
    /\ picture.text = text
    /\ picture.color = "green"  <=> status = "New"
    /\ picture.color = "orange" <=> status = "Modified"
    /\ picture.color = "grey"   <=> status = "Deleted"
    /\ picture.strikeOut        <=> status = "Deleted"

RecordsUnder(id) == {r \in DOMAIN records : records[r].parentId = id}

\* What the user sees is so, although an edit repaints one row only.  Every
\* element of the database and of the cache is on the screen with its text
\* and in the colour of README.md:24.  An ellipsis stands only by an element
\* that has children in the database, all of them still to be loaded (it is
\* not by every such element with children to load: EllipsisIsComplete is
\* refuted).  The views agree with each other: an element of the right view
\* in no colour is on the left with the same text or struck out, and one in
\* green is not on the left.
PicturesAreTrue ==
    /\ DOMAIN painted.database = DOMAIN records
    /\ \A id \in DOMAIN records :
          Signs(painted.database[id], records[id].payload,
                IF records[id].deleted THEN "Deleted" ELSE "Unchanged")
    /\ DOMAIN painted.cache = DOMAIN nodes
    /\ \A h \in DOMAIN nodes :
          LET right == painted.cache[h]
              id    == nodes[h].id
          IN  /\ Signs(right, nodes[h].payload, nodes[h].status)
              /\ right.ellipsis =>
                    RecordsUnder(id) # {} /\ RecordsUnder(id) \cap DOMAIN index = {}
              /\ right.color = "palette" =>
                    /\ id \in DOMAIN painted.database
                    /\ \/ painted.database[id].text = right.text
                       \/ painted.database[id].strikeOut
              /\ right.color = "green" => id \notin DOMAIN painted.database

\* An enabled command has an object to work on, and saving is offered
\* whenever there is something to save.
ButtonsAreHonest ==
    /\ enabled["load"] => current.database # NoId
    /\ \A command \in {"add", "edit", "remove"} : enabled[command] => current.cache # NoNode
    /\ Pending # {} => enabled["apply"]

ChildrenOf(h) == {c \in DOMAIN nodes : nodes[c].parent = h}

\* A step neither edits nor revives a deleted element, and what it hangs
\* under one (deleted before the step or by it) is what the database has
\* there.
Frozen ==
    /\ \A h \in NodesIn("Deleted") : nodes'[h] = [nodes[h] EXCEPT
          !.parent = nodes'[h].parent, !.hasUnloadedChildren = nodes'[h].hasUnloadedChildren]
    /\ \A h \in NodesIn("Deleted")' : \A c \in ChildrenOf(h)' \ ChildrenOf(h) :
          nodes'[c].id \in RecordsUnder(nodes'[h].id)

\* By no button, menu or open editor, short of a reset, does a deleted
\* element change its text, lose its mark or get a child created under it.
\* The one thing it may still get is a child of its in the database, when
\* that is loaded (insertLoadedNode asks the parent for no status) or when
\* the element itself is loaded deleted and takes over its orphans.
DeletedStaysFrozen == [][~OnReset => Frozen]_allVars

\* The window drives the program below it only in ways TreeCache allows, so
\* what holds of TreeCache holds in the window.
CacheSpec == Spec

\* README.md:24: orange marks an element that was changed.  Leaving an editor
\* nobody typed in must not change the element.
UntouchedEditorChangesNothing == [][CommitEditor /\ ~editor.typed => UNCHANGED nodes]_allVars

=============================================================================
