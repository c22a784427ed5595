---------------------------- MODULE WindowProofs ----------------------------
(***************************************************************************)
(* The window drives the cache and the database only as TreeCache says,    *)
(* and its left view shows the database as it is.  What it keeps between   *)
(* commands (current items, buttons, the open editor, the pictures) fits   *)
(* the nodes it is about, and deleted elements stay frozen.                *)
(***************************************************************************)
EXTENDS MainWindow, SyncProofs

\* What the steps of the window need to be steps of TreeCache.
EditorOK == editor.text \in Payload

LEMMA EditorStep ==
    ASSUME EditorOK, [WindowNext]_allVars
    PROVE  EditorOK'
<1>1. EmptyText \in Payload
  BY WindowAssumption DEF WindowAssumption
<1>2. CASE UNCHANGED editor
  BY <1>2 DEF EditorOK
<1>3. ASSUME NEW h \in DOMAIN nodes, OpenEditor(h)
      PROVE  EditorOK'
  BY <1>1, <1>3 DEF OpenEditor, EditorOK, EditRoleData
<1>4. ASSUME NEW payload \in Payload, TypeInEditor(payload)
      PROVE  EditorOK'
  <2>1. editor' = [editor EXCEPT !.text = payload, !.typed = TRUE]
    BY <1>4 DEF TypeInEditor
  <2>2. editor'.text = payload \/ editor'.text = editor.text
    BY <2>1
  <2> QED BY <1>4, <2>2 DEF EditorOK
<1>5. CASE CommitEditor \/ CancelEditor
  BY <1>1, <1>5 DEF CommitEditor, CancelEditor, Closed, EditorOK
<1> QED
  BY <1>2, <1>3, <1>4, <1>5
     DEF WindowNext, SelectInDatabase, SelectInCache, FocusDatabase, FocusCache, OnLoadToCache,
         OnAddChild, OnEditPayload, OnRemove, OnApplyToDatabase, OnReset, RefreshCache, RefreshViews,
         allVars, windowVars

\* A command that is carried out names an element the cache knows.
LEMMA SuccessIds ==
    ASSUME NEW id
    PROVE  /\ LoadResult(id) = "Success" => id \in DOMAIN records
           /\ ChangeResult(id) = "Success" => id \in DOMAIN index
           /\ RemoveResult(id) = "Success" => id \in DOMAIN index
BY DEF LoadResult, ChangeResult, RemoveResult, FindNode

LEMMA CacheStep ==
    ASSUME EditorOK, [WindowNext]_allVars
    PROVE  [Next]_vars
<1>1. CASE UNCHANGED vars
  BY <1>1
<1>2. CASE OnLoadToCache
  <2>1. LoadFromDatabase(current.database) \/ UNCHANGED vars
    BY <1>2 DEF OnLoadToCache, Refused
  <2>2. LoadFromDatabase(current.database) => LoadResult(current.database) = "Success"
    BY DEF LoadFromDatabase
  <2> QED BY <2>1, <2>2, SuccessIds DEF Next
<1>3. ASSUME NEW payload \in Payload, OnAddChild(payload)
      PROVE  [Next]_vars
  <2>1. AddChild(SelectedId, payload) \/ UNCHANGED vars
    BY <1>3 DEF OnAddChild, Refused
  <2>2. AddChild(SelectedId, payload) => ChangeResult(SelectedId) = "Success"
    BY DEF AddChild
  <2> QED BY <2>1, <2>2, SuccessIds DEF Next
<1>4. ASSUME NEW payload \in Payload, OnEditPayload(payload)
      PROVE  [Next]_vars
  <2>1. EditPayload(SelectedId, payload) \/ UNCHANGED vars
    BY <1>4 DEF OnEditPayload, Refused
  <2>2. EditPayload(SelectedId, payload) => ChangeResult(SelectedId) = "Success"
    BY DEF EditPayload
  <2> QED BY <2>1, <2>2, SuccessIds DEF Next
<1>5. CASE OnRemove
  <2>1. Remove(SelectedId) \/ UNCHANGED vars
    BY <1>5 DEF OnRemove, Refused
  <2>2. Remove(SelectedId) => RemoveResult(SelectedId) = "Success"
    BY DEF Remove
  <2> QED BY <2>1, <2>2, SuccessIds DEF Next
<1>6. CASE OnApplyToDatabase
  BY <1>6 DEF OnApplyToDatabase, Next
<1>7. CASE OnReset
  BY <1>7 DEF OnReset, Next
<1>8. CASE CommitEditor
  <2> DEFINE id == nodes[editor.node].id
  <2>1. EditPayload(id, editor.text) \/ UNCHANGED vars
    BY <1>8 DEF CommitEditor, Refused
  <2>2. EditPayload(id, editor.text) => ChangeResult(id) = "Success"
    BY DEF EditPayload
  <2>3. editor.text \in Payload
    BY DEF EditorOK
  <2> QED BY <2>1, <2>2, <2>3, SuccessIds DEF Next
<1> QED
  BY <1>1, <1>2, <1>3, <1>4, <1>5, <1>6, <1>7, <1>8
     DEF WindowNext, SelectInDatabase, SelectInCache, FocusDatabase, FocusCache, OpenEditor,
         TypeInEditor, CancelEditor, allVars

\* Every command, dialog and editor of the window is an operation of the
\* cache or leaves it alone: what is proved of TreeCache holds in the window.
THEOREM WindowImplementsCache == WindowSpec => CacheSpec
<1>1. WindowInit => EditorOK
  BY WindowAssumption DEF WindowAssumption, WindowInit, Closed, EditorOK
<1>2. EditorOK /\ [WindowNext]_allVars => EditorOK'
  BY EditorStep
<1>3. WindowInit => Init
  BY DEF WindowInit
<1>4. EditorOK /\ [WindowNext]_allVars => [Next]_vars
  BY CacheStep
<1> QED BY <1>1, <1>2, <1>3, <1>4, PTL DEF WindowSpec, CacheSpec, Spec

-----------------------------------------------------------------------------
\* The copy of the left view misses no record: from any record, going up
\* ends at a record without parent.
LEMMA CopyIsComplete ==
    ASSUME NEW n \in Nat, NEW rows, rows = [id \in 1..n |-> rows[id]],
           \A id \in 1..n : rows[id].parentId \in 0..(id - 1)
    PROVE  Copied(rows) = rows
<1> DEFINE up  == ParentIn(rows)
           top == {r \in DOMAIN rows : rows[r].parentId = NoId}
<1>1. DOMAIN rows = 1..n
  OBVIOUS
<1>2. DOMAIN up = 1..n /\ \A id \in 1..n : up[id] = rows[id].parentId
  BY <1>1 DEF ParentIn
<1>3. ASSUME NEW C \in ClosedAbove(up, top)
      PROVE  1..n \subseteq C
  <2> DEFINE left == (1..n) \ C
  <2>1. SUFFICES ASSUME left # {} PROVE FALSE
    OBVIOUS
  <2>2. PICK least \in left : \A id \in left : least <= id
    <3>1. left \in SUBSET Nat
      OBVIOUS
    <3> HIDE DEF left
    <3> QED BY <2>1, <3>1, LeastElement
  <2>3. rows[least].parentId \in 0..(least - 1) /\ least \in 1..n
    BY <2>2
  <2>4. CASE rows[least].parentId = 0
    BY <1>1, <1>2, <1>3, <2>2, <2>4 DEF ClosedAbove, NoId
  <2>5. CASE rows[least].parentId # 0
    <3>1. rows[least].parentId \in 1..n
      BY <2>3, <2>5
    <3>2. rows[least].parentId \in C
      BY <2>2, <2>3, <3>1
    <3> QED BY <1>2, <1>3, <2>2, <3>2 DEF ClosedAbove
  <2> QED BY <2>4, <2>5
<1>4. Below(up, top) = 1..n
  BY <1>2, <1>3 DEF Below
<1> QED BY <1>4 DEF Copied

LEMMA OneLess ==
    ASSUME NEW m \in Nat, NEW n \in 1..(m + 1)
    PROVE  n - 1 \in Nat
OBVIOUS

\* A rebuilt copy is up to date.
LEMMA RebuiltCopy ==
    ASSUME IInv', shown' = Copied(records')
    PROVE  LeftViewIsUpToDate'
<1>1. DbTypeOK'
  BY DEF IInv, TypeOK
<1>2. MaxId \in Nat
  BY DatabaseAssumption DEF DatabaseAssumption
<1>3. nextId' - 1 \in Nat /\ records' \in [1..(nextId' - 1) -> Record]
  <2>1. nextId' \in 1..(MaxId + 1) /\ records' \in [1..(nextId' - 1) -> Record]
    BY <1>1 DEF DbTypeOK
  <2> QED BY <1>2, <2>1, OneLess
<1>4. \A id \in 1..(nextId' - 1) : records'[id].parentId \in 0..(id - 1)
  BY <1>3 DEF IInv, ParentsArePersisted
<1> QED BY <1>3, <1>4, CopyIsComplete DEF LeftViewIsUpToDate

LEMMA ShownStep ==
    ASSUME LeftViewIsUpToDate, IInv', [WindowNext]_allVars
    PROVE  LeftViewIsUpToDate'
<1>1. CASE shown' = Copied(records')
  BY <1>1, RebuiltCopy
<1>2. CASE shown' = shown /\ records' = records
  BY <1>2 DEF LeftViewIsUpToDate
<1> QED
  BY <1>1, <1>2
     DEF WindowNext, SelectInDatabase, SelectInCache, FocusDatabase, FocusCache, OnLoadToCache,
         OnAddChild, OnEditPayload, OnRemove, OnApplyToDatabase, OnReset, OpenEditor, TypeInEditor,
         CommitEditor, CancelEditor, RefreshCache, RefreshViews, LoadFromDatabase, AddChild,
         EditPayload, Remove, Refused, allVars, windowVars, vars, dbVars

\* The left view shows the database as it is after every command.
THEOREM LeftViewStaysUpToDate == WindowSpec => []LeftViewIsUpToDate
<1>1. ASSUME WindowInit, IInv
      PROVE  LeftViewIsUpToDate
  <2>1. nextId - 1 \in Nat /\ records \in [1..(nextId - 1) -> Record]
    BY <1>1, RecordIds DEF IInv, TypeOK, DbTypeOK
  <2>2. \A id \in 1..(nextId - 1) : records[id].parentId \in 0..(id - 1)
    BY <1>1, <2>1 DEF IInv, ParentsArePersisted
  <2> QED BY <1>1, <2>1, <2>2, CopyIsComplete DEF WindowInit, LeftViewIsUpToDate
<1>2. LeftViewIsUpToDate /\ IInv' /\ [WindowNext]_allVars => LeftViewIsUpToDate'
  BY ShownStep
<1>3. WindowSpec => []IInv
  BY WindowImplementsCache, IdentityInvariant DEF CacheSpec
<1> QED BY <1>1, <1>2, <1>3, PTL DEF WindowSpec

-----------------------------------------------------------------------------
(***************************************************************************)
(* Current items and the editor.                                           *)
(***************************************************************************)
\* An item of the left view has an id in the copy, one of the right view is
\* a live node.
CurrentOK == current \in [database : DOMAIN shown \cup {NoId}, cache : DOMAIN nodes \cup {NoNode}]

\* The editor is on a live node that is not deleted.
EditorLive ==
    /\ editor \in [node : DOMAIN nodes \cup {NoNode}, text : Payload, typed : BOOLEAN]
    /\ editor.node # NoNode => IsEditable(editor.node)

\* Editing moves no node, carried out or refused.
LEMMA EditKeepsNodes ==
    ASSUME TypeOK, NEW id, NEW payload \in Payload,
           EditPayload(id, payload) \/ Refused(ChangeResult(id))
    PROVE  DOMAIN nodes' = DOMAIN nodes /\ UNCHANGED <<roots, records>>
<1>1. CASE EditPayload(id, payload)
  <2>1. id \in DOMAIN index
    BY <1>1, SuccessIds DEF EditPayload
  <2> QED BY <1>1, <2>1, EditPayloadEffect DEF EditPayload
<1>2. CASE Refused(ChangeResult(id))
  BY <1>2 DEF Refused, vars, dbVars, cacheVars
<1> QED BY <1>1, <1>2

LEMMA CurrentStep ==
    ASSUME TypeOK, CurrentOK, EditorLive, [WindowNext]_allVars
    PROVE  CurrentOK'
<1>1. CASE current' = current /\ shown' = shown /\ DOMAIN nodes' = DOMAIN nodes
  BY <1>1 DEF CurrentOK
<1>2. ASSUME NEW id \in DOMAIN shown, SelectInDatabase(id)
      PROVE  CurrentOK'
  BY <1>2 DEF SelectInDatabase, CurrentOK, vars, cacheVars
<1>3. ASSUME NEW h \in DOMAIN nodes, SelectInCache(h)
      PROVE  CurrentOK'
  BY <1>3 DEF SelectInCache, CurrentOK, vars, cacheVars
<1>4. CASE FocusDatabase
  BY <1>4 DEF FocusDatabase, CurrentOK, vars, cacheVars
<1>5. CASE FocusCache
  <2>1. roots \subseteq DOMAIN nodes
    BY DEF TypeOK, CacheTypeOK
  <2> QED BY <1>5, <2>1 DEF FocusCache, CurrentOK, vars, cacheVars
<1>6. CASE RefreshCache
  BY <1>6 DEF RefreshCache, CurrentOK
<1>7. CASE RefreshViews
  BY <1>7 DEF RefreshViews, CurrentOK
<1>8. ASSUME NEW payload \in Payload, OnEditPayload(payload)
      PROVE  CurrentOK'
  <2>1. EditPayload(SelectedId, payload) \/ Refused(ChangeResult(SelectedId))
    BY <1>8 DEF OnEditPayload
  <2> QED BY <1>1, <1>8, <2>1, EditKeepsNodes DEF OnEditPayload
<1>9. CASE CommitEditor
  <2>1. EditPayload(nodes[editor.node].id, editor.text)
        \/ Refused(ChangeResult(nodes[editor.node].id))
    BY <1>9 DEF CommitEditor
  <2>2. editor.text \in Payload
    BY DEF EditorLive
  <2> QED BY <1>1, <1>9, <2>1, <2>2, EditKeepsNodes DEF CommitEditor
<1>10. ASSUME NEW h \in DOMAIN nodes, OpenEditor(h)
       PROVE  CurrentOK'
  BY <1>10 DEF OpenEditor, CurrentOK, vars, cacheVars
<1>11. CASE UNCHANGED allVars \/ CancelEditor \/ \E payload \in Payload : TypeInEditor(payload)
  BY <1>1, <1>11 DEF CancelEditor, TypeInEditor, allVars, windowVars, vars, cacheVars
<1> QED
  BY <1>2, <1>3, <1>4, <1>5, <1>6, <1>7, <1>8, <1>9, <1>10, <1>11
     DEF WindowNext, OnLoadToCache, OnAddChild, OnRemove, OnApplyToDatabase, OnReset

LEMMA EditorLiveStep ==
    ASSUME TypeOK, EditorLive, [WindowNext]_allVars
    PROVE  EditorLive'
<1>1. Closed \in [node : {NoNode}, text : Payload, typed : BOOLEAN]
  BY WindowAssumption DEF WindowAssumption, Closed
<1>2. CASE editor' = Closed
  BY <1>1, <1>2 DEF EditorLive
<1>3. CASE Idle /\ UNCHANGED editor
  BY <1>2, <1>3 DEF Idle
<1>4. CASE UNCHANGED <<editor, nodes>>
  BY <1>4 DEF EditorLive, IsEditable
<1>5. ASSUME NEW h \in DOMAIN nodes, OpenEditor(h)
      PROVE  EditorLive'
  <2>1. /\ editor' = [node |-> h, text |-> EmptyText, typed |-> FALSE]
        /\ IsEditable(h)
        /\ UNCHANGED nodes
    BY <1>5 DEF OpenEditor, EditRoleData, vars, cacheVars
  <2> QED BY <2>1, WindowAssumption DEF EditorLive, IsEditable, WindowAssumption
<1>6. ASSUME NEW payload \in Payload, TypeInEditor(payload)
      PROVE  EditorLive'
  <2>1. editor' = [editor EXCEPT !.text = payload, !.typed = TRUE] /\ UNCHANGED nodes
    BY <1>6 DEF TypeInEditor, vars, cacheVars
  <2>2. /\ editor' \in [node : DOMAIN nodes \cup {NoNode}, text : Payload, typed : BOOLEAN]
        /\ editor'.node = editor.node
    BY <2>1 DEF EditorLive
  <2> QED BY <2>1, <2>2 DEF EditorLive, IsEditable
<1> QED
  BY <1>2, <1>3, <1>4, <1>5, <1>6
     DEF WindowNext, SelectInDatabase, SelectInCache, FocusDatabase, FocusCache, OnLoadToCache,
         OnAddChild, OnEditPayload, OnRemove, OnApplyToDatabase, OnReset, CommitEditor,
         CancelEditor, RefreshCache, RefreshViews, allVars, windowVars, vars, cacheVars

-----------------------------------------------------------------------------
(***************************************************************************)
(* Buttons.                                                                *)
(***************************************************************************)
\* A focus by keyboard may leave a button disabled that has an object, never
\* the other way round; the button that saves is enabled with the first root.
ButtonsFollow ==
    /\ enabled["load"] => current.database # NoId
    /\ \A command \in {"add", "edit", "remove"} : enabled[command] => current.cache # NoNode
    /\ enabled["apply"] <=> roots # {}

LEMMA FreshButtons ==
    ASSUME NEW now, NEW top
    PROVE  LET fresh == ActionStates(now, top)
           IN  /\ fresh["load"] <=> now.database # NoId
               /\ \A command \in {"add", "edit", "remove"} : fresh[command] <=> now.cache # NoNode
               /\ fresh["apply"] <=> top # {}
<1> DEFINE fresh == ActionStates(now, top)
<1>1. /\ fresh["load"] = (now.database # NoId)
      /\ fresh["add"] = (now.cache # NoNode)
      /\ fresh["edit"] = (now.cache # NoNode)
      /\ fresh["remove"] = (now.cache # NoNode)
      /\ fresh["apply"] = (top # {})
  BY DEF ActionStates
<1> HIDE DEF fresh
<1>2. ASSUME NEW command \in {"add", "edit", "remove"}
      PROVE  fresh[command] <=> now.cache # NoNode
  BY <1>1, Zenon
<1> QED BY <1>1, <1>2, Zenon DEF fresh

LEMMA ButtonsStep ==
    ASSUME IInv, CurrentOK, EditorLive, LeftViewIsUpToDate, ButtonsFollow, [WindowNext]_allVars
    PROVE  ButtonsFollow'
<1>1. CASE enabled' = ActionStates(current', roots')
  BY <1>1, FreshButtons DEF ButtonsFollow
<1>2. CASE UNCHANGED <<enabled, current, roots>>
  BY <1>2 DEF ButtonsFollow
<1>3. CASE FocusDatabase
  <2>1. NoId \notin DOMAIN shown
    BY RecordIds DEF IInv, LeftViewIsUpToDate
  <2>2. current'.database # NoId /\ current'.cache = current.cache
    BY <1>3, <2>1 DEF FocusDatabase, CurrentOK
  <2> QED BY <1>3, <2>2 DEF FocusDatabase, ButtonsFollow, vars, cacheVars
<1>4. CASE FocusCache
  <2>1. NoNode \notin roots
    BY NodeIds DEF IInv, TypeOK, CacheTypeOK
  <2>2. current'.cache # NoNode /\ current'.database = current.database
    BY <1>4, <2>1 DEF FocusCache, CurrentOK
  <2> QED BY <1>4, <2>2 DEF FocusCache, ButtonsFollow, vars, cacheVars
<1>5. CASE CommitEditor
  <2>1. EditPayload(nodes[editor.node].id, editor.text)
        \/ Refused(ChangeResult(nodes[editor.node].id))
    BY <1>5 DEF CommitEditor
  <2>2. editor.text \in Payload
    BY DEF EditorLive
  <2>3. UNCHANGED roots
    BY <2>1, <2>2, EditKeepsNodes DEF IInv
  <2> QED BY <1>2, <1>5, <2>3 DEF CommitEditor
<1>6. ASSUME NEW payload \in Payload, OnEditPayload(payload)
      PROVE  ButtonsFollow'
  <2>1. EditPayload(SelectedId, payload) \/ Refused(ChangeResult(SelectedId))
    BY <1>6 DEF OnEditPayload
  <2>2. UNCHANGED roots
    BY <2>1, EditKeepsNodes DEF IInv
  <2> QED BY <1>1, <1>6, <2>2 DEF OnEditPayload
<1> QED
  BY <1>1, <1>2, <1>3, <1>4, <1>5, <1>6
     DEF WindowNext, SelectInDatabase, SelectInCache, OnLoadToCache, OnAddChild, OnRemove,
         OnApplyToDatabase, OnReset, OpenEditor, TypeInEditor, CancelEditor, RefreshCache,
         RefreshViews, allVars, windowVars, vars, cacheVars

\* A forest without roots has no nodes, so nothing pending is left out.
LEMMA ButtonsFollowing ==
    ASSUME ForestIsSound, ButtonsFollow
    PROVE  ButtonsAreHonest
<1>1. ASSUME roots = {}
      PROVE  DOMAIN nodes = {}
  <2>1. {} \in ClosedAbove(Up, roots)
    BY <1>1 DEF ClosedAbove
  <2> QED BY <2>1, BelowLeast DEF ForestIsSound
<1>2. Pending # {} => enabled["apply"]
  BY <1>1 DEF Pending, NodesIn, ButtonsFollow
<1> QED BY <1>2 DEF ButtonsFollow, ButtonsAreHonest

-----------------------------------------------------------------------------
ItemInv == CurrentOK /\ EditorLive /\ ButtonsFollow

LEMMA InitItems == WindowInit /\ IInv => ItemInv
<1> SUFFICES ASSUME WindowInit, IInv PROVE ItemInv
  OBVIOUS
<1>1. current = [database |-> NoId, cache |-> NoNode] /\ editor = Closed
  BY DEF WindowInit
<1>2. CurrentOK
  BY <1>1 DEF CurrentOK
<1>3. EditorLive
  BY <1>1, WindowAssumption DEF EditorLive, Closed, WindowAssumption
<1>4. ButtonsFollow
  BY FreshButtons DEF WindowInit, ButtonsFollow
<1> QED BY <1>2, <1>3, <1>4 DEF ItemInv

LEMMA ItemInvariant == WindowSpec => [](IInv /\ ItemInv)
<1>1. WindowInit /\ IInv => ItemInv
  BY InitItems
<1>2. IInv /\ LeftViewIsUpToDate /\ ItemInv /\ [WindowNext]_allVars => ItemInv'
  BY CurrentStep, EditorLiveStep, ButtonsStep DEF ItemInv, IInv
<1>3. WindowSpec => []IInv
  BY WindowImplementsCache, IdentityInvariant DEF CacheSpec
<1> QED BY <1>1, <1>2, <1>3, LeftViewStaysUpToDate, PTL DEF WindowSpec

\* The current items and the open editor are on objects that exist, and a
\* command goes to the node its item shows, whatever was loaded, synchronised
\* or reset in between.
THEOREM ItemsStayLive == WindowSpec => []ItemsAreLive
<1>1. ASSUME IInv, ItemInv
      PROVE  ItemsAreLive
  <2>1. \A h \in DOMAIN nodes : FindNode(nodes[h].id) = h
    BY <1>1 DEF IInv, IndexIsExact
  <2>2. /\ current.database \in DOMAIN shown \cup {NoId}
        /\ current.cache \in DOMAIN nodes \cup {NoNode}
    BY <1>1 DEF ItemInv, CurrentOK
  <2>3. editor.node # NoNode => editor.node \in DOMAIN nodes /\ IsEditable(editor.node)
    BY <1>1 DEF ItemInv, EditorLive
  <2> QED BY <2>1, <2>2, <2>3 DEF ItemsAreLive, SelectedId
<1> QED BY <1>1, ItemInvariant, PTL

\* An enabled command has an object to work on, and saving is offered
\* whenever there is something to save.
THEOREM ButtonsStayHonest == WindowSpec => []ButtonsAreHonest
<1>1. ItemInv /\ ForestIsSound => ButtonsAreHonest
  BY ButtonsFollowing DEF ItemInv
<1>2. WindowSpec => []ForestIsSound
  BY WindowImplementsCache, ForestStaysSound DEF CacheSpec
<1> QED BY <1>1, <1>2, ItemInvariant, PTL

-----------------------------------------------------------------------------
(***************************************************************************)
(* Pictures.                                                               *)
(***************************************************************************)
\* What is on the screen is what would be painted now.
PaintedNow == painted = [database |-> DatabasePictures, cache |-> CachePictures]

\* An edit changes the picture of its node alone.
LEMMA EditedPictures ==
    ASSUME TypeOK, NEW id, NEW payload \in Payload, EditPayload(id, payload)
    PROVE  CachePictures' = [CachePictures EXCEPT ![FindNode(id)] = CachePictures'[FindNode(id)]]
<1> DEFINE n == FindNode(id)
<1>1. id \in DOMAIN index
  BY SuccessIds DEF EditPayload
<1>2. /\ DOMAIN nodes' = DOMAIN nodes
      /\ \A h \in DOMAIN nodes :
            /\ nodes'[h].hasUnloadedChildren = nodes[h].hasUnloadedChildren
            /\ h # n => /\ nodes'[h].payload = nodes[h].payload
                        /\ nodes'[h].status = nodes[h].status
  BY <1>1, EditPayloadEffect
<1> HIDE DEF n
<1>3. CachePictures' =
         [h \in DOMAIN nodes |->
             Paint(nodes'[h].payload, nodes'[h].status, nodes'[h].hasUnloadedChildren)]
  BY <1>2 DEF CachePictures
<1>4. \A h \in DOMAIN nodes : h # n => CachePictures'[h] = CachePictures[h]
  BY <1>2, <1>3 DEF CachePictures
<1>5. DOMAIN CachePictures = DOMAIN nodes
  BY DEF CachePictures
<1>6. CachePictures' = [h \in DOMAIN nodes |-> IF h = n THEN CachePictures'[n] ELSE CachePictures[h]]
  BY <1>3, <1>4
<1> QED BY <1>5, <1>6 DEF n

LEMMA NotifiedEdit ==
    ASSUME TypeOK, PaintedNow, UNCHANGED shown, NEW id, NEW payload \in Payload,
           \/ EditPayload(id, payload) /\ NotifyNodeChanged(id)
           \/ Refused(ChangeResult(id)) /\ UNCHANGED painted
    PROVE  PaintedNow'
<1>1. DatabasePictures' = DatabasePictures
  BY DEF DatabasePictures
<1>2. CASE EditPayload(id, payload) /\ NotifyNodeChanged(id)
  <2>1. painted' = [painted EXCEPT !.cache[FindNode(id)] = CachePictures'[FindNode(id)]]
    BY <1>2 DEF NotifyNodeChanged
  <2>2. CachePictures' = [CachePictures EXCEPT ![FindNode(id)] = CachePictures'[FindNode(id)]]
    BY <1>2, EditedPictures
  <2> DEFINE new == [CachePictures EXCEPT ![FindNode(id)] = CachePictures'[FindNode(id)]]
  <2>3. painted' = [database |-> DatabasePictures, cache |-> new]
    BY <2>1 DEF PaintedNow
  <2> QED BY <1>1, <2>2, <2>3 DEF PaintedNow
<1>3. CASE Refused(ChangeResult(id)) /\ UNCHANGED painted
  <2>1. CachePictures' = CachePictures
    BY <1>3 DEF Refused, CachePictures, vars, cacheVars
  <2> QED BY <1>1, <1>3, <2>1 DEF PaintedNow
<1> QED BY <1>2, <1>3

LEMMA PaintedStep ==
    ASSUME TypeOK, EditorLive, PaintedNow, [WindowNext]_allVars
    PROVE  PaintedNow'
<1>1. CASE UNCHANGED <<painted, shown, nodes>>
  BY <1>1 DEF PaintedNow, DatabasePictures, CachePictures
<1>2. CASE RefreshCache
  <2>1. DatabasePictures' = DatabasePictures
    BY <1>2 DEF RefreshCache, DatabasePictures
  <2>2. painted' = [database |-> DatabasePictures, cache |-> CachePictures']
    BY <1>2 DEF RefreshCache, PaintedNow
  <2> QED BY <2>1, <2>2 DEF PaintedNow
<1>3. CASE RefreshViews
  BY <1>3 DEF RefreshViews, PaintedNow
<1>4. ASSUME NEW payload \in Payload, OnEditPayload(payload)
      PROVE  PaintedNow'
  <2>1. UNCHANGED shown
    BY <1>4 DEF OnEditPayload
  <2>2. \/ EditPayload(SelectedId, payload) /\ NotifyNodeChanged(SelectedId)
        \/ Refused(ChangeResult(SelectedId)) /\ UNCHANGED painted
    BY <1>4 DEF OnEditPayload
  <2> QED BY <2>1, <2>2, NotifiedEdit
<1>5. CASE CommitEditor
  <2> DEFINE id == nodes[editor.node].id
  <2>1. UNCHANGED shown /\ editor.text \in Payload
    BY <1>5 DEF CommitEditor, EditorLive
  <2>2. \/ EditPayload(id, editor.text) /\ NotifyNodeChanged(id)
        \/ Refused(ChangeResult(id)) /\ UNCHANGED painted
    BY <1>5 DEF CommitEditor
  <2> HIDE DEF id
  <2> QED BY <2>1, <2>2, NotifiedEdit
<1> QED
  BY <1>1, <1>2, <1>3, <1>4, <1>5
     DEF WindowNext, SelectInDatabase, SelectInCache, FocusDatabase, FocusCache, OnLoadToCache,
         OnAddChild, OnRemove, OnApplyToDatabase, OnReset, OpenEditor, TypeInEditor, CancelEditor,
         allVars, windowVars, vars, cacheVars

\* What a fresh picture tells of an element.
LEMMA PaintTells ==
    ASSUME NEW payload, NEW status \in Status, NEW mark \in BOOLEAN
    PROVE  LET picture == Paint(payload, status, mark)
           IN  /\ Signs(picture, payload, status)
               /\ picture.ellipsis = mark
               /\ picture.color = "palette" <=> status = "Unchanged"
<1>1. ColorForStatus(status) = IF status = "New" THEN "green"
                               ELSE IF status = "Modified" THEN "orange"
                               ELSE IF status = "Deleted" THEN "grey" ELSE "palette"
  BY DEF ColorForStatus, Status
<1> QED BY <1>1 DEF Paint, Status, Signs

LEMMA DatabasePainted ==
    ASSUME TypeOK, LeftViewIsUpToDate, PaintedNow, NEW id \in DOMAIN records
    PROVE  Signs(painted.database[id], records[id].payload,
                 IF records[id].deleted THEN "Deleted" ELSE "Unchanged")
<1> DEFINE status == IF records[id].deleted THEN "Deleted" ELSE "Unchanged"
<1>1. painted.database[id] = Paint(records[id].payload, status, FALSE)
  BY DEF PaintedNow, DatabasePictures, LeftViewIsUpToDate
<1>2. status \in Status
  BY DEF Status
<1> HIDE DEF status
<1>3. Signs(Paint(records[id].payload, status, FALSE), records[id].payload, status)
  <2>1. FALSE \in BOOLEAN
    OBVIOUS
  <2> QED BY <1>2, <2>1, PaintTells, Zenon
<1> QED BY <1>1, <1>3 DEF status

LEMMA CachePainted ==
    ASSUME TypeOK, PaintedNow, NEW h \in DOMAIN nodes
    PROVE  /\ Signs(painted.cache[h], nodes[h].payload, nodes[h].status)
           /\ painted.cache[h].ellipsis = nodes[h].hasUnloadedChildren
           /\ painted.cache[h].color = "palette" <=> nodes[h].status = "Unchanged"
<1>1. painted.cache[h] = Paint(nodes[h].payload, nodes[h].status, nodes[h].hasUnloadedChildren)
  BY DEF PaintedNow, CachePictures
<1>2. nodes[h].status \in Status /\ nodes[h].hasUnloadedChildren \in BOOLEAN
  BY NodesFunction DEF TypeOK, TreeNode
<1> QED BY <1>1, <1>2, PaintTells

\* Pictures of the present data tell the truth as far as the data agree with
\* each other: the mark of unloaded children with the database, an unchanged
\* element with its record, and the ids with the statuses.
LEMMA PaintedIsTrue ==
    ASSUME TypeOK, LeftViewIsUpToDate, PaintedNow,
           EllipsisIsTruthful, UnchangedMatchesDatabase, IInv
    PROVE  PicturesAreTrue
<1>1. /\ DOMAIN painted.database = DOMAIN records
      /\ DOMAIN painted.cache = DOMAIN nodes
  BY DEF PaintedNow, DatabasePictures, CachePictures, LeftViewIsUpToDate
<1>2. ASSUME NEW h \in DOMAIN nodes
      PROVE  LET right == painted.cache[h]
                 id    == nodes[h].id
             IN  /\ Signs(right, nodes[h].payload, nodes[h].status)
                 /\ right.ellipsis =>
                       RecordsUnder(id) # {} /\ RecordsUnder(id) \cap DOMAIN index = {}
                 /\ right.color = "palette" =>
                       /\ id \in DOMAIN painted.database
                       /\ \/ painted.database[id].text = right.text
                          \/ painted.database[id].strikeOut
                 /\ right.color = "green" => id \notin DOMAIN painted.database
  <2> DEFINE right == painted.cache[h]
             id    == nodes[h].id
  <2>1. /\ Signs(right, nodes[h].payload, nodes[h].status)
        /\ right.ellipsis = nodes[h].hasUnloadedChildren
        /\ right.color = "palette" <=> nodes[h].status = "Unchanged"
    BY CachePainted
  <2>2. right.text = nodes[h].payload /\ (right.color = "green" <=> nodes[h].status = "New")
    BY <2>1 DEF Signs
  <2>3. right.ellipsis => RecordsUnder(id) # {} /\ RecordsUnder(id) \cap DOMAIN index = {}
    BY <2>1 DEF EllipsisIsTruthful, RecordsUnder
  <2>4. /\ nodes[h].status = "New" => id \notin DOMAIN records
        /\ nodes[h].status = "Unchanged" => id \in DOMAIN records
    BY DEF IInv, KnownIds
  <2>5. ASSUME nodes[h].status = "Unchanged"
        PROVE  painted.database[id].text = right.text \/ painted.database[id].strikeOut
    <3>1. id \in DOMAIN records
      BY <2>4, <2>5
    <3>2. /\ painted.database[id].text = records[id].payload
          /\ records[id].deleted => painted.database[id].strikeOut
      BY <3>1, DatabasePainted DEF Signs
    <3>3. ~records[id].deleted => records[id].payload = nodes[h].payload
      BY <2>5 DEF UnchangedMatchesDatabase, NodesIn
    <3> QED BY <2>2, <3>2, <3>3
  <2> HIDE DEF right, id
  <2>6. /\ right.color = "palette" =>
              /\ id \in DOMAIN painted.database
              /\ painted.database[id].text = right.text \/ painted.database[id].strikeOut
        /\ right.color = "green" => id \notin DOMAIN painted.database
    BY <1>1, <2>1, <2>2, <2>4, <2>5
  <2> QED BY <2>1, <2>3, <2>6 DEF right, id
<1>3. \A id \in DOMAIN records :
         Signs(painted.database[id], records[id].payload,
               IF records[id].deleted THEN "Deleted" ELSE "Unchanged")
  BY DatabasePainted
<1> QED BY <1>1, <1>2, <1>3 DEF PicturesAreTrue

\* What the user sees is so, although an edit repaints one row only, and the
\* two views agree with each other.
THEOREM PicturesStayTrue == WindowSpec => []PicturesAreTrue
<1>1. WindowInit => PaintedNow
  BY DEF WindowInit, PaintedNow
<1>2. IInv /\ ItemInv /\ PaintedNow /\ [WindowNext]_allVars => PaintedNow'
  BY PaintedStep DEF IInv, ItemInv
<1>3. IInv /\ LeftViewIsUpToDate /\ PaintedNow /\ EllipsisIsTruthful /\ UnchangedMatchesDatabase
         => PicturesAreTrue
  BY PaintedIsTrue DEF IInv
<1>4. WindowSpec => []EllipsisIsTruthful /\ []UnchangedMatchesDatabase
  BY WindowImplementsCache, EllipsisStaysTruthful, UnchangedIsTrue DEF CacheSpec
<1> QED BY <1>1, <1>2, <1>3, <1>4, ItemInvariant, LeftViewStaysUpToDate, PTL DEF WindowSpec

-----------------------------------------------------------------------------
(***************************************************************************)
(* Deleted elements.                                                       *)
(***************************************************************************)
\* A node that keeps everything but its place and its mark.
LEMMA SameButPlace ==
    ASSUME NEW r \in TreeNode, NEW s \in TreeNode,
           r.id = s.id, r.parentId = s.parentId, r.payload = s.payload, r.status = s.status
    PROVE  r = [s EXCEPT !.parent = r.parent, !.hasUnloadedChildren = r.hasUnloadedChildren]
BY DEF TreeNode

\* A step that hangs another child under a deleted element takes one of the
\* database, which stays as it is.
NewUnderDeleted ==
    \A h \in NodesIn("Deleted")' : \A c \in ChildrenOf(h)' \ ChildrenOf(h) :
        records' = records /\ nodes'[c].id \in DOMAIN records

LEMMA FrozenNodes ==
    ASSUME TypeOK, IInv',
           \A h \in NodesIn("Deleted") :
              /\ h \in DOMAIN nodes'
              /\ nodes'[h].id = nodes[h].id
              /\ nodes'[h].parentId = nodes[h].parentId
              /\ nodes'[h].payload = nodes[h].payload
              /\ nodes'[h].status = nodes[h].status,
           NewUnderDeleted
    PROVE  Frozen
<1>1. ASSUME NEW h \in NodesIn("Deleted")
      PROVE  nodes'[h] = [nodes[h] EXCEPT
                !.parent = nodes'[h].parent, !.hasUnloadedChildren = nodes'[h].hasUnloadedChildren]
  <2>1. nodes[h] \in TreeNode
    BY NodesFunction DEF TypeOK, NodesIn
  <2>2. nodes'[h] \in TreeNode
    BY DEF IInv, TypeOK, CacheTypeOK
  <2>3. /\ nodes'[h].id = nodes[h].id /\ nodes'[h].parentId = nodes[h].parentId
        /\ nodes'[h].payload = nodes[h].payload /\ nodes'[h].status = nodes[h].status
    OBVIOUS
  <2> QED BY <2>1, <2>2, <2>3, SameButPlace, Zenon
<1>2. ASSUME NEW h \in NodesIn("Deleted")', NEW c \in ChildrenOf(h)' \ ChildrenOf(h)
      PROVE  nodes'[c].id \in RecordsUnder(nodes'[h].id)
  <2>1. /\ records' = records /\ nodes'[c].id \in DOMAIN records
        /\ c \in DOMAIN nodes' /\ nodes'[c].parent = h
    BY <1>2 DEF NewUnderDeleted, ChildrenOf
  <2>2. h \in DOMAIN nodes' /\ 0 \notin DOMAIN nodes'
    BY <1>2 DEF NodesIn, IInv, TypeOK, CacheTypeOK
  <2>3. h = IF records'[nodes'[c].id].parentId \in DOMAIN index'
            THEN index'[records'[nodes'[c].id].parentId] ELSE 0
    BY <2>1 DEF IInv, HierarchyMatchesDatabase, FindNode, NoNode
  <2>4. nodes'[h].id = records'[nodes'[c].id].parentId
    BY <2>2, <2>3 DEF IInv, IndexIsExact
  <2> QED BY <2>1, <2>4 DEF RecordsUnder
<1> QED BY <1>1, <1>2 DEF Frozen

\* Steps that leave every element where it hangs.
LEMMA NothingNewUnder ==
    ASSUME DOMAIN nodes' = DOMAIN nodes,
           \A h \in DOMAIN nodes : nodes'[h].parent = nodes[h].parent
    PROVE  NewUnderDeleted
BY DEF NewUnderDeleted, ChildrenOf

LEMMA LoadFreezes ==
    ASSUME IInv, IInv', NEW id \in DOMAIN records, LoadFromDatabase(id)
    PROVE  Frozen
<1> DEFINE raw     == Len(nodes) + 1
           orphans == Orphans(id)
<1>1. /\ DOMAIN nodes' = DOMAIN nodes \cup {raw}
      /\ nodes'[raw].id = id
      /\ \A h \in DOMAIN nodes :
            /\ nodes'[h].id = nodes[h].id
            /\ nodes'[h].parentId = nodes[h].parentId
            /\ nodes'[h].payload = nodes[h].payload
            /\ nodes'[h].status = nodes[h].status
            /\ nodes'[h].parent = IF h \in orphans THEN raw ELSE nodes[h].parent
      /\ UNCHANGED records
  BY LoadEffect DEF IInv
<1>2. ASSUME NEW c \in orphans
      PROVE  c \in DOMAIN nodes /\ nodes[c].id \in DOMAIN records
  BY <1>2 DEF Orphans, IInv, Links
<1> HIDE DEF raw, orphans
<1>3. NewUnderDeleted
  BY <1>1, <1>2 DEF NewUnderDeleted, ChildrenOf
<1> QED BY <1>1, <1>3, FrozenNodes DEF IInv, NodesIn

LEMMA AddChildFreezes ==
    ASSUME IInv, IInv', NEW id \in DOMAIN index, NEW payload \in Payload, AddChild(id, payload)
    PROVE  Frozen
<1> DEFINE new == Len(nodes) + 1
<1>1. /\ DOMAIN nodes' = DOMAIN nodes \cup {new}
      /\ FindNode(id) \in DOMAIN nodes
      /\ nodes[FindNode(id)].status # "Deleted"
      /\ nodes'[new].parent = FindNode(id)
      /\ \A h \in DOMAIN nodes :
            /\ nodes'[h].id = nodes[h].id
            /\ nodes'[h].parentId = nodes[h].parentId
            /\ nodes'[h].payload = nodes[h].payload
            /\ nodes'[h].status = nodes[h].status
            /\ nodes'[h].parent = nodes[h].parent
      /\ UNCHANGED records
  BY AddChildEffect DEF IInv
<1> HIDE DEF new
<1>2. NewUnderDeleted
  BY <1>1 DEF NewUnderDeleted, ChildrenOf, NodesIn
<1> QED BY <1>1, <1>2, FrozenNodes DEF IInv, NodesIn

LEMMA CallsFreeze ==
    ASSUME IInv, IInv',
           \/ \E id \in DOMAIN records : LoadFromDatabase(id)
           \/ \E id \in DOMAIN index, payload \in Payload :
                 AddChild(id, payload) \/ EditPayload(id, payload)
           \/ \E id \in DOMAIN index : Remove(id)
           \/ Apply
           \/ UNCHANGED <<nodes, records>>
    PROVE  Frozen
<1>1. TypeOK /\ IndexIsExact /\ KnownIds
  BY DEF IInv
<1>2. ASSUME NEW id \in DOMAIN records, LoadFromDatabase(id)
      PROVE  Frozen
  BY <1>2, LoadFreezes
<1>3. ASSUME NEW id \in DOMAIN index, NEW payload \in Payload, AddChild(id, payload)
      PROVE  Frozen
  BY <1>3, AddChildFreezes
<1>4. ASSUME NEW id \in DOMAIN index, NEW payload \in Payload, EditPayload(id, payload)
      PROVE  Frozen
  BY <1>1, <1>4, EditPayloadEffect, NothingNewUnder, FrozenNodes DEF NodesIn
<1>5. ASSUME NEW id \in DOMAIN index, Remove(id)
      PROVE  Frozen
  BY <1>1, <1>5, RemoveEffect, NothingNewUnder, FrozenNodes DEF NodesIn
<1>6. CASE Apply
  <2>1. PICK order \in CreationOrders : Synced(order)
    BY <1>6 DEF Apply, Synced
  <2>2. /\ DOMAIN nodes' = DOMAIN nodes
        /\ \A h \in DOMAIN nodes :
              /\ nodes'[h].parentId = nodes[h].parentId
              /\ nodes'[h].parent = nodes[h].parent
              /\ nodes'[h].payload = nodes[h].payload
              /\ nodes'[h].status = SyncedStatus(nodes[h].status)
              /\ h \notin NodesIn("New") => nodes'[h].id = nodes[h].id
    BY <1>1, <2>1, ReconcileEffect
  <2> QED BY <1>1, <2>2, NothingNewUnder, FrozenNodes DEF NodesIn, SyncedStatus
<1>7. CASE UNCHANGED <<nodes, records>>
  BY <1>1, <1>7, NothingNewUnder, FrozenNodes DEF NodesIn
<1> QED BY <1>2, <1>3, <1>4, <1>5, <1>6, <1>7

LEMMA FrozenStep ==
    ASSUME IInv, IInv', EditorLive, WindowNext, ~OnReset
    PROVE  Frozen
<1>1. ASSUME NEW id, LoadFromDatabase(id)
      PROVE  Frozen
  BY <1>1, SuccessIds, CallsFreeze DEF LoadFromDatabase
<1>2. ASSUME NEW id, NEW payload \in Payload, AddChild(id, payload)
      PROVE  Frozen
  BY <1>2, SuccessIds, CallsFreeze DEF AddChild
<1>3. ASSUME NEW id, NEW payload \in Payload, EditPayload(id, payload)
      PROVE  Frozen
  BY <1>3, SuccessIds, CallsFreeze DEF EditPayload
<1>4. ASSUME NEW id, Remove(id)
      PROVE  Frozen
  BY <1>4, SuccessIds, CallsFreeze DEF Remove
<1>5. CASE Apply
  BY <1>5, CallsFreeze
<1>6. CASE UNCHANGED <<nodes, records>>
  BY <1>6, CallsFreeze
<1>7. editor.text \in Payload
  BY DEF EditorLive
<1> QED
  BY <1>1, <1>2, <1>3, <1>4, <1>5, <1>6, <1>7
     DEF WindowNext, SelectInDatabase, SelectInCache, FocusDatabase, FocusCache, OnLoadToCache,
         OnAddChild, OnEditPayload, OnRemove, OnApplyToDatabase, OpenEditor, TypeInEditor,
         CommitEditor, CancelEditor, Refused, vars, cacheVars, dbVars

\* Short of a reset, no button, menu or editor changes the text of a deleted
\* element, takes its mark away or creates a child under it: what comes to
\* hang there is a child it has in the database, by loading.
THEOREM DeletedAreFrozen == WindowSpec => DeletedStaysFrozen
<1>1. IInv /\ IInv' /\ ItemInv /\ [WindowNext]_allVars => [~OnReset => Frozen]_allVars
  BY FrozenStep DEF IInv, ItemInv
<1> QED BY <1>1, ItemInvariant, PTL DEF WindowSpec, DeletedStaysFrozen

=============================================================================
