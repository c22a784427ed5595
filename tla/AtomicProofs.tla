---------------------------- MODULE AtomicProofs -----------------------------
(***************************************************************************)
(* How far each call has come from what was there before it.  The calls on *)
(* one element, loading, removing and resetting, executed step by step,    *)
(* are for their user the one step that TreeCache takes for them.          *)
(***************************************************************************)
EXTENDS CallsProofs

-----------------------------------------------------------------------------
(***************************************************************************)
(* What holds of the program, as TreeCache sees it, between two calls.  s  *)
(* is a record like Now or before.                                         *)
(***************************************************************************)
Node ==
    [id : Nat, parentId : Nat, payload : Payload,
     status : {"New", "Modified", "Deleted", "Unchanged"},
     hasUnloadedChildren : BOOLEAN, parent : Nat]

UpIn(s) == [h \in DOMAIN s.nodes |-> s.nodes[h].parent]

Whole(s) ==
    /\ s.nextId \in 1..(MaxId + 1)
    /\ s.records \in [1..(s.nextId - 1) -> Record]
    /\ s.nodes \in Seq(Node)
    /\ s.roots = {h \in DOMAIN s.nodes : s.nodes[h].parent = NoNode}
    /\ \A h \in DOMAIN s.nodes : s.nodes[h].parent \in {NoNode} \cup DOMAIN s.nodes
    /\ s.index \in Table
    /\ Exact(s.nodes, s.index)
    /\ s.nextTemporaryId \in TempBase..(TempBase + MaxTemp)
    /\ GivenOnce(s.index, s.nextId, s.nextTemporaryId)

\* Ids grow downwards, in the database and in the cache, and a new element
\* hangs under one that will be in the database before it.
RowsDescend(rows) == \A id \in DOMAIN rows : rows[id].parentId < id

Hangs(ns, h) ==
    LET node == ns[h]
        up   == ns[node.parent]
    IN  /\ node.status \in {"Unchanged", "Modified"} => node.id < TempBase
        /\ node.parent = NoNode => node.parentId < node.id
        /\ node.parent # NoNode => up.id < node.id
        /\ node.status = "New" => /\ node.id >= TempBase
                                  /\ node.parent # NoNode
                                  /\ node.parentId = up.id
                                  /\ up.status # "Deleted"

Descending(s) == RowsDescend(s.records) /\ \A h \in DOMAIN s.nodes : Hangs(s.nodes, h)

Stable(s) == Whole(s) /\ Descending(s)

\* The calls that change one part only leave the others as they were.
SameDatabase == records = before.records /\ nextId = before.nextId

SameCache ==
    /\ Now.nodes = before.nodes
    /\ Now.roots = before.roots
    /\ index = before.index
    /\ nextTemporaryId = before.nextTemporaryId

\* The fields in which an object is as it was.
Kept(h, fields) == \A f \in fields : objects[h][f] = before.nodes[h][f]

Elements(list) == {list[i] : i \in DOMAIN list}

-----------------------------------------------------------------------------
(***************************************************************************)
(* How far a call has come.                                                *)
(***************************************************************************)
OrphansOf(s, id) == {h \in DOMAIN s.nodes : s.nodes[h].parent = NoNode /\ s.nodes[h].parentId = id}

FoundIn(s, id) == IF id \in DOMAIN s.index THEN s.index[id] ELSE NoNode

\* loadFromDatabase has put the node raw into the cache for a record, and has
\* adopted the orphans whose ids are no more on the stack.
LoadingNode(raw, id) ==
    LET row == before.records[id]
    IN  /\ raw = Len(before.nodes) + 1 /\ Len(objects) = raw
        /\ SameDatabase
        /\ nextTemporaryId = before.nextTemporaryId
        /\ id \in DOMAIN before.records \ DOMAIN before.index
        /\ index = Emplace(before.index, id, raw)
        /\ call.node = raw
        /\ call.parent = FoundIn(before, row.parentId)
        /\ call.hasChildren = \E c \in DOMAIN records : records[c].parentId = id
        /\ objects[raw].id = id
        /\ objects[raw].parentId = row.parentId
        /\ objects[raw].payload = row.payload
        /\ objects[raw].status = IF row.deleted THEN "Deleted" ELSE "Unchanged"
        /\ objects[raw].parent = call.parent
        /\ \A e \in Elements(call.stack) :
              \E h \in OrphansOf(before, id) : before.nodes[h].id = e
        /\ \A h \in DOMAIN before.nodes :
              /\ Kept(h, {"id", "parentId", "payload", "status", "hasUnloadedChildren"})
              /\ objects[h].parent =
                    IF h \in OrphansOf(before, id) /\ before.nodes[h].id \notin Elements(call.stack)
                    THEN raw ELSE before.nodes[h].parent

Loading == LoadingNode(call.node, objects[call.node].id)

\* The walk of remove has marked these nodes of a subtree.
Marking(top, marked) ==
    /\ SameDatabase
    /\ index = before.index
    /\ nextTemporaryId = before.nextTemporaryId
    /\ DOMAIN objects = DOMAIN before.nodes
    /\ \A h \in DOMAIN objects :
          /\ Kept(h, {"id", "parentId", "payload", "hasUnloadedChildren", "parent"})
          /\ objects[h].status = IF h \in marked THEN "Deleted" ELSE before.nodes[h].status
          /\ objects[h].parent \in marked => h \in marked \cup Elements(call.stack)
    /\ top \in marked \cup Elements(call.stack)
    /\ marked \cup Elements(call.stack) \subseteq Below(UpIn(before), {top})

\* reset has inserted the first rows of the seed.
Seeding ==
    /\ objects = << >> /\ rootList = << >> /\ index = << >> /\ nextTemporaryId = TempBase
    /\ \A id \in DOMAIN records :
          /\ id <= Len(SeedRows)
          /\ records[id] = [parentId |-> SeedRows[id].parentId,
                            payload |-> SeedRows[id].payload, deleted |-> FALSE]

-----------------------------------------------------------------------------
(***************************************************************************)
(* How far a synchronisation has come.                                     *)
(***************************************************************************)
WithStatus(s, status) == {h \in DOMAIN s.nodes : s.nodes[h].status = status}

ChangeOf(node) == [id |-> node.id, parentId |-> node.parentId, payload |-> node.payload]

\* The list holds the changes of these nodes.
Lists(list, S) ==
    /\ \A i \in DOMAIN list : \E h \in S : list[i] = ChangeOf(before.nodes[h])
    /\ \A h \in S : \E i \in DOMAIN list : list[i] = ChangeOf(before.nodes[h])

\* The list holds the changes of the nodes of another list.
Follows(list, order) ==
    /\ Len(list) = Len(order)
    /\ \A i \in DOMAIN order : list[i] = ChangeOf(before.nodes[order[i]])

\* VisitedBefore of SyncService.
Precedes(up, a, b) ==
    /\ b \notin Path(up, a)
    /\ \A x \in Path(up, a), y \in Path(up, b) : up[x] = up[y] => x <= y

InOrder(up, s) == \A i, j \in DOMAIN s : i < j => Precedes(up, s[i], s[j])

\* A walk has visited some nodes and has these left on its stack.
WalkOrder(up, visited, stack) ==
    /\ \A v \in visited : up[v] \in visited \cup {NoNode}
    /\ \A i \in DOMAIN stack : /\ stack[i] \in DOMAIN up \ visited
                               /\ up[stack[i]] \in visited \cup {NoNode}
    /\ \A i \in DOMAIN stack : \A v \in visited : Precedes(up, v, stack[i])
    /\ InOrder(up, stack)
    /\ \A a \in visited \cup Elements(stack) :
          /\ Path(up, a) \subseteq visited \cup {a}
          /\ \A x, y \in Path(up, a) : up[x] = up[y] => x = y
    /\ \A c \in DOMAIN up : up[c] \in visited \cup {NoNode} => c \in visited \cup Elements(stack)

\* The new nodes among those visited, in the order of the walk.
OrderOf(order, S) ==
    /\ order \in Seq(S)
    /\ \A h \in S : \E i \in DOMAIN order : order[i] = h
    /\ \A i, j \in DOMAIN order : order[i] = order[j] => i = j
    /\ InOrder(UpIn(before), order)

Room == before.nextId + Cardinality(WithStatus(before, "New")) <= MaxId + 1

NothingAssigned == call.temporaryToPersistent = << >> /\ call.assignedIds = << >>

Collecting(visited, order) ==
    /\ SameDatabase
    /\ SameCache
    /\ Room
    /\ NothingAssigned
    /\ visited \subseteq DOMAIN before.nodes
    /\ WalkOrder(UpIn(before), visited, call.stack)
    /\ OrderOf(order, visited \cap WithStatus(before, "New"))
    /\ Follows(call.created, order)
    /\ Lists(call.modified, visited \cap WithStatus(before, "Modified"))
    /\ Lists(call.deleted, visited \cap WithStatus(before, "Deleted"))

\* The order of all creations is known once the walk is over.
Ordered(order) == Room /\ OrderOf(order, WithStatus(before, "New"))

\* MappedParent of InMemoryDatabase.
ParentOf(order, i) ==
    LET given   == before.nodes[order[i]].parentId
        earlier == {j \in 1..(i - 1) : before.nodes[order[j]].id = given}
    IN  IF earlier = {} THEN given
        ELSE before.nextId + (CHOOSE j \in earlier : \A k \in earlier : j <= k) - 1

CreatedRow(order, id) ==
    LET i == id - before.nextId + 1
    IN  IF id < before.nextId THEN before.records[id]
        ELSE [parentId |-> ParentOf(order, i), payload |-> before.nodes[order[i]].payload,
              deleted |-> FALSE]

IdsWith(status) == {before.nodes[h].id : h \in WithStatus(before, status)}

TextFor(id) ==
    before.nodes[CHOOSE h \in WithStatus(before, "Modified") : before.nodes[h].id = id].payload

ModifiedRow(order, id) ==
    LET row == CreatedRow(order, id)
    IN  IF id \in IdsWith("Modified") /\ ~row.deleted
        THEN [row EXCEPT !.payload = TextFor(id)] ELSE row

DeletedRow(order, marked, id) ==
    [ModifiedRow(order, id) EXCEPT !.deleted = @ \/ id \in marked]

AssignmentOf(order, j) ==
    [temporaryId |-> before.nodes[order[j]].id, persistentId |-> before.nextId + j - 1]

\* The first of the assignments are made, and those after them are left.
FirstAssigned(list, order, done) ==
    Len(list) = done /\ \A j \in 1..done : list[j] = AssignmentOf(order, j)

LeftAssigned(list, order, done) ==
    /\ Len(list) = Len(order) - done
    /\ \A i \in 1..(Len(order) - done) : list[i] = AssignmentOf(order, done + i)

\* The table knows the persistent ids of the first new nodes.
Maps(table, order, done) ==
    /\ DOMAIN table = {before.nodes[order[j]].id : j \in 1..done}
    /\ \A j \in 1..done : table[before.nodes[order[j]].id] = before.nextId + j - 1

LeftCreated(list, order, done) ==
    /\ Len(list) = Len(order) - done
    /\ \A i \in 1..(Len(order) - done) : list[i] = ChangeOf(before.nodes[order[done + i]])

\* The first done of the new nodes are inserted.
Inserting(order, done) ==
    /\ SameCache
    /\ call.stack = << >>
    /\ Ordered(order)
    /\ done \in 0..Len(order) /\ nextId = before.nextId + done
    /\ LeftCreated(call.created, order, done)
    /\ Lists(call.modified, WithStatus(before, "Modified"))
    /\ Lists(call.deleted, WithStatus(before, "Deleted"))
    /\ Maps(call.temporaryToPersistent, order, done)
    /\ FirstAssigned(call.assignedIds, order, done)
    /\ \A id \in DOMAIN records : records[id] = CreatedRow(order, id)

Inserted(order) ==
    /\ Ordered(order)
    /\ nextId = before.nextId + Len(order)
    /\ LeftAssigned(call.assignedIds, order, 0)

Modifying(order) ==
    /\ SameCache
    /\ call.stack = << >>
    /\ Inserted(order)
    /\ \A i \in DOMAIN call.modified :
          \E h \in WithStatus(before, "Modified") : call.modified[i] = ChangeOf(before.nodes[h])
    /\ Lists(call.deleted, WithStatus(before, "Deleted"))
    /\ \A id \in DOMAIN records :
          \/ records[id] = ModifiedRow(order, id)
          \/ /\ records[id] = CreatedRow(order, id)
             /\ \E i \in DOMAIN call.modified : call.modified[i].id = id

\* A walk from these ids has marked some records and has left these to visit
\* and these to begin with.
Reached(rows, ids, marked, left, waiting) ==
    /\ \A id \in DOMAIN rows : rows[id].parentId \in marked => id \in marked \cup left
    /\ ids \cap DOMAIN rows \subseteq marked \cup left \cup waiting
    /\ (marked \cup left) \cap DOMAIN rows \subseteq Below(ParentIn(rows), ids)
    /\ marked \subseteq DOMAIN rows

IdsOf(list) == {list[i].id : i \in DOMAIN list}

Deleting(order, marked) ==
    /\ SameCache
    /\ Inserted(order)
    /\ IdsOf(call.deleted) \subseteq IdsWith("Deleted")
    /\ \A id \in DOMAIN records : records[id] = DeletedRow(order, marked, id)
    /\ Reached(records, IdsWith("Deleted"), marked, Elements(call.stack), IdsOf(call.deleted))

\* The rows are those TreeCache writes.
Written(order) ==
    /\ Ordered(order)
    /\ nextId = before.nextId + Len(order)
    /\ \A id \in DOMAIN records :
          records[id] = DeletedRow(order, Below(ParentIn(records), IdsWith("Deleted")), id)

\* The first done of the new nodes have their new ids.
Renaming(order, done) ==
    /\ nextTemporaryId = before.nextTemporaryId
    /\ DOMAIN objects = DOMAIN before.nodes
    /\ \A h \in DOMAIN objects :
          /\ Kept(h, {"parentId", "payload", "hasUnloadedChildren", "parent"})
          /\ (\A j \in 1..done : order[j] # h) => Kept(h, {"id"})
    /\ \A j \in 1..done : objects[order[j]].id = before.nextId + j - 1

Reassigning(order, done) ==
    /\ Written(order)
    /\ done \in 0..Len(order)
    /\ LeftAssigned(call.assignedIds, order, done)
    /\ Renaming(order, done)
    /\ \A h \in DOMAIN objects : Kept(h, {"status"})

Reconciled(status) == IF status \in {"New", "Modified"} THEN "Unchanged" ELSE status

Marked(order, visited) ==
    /\ Written(order)
    /\ Renaming(order, Len(order))
    /\ visited \subseteq DOMAIN before.nodes
    /\ \A h \in DOMAIN objects :
          /\ objects[h].status = IF h \in visited THEN Reconciled(before.nodes[h].status)
                                 ELSE before.nodes[h].status
          /\ objects[h].parent \in visited \cup {NoNode} => h \in visited \cup Elements(call.stack)

Progress ==
    /\ call.at = "adopt" => Loading
    /\ call.at = "remove" =>
          \E top \in DOMAIN before.nodes, marked \in SUBSET DOMAIN before.nodes :
              Marking(top, marked)
    /\ call.at = "seed" => Seeding
    /\ call.at = "collect" =>
          \E visited \in SUBSET DOMAIN before.nodes, order \in Seq(DOMAIN before.nodes) :
              Collecting(visited, order)
    /\ call.at = "insert" =>
          \E order \in Seq(DOMAIN before.nodes) : Inserting(order, nextId - before.nextId)
    /\ call.at = "modify" => \E order \in Seq(DOMAIN before.nodes) : Modifying(order)
    /\ call.at = "delete" =>
          \E order \in Seq(DOMAIN before.nodes), marked \in SUBSET DOMAIN records :
              Deleting(order, marked)
    /\ call.at = "reassign" =>
          \E order \in Seq(DOMAIN before.nodes) :
              Reassigning(order, Len(order) - Len(call.assignedIds))
    /\ call.at = "sync" =>
          \E visited \in SUBSET DOMAIN before.nodes, order \in Seq(DOMAIN before.nodes) :
              Marked(order, visited)

AtomicInv == Stable(Seen) /\ Progress

-----------------------------------------------------------------------------
(***************************************************************************)
(* The objects without their vectors.                                      *)
(***************************************************************************)
Outside(objs) ==
    [h \in DOMAIN objs |-> [f \in DOMAIN objs[h] \ {"children"} |-> objs[h][f]]]

SameFields(n, o) ==
    /\ n.id = o.id /\ n.parentId = o.parentId /\ n.payload = o.payload
    /\ n.status = o.status /\ n.hasUnloadedChildren = o.hasUnloadedChildren
    /\ n.parent = o.parent

LEMMA OutsideFields ==
    ASSUME NEW objs \in Seq(Object)
    PROVE  /\ Outside(objs) \in Seq(Node) /\ Len(Outside(objs)) = Len(objs)
           /\ DOMAIN Outside(objs) = DOMAIN objs /\ DOMAIN objs = 1..Len(objs)
           /\ Len(objs) \in Nat
           /\ \A h \in DOMAIN objs : SameFields(Outside(objs)[h], objs[h])
<1>1. ASSUME NEW o \in Object
      PROVE  /\ [f \in DOMAIN o \ {"children"} |-> o[f]] \in Node
             /\ SameFields([f \in DOMAIN o \ {"children"} |-> o[f]], o)
  <2>1. DOMAIN o \ {"children"} =
            {"id", "parentId", "payload", "status", "hasUnloadedChildren", "parent"}
    BY DEF Object
  <2> QED BY <2>1 DEF Object, Node, SameFields
<1>2. \A h \in DOMAIN objs : objs[h] \in Object
  BY ObjectFields
<1>3. DOMAIN objs = 1..Len(objs) /\ Len(objs) \in Nat
  BY ObjectFields
<1>4. \A h \in DOMAIN objs : /\ Outside(objs)[h] \in Node
                             /\ SameFields(Outside(objs)[h], objs[h])
  BY <1>1, <1>2 DEF Outside
<1>5. Outside(objs) = [h \in 1..Len(objs) |-> Outside(objs)[h]]
  BY <1>3 DEF Outside
<1>6. Outside(objs) \in Seq(Node) /\ Len(Outside(objs)) = Len(objs)
  BY <1>3, <1>4, <1>5, SeqDef, LenProperties
<1>7. DOMAIN Outside(objs) = DOMAIN objs
  BY DEF Outside
<1> QED BY <1>3, <1>4, <1>6, <1>7

\* Nodes are what their fields say.
LEMMA SameNode ==
    ASSUME NEW n \in Node, NEW o \in Node, SameFields(n, o)
    PROVE  n = o
<1>1. n = [id |-> n.id, parentId |-> n.parentId, payload |-> n.payload, status |-> n.status,
           hasUnloadedChildren |-> n.hasUnloadedChildren, parent |-> n.parent]
  BY DEF Node
<1>2. o = [id |-> o.id, parentId |-> o.parentId, payload |-> o.payload, status |-> o.status,
           hasUnloadedChildren |-> o.hasUnloadedChildren, parent |-> o.parent]
  BY DEF Node
<1> QED BY <1>1, <1>2, Zenon DEF SameFields

LEMMA SameNodes ==
    ASSUME NEW f \in Seq(Node), NEW g \in Seq(Node), DOMAIN f = DOMAIN g,
           \A h \in DOMAIN f : SameFields(f[h], g[h])
    PROVE  f = g
<1>1. ASSUME NEW h \in DOMAIN f
      PROVE  f[h] = g[h]
  <2>1. f[h] \in Node /\ g[h] \in Node /\ SameFields(f[h], g[h])
    OBVIOUS
  <2> QED BY <2>1, SameNode
<1> QED BY <1>1

LEMMA NowOutside ==
    /\ Now.nodes = Outside(objects) /\ Now.roots = Seqs!ToSet(rootList)
    /\ Now.records = records /\ Now.nextId = nextId /\ Now.index = index
    /\ Now.nextTemporaryId = nextTemporaryId
BY DEF Now, Outside

LEMMA RootsAreParentless ==
    ASSUME NEW objs \in Seq(Object), NEW list, Owned(objs, list)
    PROVE  Seqs!ToSet(list) = {h \in DOMAIN objs : objs[h].parent = NoNode}
<1>1. Keeps(objs, list, NoNode)
  BY DEF Owned, VectorOf
<1> QED BY <1>1 DEF Keeps, Seqs!ToSet

LEMMA NowIsWhole == CallsInv => Whole(Now)
<1> SUFFICES ASSUME CallsInv
             PROVE  Whole(Now)
  OBVIOUS
<1>1. objects \in Seq(Object) /\ Owned(objects, rootList) /\ Exact(objects, index)
  BY DEF CallsInv, Typed
<1>2. PICK ns : ns = Outside(objects)
  OBVIOUS
<1>3. /\ ns \in Seq(Node) /\ DOMAIN ns = DOMAIN objects
      /\ \A h \in DOMAIN objects : SameFields(ns[h], objects[h])
  BY <1>1, <1>2, OutsideFields
<1>4. Seqs!ToSet(rootList) = {h \in DOMAIN ns : ns[h].parent = NoNode}
  BY <1>1, <1>3, RootsAreParentless DEF SameFields
<1>5. Exact(ns, index)
  BY <1>1, <1>3 DEF Exact, SameFields
<1>6. \A h \in DOMAIN ns : ns[h].parent \in {NoNode} \cup DOMAIN ns
  BY <1>1, <1>3 DEF Owned, SameFields
<1> QED BY <1>2, <1>3, <1>4, <1>5, <1>6, NowOutside DEF Whole, CallsInv, Typed, DbTypeOK

-----------------------------------------------------------------------------
(***************************************************************************)
(* Steps inside a call are invisible, and so is its beginning.             *)
(***************************************************************************)
LEMMA SeenInside == call.at # "idle" => Seen = before
BY DEF Seen, Idle, NoCall

LEMMA SeenOutside == Idle => Seen = Now
BY DEF Seen

LEMMA Continues ==
    ASSUME call.at # "idle", call'.at # "idle", before' = before, Stable(Seen)
    PROVE  Stable(Seen)' /\ UNCHANGED Atomic!vars
<1>1. Seen = before
  BY SeenInside
<1>2. (call.at # "idle" => Seen = before)'
  BY SeenInside, PTL
<1>3. Seen' = Seen
  BY <1>1, <1>2
<1>4. Stable(Seen)'
  BY <1>3
<1> QED BY <1>3, <1>4 DEF Atomic!vars, Atomic!dbVars, Atomic!cacheVars

LEMMA Begins ==
    ASSUME Idle, before' = Now, call'.at # "idle", Stable(Seen)
    PROVE  Stable(Seen)' /\ UNCHANGED Atomic!vars
<1>1. Seen = Now
  BY SeenOutside
<1>2. (call.at # "idle" => Seen = before)'
  BY SeenInside, PTL
<1>3. Seen' = Seen
  BY <1>1, <1>2
<1>4. Stable(Seen)'
  BY <1>3
<1> QED BY <1>3, <1>4 DEF Atomic!vars, Atomic!dbVars, Atomic!cacheVars

\* What a call that returns has to show.
LEMMA Returns ==
    ASSUME call.at # "idle", Return, CallsInv', Descending(Now)'
    PROVE  Stable(Seen)' /\ Progress' /\ Seen = before /\ Seen' = Now'
<1>1. call' = NoCall
  BY DEF Return
<1>2. (Idle => Seen = Now)' /\ (CallsInv => Whole(Now))'
  BY SeenOutside, NowIsWhole, PTL
<1>3. Idle' /\ call'.at = "idle"
  BY <1>1 DEF Idle, NoCall
<1>4. Seen' = Now'
  BY <1>2, <1>3
<1>5. Stable(Seen)'
  BY <1>2, <1>4 DEF Stable
<1>6. Progress'
  BY <1>3 DEF Progress
<1> QED BY <1>4, <1>5, <1>6, SeenInside

-----------------------------------------------------------------------------
(***************************************************************************)
(* The calls without loops.                                                *)
(***************************************************************************)
LEMMA Straightly ==
    ASSUME Straight
    PROVE  Seen = Now /\ Seen' = Now' /\ Progress'
<1>1. Idle /\ call' = call /\ call'.at = "idle"
  BY DEF Straight, Idle, NoCall
<1>2. (Idle => Seen = Now)'
  BY SeenOutside, PTL
<1>3. Idle'
  BY <1>1 DEF Idle
<1> QED BY <1>1, <1>2, <1>3, SeenOutside DEF Progress

\* A node and its parent that keep what Hangs speaks of hang as before.
SamePlace(n, o) ==
    /\ n.id = o.id /\ n.parentId = o.parentId /\ n.parent = o.parent
    /\ n.status = o.status \/ {n.status, o.status} \subseteq {"Unchanged", "Modified"}

LEMMA HangsAlike ==
    ASSUME NEW ns, NEW ms, NEW h, SamePlace(ns[h], ms[h]),
           ns[h].parent # NoNode => SamePlace(ns[ns[h].parent], ms[ns[h].parent]),
           Hangs(ns, h)
    PROVE  Hangs(ms, h)
BY DEF SamePlace, Hangs

LEMMA NowDescends ==
    ASSUME NEW objs \in Seq(Object), NEW ns, ns = Outside(objs),
           \A h \in DOMAIN objs : objs[h].parent \in {NoNode} \cup DOMAIN objs
    PROVE  \A h \in DOMAIN objs : Hangs(ns, h) <=> Hangs(objs, h)
<1>1. \A h \in DOMAIN objs : SameFields(ns[h], objs[h])
  BY OutsideFields
<1>2. ASSUME NEW h \in DOMAIN objs
      PROVE  Hangs(ns, h) <=> Hangs(objs, h)
  <2>1. SamePlace(ns[h], objs[h]) /\ SamePlace(objs[h], ns[h])
    BY <1>1 DEF SameFields, SamePlace
  <2>2. objs[h].parent # NoNode =>
            /\ SamePlace(ns[objs[h].parent], objs[objs[h].parent])
            /\ SamePlace(objs[objs[h].parent], ns[objs[h].parent])
    BY <1>1 DEF SameFields, SamePlace
  <2>3. ns[h].parent = objs[h].parent
    BY <2>1 DEF SamePlace
  <2> QED BY <2>1, <2>2, <2>3, HangsAlike
<1> QED BY <1>2

\* Descending, of the program between two calls.
NowDescending == RowsDescend(records) /\ \A h \in DOMAIN objects : Hangs(objects, h)

LEMMA DescendingNow == CallsInv => (Descending(Now) <=> NowDescending)
<1> SUFFICES ASSUME CallsInv
             PROVE  Descending(Now) <=> NowDescending
  OBVIOUS
<1>1. /\ objects \in Seq(Object)
      /\ \A h \in DOMAIN objects : objects[h].parent \in {NoNode} \cup DOMAIN objects
  BY DEF CallsInv, Typed, Owned
<1>2. PICK ns : ns = Outside(objects)
  OBVIOUS
<1>3. DOMAIN ns = DOMAIN objects /\ \A h \in DOMAIN objects : Hangs(ns, h) <=> Hangs(objects, h)
  BY <1>1, <1>2, NowDescends, OutsideFields
<1>4. Now.nodes = ns /\ Now.records = records
  BY <1>2, NowOutside
<1> QED BY <1>3, <1>4 DEF Descending, NowDescending

LEMMA EditedFields ==
    ASSUME NEW o \in Object, NEW payload \in Payload,
           NEW status \in {"New", "Modified", "Deleted", "Unchanged"}, NEW o2,
           o2 = WithPayload(o, payload, status)
    PROVE  /\ o2.id = o.id /\ o2.parentId = o.parentId /\ o2.payload = payload
           /\ o2.status = status /\ o2.hasUnloadedChildren = o.hasUnloadedChildren
           /\ o2.parent = o.parent
BY DEF Object, WithPayload

LEMMA EditedNode ==
    ASSUME NEW n \in Node, NEW payload \in Payload,
           NEW status \in {"New", "Modified", "Deleted", "Unchanged"}
    PROVE  WithPayload(n, payload, status) \in Node
BY DEF Node, WithPayload

LEMMA EditedNodeFields ==
    ASSUME NEW n \in Node, NEW payload \in Payload,
           NEW status \in {"New", "Modified", "Deleted", "Unchanged"}, NEW n2,
           n2 = WithPayload(n, payload, status)
    PROVE  /\ n2.id = n.id /\ n2.parentId = n.parentId /\ n2.payload = payload
           /\ n2.status = status /\ n2.hasUnloadedChildren = n.hasUnloadedChildren
           /\ n2.parent = n.parent
BY DEF Node, WithPayload

LEMMA StraightStable ==
    ASSUME Straight, CallsInv', Descending(Now)'
    PROVE  Stable(Seen)'
<1>1. Seen' = Now'
  BY Straightly
<1>2. (CallsInv => Whole(Now))'
  BY NowIsWhole, PTL
<1> QED BY <1>1, <1>2 DEF Stable

LEMMA FindsTheSame ==
    ASSUME NEW id, Seen.index = index
    PROVE  Atomic!FindNode(id) = FindNode(id)
BY DEF Atomic!FindNode, FindNode, NoNode, Atomic!NoNode

LEMMA EditAtomic ==
    ASSUME CallsInv, CallsInv', Stable(Seen), NEW id \in DOMAIN index, NEW payload \in Payload,
           EditPayload(id, payload)
    PROVE  Stable(Seen)' /\ Progress' /\ Atomic!EditPayload(id, payload)
<1> DEFINE status == IF objects[FindNode(id)].status = "Unchanged" THEN "Modified"
                     ELSE objects[FindNode(id)].status
<1>1. /\ objects \in Seq(Object) /\ objects' \in Seq(Object)
      /\ UNCHANGED <<rootList, index, nextTemporaryId, records, nextId>>
      /\ Straight
      /\ objects[FindNode(id)].status # "Deleted"
  BY DEF EditPayload, dbVars, CallsInv, Typed
<1>2. PICK h : h = FindNode(id)
  OBVIOUS
<1>3. h \in DOMAIN objects /\ h # NoNode
  BY <1>2, ObjectFields, <1>1 DEF CallsInv, Exact, FindNode
<1>4. objects[h] \in Object
  BY <1>1, <1>3, ObjectFields
<1>5. status \in {"New", "Modified", "Deleted", "Unchanged"}
  BY <1>2, <1>4 DEF Object
<1>6. objects' = [objects EXCEPT ![h] = WithPayload(objects[h], payload, status)]
  BY <1>2 DEF EditPayload, WithPayload
<1>7. status = IF objects[h].status = "Unchanged" THEN "Modified" ELSE objects[h].status
  BY <1>2
<1> HIDE DEF status
<1>8. PICK objs2 : objs2 = objects'
  OBVIOUS
<1>9. /\ objs2 \in Seq(Object) /\ DOMAIN objs2 = DOMAIN objects
      /\ \A g \in DOMAIN objects : g # h => objs2[g] = objects[g]
      /\ objs2[h] = WithPayload(objects[h], payload, status)
  BY <1>1, <1>3, <1>6, <1>8
<1>10. /\ objs2[h].id = objects[h].id /\ objs2[h].parentId = objects[h].parentId
       /\ objs2[h].payload = payload /\ objs2[h].status = status
       /\ objs2[h].hasUnloadedChildren = objects[h].hasUnloadedChildren
       /\ objs2[h].parent = objects[h].parent
  BY <1>4, <1>5, <1>9, EditedFields
<1>11. PICK ns, ns2 : ns = Outside(objects) /\ ns2 = Outside(objs2)
  OBVIOUS
<1>12. /\ ns \in Seq(Node) /\ DOMAIN ns = DOMAIN objects
       /\ \A g \in DOMAIN objects : SameFields(ns[g], objects[g])
  BY <1>1, <1>11, OutsideFields
<1>13. /\ ns2 \in Seq(Node) /\ DOMAIN ns2 = DOMAIN objs2
       /\ \A g \in DOMAIN objs2 : SameFields(ns2[g], objs2[g])
  BY <1>9, <1>11, OutsideFields
<1>14. ns2 = [ns EXCEPT ![h] = WithPayload(ns[h], payload, status)]
  <2>1. ns[h] \in Node
    BY <1>3, <1>12
  <2>6. PICK n : n = WithPayload(ns[h], payload, status)
    OBVIOUS
  <2>2. n \in Node
    BY <1>5, <2>1, <2>6, EditedNode
  <2>7. /\ n.id = ns[h].id /\ n.parentId = ns[h].parentId
        /\ n.payload = payload /\ n.status = status
        /\ n.hasUnloadedChildren = ns[h].hasUnloadedChildren
        /\ n.parent = ns[h].parent
    BY <1>5, <2>1, <2>6, EditedNodeFields
  <2>3. SameFields(ns2[h], n)
    BY <1>3, <1>9, <1>10, <1>12, <1>13, <2>7 DEF SameFields
  <2>4. ns2[h] = n
    BY <1>3, <1>9, <1>13, <2>2, <2>3, SameNode
  <2>5. \A g \in DOMAIN ns2 : g # h => ns2[g] = ns[g]
    <3>1. ASSUME NEW g \in DOMAIN ns2, g # h
          PROVE  ns2[g] = ns[g]
      <4>1. SameFields(ns2[g], ns[g])
        BY <1>9, <1>12, <1>13, <3>1 DEF SameFields
      <4> QED BY <1>9, <1>12, <1>13, <4>1, SameNode
    <3> QED BY <3>1
  <2> QED BY <1>3, <1>9, <1>12, <1>13, <2>4, <2>5, <2>6
<1>15. Descending(Now)'
  <2>1. /\ RowsDescend(records)
        /\ \A g \in DOMAIN objects : Hangs(objects, g)
    BY <1>1, Straightly, DescendingNow DEF Stable, NowDescending
  <2>2. ASSUME NEW g \in DOMAIN objects
        PROVE  Hangs(objs2, g)
    <3>1. objects[g].parent = NoNode \/ objects[g].parent \in DOMAIN objects
      BY DEF CallsInv, Owned
    <3>2. \A k \in DOMAIN objects : SamePlace(objects[k], objs2[k])
      BY <1>1, <1>2, <1>4, <1>7, <1>9, <1>10 DEF SamePlace
    <3> QED BY <2>1, <3>1, <3>2, HangsAlike
  <2>3. (CallsInv => (Descending(Now) <=> NowDescending))'
    BY DescendingNow, PTL
  <2>4. NowDescending'
    BY <1>1, <1>8, <1>9, <2>1, <2>2 DEF NowDescending
  <2> QED BY <2>3, <2>4
<1>16. Seen = Now /\ Seen' = Now' /\ Progress' /\ Stable(Seen)'
  BY <1>1, <1>15, Straightly, StraightStable
<1>17. Seen.nodes = ns /\ (Seen.nodes)' = ns2
  BY <1>8, <1>11, <1>16, NowOutside DEF Now, Outside
<1>18. /\ (Seen.roots)' = Seen.roots /\ (Seen.index)' = Seen.index
       /\ (Seen.nextTemporaryId)' = Seen.nextTemporaryId
       /\ (Seen.records)' = Seen.records /\ (Seen.nextId)' = Seen.nextId
       /\ Seen.index = index
  BY <1>1, <1>16 DEF Now
<1>19. Atomic!FindNode(id) = h
  BY <1>2, <1>18, FindsTheSame
<1>20. Atomic!ChangeResult(id) = "Success"
  BY <1>1, <1>2, <1>3, <1>12, <1>17, <1>19
     DEF Atomic!ChangeResult, SameFields, NoNode, Atomic!NoNode
<1>21. Atomic!EditedStatus(ns[h].status) = status
  BY <1>3, <1>7, <1>12 DEF Atomic!EditedStatus, SameFields
<1>22. ns2 = [ns EXCEPT ![h].payload = payload, ![h].status = Atomic!EditedStatus(ns[h].status)]
  BY <1>3, <1>12, <1>14, <1>21 DEF WithPayload
<1> QED BY <1>16, <1>17, <1>18, <1>19, <1>20, <1>22
        DEF Atomic!EditPayload, Atomic!dbVars

\* One node more, the others as they were.
LEMMA OneNodeMore ==
    ASSUME NEW mid \in Seq(Node), NEW n \in Node, NEW ns \in Seq(Node),
           Len(ns) = Len(mid) + 1, \A h \in DOMAIN mid : SameFields(ns[h], mid[h]),
           SameFields(ns[Len(mid) + 1], n)
    PROVE  ns = Append(mid, n)
<1>1. PICK grown : grown = Append(mid, n)
  OBVIOUS
<1>2. /\ grown \in Seq(Node) /\ Len(grown) = Len(mid) + 1
      /\ \A h \in 1..Len(mid) : grown[h] = mid[h]
      /\ grown[Len(mid) + 1] = n
  BY <1>1, AppendProperties
<1>3. /\ DOMAIN mid = 1..Len(mid) /\ Len(mid) \in Nat
      /\ DOMAIN ns = 1..(Len(mid) + 1) /\ DOMAIN grown = 1..(Len(mid) + 1)
  BY <1>2
<1>4. ASSUME NEW h \in DOMAIN ns
      PROVE  SameFields(ns[h], grown[h])
  <2>1. h \in 1..Len(mid) \/ h = Len(mid) + 1
    BY <1>3
  <2> QED BY <1>2, <1>3, <2>1
<1>5. ns = grown
  BY <1>2, <1>3, <1>4, SameNodes
<1> QED BY <1>1, <1>5

\* One object more, under a parent whose flag is cleared.
Adds(objs, p, raw, o, mid, objs2) ==
    /\ objs \in Seq(Object) /\ p \in DOMAIN objs /\ o \in Object
    /\ raw = Len(objs) + 1
    /\ mid = [objs EXCEPT ![p] = WithChildAdded(objs[p], Append(objs[p].children, raw))]
    /\ objs2 = Append(mid, o)

LEMMA ObjectAdded ==
    ASSUME NEW objs, NEW p, NEW o, NEW raw, NEW mid, NEW objs2, Adds(objs, p, raw, o, mid, objs2)
    PROVE  /\ objs2 \in Seq(Object) /\ Len(objs2) = raw /\ objs2[raw] = o
           /\ DOMAIN objs2 = DOMAIN objs \cup {raw}
           /\ \A h \in DOMAIN objs : h # p => objs2[h] = objs[h]
           /\ objs2[p] = WithChildAdded(objs[p], Append(objs[p].children, raw))
           /\ Append(objs[p].children, raw) \in Seq(Nat) /\ raw \in Nat
<1> USE DEF Adds
<1>1. DOMAIN objs = 1..Len(objs) /\ Len(objs) \in Nat /\ objs[p] \in Object
      /\ objs[p].children \in Seq(Nat)
  BY ObjectFields
<1>2. raw \in Nat /\ Append(objs[p].children, raw) \in Seq(Nat)
  BY <1>1, AppendProperties
<1>3. PICK q : q = WithChildAdded(objs[p], Append(objs[p].children, raw))
  OBVIOUS
<1>4. q \in Object
  BY <1>1, <1>2, <1>3, ChildrenChange
<1>5. mid = [objs EXCEPT ![p] = q]
  BY <1>3
<1>6. /\ mid \in Seq(Object) /\ Len(mid) = Len(objs)
      /\ \A h \in DOMAIN objs : mid[h] = IF h = p THEN q ELSE objs[h]
  BY <1>4, <1>5, OneReplaced
<1>7. /\ objs2 \in Seq(Object) /\ Len(objs2) = Len(mid) + 1 /\ objs2[Len(mid) + 1] = o
      /\ \A h \in 1..Len(mid) : objs2[h] = mid[h]
  BY <1>6, AppendProperties
<1>8. DOMAIN objs2 = DOMAIN objs \cup {raw}
  BY <1>1, <1>6, <1>7
<1> QED BY <1>1, <1>2, <1>3, <1>6, <1>7, <1>8

\* A node under a known one, with an id larger than all so far.
LEMMA NewNodeHangs ==
    ASSUME NEW objs, NEW idx, Exact(objs, idx), NEW next \in 1..(MaxId + 1), NEW tid \in Nat,
           TempBase <= tid, GivenOnce(idx, next, tid), NEW p \in DOMAIN objs
    PROVE  objs[p].id < tid
<1>1. MaxId \in Nat /\ TempBase \in Nat /\ MaxId < TempBase
  BY DatabaseAssumption, CallsAssumption DEF DatabaseAssumption, CallsAssumption
<1>2. objs[p].id \in 1..(next - 1) \/ objs[p].id \in TempBase..(tid - 1)
  BY DEF Exact, GivenOnce
<1> QED BY <1>1, <1>2

LEMMA AddAtomic ==
    ASSUME CallsInv, CallsInv', Stable(Seen), NEW parentId \in DOMAIN index, NEW payload \in Payload,
           AddChild(parentId, payload)
    PROVE  Stable(Seen)' /\ Progress' /\ Atomic!AddChild(parentId, payload)
<1> DEFINE o == [id |-> nextTemporaryId, parentId |-> parentId, payload |-> payload,
                 status |-> "New", hasUnloadedChildren |-> FALSE, parent |-> FindNode(parentId),
                 children |-> << >>]
           child == [id |-> nextTemporaryId, parentId |-> parentId, payload |-> payload,
                     status |-> "New", hasUnloadedChildren |-> FALSE,
                     parent |-> FindNode(parentId)]
<1>1. /\ objects \in Seq(Object) /\ index \in Table /\ Exact(objects, index)
      /\ nextId \in 1..(MaxId + 1) /\ nextTemporaryId \in TempBase..(TempBase + MaxTemp)
      /\ GivenOnce(index, nextId, nextTemporaryId)
      /\ UNCHANGED <<rootList, records, nextId>>
      /\ Straight
      /\ objects[FindNode(parentId)].status # "Deleted"
      /\ nextTemporaryId < TempBase + MaxTemp
      /\ nextTemporaryId' = nextTemporaryId + 1
      /\ index' = Emplace(index, nextTemporaryId, Len(objects) + 1)
  BY DEF AddChild, dbVars, CallsInv, Typed, DbTypeOK
<1>2. PICK p : p = FindNode(parentId)
  OBVIOUS
<1>3. p \in DOMAIN objects /\ p # NoNode /\ objects[p].id = parentId /\ p \in Nat
  BY <1>1, <1>2, ObjectFields DEF Exact, FindNode
<1>4. TempBase \in Nat /\ nextTemporaryId \in Nat /\ TempBase <= nextTemporaryId
  BY <1>1, CallsAssumption DEF CallsAssumption
<1>5. parentId \in Nat
  BY <1>1, <1>3, ObjectFields
<1>6. PICK raw : raw = Len(objects) + 1
  OBVIOUS
<1>7. PICK mid : mid = [objects EXCEPT ![p] =
                            WithChildAdded(objects[p], Append(objects[p].children, raw))]
  OBVIOUS
<1>8. objects' = Append(mid, o)
  BY <1>2, <1>6, <1>7 DEF AddChild, WithChildAdded
<1>9. o \in Object /\ child \in Node
  BY <1>2, <1>3, <1>4, <1>5, EmptySeq DEF Object, Node
<1>10. /\ o.id = nextTemporaryId /\ o.parentId = parentId /\ o.status = "New" /\ o.parent = p
       /\ SameFields(child, o) /\ SameFields(o, child)
  BY <1>2 DEF SameFields
<1>11. PICK objs2 : objs2 = objects'
  OBVIOUS
<1> HIDE DEF o
<1>12. /\ objs2 \in Seq(Object) /\ Len(objs2) = raw /\ objs2[raw] = o
       /\ DOMAIN objs2 = DOMAIN objects \cup {raw}
       /\ \A h \in DOMAIN objects : h # p => objs2[h] = objects[h]
       /\ objs2[p] = WithChildAdded(objects[p], Append(objects[p].children, raw))
       /\ Append(objects[p].children, raw) \in Seq(Nat) /\ raw \in Nat
  <2>1. PICK ob \in Object : ob = o
    BY <1>9
  <2>2. objects \in Seq(Object) /\ p \in DOMAIN objects /\ objs2 = Append(mid, ob)
    BY <1>1, <1>3, <1>8, <1>11, <2>1
  <2>3. /\ objs2 \in Seq(Object) /\ Len(objs2) = raw /\ objs2[raw] = ob
        /\ DOMAIN objs2 = DOMAIN objects \cup {raw}
        /\ \A h \in DOMAIN objects : h # p => objs2[h] = objects[h]
        /\ objs2[p] = WithChildAdded(objects[p], Append(objects[p].children, raw))
        /\ Append(objects[p].children, raw) \in Seq(Nat) /\ raw \in Nat
    <3>1. Adds(objects, p, raw, ob, mid, objs2)
      BY <1>6, <1>7, <2>2 DEF Adds
    <3> QED BY <3>1, ObjectAdded
  <2> QED BY <2>1, <2>3
<1>13. objects[p] \in Object /\ raw \notin DOMAIN objects
  BY <1>1, <1>3, <1>6, ObjectFields
<1>14. /\ objs2[p].id = objects[p].id /\ objs2[p].parentId = objects[p].parentId
       /\ objs2[p].payload = objects[p].payload /\ objs2[p].status = objects[p].status
       /\ objs2[p].hasUnloadedChildren = FALSE /\ objs2[p].parent = objects[p].parent
  <2>1. PICK kids \in Seq(Nat) : kids = Append(objects[p].children, raw)
    BY <1>12
  <2>2. PICK q : q = objs2[p] /\ q = WithChildAdded(objects[p], kids)
    BY <1>12, <2>1
  <2> QED BY <1>13, <2>2 DEF WithChildAdded, Object
<1>15. PICK ns, ns2 : ns = Outside(objects) /\ ns2 = Outside(objs2)
  OBVIOUS
<1>16. /\ ns \in Seq(Node) /\ DOMAIN ns = DOMAIN objects /\ Len(ns) = Len(objects)
       /\ \A g \in DOMAIN objects : SameFields(ns[g], objects[g])
  BY <1>1, <1>15, OutsideFields
<1>17. /\ ns2 \in Seq(Node) /\ DOMAIN ns2 = DOMAIN objs2 /\ Len(ns2) = raw
       /\ \A g \in DOMAIN objs2 : SameFields(ns2[g], objs2[g])
  BY <1>12, <1>15, OutsideFields
<1>18. ns2 = Append([ns EXCEPT ![p].hasUnloadedChildren = FALSE], child)
  <2>1. PICK q : q = [ns[p] EXCEPT !.hasUnloadedChildren = FALSE]
    OBVIOUS
  <2>2. ns[p] \in Node
    BY <1>3, <1>16
  <2>3. /\ q \in Node /\ q.id = ns[p].id /\ q.parentId = ns[p].parentId
        /\ q.payload = ns[p].payload /\ q.status = ns[p].status
        /\ q.hasUnloadedChildren = FALSE /\ q.parent = ns[p].parent
    BY <2>1, <2>2 DEF Node
  <2>4. PICK few : few = [ns EXCEPT ![p].hasUnloadedChildren = FALSE]
    OBVIOUS
  <2>5. few \in Seq(Node) /\ DOMAIN few = DOMAIN ns /\ Len(few) = Len(ns)
    <3>1. few = [ns EXCEPT ![p] = q]
      BY <2>1, <2>4
    <3> QED BY <1>3, <1>16, <2>3, <3>1, ExceptSeq
  <2>6. \A h \in DOMAIN few : few[h] = IF h = p THEN q ELSE ns[h]
    BY <1>3, <1>16, <2>1, <2>4
  <2>7. ASSUME NEW h \in DOMAIN few
        PROVE  SameFields(ns2[h], few[h])
    <3>1. h \in DOMAIN objects /\ SameFields(ns2[h], objs2[h]) /\ SameFields(ns[h], objects[h])
      BY <1>12, <1>16, <1>17, <2>5
    <3>2. CASE h = p
      BY <1>14, <2>3, <2>6, <3>1, <3>2 DEF SameFields
    <3>3. CASE h # p
      BY <1>12, <2>6, <3>1, <3>3 DEF SameFields
    <3> QED BY <3>2, <3>3
  <2>8. SameFields(ns2[Len(few) + 1], child)
    <3>1. Len(few) + 1 = raw
      BY <1>6, <1>16, <2>5
    <3>2. SameFields(ns2[raw], objs2[raw]) /\ objs2[raw] = o
      BY <1>12, <1>17
    <3> QED BY <1>10, <3>1, <3>2 DEF SameFields
  <2>9. Len(ns2) = Len(few) + 1
    BY <1>6, <1>16, <1>17, <2>5
  <2> HIDE DEF child
  <2> QED BY <1>9, <1>17, <2>4, <2>5, <2>7, <2>8, <2>9, OneNodeMore
<1> HIDE DEF child
<1>19. Descending(Now)'
  <2>1. NowDescending
    BY <1>1, Straightly, DescendingNow DEF Stable
  <2>2. ASSUME NEW g \in DOMAIN objects
        PROVE  Hangs(objs2, g)
    <3>1. objects[g].parent = NoNode \/ objects[g].parent \in DOMAIN objects
      BY DEF CallsInv, Owned
    <3>2. \A k \in DOMAIN objects : SamePlace(objects[k], objs2[k])
      BY <1>12, <1>14 DEF SamePlace
    <3> QED BY <2>1, <3>1, <3>2, HangsAlike DEF NowDescending
  <2>3. Hangs(objs2, raw)
    <3>1. objects[p].id < nextTemporaryId
      BY <1>1, <1>3, <1>4, NewNodeHangs
    <3> QED BY <1>1, <1>2, <1>3, <1>4, <1>10, <1>12, <1>14, <3>1 DEF Hangs
  <2>4. NowDescending'
    BY <1>1, <1>11, <1>12, <2>1, <2>2, <2>3 DEF NowDescending
  <2>5. (CallsInv => (Descending(Now) <=> NowDescending))'
    BY DescendingNow, PTL
  <2> QED BY <2>4, <2>5
<1>20. Seen = Now /\ Seen' = Now' /\ Progress' /\ Stable(Seen)'
  BY <1>1, <1>19, Straightly, StraightStable
<1>21. Seen.nodes = ns /\ (Seen.nodes)' = ns2
  BY <1>11, <1>15, <1>20, NowOutside DEF Now, Outside
<1>22. /\ Seen.index = index /\ (Seen.index)' = index'
       /\ Seen.nextTemporaryId = nextTemporaryId
       /\ (Seen.nextTemporaryId)' = nextTemporaryId + 1
       /\ (Seen.roots)' = Seen.roots
       /\ (Seen.records)' = Seen.records /\ (Seen.nextId)' = Seen.nextId
  BY <1>1, <1>20 DEF Now
<1>23. Atomic!FindNode(parentId) = p
  BY <1>2, <1>22, FindsTheSame
<1>24. Atomic!ChangeResult(parentId) = "Success"
  BY <1>1, <1>2, <1>3, <1>16, <1>21, <1>23
     DEF Atomic!ChangeResult, SameFields, NoNode, Atomic!NoNode
<1>25. (Seen.index)' = Atomic!Emplace(Seen.index, nextTemporaryId, Len(ns) + 1)
  BY <1>1, <1>16, <1>22 DEF Emplace, Atomic!Emplace
<1>26. child = [id |-> nextTemporaryId, parentId |-> parentId, payload |-> payload,
                status |-> "New", hasUnloadedChildren |-> FALSE, parent |-> p]
  BY <1>2 DEF child
<1> QED BY <1>1, <1>18, <1>20, <1>21, <1>22, <1>23, <1>24, <1>25, <1>26
        DEF Atomic!AddChild, Atomic!dbVars

-----------------------------------------------------------------------------
(***************************************************************************)
(* Subtrees, and the stack of a walk.                                      *)
(***************************************************************************)
LEMMA BelowContains ==
    ASSUME NEW up, NEW x \in DOMAIN up
    PROVE  x \in Below(up, {x})
BY DEF Below, ClosedAbove

LEMMA BelowClosed ==
    ASSUME NEW up, NEW S, NEW x \in DOMAIN up, up[x] \in Below(up, S)
    PROVE  x \in Below(up, S)
BY DEF Below, ClosedAbove

LEMMA BelowLeast ==
    ASSUME NEW up, NEW S, NEW C \in SUBSET DOMAIN up, S \cap DOMAIN up \subseteq C,
           \A x \in DOMAIN up : up[x] \in C => x \in C
    PROVE  Below(up, S) \subseteq C
BY DEF Below, ClosedAbove

LEMMA ElementsOfStack ==
    ASSUME NEW stack \in Seq(Nat), stack # << >>
    PROVE  /\ Elements(stack) = {Head(stack)} \cup Elements(Tail(stack))
           /\ Tail(stack) \in Seq(Nat) /\ Head(stack) \in Nat
<1>1. PICK rest : rest = Tail(stack)
  OBVIOUS
<1>2. /\ rest \in Seq(Nat) /\ Head(stack) = stack[1] /\ 1 \in DOMAIN stack
      /\ \A i \in DOMAIN rest : i + 1 \in DOMAIN stack /\ rest[i] = stack[i + 1]
      /\ \A i \in DOMAIN stack : i # 1 => i - 1 \in DOMAIN rest /\ rest[i - 1] = stack[i]
  BY <1>1
<1>3. ASSUME NEW e \in Elements(stack)
      PROVE  e \in {stack[1]} \cup Elements(rest)
  <2>1. PICK i \in DOMAIN stack : e = stack[i]
    BY DEF Elements
  <2>2. CASE i = 1
    BY <2>1, <2>2
  <2>3. CASE i # 1
    <3>1. PICK k : k = i - 1
      OBVIOUS
    <3>2. k \in DOMAIN rest /\ rest[k] = e
      BY <1>2, <2>1, <2>3, <3>1
    <3> QED BY <3>2 DEF Elements
  <2> QED BY <2>2, <2>3
<1>4. ASSUME NEW e \in Elements(rest)
      PROVE  e \in Elements(stack)
  <2>1. PICK i \in DOMAIN rest : e = rest[i]
    BY DEF Elements
  <2>2. PICK k : k = i + 1
    OBVIOUS
  <2>3. k \in DOMAIN stack /\ stack[k] = e
    BY <1>2, <2>1, <2>2
  <2> QED BY <2>3 DEF Elements
<1>5. stack[1] \in Elements(stack)
  BY <1>2 DEF Elements
<1> QED BY <1>1, <1>2, <1>3, <1>4, <1>5

LEMMA ElementsOfBoth ==
    ASSUME NEW f \in Seq(Nat), NEW r \in Seq(Nat), NEW both, both = f \o r
    PROVE  Elements(both) = Elements(f) \cup Elements(r)
<1>1. /\ Len(f) \in Nat /\ Len(r) \in Nat
      /\ DOMAIN f = 1..Len(f) /\ DOMAIN r = 1..Len(r) /\ DOMAIN both = 1..(Len(f) + Len(r))
      /\ \A i \in 1..(Len(f) + Len(r)) : both[i] = IF i <= Len(f) THEN f[i] ELSE r[i - Len(f)]
  BY ConcatProperties
<1>2. ASSUME NEW e \in Elements(both)
      PROVE  e \in Elements(f) \cup Elements(r)
  <2>1. PICK i \in DOMAIN both : e = both[i]
    BY DEF Elements
  <2>2. \/ i \in DOMAIN f /\ both[i] = f[i]
        \/ i - Len(f) \in DOMAIN r /\ both[i] = r[i - Len(f)]
    BY <1>1
  <2> QED BY <2>1, <2>2 DEF Elements
<1>3. ASSUME NEW e \in Elements(f)
      PROVE  e \in Elements(both)
  <2>1. PICK i \in DOMAIN f : e = f[i]
    BY DEF Elements
  <2>2. i \in DOMAIN both /\ both[i] = e
    BY <1>1, <2>1
  <2> QED BY <2>2 DEF Elements
<1>4. ASSUME NEW e \in Elements(r)
      PROVE  e \in Elements(both)
  <2>1. PICK i \in DOMAIN r : e = r[i]
    BY DEF Elements
  <2>2. PICK k : k = i + Len(f)
    OBVIOUS
  <2>3. k \in DOMAIN both /\ both[k] = e
    BY <1>1, <2>1, <2>2
  <2> QED BY <2>3 DEF Elements
<1> QED BY <1>2, <1>3, <1>4

\* A walk that visits the first node of its stack puts its children there.
LEMMA StackDescends ==
    ASSUME NEW objs \in Seq(Object), NEW roots, Owned(objs, roots), NEW stack \in Seq(Nat),
           stack # << >>, Head(stack) \in DOMAIN objs, NEW below,
           below = objs[Head(stack)].children \o Tail(stack)
    PROVE  Elements(below) =
               {c \in DOMAIN objs : objs[c].parent = Head(stack)} \cup Elements(Tail(stack))
<1>1. PICK x : x = Head(stack)
  OBVIOUS
<1>2. PICK kids : kids = objs[x].children
  OBVIOUS
<1>3. x \in DOMAIN objs /\ x # NoNode /\ kids \in Seq(Nat)
  BY <1>1, <1>2, ObjectFields
<1>4. Keeps(objs, kids, x)
  BY <1>2, <1>3 DEF Owned, VectorOf
<1>5. Elements(kids) = {c \in DOMAIN objs : objs[c].parent = x}
  BY <1>4 DEF Keeps, Elements
<1>6. Elements(below) = Elements(kids) \cup Elements(Tail(stack))
  <2>1. PICK rest : rest = Tail(stack)
    OBVIOUS
  <2>2. rest \in Seq(Nat) /\ below = kids \o rest
    BY <1>1, <1>2, <2>1, ElementsOfStack
  <2> QED BY <1>3, <2>1, <2>2, ElementsOfBoth
<1> QED BY <1>1, <1>5, <1>6

\* The nodes TreeCache sees now.
LEMMA NowNodes ==
    CallsInv => /\ Now.nodes \in Seq(Node) /\ DOMAIN Now.nodes = DOMAIN objects
                /\ \A h \in DOMAIN objects : SameFields(Now.nodes[h], objects[h])
BY NowOutside, OutsideFields DEF CallsInv, Typed

\* What a walk over live objects has before it and after it.
LEMMA WalkGoesDown ==
    ASSUME CallsInv, call.at \in {"remove", "collect", "sync"}, call.stack # << >>
    PROVE  /\ Head(call.stack) \in DOMAIN objects
           /\ Elements(call.stack) = {Head(call.stack)} \cup Elements(Tail(call.stack))
           /\ Elements(Descend) = {c \in DOMAIN objects : objects[c].parent = Head(call.stack)}
                                      \cup Elements(Tail(call.stack))
           /\ Descend \in Seq(Nat)
           /\ call' = [call EXCEPT !.stack = Descend] =>
                 call'.stack = Descend /\ call'.at = call.at
<1>1. /\ objects \in Seq(Object) /\ Owned(objects, rootList) /\ call \in Frame
      /\ \A i \in DOMAIN call.stack : call.stack[i] \in DOMAIN objects
  BY DEF CallsInv, Typed, WalkOK
<1>2. call.stack \in Seq(Nat)
  BY <1>1 DEF Frame
<1>3. Head(call.stack) \in DOMAIN objects
  BY <1>1, <1>2
<1>4. Elements(call.stack) = {Head(call.stack)} \cup Elements(Tail(call.stack))
  BY <1>2, ElementsOfStack
<1>5. PICK below : below = Descend
  OBVIOUS
<1>6. below = objects[Head(call.stack)].children \o Tail(call.stack)
  BY <1>5 DEF Descend
<1>7. Elements(below) = {c \in DOMAIN objects : objects[c].parent = Head(call.stack)}
                            \cup Elements(Tail(call.stack))
  BY <1>1, <1>2, <1>3, <1>6, StackDescends
<1>8. below \in Seq(Nat)
  BY <1>1, <1>2, <1>6, DescendType
<1>9. call' = [call EXCEPT !.stack = Descend] => call'.stack = Descend /\ call'.at = call.at
  BY <1>1, <1>5, <1>8, StackChanges
<1> QED BY <1>3, <1>4, <1>5, <1>7, <1>8, <1>9

\* One object gets another status.
OneStatus(objs, objs2, h, status) ==
    /\ DOMAIN objs2 = DOMAIN objs
    /\ \A g \in DOMAIN objs :
          /\ objs2[g].id = objs[g].id /\ objs2[g].parentId = objs[g].parentId
          /\ objs2[g].payload = objs[g].payload
          /\ objs2[g].hasUnloadedChildren = objs[g].hasUnloadedChildren
          /\ objs2[g].parent = objs[g].parent
          /\ objs2[g].status = IF g = h THEN status ELSE objs[g].status

LEMMA StatusOfOne ==
    ASSUME NEW objs \in Seq(Object), NEW objs2, NEW h \in DOMAIN objs,
           NEW status \in {"New", "Modified", "Deleted", "Unchanged"},
           objs2 = [objs EXCEPT ![h].status = status]
    PROVE  OneStatus(objs, objs2, h, status)
<1>1. objs[h] \in Object /\ DOMAIN objs = 1..Len(objs)
  BY ObjectFields
<1>2. PICK o : o = [objs[h] EXCEPT !.status = status]
  OBVIOUS
<1>3. /\ o.id = objs[h].id /\ o.parentId = objs[h].parentId /\ o.payload = objs[h].payload
      /\ o.hasUnloadedChildren = objs[h].hasUnloadedChildren
      /\ o.parent = objs[h].parent /\ o.status = status
  BY <1>1, <1>2 DEF Object
<1>4. objs2 = [objs EXCEPT ![h] = o]
  BY <1>2
<1>5. DOMAIN objs2 = DOMAIN objs /\ \A g \in DOMAIN objs : objs2[g] = IF g = h THEN o ELSE objs[g]
  BY <1>4
<1> QED BY <1>3, <1>5 DEF OneStatus

-----------------------------------------------------------------------------
(***************************************************************************)
(* remove.                                                                 *)
(***************************************************************************)
LEMMA RemoveBegins ==
    ASSUME CallsInv, Stable(Seen), NEW id \in DOMAIN index, Remove(id)
    PROVE  Stable(Seen)' /\ Progress' /\ UNCHANGED Atomic!vars
<1>1. /\ index[id] \in DOMAIN objects /\ FindNode(id) = index[id] /\ index[id] \in Nat
      /\ objects \in Seq(Object)
  BY ObjectFields DEF CallsInv, Exact, FindNode, Typed
<1>2. PICK top : top = index[id]
  OBVIOUS
<1>3. top \in DOMAIN objects /\ <<top>> \in Seq(Nat)
  BY <1>1, <1>2
<1>4. Idle /\ before' = Now /\ UNCHANGED <<cacheVars, dbVars>>
      /\ call' = [NoCall EXCEPT !.at = "remove", !.stack = <<top>>]
  BY <1>1, <1>2 DEF Remove, Begin
<1>5. call'.at = "remove" /\ call'.stack = <<top>>
  BY <1>3, <1>4, BeginsWalk
<1>6. Stable(Seen)' /\ UNCHANGED Atomic!vars
  BY <1>4, <1>5, Begins
<1>7. UNCHANGED <<objects, rootList, index, nextTemporaryId, records, nextId>>
  BY <1>4 DEF cacheVars, dbVars
<1>8. PICK ns : ns = Now.nodes
  OBVIOUS
<1>9. /\ ns \in Seq(Node) /\ DOMAIN ns = DOMAIN objects
      /\ \A h \in DOMAIN objects : SameFields(ns[h], objects[h])
  BY <1>8, NowNodes
<1>10. before'.nodes = ns /\ before'.records = records /\ before'.nextId = nextId
       /\ before'.index = index /\ before'.nextTemporaryId = nextTemporaryId
  BY <1>4, <1>8, NowOutside
<1>11. Elements(call'.stack) = {top}
  <2>1. PICK s : s = <<top>>
    OBVIOUS
  <2>2. DOMAIN s = {1} /\ s[1] = top
    BY <2>1
  <2> QED BY <1>5, <2>1, <2>2 DEF Elements
<1>12. UpIn(before)' = [h \in DOMAIN ns |-> ns[h].parent]
  BY <1>10 DEF UpIn
<1>13. top \in Below(UpIn(before)', {top})
  BY <1>3, <1>9, <1>12, BelowContains
<1>14. Marking(top, {})'
  <2>1. ASSUME NEW h \in DOMAIN objects
        PROVE  /\ Kept(h, {"id", "parentId", "payload", "hasUnloadedChildren", "parent"})'
               /\ objects'[h].status = ns[h].status
    BY <1>7, <1>9, <1>10 DEF Kept, SameFields
  <2> QED BY <1>7, <1>9, <1>10, <1>11, <1>13, <2>1 DEF Marking, SameDatabase
<1>15. Progress'
  <2>1. top \in DOMAIN before'.nodes /\ {} \in SUBSET DOMAIN before'.nodes
    BY <1>3, <1>9, <1>10
  <2> QED BY <1>5, <1>14, <2>1 DEF Progress
<1> QED BY <1>6, <1>15

LEMMA MarkDeletedContinues ==
    ASSUME CallsInv, Stable(Seen), Progress, MarkDeleted
    PROVE  Stable(Seen)' /\ Progress' /\ UNCHANGED Atomic!vars
<1>1. /\ call.at = "remove" /\ call.stack # << >>
      /\ call' = [call EXCEPT !.stack = Descend]
      /\ objects' = [objects EXCEPT ![Head(call.stack)].status = "Deleted"]
      /\ UNCHANGED <<rootList, index, nextTemporaryId, records, nextId, before>>
      /\ objects \in Seq(Object)
  BY DEF MarkDeleted, dbVars, CallsInv, Typed
<1>2. PICK top \in DOMAIN before.nodes, marked \in SUBSET DOMAIN before.nodes :
          Marking(top, marked)
  BY <1>1 DEF Progress
<1>3. PICK x : x = Head(call.stack)
  OBVIOUS
<1>4. PICK rest : rest = Elements(Tail(call.stack))
  OBVIOUS
<1>5. /\ x \in DOMAIN objects
      /\ Elements(call.stack) = {x} \cup rest
      /\ Elements(call'.stack) = {c \in DOMAIN objects : objects[c].parent = x} \cup rest
      /\ call'.at = "remove"
  BY <1>1, <1>3, <1>4, WalkGoesDown
<1>6. OneStatus(objects, objects', x, "Deleted")
  <2>1. PICK objs2 : objs2 = objects'
    OBVIOUS
  <2>2. objs2 = [objects EXCEPT ![x].status = "Deleted"]
    BY <1>1, <1>3, <2>1
  <2> QED BY <1>1, <1>5, <2>1, <2>2, StatusOfOne
<1>7. PICK up : up = UpIn(before)
  OBVIOUS
<1>8. /\ DOMAIN objects = DOMAIN before.nodes
      /\ \A h \in DOMAIN objects :
            /\ Kept(h, {"id", "parentId", "payload", "hasUnloadedChildren", "parent"})
            /\ objects[h].status = IF h \in marked THEN "Deleted" ELSE before.nodes[h].status
            /\ objects[h].parent \in marked => h \in marked \cup {x} \cup rest
      /\ top \in marked \cup {x} \cup rest
      /\ marked \cup {x} \cup rest \subseteq Below(up, {top})
  BY <1>2, <1>5, <1>7 DEF Marking
<1>9. DOMAIN up = DOMAIN objects /\ \A h \in DOMAIN objects : up[h] = objects[h].parent
  BY <1>7, <1>8 DEF UpIn, Kept
<1>10. {c \in DOMAIN objects : objects[c].parent = x} \subseteq Below(up, {top})
  BY <1>8, <1>9, BelowClosed
<1>11. PICK marked2 : marked2 = marked \cup {x}
  OBVIOUS
<1>12. marked2 \in SUBSET DOMAIN before.nodes
  BY <1>5, <1>8, <1>11
<1>13. ASSUME NEW h \in DOMAIN objects
       PROVE  /\ Kept(h, {"id", "parentId", "payload", "hasUnloadedChildren", "parent"})'
              /\ objects'[h].status =
                     IF h \in marked2 THEN "Deleted" ELSE before.nodes[h].status
              /\ objects'[h].parent \in marked2 => h \in marked2 \cup Elements(call'.stack)
  <2>1. /\ objects'[h].id = objects[h].id /\ objects'[h].parentId = objects[h].parentId
        /\ objects'[h].payload = objects[h].payload
        /\ objects'[h].hasUnloadedChildren = objects[h].hasUnloadedChildren
        /\ objects'[h].parent = objects[h].parent
        /\ objects'[h].status = IF h = x THEN "Deleted" ELSE objects[h].status
    BY <1>6 DEF OneStatus
  <2>2. Kept(h, {"id", "parentId", "payload", "hasUnloadedChildren", "parent"})'
    <3>1. /\ objects[h].id = before.nodes[h].id /\ objects[h].parentId = before.nodes[h].parentId
          /\ objects[h].payload = before.nodes[h].payload
          /\ objects[h].hasUnloadedChildren = before.nodes[h].hasUnloadedChildren
          /\ objects[h].parent = before.nodes[h].parent
      BY <1>8 DEF Kept
    <3>2. /\ objects'[h].id = before'.nodes[h].id
          /\ objects'[h].parentId = before'.nodes[h].parentId
          /\ objects'[h].payload = before'.nodes[h].payload
          /\ objects'[h].hasUnloadedChildren = before'.nodes[h].hasUnloadedChildren
          /\ objects'[h].parent = before'.nodes[h].parent
      BY <1>1, <2>1, <3>1
    <3> QED BY <3>2 DEF Kept
  <2>3. objects'[h].parent \in marked2 => h \in marked2 \cup Elements(call'.stack)
    BY <1>5, <1>8, <1>11, <2>1
  <2> QED BY <1>8, <1>11, <2>1, <2>2, <2>3
<1>14. Marking(top, marked2)'
  <2>1. DOMAIN objects' = DOMAIN objects
    BY <1>6 DEF OneStatus
  <2>2. SameDatabase' /\ index' = before'.index /\ nextTemporaryId' = before'.nextTemporaryId
    BY <1>1, <1>2 DEF Marking, SameDatabase
  <2>3. top \in marked2 \cup Elements(call'.stack)
    BY <1>5, <1>8, <1>11
  <2>4. marked2 \cup Elements(call'.stack) \subseteq Below(UpIn(before)', {top})
    BY <1>1, <1>5, <1>7, <1>8, <1>10, <1>11 DEF UpIn
  <2> QED BY <1>1, <1>8, <1>13, <2>1, <2>2, <2>3, <2>4 DEF Marking
<1>15. Progress'
  BY <1>1, <1>5, <1>12, <1>14 DEF Progress
<1> QED BY <1>1, <1>5, <1>15, Continues

\* The nodes under a marked one are marked as well.
LEMMA MarkedIsBelow ==
    ASSUME NEW top, NEW marked, Marking(top, marked), call.stack = << >>,
           marked \in SUBSET DOMAIN before.nodes
    PROVE  marked = Below(UpIn(before), {top})
<1>1. PICK up : up = UpIn(before)
  OBVIOUS
<1>2. Elements(call.stack) = {}
  BY DEF Elements
<1>3. /\ DOMAIN objects = DOMAIN before.nodes
      /\ \A h \in DOMAIN objects :
            /\ Kept(h, {"id", "parentId", "payload", "hasUnloadedChildren", "parent"})
            /\ objects[h].parent \in marked => h \in marked
      /\ top \in marked /\ marked \subseteq Below(up, {top})
  BY <1>1, <1>2 DEF Marking
<1>4. DOMAIN up = DOMAIN objects /\ \A h \in DOMAIN objects : up[h] = objects[h].parent
  BY <1>1, <1>3 DEF UpIn, Kept
<1>5. Below(up, {top}) \subseteq marked
  BY <1>3, <1>4, BelowLeast
<1> QED BY <1>1, <1>3, <1>5

LEMMA RemoveReturns ==
    ASSUME CallsInv, CallsInv', Stable(Seen), Progress, Finish, call.at = "remove"
    PROVE  /\ Stable(Seen)' /\ Progress'
           /\ \E id \in DOMAIN Seen.index : Atomic!Remove(id)
<1>1. /\ call.stack = << >> /\ Return
      /\ UNCHANGED <<objects, rootList, index, nextTemporaryId, records, nextId>>
      /\ Seen = before
  BY SeenInside DEF Finish, cacheVars, dbVars
<1>2. PICK top \in DOMAIN before.nodes, marked \in SUBSET DOMAIN before.nodes :
          Marking(top, marked)
  BY DEF Progress
<1>3. marked = Below(UpIn(before), {top})
  BY <1>1, <1>2, MarkedIsBelow
<1>4. PICK ns, ns2 : ns = before.nodes /\ ns2 = Now.nodes
  OBVIOUS
<1>5. /\ ns2 \in Seq(Node) /\ DOMAIN ns2 = DOMAIN objects
      /\ \A h \in DOMAIN objects : SameFields(ns2[h], objects[h])
  BY <1>4, NowNodes
<1>6. /\ ns \in Seq(Node)
      /\ before.roots = {h \in DOMAIN ns : ns[h].parent = NoNode}
      /\ \A h \in DOMAIN ns : ns[h].parent \in {NoNode} \cup DOMAIN ns
      /\ Exact(ns, before.index)
      /\ RowsDescend(before.records) /\ \A h \in DOMAIN ns : Hangs(ns, h)
  BY <1>1, <1>4 DEF Stable, Whole, Descending
<1>7. DOMAIN objects = DOMAIN ns /\ DOMAIN ns2 = DOMAIN ns /\ top \in DOMAIN ns
  BY <1>2, <1>4, <1>5 DEF Marking
<1>8. ASSUME NEW h \in DOMAIN ns
      PROVE  /\ ns2[h].id = ns[h].id /\ ns2[h].parentId = ns[h].parentId
             /\ ns2[h].payload = ns[h].payload
             /\ ns2[h].hasUnloadedChildren = ns[h].hasUnloadedChildren
             /\ ns2[h].parent = ns[h].parent
             /\ ns2[h].status = IF h \in marked THEN "Deleted" ELSE ns[h].status
             /\ objects[h].parent \in marked => h \in marked
  <2>1. /\ Kept(h, {"id", "parentId", "payload", "hasUnloadedChildren", "parent"})
        /\ objects[h].status = IF h \in marked THEN "Deleted" ELSE ns[h].status
        /\ objects[h].parent \in marked => h \in marked
    BY <1>1, <1>2, <1>4, <1>7 DEF Marking, Elements
  <2> QED BY <1>4, <1>5, <1>7, <2>1 DEF Kept, SameFields
<1>9. ns2 = [h \in DOMAIN ns |-> IF h \in marked THEN [ns[h] EXCEPT !.status = "Deleted"]
                                 ELSE ns[h]]
  <2>1. ASSUME NEW h \in DOMAIN ns
        PROVE  ns2[h] = IF h \in marked THEN [ns[h] EXCEPT !.status = "Deleted"] ELSE ns[h]
    <3>1. ns[h] \in Node /\ ns2[h] \in Node
      BY <1>5, <1>6, <1>7
    <3>2. CASE h \in marked
      <4>1. PICK n : n = [ns[h] EXCEPT !.status = "Deleted"]
        OBVIOUS
      <4>2. n \in Node /\ n.id = ns[h].id /\ n.parentId = ns[h].parentId
            /\ n.payload = ns[h].payload /\ n.status = "Deleted"
            /\ n.hasUnloadedChildren = ns[h].hasUnloadedChildren /\ n.parent = ns[h].parent
        BY <3>1, <4>1 DEF Node
      <4>3. SameFields(ns2[h], n)
        BY <1>8, <3>2, <4>2 DEF SameFields
      <4>4. ns2[h] = n
        BY <3>1, <4>2, <4>3, SameNode
      <4> QED BY <3>2, <4>1, <4>4
    <3>3. CASE h \notin marked
      <4>1. SameFields(ns2[h], ns[h])
        BY <1>8, <3>3 DEF SameFields
      <4> QED BY <3>1, <3>3, <4>1, SameNode
    <3> QED BY <3>2, <3>3
  <2>2. ns2 = [h \in DOMAIN ns |-> ns2[h]]
    BY <1>5, <1>7
  <2> QED BY <2>1, <2>2
<1>10. Descending(Now)
  <2>1. ASSUME NEW h \in DOMAIN ns
        PROVE  Hangs(ns2, h)
    <3>1. PICK u : u = ns[h].parent
      OBVIOUS
    <3>2. Hangs(ns, h) /\ (u = NoNode \/ u \in DOMAIN ns)
      BY <1>6, <3>1
    <3>3. u \in marked => h \in marked
      BY <1>5, <1>7, <1>8, <3>1 DEF SameFields
    <3>4. CASE u = NoNode
      BY <1>8, <3>1, <3>2, <3>4 DEF Hangs
    <3>5. CASE u \in DOMAIN ns /\ u # NoNode
      <4>1. /\ ns2[u].id = ns[u].id
            /\ ns2[u].status = IF u \in marked THEN "Deleted" ELSE ns[u].status
        BY <1>8, <3>5
      <4> QED BY <1>8, <3>1, <3>2, <3>3, <3>5, <4>1 DEF Hangs
    <3> QED BY <3>2, <3>4, <3>5
  <2>2. RowsDescend(records)
    BY <1>2, <1>6 DEF Marking, SameDatabase
  <2> QED BY <1>4, <1>7, <2>1, <2>2, NowOutside DEF Descending
<1>11. Now' = Now
  BY <1>1 DEF Now
<1>12. Stable(Seen)' /\ Progress' /\ Seen' = Now
  BY <1>1, <1>10, <1>11, Returns
<1>13. PICK id : id = ns[top].id
  OBVIOUS
<1>14. id \in DOMAIN before.index /\ before.index[id] = top /\ top # NoNode
  BY <1>6, <1>7, <1>13 DEF Exact, NoNode
<1>15. Atomic!FindNode(id) = top
  BY <1>1, <1>14 DEF Atomic!FindNode
<1>16. Atomic!Up = UpIn(before) /\ Atomic!Below(UpIn(before), {top}) = marked
  BY <1>1, <1>3 DEF Atomic!Up, UpIn, Atomic!Below, Below, Atomic!ClosedAbove, ClosedAbove
<1>17. Seen.nodes = ns /\ (Seen.nodes)' = ns2
  BY <1>1, <1>4, <1>12
<1>18. /\ (Seen.roots)' = Seen.roots /\ (Seen.index)' = Seen.index
       /\ (Seen.nextTemporaryId)' = Seen.nextTemporaryId
       /\ (Seen.records)' = Seen.records /\ (Seen.nextId)' = Seen.nextId
  <2>1. Now.roots = {h \in DOMAIN objects : objects[h].parent = NoNode}
    BY RootsAreParentless, NowOutside DEF CallsInv, Typed
  <2>2. Now.roots = before.roots
    BY <1>5, <1>6, <1>7, <1>8, <2>1 DEF SameFields
  <2>3. records = before.records /\ nextId = before.nextId /\ index = before.index
        /\ nextTemporaryId = before.nextTemporaryId
    BY <1>2 DEF Marking, SameDatabase
  <2> QED BY <1>1, <1>12, <2>2, <2>3, NowOutside
<1>19. Atomic!Remove(id)
  <2>1. Atomic!RemoveResult(id) = "Success"
    BY <1>14, <1>15 DEF Atomic!RemoveResult, NoNode, Atomic!NoNode
  <2> QED BY <1>9, <1>15, <1>16, <1>17, <1>18, <2>1 DEF Atomic!Remove, Atomic!dbVars
<1> QED BY <1>1, <1>12, <1>14, <1>19

-----------------------------------------------------------------------------
(***************************************************************************)
(* loadFromDatabase.                                                       *)
(***************************************************************************)
\* All fields but the vector stay when an object gets another vector.
LEMMA OtherFields ==
    ASSUME NEW o \in Object, NEW children \in Seq(Nat), NEW o2, o2 = WithChildren(o, children)
    PROVE  SameFields(o2, o)
BY DEF Object, WithChildren, SameFields

LEMMA VectorGrows ==
    ASSUME NEW objs \in Seq(Object), NEW p \in DOMAIN objs, NEW n \in Nat, NEW objs2,
           objs2 = [objs EXCEPT ![p] = WithChildren(objs[p], Append(objs[p].children, n))]
    PROVE  /\ objs2 \in Seq(Object) /\ Len(objs2) = Len(objs) /\ DOMAIN objs2 = DOMAIN objs
           /\ \A h \in DOMAIN objs : SameFields(objs2[h], objs[h])
<1>1. PICK children \in Seq(Nat) : children = Append(objs[p].children, n)
  BY ObjectFields, AppendProperties
<1>2. PICK o : o = WithChildren(objs[p], children)
  OBVIOUS
<1>3. objs[p] \in Object
  BY ObjectFields
<1>4. o \in Object /\ SameFields(o, objs[p])
  BY <1>2, <1>3, ChildrenChange, OtherFields
<1>5. objs2 = [objs EXCEPT ![p] = o]
  BY <1>1, <1>2
<1>6. /\ objs2 \in Seq(Object) /\ Len(objs2) = Len(objs) /\ DOMAIN objs2 = DOMAIN objs
      /\ \A g \in DOMAIN objs : objs2[g] = IF g = p THEN o ELSE objs[g]
  BY <1>4, <1>5, OneReplaced
<1> QED BY <1>4, <1>6 DEF SameFields

\* insertLoadedNode: the new object, the last, goes to the vector of its parent.
Enters(objs, p, mid, o, objs2) ==
    /\ objs \in Seq(Object) /\ p \in {NoNode} \cup DOMAIN objs /\ o \in Object
    /\ mid = IF p = NoNode THEN objs
             ELSE [objs EXCEPT ![p] = WithChildren(objs[p],
                                                   Append(objs[p].children, Len(objs) + 1))]
    /\ objs2 = Append(mid, o)

LEMMA Entered ==
    ASSUME NEW objs, NEW p, NEW mid, NEW o, NEW objs2, Enters(objs, p, mid, o, objs2)
    PROVE  /\ objs2 \in Seq(Object) /\ Len(objs2) = Len(objs) + 1
           /\ DOMAIN objs2 = DOMAIN objs \cup {Len(objs) + 1}
           /\ objs2[Len(objs) + 1] = o
           /\ \A h \in DOMAIN objs : SameFields(objs2[h], objs[h])
<1> USE DEF Enters
<1>1. DOMAIN objs = 1..Len(objs) /\ Len(objs) \in Nat /\ Len(objs) + 1 \in Nat
  BY ObjectFields
<1>2. /\ mid \in Seq(Object) /\ Len(mid) = Len(objs) /\ DOMAIN mid = DOMAIN objs
      /\ \A h \in DOMAIN objs : SameFields(mid[h], objs[h])
  <2>1. CASE p = NoNode
    BY <1>1, <2>1 DEF SameFields
  <2>2. CASE p # NoNode
    <3>1. p \in DOMAIN objs
      BY <2>2
    <3>2. mid = [objs EXCEPT ![p] = WithChildren(objs[p],
                                                 Append(objs[p].children, Len(objs) + 1))]
      BY <2>2
    <3> QED BY <1>1, <3>1, <3>2, VectorGrows
  <2> QED BY <2>1, <2>2
<1>3. /\ objs2 \in Seq(Object) /\ Len(objs2) = Len(mid) + 1 /\ objs2[Len(mid) + 1] = o
      /\ \A h \in 1..Len(mid) : objs2[h] = mid[h]
      /\ DOMAIN objs2 = 1..(Len(mid) + 1)
  BY <1>2, AppendProperties, LenProperties
<1> QED BY <1>1, <1>2, <1>3

LEMMA AdoptingFields ==
    ASSUME NEW node \in Nat, NEW parent \in Nat, NEW hasChildren \in BOOLEAN,
           NEW stack \in Seq(Nat), NEW d, d = Adopting(node, parent, hasChildren, stack)
    PROVE  /\ d.at = "adopt" /\ d.node = node /\ d.parent = parent /\ d.stack = stack
           /\ d.hasChildren = hasChildren
<1>1. NoCall \in Frame
  BY NoCallType
<1> HIDE DEF NoCall
<1> QED BY <1>1 DEF Frame, Adopting

\* The scan of roots_ for one parent id gives the ids of the orphans, and
\* only these.
Scans(objs, roots, id, positions, found, s) ==
    /\ objs \in Seq(Object) /\ roots \in Seq(Nat) /\ Owned(objs, roots)
    /\ positions = {i \in DOMAIN roots : objs[roots[i]].parentId = id}
    /\ found \in Ascending(positions)
    /\ s = IdsAt(objs, roots, found)

LEMMA ScanFindsOrphans ==
    ASSUME NEW objs, NEW roots, NEW id, NEW positions, NEW found, NEW s,
           Scans(objs, roots, id, positions, found, s)
    PROVE  /\ \A e \in Elements(s) :
                 \E h \in DOMAIN objs :
                     objs[h].parent = NoNode /\ objs[h].parentId = id /\ objs[h].id = e
           /\ \A h \in DOMAIN objs :
                 objs[h].parent = NoNode /\ objs[h].parentId = id
                     => objs[h].id \in Elements(s)
<1> USE DEF Scans
<1>2. /\ found \in [1..Cardinality(positions) -> positions]
      /\ \A x \in positions : \E i \in 1..Cardinality(positions) : found[i] = x
  <2>1. PICK n : n = Cardinality(positions)
    OBVIOUS
  <2>2. found \in Bijection(1..n, positions)
    BY <2>1 DEF Ascending, Orders
  <2>3. found \in [1..n -> positions]
    BY <2>2 DEF Bijection, Injection
  <2>4. \A x \in positions : \E i \in 1..n : found[i] = x
    BY <2>2 DEF Bijection, Surjection
  <2> QED BY <2>1, <2>3, <2>4
<1>3. Keeps(objs, roots, NoNode)
  BY DEF Owned, VectorOf
<1>4. DOMAIN s = DOMAIN found /\ \A i \in DOMAIN found : s[i] = objs[roots[found[i]]].id
  BY DEF IdsAt
<1>5. ASSUME NEW e \in Elements(s)
      PROVE  \E h \in DOMAIN objs :
                 objs[h].parent = NoNode /\ objs[h].parentId = id /\ objs[h].id = e
  <2>1. PICK i \in DOMAIN s : e = s[i]
    BY DEF Elements
  <2>2. found[i] \in positions /\ e = objs[roots[found[i]]].id
    BY <1>2, <1>4, <2>1
  <2>3. PICK h : h = roots[found[i]]
    OBVIOUS
  <2>4. h \in DOMAIN objs /\ objs[h].parent = NoNode /\ objs[h].parentId = id
    BY <1>3, <2>2, <2>3 DEF Keeps
  <2> QED BY <2>2, <2>3, <2>4
<1>6. ASSUME NEW h \in DOMAIN objs, objs[h].parent = NoNode, objs[h].parentId = id
      PROVE  objs[h].id \in Elements(s)
  <2>1. PICK i \in DOMAIN roots : roots[i] = h
    BY <1>3, <1>6 DEF Keeps
  <2>2. PICK k \in DOMAIN found : found[k] = i
    BY <1>2, <1>6, <2>1
  <2>3. s[k] = objs[h].id /\ k \in DOMAIN s
    BY <1>4, <2>1, <2>2
  <2> QED BY <2>3 DEF Elements
<1> QED BY <1>5, <1>6

LEMMA LoadBegins ==
    ASSUME CallsInv, Stable(Seen), NEW id \in DOMAIN records, LoadFromDatabase(id)
    PROVE  Stable(Seen)' /\ Progress' /\ UNCHANGED Atomic!vars
<1> DEFINE snapshot == MakeSnapshot(id)
           raw      == Len(objects) + 1
           parent   == FindNode(snapshot.parentId)
           mid      == IF parent = NoNode THEN objects
                       ELSE [objects EXCEPT ![parent].children = Append(@, raw)]
           o        == [id |-> id, parentId |-> snapshot.parentId,
                        payload |-> snapshot.payload,
                        status |-> IF snapshot.deleted THEN "Deleted" ELSE "Unchanged",
                        hasUnloadedChildren |-> FALSE, parent |-> parent, children |-> << >>]
<1>1. /\ objects \in Seq(Object) /\ rootList \in Seq(Nat) /\ index \in Table
      /\ nextId \in 1..(MaxId + 1) /\ records \in [1..(nextId - 1) -> Record]
      /\ Owned(objects, rootList) /\ Exact(objects, index)
  BY DEF CallsInv, Typed, DbTypeOK
<1>2. /\ FindNode(id) = NoNode /\ UNCHANGED <<nextTemporaryId, records, nextId>>
      /\ objects' = Append(mid, o)
      /\ index' = Emplace(index, id, raw)
      /\ Idle /\ before' = Now
  BY DEF LoadFromDatabase, dbVars, Begin
<1>28. PICK positions : positions = {i \in DOMAIN rootList : objects[rootList[i]].parentId = id}
  OBVIOUS
<1>3. PICK found \in Ascending(positions) :
          call' = Adopting(raw, parent, snapshot.hasChildren, IdsAt(objects, rootList, found))
  BY <1>28 DEF LoadFromDatabase, Begin, Adopting, IdsAt
<1>4. PICK s : s = IdsAt(objects, rootList, found)
  OBVIOUS
<1>5. /\ \A e \in Elements(s) :
            \E h \in DOMAIN objects :
                objects[h].parent = NoNode /\ objects[h].parentId = id /\ objects[h].id = e
      /\ \A h \in DOMAIN objects :
            objects[h].parent = NoNode /\ objects[h].parentId = id
                => objects[h].id \in Elements(s)
  <2>1. Scans(objects, rootList, id, positions, found, s)
    BY <1>1, <1>4, <1>28 DEF Scans
  <2> QED BY <2>1, ScanFindsOrphans
<1>6. s \in Seq(Nat)
  <2>2. positions \in SUBSET DOMAIN rootList
    BY <1>28
  <2> QED BY <1>1, <1>4, <2>2, ScannedInOrder
<1>7. id \in Nat /\ records[id] \in Record
  BY <1>1
<1>8. /\ snapshot.parentId = records[id].parentId /\ snapshot.payload = records[id].payload
      /\ snapshot.deleted = records[id].deleted
      /\ snapshot.hasChildren = (\E c \in DOMAIN records : records[c].parentId = id)
      /\ snapshot.parentId \in Nat /\ snapshot.payload \in Payload
      /\ snapshot.hasChildren \in BOOLEAN
  BY <1>7 DEF MakeSnapshot, Record, HasChildren
<1>9. parent \in {NoNode} \cup DOMAIN objects
  BY <1>1 DEF Exact, FindNode
<1>10. parent \in Nat /\ raw \in Nat /\ raw = Len(objects) + 1
  <2> HIDE DEF parent
  <2>2. DOMAIN objects = 1..Len(objects) /\ Len(objects) \in Nat
    BY <1>1, ObjectFields
  <2> QED BY <1>9, <2>2 DEF NoNode
<1>11. id \notin DOMAIN index
  BY <1>1, <1>2, ObjectFields DEF FindNode, Exact
<1>12. parent = FindNode(records[id].parentId)
  BY <1>8
<1> HIDE DEF parent, snapshot, raw
<1>13. o \in Object
  <2>1. PICK status \in {"New", "Modified", "Deleted", "Unchanged"} :
            status = IF snapshot.deleted THEN "Deleted" ELSE "Unchanged"
    OBVIOUS
  <2> QED BY <1>7, <1>8, <1>10, <2>1, EmptySeq DEF Object
<1>14. /\ o.id = id /\ o.parentId = records[id].parentId /\ o.payload = records[id].payload
       /\ o.status = (IF records[id].deleted THEN "Deleted" ELSE "Unchanged")
       /\ o.parent = parent
  BY <1>8
<1> HIDE DEF o
<1>15. PICK objs2 : objs2 = objects'
  OBVIOUS
<1>16. /\ objs2 \in Seq(Object) /\ Len(objs2) = raw
       /\ DOMAIN objs2 = DOMAIN objects \cup {raw}
       /\ objs2[raw] = o
       /\ \A h \in DOMAIN objects : SameFields(objs2[h], objects[h])
  <2>1. mid = IF parent = NoNode THEN objects
              ELSE [objects EXCEPT ![parent] =
                       WithChildren(objects[parent], Append(objects[parent].children, Len(objects) + 1))]
    BY <1>10 DEF WithChildren
  <2> HIDE DEF mid
  <2>2. PICK p, m, ob : p = parent /\ m = mid /\ ob = o
    OBVIOUS
  <2>3. Enters(objects, p, m, ob, objs2)
    BY <1>1, <1>2, <1>9, <1>13, <1>15, <2>1, <2>2 DEF Enters
  <2>4. /\ objs2 \in Seq(Object) /\ Len(objs2) = Len(objects) + 1
        /\ DOMAIN objs2 = DOMAIN objects \cup {Len(objects) + 1}
        /\ objs2[Len(objects) + 1] = ob
        /\ \A h \in DOMAIN objects : SameFields(objs2[h], objects[h])
    BY <2>3, Entered
  <2> QED BY <1>10, <2>2, <2>4
<1>17. /\ call'.at = "adopt" /\ call'.node = raw /\ call'.parent = parent /\ call'.stack = s
       /\ call'.hasChildren = snapshot.hasChildren
  <2>1. PICK d, n, p, b : d = call' /\ n = raw /\ p = parent /\ b = snapshot.hasChildren
    OBVIOUS
  <2>2. n \in Nat /\ p \in Nat /\ b \in BOOLEAN /\ d = Adopting(n, p, b, s)
    BY <1>3, <1>4, <1>8, <1>10, <2>1
  <2>3. /\ d.at = "adopt" /\ d.node = n /\ d.parent = p /\ d.stack = s /\ d.hasChildren = b
    BY <1>6, <2>2, AdoptingFields
  <2> QED BY <2>1, <2>3
<1>18. Stable(Seen)' /\ UNCHANGED Atomic!vars
  BY <1>2, <1>17, Begins
<1>19. PICK ns : ns = Now.nodes
  OBVIOUS
<1>20. /\ ns \in Seq(Node) /\ DOMAIN ns = DOMAIN objects
       /\ \A h \in DOMAIN objects : SameFields(ns[h], objects[h])
  BY <1>19, NowNodes
<1>21. /\ before'.nodes = ns /\ before'.records = records /\ before'.nextId = nextId
       /\ before'.index = index /\ before'.nextTemporaryId = nextTemporaryId
  BY <1>2, <1>19, NowOutside
<1>22. Len(ns) = Len(objects)
  BY <1>1, <1>19, NowOutside, OutsideFields
<1>23. OrphansOf(before', id) =
           {h \in DOMAIN objects : objects[h].parent = NoNode /\ objects[h].parentId = id}
  BY <1>20, <1>21 DEF OrphansOf, SameFields
<1>24. ASSUME NEW h \in DOMAIN ns
       PROVE  /\ Kept(h, {"id", "parentId", "payload", "status", "hasUnloadedChildren"})'
              /\ objs2[h].parent =
                     IF h \in OrphansOf(before', id) /\ ns[h].id \notin Elements(s)
                     THEN raw ELSE ns[h].parent
  <2>1. SameFields(objs2[h], objects[h]) /\ SameFields(ns[h], objects[h])
    BY <1>16, <1>20
  <2>2. Kept(h, {"id", "parentId", "payload", "status", "hasUnloadedChildren"})'
    BY <1>15, <1>21, <2>1 DEF Kept, SameFields
  <2>3. ~(h \in OrphansOf(before', id) /\ ns[h].id \notin Elements(s))
    BY <1>5, <1>23, <2>1 DEF SameFields
  <2> QED BY <2>1, <2>2, <2>3 DEF SameFields
<1>25. \A e \in Elements(s) : \E h \in OrphansOf(before', id) : ns[h].id = e
  BY <1>5, <1>20, <1>23 DEF SameFields
<1>26. FoundIn(before', records[id].parentId) = parent
  BY <1>12, <1>21 DEF FoundIn, FindNode
<1>27. PICK n : n = raw
  OBVIOUS
<1>29. LoadingNode(n, id)'
  <2>1. /\ n = Len(before'.nodes) + 1 /\ Len(objects') = n /\ call'.node = n
        /\ objects'[n].id = id
    BY <1>10, <1>14, <1>15, <1>16, <1>17, <1>21, <1>22, <1>27
  <2>2. SameDatabase' /\ nextTemporaryId' = before'.nextTemporaryId
    BY <1>2, <1>21 DEF SameDatabase
  <2>3. id \in DOMAIN before'.records \ DOMAIN before'.index
    BY <1>11, <1>21
  <2>4. call'.hasChildren = (\E c \in DOMAIN records' : records'[c].parentId = id)
    BY <1>2, <1>8, <1>17
  <2>5. /\ objects'[n].parentId = before'.records[id].parentId
        /\ objects'[n].payload = before'.records[id].payload
        /\ objects'[n].status =
               IF before'.records[id].deleted THEN "Deleted" ELSE "Unchanged"
        /\ objects'[n].parent = call'.parent
    BY <1>14, <1>15, <1>16, <1>17, <1>21, <1>27
  <2>6. index' = Emplace(before'.index, id, n)
    BY <1>2, <1>21, <1>27
  <2>7. call'.parent = FoundIn(before', before'.records[id].parentId)
    BY <1>17, <1>21, <1>26
  <2>8. \A e \in Elements(call'.stack) :
            \E h \in OrphansOf(before', id) : before'.nodes[h].id = e
    BY <1>17, <1>21, <1>25
  <2>9. \A h \in DOMAIN before'.nodes :
            /\ Kept(h, {"id", "parentId", "payload", "status", "hasUnloadedChildren"})'
            /\ objects'[h].parent =
                   IF h \in OrphansOf(before', id)
                          /\ before'.nodes[h].id \notin Elements(call'.stack)
                   THEN n ELSE before'.nodes[h].parent
    BY <1>15, <1>17, <1>21, <1>24, <1>27
  <2> QED BY <2>1, <2>2, <2>3, <2>4, <2>5, <2>6, <2>7, <2>8, <2>9 DEF LoadingNode
<1>30. Loading'
  BY <1>29 DEF Loading, LoadingNode
<1> QED BY <1>17, <1>18, <1>30 DEF Progress

\* attachChild changes, of all fields but the vectors, one parent only.
Detained(n, o) ==
    /\ n.id = o.id /\ n.parentId = o.parentId /\ n.payload = o.payload
    /\ n.status = o.status /\ n.hasUnloadedChildren = o.hasUnloadedChildren

LEMMA ParentFields ==
    ASSUME NEW o \in Object, NEW parent \in Nat, NEW o2, o2 = WithParent(o, parent)
    PROVE  Detained(o2, o)
BY DEF Object, WithParent, Detained

LEMMA AttachedFields ==
    ASSUME NEW objs, NEW mid, NEW objs2, NEW n, NEW child, Attaches(objs, mid, objs2, n, child),
           mid = [objs EXCEPT ![n] = WithChildren(objs[n], Append(objs[n].children, child))]
    PROVE  \A h \in DOMAIN objs : Detained(objs2[h], objs[h])
<1> USE DEF Attaches
<1>1. n \in Nat /\ child \in Nat
  BY ObjectFields
<1>2. /\ mid \in Seq(Object) /\ DOMAIN mid = DOMAIN objs
      /\ \A h \in DOMAIN objs : SameFields(mid[h], objs[h])
  BY <1>1, VectorGrows
<1>3. PICK was \in Object : was = mid[child]
  BY <1>2, ObjectFields
<1>4. PICK o : o = WithParent(was, n)
  OBVIOUS
<1>5. Detained(o, was)
  BY <1>1, <1>4, ParentFields
<1>6. objs2 = [mid EXCEPT ![child] = o]
  BY <1>3, <1>4
<1>7. \A h \in DOMAIN objs : objs2[h] = IF h = child THEN o ELSE mid[h]
  BY <1>2, <1>6
<1> QED BY <1>2, <1>3, <1>5, <1>7 DEF SameFields, Detained

\* An adoption: the first id of the stack is that of a root, which goes under
\* the node that is loaded.
LEMMA Adopts ==
    ASSUME CallsInv, AdoptOrphan,
           NEW child \in DOMAIN objects, objects[child].parent = NoNode,
           objects[child].id = Head(call.stack)
    PROVE  /\ DOMAIN objects' = DOMAIN objects /\ Len(objects') = Len(objects)
           /\ \A h \in DOMAIN objects :
                 /\ Detained(objects'[h], objects[h])
                 /\ objects'[h].parent = IF h = child THEN call.node ELSE objects[h].parent
<1> DEFINE hits  == {i \in DOMAIN rootList : objects[rootList[i]].id = Head(call.stack)}
           place == CHOOSE i \in hits : \A j \in hits : i <= j
<1>1. /\ objects \in Seq(Object) /\ rootList \in Seq(Nat)
      /\ Owned(objects, rootList) /\ Exact(objects, index)
      /\ call.at = "adopt" /\ call.stack # << >>
  BY DEF AdoptOrphan, CallsInv, Typed
<1>2. Keeps(objects, rootList, NoNode) /\ Rising(rootList)
  BY <1>1 DEF Owned, VectorOf, Keeps
<1>3. PICK at \in DOMAIN rootList : rootList[at] = child
  BY <1>2 DEF Keeps
<1>4. ASSUME NEW i \in hits
      PROVE  i = at
  <2>1. i \in DOMAIN rootList /\ objects[rootList[i]].id = objects[child].id
    OBVIOUS
  <2>2. PICK h \in DOMAIN objects : h = rootList[i]
    BY <1>2, <2>1 DEF Keeps
  <2>3. h = child
    BY <1>1, <2>1, <2>2 DEF Exact
  <2> QED BY <1>1, <1>2, <1>3, <2>1, <2>2, <2>3, RisingDistinct
<1>5. at \in hits
  BY <1>3
<1>6. hits = {at}
  BY <1>4, <1>5
<1>7. place = at
  <2>1. at \in Int
    BY <1>1
  <2>2. at <= at
    BY <2>1
  <2> HIDE DEF hits
  <2> QED BY <1>6, <2>2
<1>8. PICK n : n = call.node
  OBVIOUS
<1>9. n \in DOMAIN objects
  BY <1>1, <1>8 DEF CallsInv, AdoptOK
<1>10. objects' = [objects EXCEPT ![n].children = Append(@, child), ![child].parent = n]
  <2>1. IF hits = {} THEN UNCHANGED <<objects, rootList>>
        ELSE objects' = [objects EXCEPT ![n].children = Append(@, rootList[place]),
                                        ![rootList[place]].parent = n]
    BY <1>8 DEF AdoptOrphan
  <2>2. hits # {}
    BY <1>6
  <2> HIDE DEF hits, place
  <2> QED BY <1>3, <1>7, <2>1, <2>2
<1>11. PICK mid : mid = [objects EXCEPT ![n] =
                             WithChildren(objects[n], Append(objects[n].children, child))]
  OBVIOUS
<1>12. PICK objs2 : objs2 = objects'
  OBVIOUS
<1>13. objs2 = [mid EXCEPT ![child] = WithParent(mid[child], n)]
  BY <1>10, <1>11, <1>12 DEF WithChildren, WithParent
<1>14. Attaches(objects, mid, objs2, n, child)
  BY <1>1, <1>9, <1>11, <1>13 DEF Attaches, ChildEntered
<1>15. /\ objs2 \in Seq(Object) /\ Len(objs2) = Len(objects)
       /\ Moves(objects, objs2, n, child)
  BY <1>14, Attached
<1>16. \A h \in DOMAIN objects : Detained(objs2[h], objects[h])
  BY <1>11, <1>14, AttachedFields
<1>17. DOMAIN objs2 = DOMAIN objects
  BY <1>1, <1>15, ObjectFields
<1> QED BY <1>8, <1>12, <1>15, <1>16, <1>17 DEF Moves

LEMMA AdoptContinues ==
    ASSUME CallsInv, Stable(Seen), Progress, AdoptOrphan
    PROVE  Stable(Seen)' /\ Progress' /\ UNCHANGED Atomic!vars
<1>1. /\ objects \in Seq(Object) /\ rootList \in Seq(Nat) /\ call \in Frame
      /\ Owned(objects, rootList) /\ Exact(objects, index)
      /\ call.at = "adopt" /\ call.stack # << >>
      /\ call' = [call EXCEPT !.stack = Tail(call.stack)]
      /\ UNCHANGED <<index, nextTemporaryId, records, nextId, before>>
      /\ Seen = before
  BY SeenInside DEF AdoptOrphan, CallsInv, Typed, dbVars
<1>2. PICK raw, id : raw = call.node /\ id = objects[raw].id
  OBVIOUS
<1>3. LoadingNode(raw, id)
  BY <1>1, <1>2 DEF Progress, Loading
<1>4. PICK x, rest : x = Head(call.stack) /\ rest = Tail(call.stack)
  OBVIOUS
<1>5. call.stack \in Seq(Nat)
  BY <1>1 DEF Frame
<1>6. /\ Elements(call.stack) = {x} \cup Elements(rest)
      /\ rest \in Seq(Nat)
  BY <1>1, <1>4, <1>5, ElementsOfStack
<1>7. /\ call'.at = "adopt" /\ call'.node = raw /\ call'.stack = rest
      /\ call'.parent = call.parent /\ call'.hasChildren = call.hasChildren
  BY <1>1, <1>2, <1>4, <1>6 DEF Frame
<1>8. x \notin Elements(rest)
  <2>1. \A i, j \in DOMAIN call.stack : i < j => index[call.stack[i]] < index[call.stack[j]]
    BY <1>1 DEF CallsInv, AdoptOK
  <2>2. PICK stack \in Seq(Nat) : stack = call.stack
    BY <1>5
  <2>3. /\ 1 \in DOMAIN stack /\ x = stack[1]
        /\ \A i \in DOMAIN rest : i + 1 \in DOMAIN stack /\ 1 < i + 1 /\ rest[i] = stack[i + 1]
    BY <1>1, <1>4, <2>2, RestOf
  <2>4. ASSUME NEW i \in DOMAIN rest
        PROVE  rest[i] # x
    <3>1. index[stack[1]] < index[stack[i + 1]] /\ rest[i] = stack[i + 1]
      BY <2>1, <2>2, <2>3
    <3>2. index[x] \in Nat
      <4>1. x \in DOMAIN index
        BY <1>1, <2>2, <2>3 DEF CallsInv, AdoptOK
      <4> QED BY <1>1, <4>1, ObjectFields DEF Exact
    <3> QED BY <2>3, <3>1, <3>2
  <2> QED BY <2>4 DEF Elements
<1>9. PICK child \in OrphansOf(before, id) : before.nodes[child].id = x
  BY <1>3, <1>6 DEF LoadingNode
<1>10. /\ child \in DOMAIN before.nodes
       /\ before.nodes[child].parent = NoNode /\ before.nodes[child].parentId = id
  BY <1>9 DEF OrphansOf
<1>11. /\ raw = Len(before.nodes) + 1 /\ Len(objects) = raw
       /\ \A h \in DOMAIN before.nodes :
             /\ Kept(h, {"id", "parentId", "payload", "status", "hasUnloadedChildren"})
             /\ objects[h].parent =
                    IF h \in OrphansOf(before, id)
                           /\ before.nodes[h].id \notin Elements(call.stack)
                    THEN raw ELSE before.nodes[h].parent
  BY <1>3 DEF LoadingNode
<1>12. /\ before.nodes \in Seq(Node) /\ Exact(before.nodes, before.index)
  BY <1>1 DEF Stable, Whole
<1>13. DOMAIN objects = DOMAIN before.nodes \cup {raw} /\ raw \notin DOMAIN before.nodes
  <2>1. /\ DOMAIN before.nodes = 1..Len(before.nodes) /\ Len(before.nodes) \in Nat
        /\ DOMAIN objects = 1..Len(objects)
    BY <1>1, <1>12, LenProperties
  <2> QED BY <1>11, <2>1
<1>14. child \in DOMAIN objects /\ objects[child].parent = NoNode /\ objects[child].id = x
  BY <1>6, <1>9, <1>10, <1>11, <1>13 DEF Kept
<1>15. /\ DOMAIN objects' = DOMAIN objects /\ Len(objects') = Len(objects)
       /\ \A h \in DOMAIN objects :
             /\ Detained(objects'[h], objects[h])
             /\ objects'[h].parent = IF h = child THEN raw ELSE objects[h].parent
  BY <1>2, <1>4, <1>14, Adopts
<1>16. ASSUME NEW h \in DOMAIN before.nodes
       PROVE  /\ Kept(h, {"id", "parentId", "payload", "status", "hasUnloadedChildren"})'
              /\ objects'[h].parent =
                     IF h \in OrphansOf(before, id) /\ before.nodes[h].id \notin Elements(rest)
                     THEN raw ELSE before.nodes[h].parent
  <2>1. h \in DOMAIN objects
    BY <1>13
  <2>2. Kept(h, {"id", "parentId", "payload", "status", "hasUnloadedChildren"})'
    BY <1>1, <1>11, <1>15, <2>1 DEF Kept, Detained
  <2>3. CASE h = child
    BY <1>8, <1>9, <1>15, <2>1, <2>2, <2>3
  <2>4. CASE h # child
    <3>1. before.nodes[h].id # x
      BY <1>9, <1>10, <1>12, <2>4 DEF Exact
    <3> QED BY <1>6, <1>11, <1>15, <2>1, <2>2, <2>4, <3>1
  <2> QED BY <2>3, <2>4
<1>17. LoadingNode(raw, id)'
  <2>1. /\ objects'[raw].id = id /\ objects'[raw].parentId = objects[raw].parentId
        /\ objects'[raw].payload = objects[raw].payload
        /\ objects'[raw].status = objects[raw].status
        /\ objects'[raw].parent = objects[raw].parent
    <3>1. raw \in DOMAIN objects /\ raw # child
      BY <1>10, <1>13
    <3> QED BY <1>2, <1>15, <3>1 DEF Detained
  <2>2. OrphansOf(before', id) = OrphansOf(before, id)
    BY <1>1
  <2>3. SameDatabase'
    BY <1>1, <1>3 DEF LoadingNode, SameDatabase
  <2>4. /\ objects[raw].parent = call.parent
        /\ objects[raw].parentId = before.records[id].parentId
        /\ objects[raw].payload = before.records[id].payload
        /\ objects[raw].status = (IF before.records[id].deleted THEN "Deleted" ELSE "Unchanged")
        /\ call.parent = FoundIn(before, before.records[id].parentId)
        /\ call.hasChildren = (\E c \in DOMAIN records : records[c].parentId = id)
        /\ nextTemporaryId = before.nextTemporaryId
        /\ id \in DOMAIN before.records \ DOMAIN before.index
        /\ index = Emplace(before.index, id, raw)
        /\ \A e \in Elements(call.stack) :
              \E h \in OrphansOf(before, id) : before.nodes[h].id = e
    BY <1>3 DEF LoadingNode
  <2>5. FoundIn(before', before'.records[id].parentId) = call'.parent
    BY <1>1, <1>7, <2>4
  <2>6. /\ nextTemporaryId' = before'.nextTemporaryId
        /\ id \in DOMAIN before'.records \ DOMAIN before'.index
        /\ index' = Emplace(before'.index, id, raw)
        /\ call'.hasChildren = (\E c \in DOMAIN records' : records'[c].parentId = id)
    BY <1>1, <1>7, <2>4
  <2>7. /\ objects'[raw].parentId = before'.records[id].parentId
        /\ objects'[raw].payload = before'.records[id].payload
        /\ objects'[raw].status =
               (IF before'.records[id].deleted THEN "Deleted" ELSE "Unchanged")
        /\ objects'[raw].parent = call'.parent
    BY <1>1, <1>7, <2>1, <2>4
  <2>8. \A e \in Elements(call'.stack) :
            \E h \in OrphansOf(before', id) : before'.nodes[h].id = e
    BY <1>1, <1>6, <1>7, <2>4
  <2>9. \A h \in DOMAIN before'.nodes :
            /\ Kept(h, {"id", "parentId", "payload", "status", "hasUnloadedChildren"})'
            /\ objects'[h].parent =
                   IF h \in OrphansOf(before', id)
                          /\ before'.nodes[h].id \notin Elements(call'.stack)
                   THEN raw ELSE before'.nodes[h].parent
    BY <1>1, <1>7, <1>16, <2>2
  <2>10. raw = Len(before'.nodes) + 1 /\ Len(objects') = raw
    BY <1>1, <1>11, <1>15
  <2> QED BY <1>7, <2>1, <2>3, <2>5, <2>6, <2>7, <2>8, <2>9, <2>10 DEF LoadingNode
<1>18. Loading'
  BY <1>17 DEF Loading, LoadingNode
<1>19. Progress'
  BY <1>7, <1>18 DEF Progress
<1> QED BY <1>1, <1>7, <1>19, Continues

\* A node with another parent and another flag.
Adopted(n, parent, flag) == [n EXCEPT !.parent = parent, !.hasUnloadedChildren = flag]

LEMMA AdoptedNode ==
    ASSUME NEW n \in Node, NEW parent \in Nat, NEW flag \in BOOLEAN, NEW n2,
           n2 = Adopted(n, parent, flag)
    PROVE  n2 \in Node
BY DEF Node, Adopted

LEMMA AdoptedFields ==
    ASSUME NEW n \in Node, NEW parent \in Nat, NEW flag \in BOOLEAN, NEW n2,
           n2 = Adopted(n, parent, flag)
    PROVE  /\ n2.id = n.id /\ n2.parentId = n.parentId /\ n2.payload = n.payload
           /\ n2.status = n.status /\ n2.parent = parent
           /\ n2.hasUnloadedChildren = flag
BY DEF Node, Adopted

LEMMA FlagOnly ==
    ASSUME NEW o \in Object, NEW flag \in BOOLEAN, NEW o2,
           o2 = [o EXCEPT !.hasUnloadedChildren = flag]
    PROVE  /\ o2.id = o.id /\ o2.parentId = o.parentId /\ o2.payload = o.payload
           /\ o2.status = o.status /\ o2.parent = o.parent /\ o2.hasUnloadedChildren = flag
BY DEF Object

\* The two flags that loadFromDatabase refreshes, when the orphans are adopted.
LEMMA FlagsRefreshed ==
    ASSUME CallsInv, FinishLoading, NEW h \in DOMAIN objects, call.node # call.parent,
           call.parent # NoNode => \E c \in DOMAIN objects : objects[c].parent = call.parent
    PROVE  /\ DOMAIN objects' = DOMAIN objects
           /\ objects'[h].id = objects[h].id /\ objects'[h].parentId = objects[h].parentId
           /\ objects'[h].payload = objects[h].payload
           /\ objects'[h].status = objects[h].status
           /\ objects'[h].parent = objects[h].parent
           /\ objects'[h].hasUnloadedChildren =
                  IF h = call.node
                  THEN call.hasChildren /\ ~\E c \in DOMAIN objects : objects[c].parent = h
                  ELSE objects[h].hasUnloadedChildren /\ h # call.parent
<1> DEFINE childless(g) == objects[g].children = << >>
           flag(g) == CASE g = call.node   -> call.hasChildren /\ childless(g)
                        [] g = call.parent -> objects[g].hasUnloadedChildren /\ childless(g)
                        [] OTHER           -> objects[g].hasUnloadedChildren
<1>1. objects \in Seq(Object) /\ call \in Frame /\ Owned(objects, rootList)
  BY DEF CallsInv, Typed
<1>2. objects' = [g \in DOMAIN objects |-> [objects[g] EXCEPT !.hasUnloadedChildren = flag(g)]]
  BY DEF FinishLoading
<1>3. objects[h] \in Object /\ objects[h].children \in Seq(Nat) /\ h # NoNode
  BY <1>1, ObjectFields
<1>4. objects[h].hasUnloadedChildren \in BOOLEAN /\ call.hasChildren \in BOOLEAN
  BY <1>1, <1>3 DEF Object, Frame
<1>5. childless(h) <=> ~\E c \in DOMAIN objects : objects[c].parent = h
  <2>1. PICK kids \in Seq(Nat) : kids = objects[h].children
    BY <1>3
  <2>2. Keeps(objects, kids, h)
    BY <1>1, <1>3, <2>1 DEF Owned, VectorOf
  <2>3. kids = << >> <=> DOMAIN kids = {}
    <3>1. DOMAIN kids = 1..Len(kids) /\ Len(kids) \in Nat
      OBVIOUS
    <3>2. Len(kids) = 0 <=> kids = << >>
      BY EmptySeq
    <3>3. PICK n \in Nat : n = Len(kids)
      BY <3>1
    <3>4. 1..n = {} <=> n = 0
      BY 1 \in 1..n <=> n # 0
    <3> QED BY <3>1, <3>2, <3>3, <3>4
  <2>4. DOMAIN kids = {} <=> ~\E c \in DOMAIN objects : objects[c].parent = h
    BY <2>2 DEF Keeps
  <2> QED BY <2>1, <2>3, <2>4
<1>6. flag(h) = IF h = call.node
                THEN call.hasChildren /\ ~\E c \in DOMAIN objects : objects[c].parent = h
                ELSE objects[h].hasUnloadedChildren /\ h # call.parent
  <2>1. PICK some \in BOOLEAN : some = (\E c \in DOMAIN objects : objects[c].parent = h)
    OBVIOUS
  <2>2. childless(h) <=> ~some
    BY <1>5, <2>1
  <2>3. h = call.parent => some
    BY <1>3, <2>1
  <2> HIDE DEF childless
  <2>4. CASE h = call.node
    BY <1>4, <2>1, <2>2, <2>4
  <2>5. CASE h = call.parent /\ h # call.node
    BY <1>4, <2>2, <2>3, <2>5
  <2>6. CASE h # call.parent /\ h # call.node
    BY <1>4, <2>6
  <2> QED BY <2>4, <2>5, <2>6
<1>7. flag(h) \in BOOLEAN
  BY <1>4, <1>6
<1> HIDE DEF flag
<1>8. PICK o2 : o2 = objects'[h]
  OBVIOUS
<1>9. PICK b \in BOOLEAN : b = flag(h)
  BY <1>7
<1>10. o2 = [objects[h] EXCEPT !.hasUnloadedChildren = b]
  BY <1>2, <1>8, <1>9
<1>11. /\ o2.id = objects[h].id /\ o2.parentId = objects[h].parentId
       /\ o2.payload = objects[h].payload /\ o2.status = objects[h].status
       /\ o2.parent = objects[h].parent /\ o2.hasUnloadedChildren = b
  BY <1>3, <1>10, FlagOnly
<1>12. DOMAIN objects' = DOMAIN objects
  BY <1>2
<1> QED BY <1>6, <1>8, <1>9, <1>11, <1>12

LEMMA SameLength ==
    ASSUME NEW m \in Nat, NEW n \in Nat, 1..m = 1..n
    PROVE  m = n
<1>1. m > 0 => m \in 1..n
  BY m \in 1..m <=> m > 0
<1>2. n > 0 => n \in 1..m
  BY n \in 1..n <=> n > 0
<1> QED BY <1>1, <1>2

LEMMA LoadReturns ==
    ASSUME CallsInv, CallsInv', Stable(Seen), Progress, FinishLoading
    PROVE  /\ Stable(Seen)' /\ Progress'
           /\ \E id \in DOMAIN Seen.records : Atomic!LoadFromDatabase(id)
<1>1. /\ call.at = "adopt" /\ call.stack = << >> /\ Return
      /\ objects \in Seq(Object) /\ objects' \in Seq(Object) /\ call \in Frame
      /\ UNCHANGED <<rootList, index, nextTemporaryId, records, nextId>>
      /\ Seen = before
  BY SeenInside DEF FinishLoading, CallsInv, Typed, dbVars
<1>2. PICK raw, id : raw = call.node /\ id = objects[raw].id
  OBVIOUS
<1>3. LoadingNode(raw, id)
  BY <1>1, <1>2 DEF Progress, Loading
<1>4. PICK ns : ns = before.nodes
  OBVIOUS
<1>5. /\ ns \in Seq(Node)
      /\ before.roots = {h \in DOMAIN ns : ns[h].parent = NoNode}
      /\ \A h \in DOMAIN ns : ns[h].parent \in {NoNode} \cup DOMAIN ns
      /\ Exact(ns, before.index)
      /\ RowsDescend(before.records) /\ \A h \in DOMAIN ns : Hangs(ns, h)
      /\ before.records \in [1..(before.nextId - 1) -> Record]
      /\ before.nextId \in 1..(MaxId + 1)
  BY <1>1, <1>4 DEF Stable, Whole, Descending
<1>6. PICK row, p : row = before.records[id] /\ p = call.parent
  OBVIOUS
<1>7. PICK orphans : orphans = OrphansOf(before, id)
  OBVIOUS
<1>8. orphans = {h \in DOMAIN ns : ns[h].parent = NoNode /\ ns[h].parentId = id}
  BY <1>4, <1>7 DEF OrphansOf
<1>9. Elements(call.stack) = {}
  BY <1>1 DEF Elements
<1>10. /\ raw = Len(ns) + 1 /\ Len(objects) = raw /\ call.node = raw
       /\ records = before.records /\ nextId = before.nextId
       /\ nextTemporaryId = before.nextTemporaryId
       /\ id \in DOMAIN before.records /\ id \notin DOMAIN before.index
       /\ index = Emplace(before.index, id, raw)
       /\ p = FoundIn(before, row.parentId)
       /\ call.hasChildren = \E c \in DOMAIN records : records[c].parentId = id
  BY <1>2, <1>3, <1>4, <1>6 DEF LoadingNode, SameDatabase
<1>11. /\ objects[raw].parentId = row.parentId
       /\ objects[raw].payload = row.payload
       /\ objects[raw].status = (IF row.deleted THEN "Deleted" ELSE "Unchanged")
       /\ objects[raw].parent = p
  BY <1>3, <1>6 DEF LoadingNode
<1>12. \A h \in DOMAIN ns :
          /\ objects[h].id = ns[h].id /\ objects[h].parentId = ns[h].parentId
          /\ objects[h].payload = ns[h].payload /\ objects[h].status = ns[h].status
          /\ objects[h].hasUnloadedChildren = ns[h].hasUnloadedChildren
          /\ objects[h].parent = IF h \in orphans THEN raw ELSE ns[h].parent
  BY <1>3, <1>4, <1>7, <1>9 DEF LoadingNode, Kept
<1>13. /\ DOMAIN ns = 1..Len(ns) /\ Len(ns) \in Nat /\ raw \in Nat
       /\ DOMAIN objects = DOMAIN ns \cup {raw} /\ raw \notin DOMAIN ns /\ raw # NoNode
       /\ NoNode \notin DOMAIN ns
  <2>1. /\ DOMAIN ns = 1..Len(ns) /\ Len(ns) \in Nat
        /\ DOMAIN objects = 1..Len(objects)
    BY <1>1, <1>5, LenProperties
  <2> QED BY <1>10, <2>1 DEF NoNode
<1>14. p \in {NoNode} \cup DOMAIN ns /\ (p # NoNode => ns[p].id = row.parentId)
  BY <1>5, <1>10 DEF FoundIn, Exact
<1>15. ASSUME NEW h \in DOMAIN objects
       PROVE  /\ DOMAIN objects' = DOMAIN objects
              /\ objects'[h].id = objects[h].id /\ objects'[h].parentId = objects[h].parentId
              /\ objects'[h].payload = objects[h].payload
              /\ objects'[h].status = objects[h].status
              /\ objects'[h].parent = objects[h].parent
              /\ objects'[h].hasUnloadedChildren =
                     IF h = raw
                     THEN call.hasChildren /\ ~\E c \in DOMAIN objects : objects[c].parent = h
                     ELSE objects[h].hasUnloadedChildren /\ h # p
  <2>1. call.node # call.parent
    BY <1>6, <1>10, <1>13, <1>14
  <2>2. call.parent # NoNode => \E c \in DOMAIN objects : objects[c].parent = call.parent
    BY <1>6, <1>11, <1>13
  <2> QED BY <1>6, <1>10, <2>1, <2>2, FlagsRefreshed
<1>16. (\E c \in DOMAIN objects : objects[c].parent = raw) <=> orphans # {}
  <2>1. \A c \in DOMAIN ns : ns[c].parent # raw
    BY <1>5, <1>13
  <2>2. p # raw
    BY <1>13, <1>14
  <2>3. \A c \in orphans : c \in DOMAIN ns
    BY <1>8
  <2> QED BY <1>11, <1>12, <1>13, <2>1, <2>2, <2>3
<1>17. PICK ns2 : ns2 = Now'.nodes
  OBVIOUS
<1>18. /\ ns2 \in Seq(Node) /\ DOMAIN ns2 = DOMAIN objects' /\ Len(ns2) = Len(objects')
       /\ \A h \in DOMAIN objects' : SameFields(ns2[h], objects'[h])
  <2>1. PICK objs2 \in Seq(Object) : objs2 = objects'
    BY <1>1
  <2>2. (Now.nodes = Outside(objects))'
    BY NowOutside, PTL
  <2>3. ns2 = Outside(objs2)
    BY <1>17, <2>1, <2>2 DEF Outside
  <2> QED BY <2>1, <2>3, OutsideFields
<1>19. DOMAIN objects' = DOMAIN objects
  BY <1>13, <1>15
<1>20. Len(ns2) = Len(ns) + 1
  <2>1. DOMAIN objects' = 1..Len(objects') /\ DOMAIN objects = 1..Len(objects)
        /\ Len(objects') \in Nat /\ Len(objects) \in Nat
    BY <1>1, LenProperties
  <2>2. Len(objects') = Len(objects)
    BY <1>19, <2>1, SameLength
  <2> QED BY <1>10, <1>18, <2>2
<1>21. /\ id \in Nat /\ row.parentId \in Nat /\ row.payload \in Payload
       /\ row.deleted \in BOOLEAN /\ row \in Record
       /\ p \in Nat /\ call.hasChildren \in BOOLEAN /\ id < TempBase /\ row.parentId < id
  <2>1. before.nextId \in Nat /\ id \in 1..(before.nextId - 1) /\ MaxId < TempBase
        /\ MaxId \in Nat /\ TempBase \in Nat /\ before.nextId <= MaxId + 1
    BY <1>5, <1>10, DatabaseAssumption, CallsAssumption DEF DatabaseAssumption, CallsAssumption
  <2>2. id \in Nat /\ id < TempBase
    BY <2>1
  <2>3. row \in Record
    BY <1>5, <1>6, <1>10, <2>1
  <2>4. row.parentId < id
    BY <1>5, <1>6, <1>10 DEF RowsDescend
  <2>5. call.hasChildren \in BOOLEAN
    BY <1>1 DEF Frame
  <2>6. p \in Nat
    BY <1>13, <1>14 DEF NoNode
  <2> QED BY <2>2, <2>3, <2>4, <2>5, <2>6 DEF Record
<1>22. PICK parentOf, flagOf :
           /\ parentOf = [h \in DOMAIN ns |-> IF h \in orphans THEN raw ELSE ns[h].parent]
           /\ flagOf = [h \in DOMAIN ns |-> ns[h].hasUnloadedChildren /\ h # p]
  OBVIOUS
<1>23. \A h \in DOMAIN ns : ns[h] \in Node /\ parentOf[h] \in Nat /\ flagOf[h] \in BOOLEAN
  <2>1. \A h \in DOMAIN ns : ns[h] \in Node
    BY <1>5, <1>13, ElementOfSeq
  <2>2. \A h \in DOMAIN ns : ns[h].parent \in Nat /\ ns[h].hasUnloadedChildren \in BOOLEAN
    BY <2>1 DEF Node
  <2> QED BY <1>13, <1>22, <2>1, <2>2
<1>24. PICK others : others = [h \in DOMAIN ns |-> Adopted(ns[h], parentOf[h], flagOf[h])]
  OBVIOUS
<1>25. ASSUME NEW h \in DOMAIN ns
       PROVE  /\ others[h] \in Node
              /\ others[h].id = ns[h].id /\ others[h].parentId = ns[h].parentId
              /\ others[h].payload = ns[h].payload /\ others[h].status = ns[h].status
              /\ others[h].parent = parentOf[h]
              /\ others[h].hasUnloadedChildren = flagOf[h]
  <2>1. PICK n, up, b : n = ns[h] /\ up = parentOf[h] /\ b = flagOf[h]
    OBVIOUS
  <2>2. PICK n2 : n2 = others[h] /\ n2 = Adopted(n, up, b)
    BY <1>24, <2>1
  <2>3. n \in Node /\ up \in Nat /\ b \in BOOLEAN
    BY <1>23, <2>1
  <2>4. n2 \in Node
    BY <2>2, <2>3, AdoptedNode
  <2>5. /\ n2.id = n.id /\ n2.parentId = n.parentId /\ n2.payload = n.payload
        /\ n2.status = n.status /\ n2.parent = up
        /\ n2.hasUnloadedChildren = b
    BY <2>2, <2>3, AdoptedFields
  <2> QED BY <2>1, <2>2, <2>4, <2>5
<1>26. others \in Seq(Node) /\ Len(others) = Len(ns) /\ DOMAIN others = DOMAIN ns
  <2>1. others \in [1..Len(ns) -> Node]
    <3>1. others = [h \in 1..Len(ns) |-> others[h]]
      BY <1>13, <1>24
    <3> QED BY <1>13, <1>25, <3>1
  <2> QED BY <1>13, <2>1
<1>27. PICK childless : childless = (call.hasChildren /\ orphans = {})
  OBVIOUS
<1>28. PICK node : node = [id |-> id, parentId |-> row.parentId, payload |-> row.payload,
                           status |-> IF row.deleted THEN "Deleted" ELSE "Unchanged",
                           hasUnloadedChildren |-> childless, parent |-> p]
  OBVIOUS
<1>29. node \in Node
  <2>1. childless \in BOOLEAN
    BY <1>21, <1>27
  <2>2. PICK st \in {"New", "Modified", "Deleted", "Unchanged"} :
            st = IF row.deleted THEN "Deleted" ELSE "Unchanged"
    OBVIOUS
  <2> QED BY <1>21, <1>28, <2>1, <2>2 DEF Node
<1>30. /\ node.id = id /\ node.parentId = row.parentId /\ node.payload = row.payload
       /\ node.status = (IF row.deleted THEN "Deleted" ELSE "Unchanged")
       /\ node.hasUnloadedChildren = childless /\ node.parent = p
  BY <1>28
<1>31. ASSUME NEW h \in DOMAIN ns
       PROVE  /\ ns2[h].id = ns[h].id /\ ns2[h].parentId = ns[h].parentId
              /\ ns2[h].payload = ns[h].payload /\ ns2[h].status = ns[h].status
              /\ ns2[h].parent = parentOf[h]
              /\ ns2[h].hasUnloadedChildren = flagOf[h]
  <2>1. h \in DOMAIN objects /\ h # raw /\ SameFields(ns2[h], objects'[h])
    BY <1>13, <1>18, <1>19
  <2>2. /\ objects'[h].id = objects[h].id /\ objects'[h].parentId = objects[h].parentId
        /\ objects'[h].payload = objects[h].payload
        /\ objects'[h].status = objects[h].status
        /\ objects'[h].parent = objects[h].parent
        /\ objects'[h].hasUnloadedChildren = (objects[h].hasUnloadedChildren /\ h # p)
    BY <1>15, <2>1
  <2> QED BY <1>12, <1>22, <2>1, <2>2 DEF SameFields
<1>32. /\ ns2[raw].id = id /\ ns2[raw].parentId = row.parentId
       /\ ns2[raw].payload = row.payload
       /\ ns2[raw].status = (IF row.deleted THEN "Deleted" ELSE "Unchanged")
       /\ ns2[raw].parent = p /\ ns2[raw].hasUnloadedChildren = childless
  <2>1. raw \in DOMAIN objects /\ SameFields(ns2[raw], objects'[raw])
    BY <1>13, <1>18, <1>19
  <2>2. /\ objects'[raw].id = objects[raw].id /\ objects'[raw].parentId = objects[raw].parentId
        /\ objects'[raw].payload = objects[raw].payload
        /\ objects'[raw].status = objects[raw].status
        /\ objects'[raw].parent = objects[raw].parent
        /\ objects'[raw].hasUnloadedChildren =
               (call.hasChildren /\ ~\E c \in DOMAIN objects : objects[c].parent = raw)
    BY <1>15, <2>1
  <2>3. objects'[raw].hasUnloadedChildren = childless
    <3>1. PICK some \in BOOLEAN : some = (\E c \in DOMAIN objects : objects[c].parent = raw)
      OBVIOUS
    <3>2. some <=> orphans # {}
      BY <1>16, <3>1
    <3>3. objects'[raw].hasUnloadedChildren = (call.hasChildren /\ ~some)
      BY <2>2, <3>1
    <3> QED BY <1>27, <3>2, <3>3
  <2> QED BY <1>2, <1>11, <2>1, <2>2, <2>3 DEF SameFields
<1>33. ns2 = Append(others, node)
  <2>1. \A h \in DOMAIN others : SameFields(ns2[h], others[h])
    BY <1>25, <1>26, <1>31 DEF SameFields
  <2>2. SameFields(ns2[Len(others) + 1], node)
    BY <1>10, <1>26, <1>30, <1>32 DEF SameFields
  <2>3. ns2 \in Seq(Node) /\ Len(ns2) = Len(others) + 1
    BY <1>18, <1>20, <1>26
  <2> QED BY <1>26, <1>29, <2>1, <2>2, <2>3, OneNodeMore
<1>34. DOMAIN ns2 = DOMAIN ns \cup {raw}
  BY <1>13, <1>18, <1>19
<1>35. ASSUME NEW h \in DOMAIN ns2
       PROVE  Hangs(ns2, h)
  <2>1. CASE h = raw
    <3>1. p # NoNode => ns2[p].id = row.parentId
      BY <1>14, <1>31
    <3> QED BY <1>21, <1>32, <2>1, <3>1 DEF Hangs
  <2>2. CASE h \in orphans
    <3>1. h \in DOMAIN ns /\ ns[h].parent = NoNode /\ ns[h].parentId = id
      BY <1>8, <2>2
    <3>2. Hangs(ns, h) /\ ns2[h].parent = raw
      BY <1>5, <1>22, <1>31, <2>2, <3>1
    <3> QED BY <1>13, <1>31, <1>32, <3>1, <3>2 DEF Hangs
  <2>3. CASE h \in DOMAIN ns /\ h \notin orphans
    <3>1. Hangs(ns, h) /\ ns2[h].parent = ns[h].parent
      BY <1>5, <1>22, <1>31, <2>3
    <3>2. SamePlace(ns[h], ns2[h])
      BY <1>31, <2>3, <3>1 DEF SamePlace
    <3>3. PICK u : u = ns[h].parent
      OBVIOUS
    <3>4. u # NoNode => ns2[u].id = ns[u].id /\ ns2[u].status = ns[u].status
      BY <1>5, <1>31, <2>3, <3>3
    <3> QED BY <1>31, <2>3, <3>1, <3>3, <3>4 DEF Hangs
  <2> QED BY <1>34, <2>1, <2>2, <2>3
<1>36. Descending(Now)'
  <2>1. (Now.records)' = before.records
    BY <1>1, <1>10 DEF Now
  <2> QED BY <1>5, <1>17, <1>35, <2>1 DEF Descending
<1>37. Stable(Seen)' /\ Progress' /\ Seen' = Now'
  BY <1>1, <1>36, Returns
<1>38. Seen.nodes = ns /\ (Seen.nodes)' = ns2
  BY <1>1, <1>4, <1>17, <1>37
<1>39. /\ (Seen.records)' = Seen.records /\ (Seen.nextId)' = Seen.nextId
       /\ (Seen.nextTemporaryId)' = Seen.nextTemporaryId
       /\ (Seen.index)' = Emplace(Seen.index, id, raw)
  BY <1>1, <1>10, <1>37, NowOutside DEF Now
<1>40. (Seen.roots)' = (Seen.roots \ orphans) \cup (IF p = NoNode THEN {raw} ELSE {})
  <2>1. Owned(objects', rootList')
    BY DEF CallsInv
  <2>2. Seqs!ToSet(rootList') = {h \in DOMAIN objects' : objects'[h].parent = NoNode}
    BY <1>1, <2>1, RootsAreParentless
  <2>3. Now'.roots = Seqs!ToSet(rootList')
    BY DEF Now
  <2>4. {h \in DOMAIN objects' : objects'[h].parent = NoNode} =
            {h \in DOMAIN ns2 : ns2[h].parent = NoNode}
    BY <1>18 DEF SameFields
  <2>5. {h \in DOMAIN ns2 : ns2[h].parent = NoNode} =
            ({h \in DOMAIN ns : ns[h].parent = NoNode} \ orphans)
                \cup (IF p = NoNode THEN {raw} ELSE {})
    BY <1>13, <1>22, <1>31, <1>32, <1>34
  <2> QED BY <1>1, <1>5, <1>37, <2>2, <2>3, <2>4, <2>5
<1>41. Atomic!FindNode(row.parentId) = p /\ Atomic!FindNode(id) = NoNode
  BY <1>1, <1>10 DEF Atomic!FindNode, FoundIn, NoNode, Atomic!NoNode
<1>42. Atomic!Orphans(id) = orphans
  BY <1>1, <1>4, <1>5, <1>8 DEF Atomic!Orphans
<1>43. Atomic!HasChildren(id) = call.hasChildren
  BY <1>1, <1>10 DEF Atomic!HasChildren
<1>44. PICK snapshot : snapshot = Atomic!MakeSnapshot(id)
  OBVIOUS
<1>45. /\ snapshot.id = id /\ snapshot.parentId = row.parentId
       /\ snapshot.payload = row.payload /\ snapshot.deleted = row.deleted
       /\ snapshot.hasChildren = call.hasChildren
  BY <1>1, <1>6, <1>43, <1>44 DEF Atomic!MakeSnapshot
<1>46. node = [id |-> snapshot.id, parentId |-> snapshot.parentId,
               payload |-> snapshot.payload,
               status |-> IF snapshot.deleted THEN "Deleted" ELSE "Unchanged",
               hasUnloadedChildren |-> snapshot.hasChildren /\ orphans = {},
               parent |-> p]
  BY <1>27, <1>28, <1>45
<1>47. others = [h \in DOMAIN ns |->
                   [ns[h] EXCEPT !.parent = IF h \in orphans THEN raw ELSE @,
                                 !.hasUnloadedChildren = Atomic!FlagUnder(p, h)]]
  BY <1>22, <1>24, <1>38 DEF Adopted, Atomic!FlagUnder
<1>48. Atomic!InsertLoadedNode(snapshot)
  <2>1. Atomic!RootsAfter(orphans, raw, p) =
            (Seen.roots \ orphans) \cup (IF p = NoNode THEN {raw} ELSE {})
    BY DEF Atomic!RootsAfter, NoNode, Atomic!NoNode
  <2>2. Atomic!Emplace(Seen.index, id, raw) = Emplace(Seen.index, id, raw)
    BY DEF Atomic!Emplace, Emplace
  <2> QED BY <1>10, <1>33, <1>38, <1>39, <1>40, <1>41, <1>42, <1>45, <1>46, <1>47, <2>1, <2>2
          DEF Atomic!InsertLoadedNode
<1>49. Atomic!LoadFromDatabase(id)
  <2>1. Atomic!LoadResult(id) = "Success"
    BY <1>1, <1>10, <1>41 DEF Atomic!LoadResult, NoNode, Atomic!NoNode
  <2> QED BY <1>39, <1>44, <1>48, <2>1 DEF Atomic!LoadFromDatabase, Atomic!dbVars
<1> QED BY <1>1, <1>10, <1>37, <1>49

-----------------------------------------------------------------------------
(***************************************************************************)
(* reset.                                                                  *)
(***************************************************************************)
LEMMA ResetBegins ==
    ASSUME CallsInv, Stable(Seen), Reset
    PROVE  Stable(Seen)' /\ Progress' /\ UNCHANGED Atomic!vars
<1>1. /\ objects' = << >> /\ rootList' = << >> /\ index' = << >>
      /\ nextTemporaryId' = TempBase /\ records' = << >>
      /\ Idle /\ before' = Now /\ call' = [NoCall EXCEPT !.at = "seed"]
  BY DEF Reset, Begin
<1>2. call'.at = "seed"
  BY <1>1, SeedBegins
<1>3. DOMAIN records' = {}
  BY <1>1
<1>4. Seeding'
  BY <1>1, <1>3 DEF Seeding
<1> QED BY <1>1, <1>2, <1>4, Begins DEF Progress

\* The rows of the seed.
LEMMA SeedRowTypes ==
    /\ Len(SeedRows) \in Nat /\ DOMAIN SeedRows = 1..Len(SeedRows)
    /\ \A id \in 1..Len(SeedRows) :
          /\ SeedRows[id].parentId \in Nat /\ SeedRows[id].payload \in Payload
          /\ SeedRows[id].parentId < id
<1>1. /\ SeedRows \in Seq([parentId : Nat, payload : Payload])
      /\ \A id \in 1..Len(SeedRows) : SeedRows[id].parentId < id
  BY DatabaseAssumption DEF DatabaseAssumption
<1>2. Len(SeedRows) \in Nat /\ DOMAIN SeedRows = 1..Len(SeedRows)
  BY <1>1
<1>3. \A id \in 1..Len(SeedRows) : SeedRows[id] \in [parentId : Nat, payload : Payload]
  BY <1>1, ElementOfSeq
<1> QED BY <1>1, <1>2, <1>3

LEMMA SeedContinues ==
    ASSUME CallsInv, Stable(Seen), Progress, SeedRecord
    PROVE  Stable(Seen)' /\ Progress' /\ UNCHANGED Atomic!vars
<1>1. /\ call.at = "seed" /\ nextId <= Len(SeedRows)
      /\ UNCHANGED <<objects, rootList, index, nextTemporaryId, call, before>>
      /\ nextId \in 1..(MaxId + 1) /\ records \in [1..(nextId - 1) -> Record]
  BY DEF SeedRecord, cacheVars, CallsInv, Typed, DbTypeOK
<1>2. Seeding
  BY <1>1 DEF Progress
<1>3. PICK row : row = [parentId |-> SeedRows[nextId].parentId,
                        payload |-> SeedRows[nextId].payload, deleted |-> FALSE]
  OBVIOUS
<1>4. records' = Emplace(records, nextId, row)
  BY <1>3 DEF SeedRecord, InsertRecord
<1>5. nextId \notin DOMAIN records
  BY <1>1, DatabaseAssumption DEF DatabaseAssumption
<1>6. ASSUME NEW id \in DOMAIN records'
      PROVE  /\ id <= Len(SeedRows)
             /\ records'[id] = [parentId |-> SeedRows[id].parentId,
                                payload |-> SeedRows[id].payload, deleted |-> FALSE]
  <2>1. CASE id \in DOMAIN records
    BY <1>2, <1>4, <2>1 DEF Emplace, Seeding
  <2>2. CASE id = nextId
    BY <1>1, <1>3, <1>4, <1>5, <2>2 DEF Emplace
  <2> QED BY <1>4, <2>1, <2>2 DEF Emplace
<1>7. Seeding'
  BY <1>1, <1>2, <1>6 DEF Seeding
<1>8. Progress' /\ call'.at # "idle"
  BY <1>1, <1>7 DEF Progress
<1> QED BY <1>1, <1>8, Continues

LEMMA ResetReturns ==
    ASSUME CallsInv, CallsInv', Stable(Seen), Progress, Finish, call.at = "seed"
    PROVE  Stable(Seen)' /\ Progress' /\ Atomic!Reset
<1>1. /\ nextId > Len(SeedRows) /\ Return
      /\ UNCHANGED <<objects, rootList, index, nextTemporaryId, records, nextId>>
      /\ nextId \in 1..(MaxId + 1) /\ records \in [1..(nextId - 1) -> Record]
  BY DEF Finish, cacheVars, dbVars, CallsInv, Typed, DbTypeOK
<1>2. Seeding
  BY DEF Progress
<1>3. nextId = Len(SeedRows) + 1
  <2>1. nextId \in Nat /\ Len(SeedRows) \in Nat
    BY <1>1, SeedRowTypes, DatabaseAssumption DEF DatabaseAssumption
  <2>2. nextId - 1 \in Nat /\ nextId - 1 >= 1 => nextId - 1 \in DOMAIN records
    BY <1>1, <2>1
  <2>3. nextId - 1 >= 1 => nextId - 1 <= Len(SeedRows)
    BY <1>2, <2>1, <2>2 DEF Seeding
  <2> QED BY <1>1, <2>1, <2>3
<1>4. DOMAIN records = 1..Len(SeedRows)
  BY <1>1, <1>3, SeedRowTypes
<1>5. records = SeedTestData
  BY <1>1, <1>2, <1>4 DEF Seeding, SeedTestData
<1>6. RowsDescend(records)
  BY <1>2, <1>4, SeedRowTypes DEF Seeding, RowsDescend
<1>7. PICK objs : objs = objects
  OBVIOUS
<1>8. Now.nodes = << >>
  <2>1. objs \in Seq(Object) /\ Len(objs) = 0
    BY <1>2, <1>7, EmptySeq DEF Seeding
  <2>2. Outside(objs) \in Seq(Node) /\ Len(Outside(objs)) = 0
    BY <2>1, OutsideFields
  <2> QED BY <1>7, <2>2, EmptySeq, NowOutside
<1>9. Now.roots = {}
  BY <1>2, NowOutside DEF Seeding, Seqs!ToSet
<1>10. Descending(Now)
  <2>1. DOMAIN Now.nodes = {}
    BY <1>8
  <2> QED BY <1>6, <2>1, NowOutside DEF Descending
<1>11. Now' = Now
  BY <1>1 DEF Now
<1>12. Stable(Seen)' /\ Progress' /\ Seen' = Now
  BY <1>1, <1>10, <1>11, Returns
<1>13. /\ (Seen.nodes)' = << >> /\ (Seen.roots)' = {} /\ (Seen.index)' = << >>
       /\ (Seen.nextTemporaryId)' = TempBase
       /\ (Seen.records)' = SeedTestData /\ (Seen.nextId)' = Len(SeedRows) + 1
  BY <1>2, <1>3, <1>5, <1>8, <1>9, <1>12, NowOutside DEF Seeding
<1> QED BY <1>12, <1>13
        DEF Atomic!Reset, Atomic!Clear, Atomic!ResetDatabase, Atomic!SeedTestData, SeedTestData

=============================================================================
