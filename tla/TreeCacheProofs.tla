-------------------------- MODULE TreeCacheProofs ---------------------------
(***************************************************************************)
(* Theorems about TreeCache, for every database content, every payload set *)
(* and every bound: types; identifiers and hierarchy (the index is exact,  *)
(* temporary ids never reach the database, and the cached hierarchy is     *)
(* that of the database).                                                  *)
(***************************************************************************)
EXTENDS TreeCache, FiniteSetTheorems, SequenceTheorems, TLAPS

-----------------------------------------------------------------------------
(***************************************************************************)
(* Facts about Below that replace induction over the trees.                *)
(***************************************************************************)
\* A subtree is made of nodes.
LEMMA BelowType ==
    ASSUME NEW up, NEW S
    PROVE  Below(up, S) \subseteq DOMAIN up
BY DEF Below

\* A subtree contains the nodes it starts from: markDeletedRecursively marks
\* the node it is called on.
LEMMA BelowContains ==
    ASSUME NEW up, NEW S
    PROVE  S \cap DOMAIN up \subseteq Below(up, S)
BY DEF Below, ClosedAbove

\* It contains the children of its members: the recursion goes all the way.
LEMMA BelowClosed ==
    ASSUME NEW up, NEW S, NEW x \in DOMAIN up, up[x] \in Below(up, S)
    PROVE  x \in Below(up, S)
BY DEF Below, ClosedAbove

\* It contains nothing else: any closed set around S contains it.
LEMMA BelowLeast ==
    ASSUME NEW up, NEW S, NEW C \in ClosedAbove(up, S)
    PROVE  Below(up, S) \subseteq C
BY DEF Below

\* A larger start in a forest that has grown reaches at least as much.
LEMMA BelowMonotone ==
    ASSUME NEW up, NEW S, NEW wide, NEW T,
           DOMAIN up \subseteq DOMAIN wide,
           \A x \in DOMAIN up : wide[x] = up[x],
           S \cap DOMAIN up \subseteq Below(wide, T)
    PROVE  Below(up, S) \subseteq Below(wide, T)
<1> DEFINE C == Below(wide, T) \cap DOMAIN up
<1>1. ASSUME NEW x \in DOMAIN up, up[x] \in C
      PROVE  x \in C
  <2>1. wide[x] \in Below(wide, T)
    BY <1>1
  <2> QED BY <1>1, <2>1, BelowClosed
<1>2. C \in ClosedAbove(up, S)
  BY <1>1 DEF ClosedAbove
<1> QED BY <1>2, BelowLeast

-----------------------------------------------------------------------------
(***************************************************************************)
(* Type correctness.                                                       *)
(***************************************************************************)
\* The nodes as a function on handles.
LEMMA NodesFunction ==
    ASSUME CacheTypeOK
    PROVE  /\ Len(nodes) \in Nat
           /\ DOMAIN nodes = 1..Len(nodes)
           /\ nodes \in [DOMAIN nodes -> TreeNode]
BY LenProperties DEF CacheTypeOK

\* A function on the same handles is again a sequence of nodes.
LEMMA NodesSequence ==
    ASSUME CacheTypeOK, NEW f \in [DOMAIN nodes -> TreeNode]
    PROVE  f \in Seq(TreeNode) /\ Len(f) = Len(nodes)
<1>1. f \in [1..Len(nodes) -> TreeNode] /\ Len(nodes) \in Nat
  BY NodesFunction
<1>2. f \in Seq(TreeNode)
  BY <1>1, SeqDef
<1> QED BY <1>1, <1>2, LenProperties

\* One more node: every old handle stays, the new one is the next number.
LEMMA NodesAppended ==
    ASSUME CacheTypeOK, NEW f \in [DOMAIN nodes -> TreeNode], NEW node \in TreeNode
    PROVE  /\ Append(f, node) \in Seq(TreeNode)
           /\ DOMAIN Append(f, node) = DOMAIN nodes \cup {Len(nodes) + 1}
           /\ Len(nodes) + 1 \notin DOMAIN nodes
           /\ Append(f, node)[Len(nodes) + 1] = node
           /\ \A h \in DOMAIN nodes : Append(f, node)[h] = f[h]
<1>1. f \in Seq(TreeNode) /\ Len(f) = Len(nodes)
  BY NodesSequence
<1>2. Len(nodes) \in Nat /\ DOMAIN nodes = 1..Len(nodes)
  BY NodesFunction
<1>3. Append(f, node) \in Seq(TreeNode) /\ Len(Append(f, node)) = Len(nodes) + 1
  BY <1>1, AppendProperties
<1>4. DOMAIN Append(f, node) = 1..(Len(nodes) + 1)
  BY <1>3, LenProperties
<1> QED BY <1>1, <1>2, <1>3, <1>4, AppendProperties

\* findNode returns a live node or none.
LEMMA FindNodeType ==
    ASSUME CacheTypeOK, NEW id
    PROVE  /\ FindNode(id) \in Nat
           /\ FindNode(id) # NoNode => FindNode(id) \in DOMAIN nodes
BY NodesFunction DEF FindNode, CacheTypeOK, NoNode

\* The initial contents of the database are records.
LEMMA SeedType ==
    /\ SeedTestData \in [1..Len(SeedRows) -> Record]
    /\ Len(SeedRows) \in Nat
    /\ Len(SeedRows) + 1 \in 1..(MaxId + 1)
<1>1. /\ Len(SeedRows) \in Nat
      /\ SeedRows \in [1..Len(SeedRows) -> [parentId : Nat, payload : Payload]]
  BY DatabaseAssumption, LenProperties DEF DatabaseAssumption
<1> QED BY DatabaseAssumption, <1>1 DEF SeedTestData, Record, DatabaseAssumption

LEMMA InitType == Init => TypeOK
<1> SUFFICES ASSUME Init PROVE TypeOK
  OBVIOUS
<1>1. DbTypeOK
  BY SeedType DEF Init, DbInit, DbTypeOK
<1>2. CacheTypeOK
  <2>1. << >> \in Seq(TreeNode)
    BY EmptySeq
  <2> QED BY CacheAssumption, <2>1 DEF Init, CacheInit, CacheTypeOK, CacheAssumption
<1> QED BY <1>1, <1>2 DEF TypeOK

LEMMA LoadType ==
    ASSUME TypeOK, NEW id \in DOMAIN records, LoadFromDatabase(id)
    PROVE  TypeOK'
<1> DEFINE snapshot == MakeSnapshot(id)
           raw      == Len(nodes) + 1
           parent   == FindNode(snapshot.parentId)
           orphans  == Orphans(snapshot.id)
           others   == [h \in DOMAIN nodes |->
                         [nodes[h] EXCEPT
                            !.parent = IF h \in orphans THEN raw ELSE @,
                            !.hasUnloadedChildren = FlagUnder(parent, h)]]
           new      == [id |-> snapshot.id, parentId |-> snapshot.parentId,
                        payload |-> snapshot.payload,
                        status |-> IF snapshot.deleted THEN "Deleted" ELSE "Unchanged",
                        hasUnloadedChildren |-> snapshot.hasChildren /\ orphans = {},
                        parent |-> parent]
<1>1. CacheTypeOK /\ DbTypeOK
  BY DEF TypeOK
<1>2. id \in Nat /\ records[id] \in Record
  BY <1>1 DEF DbTypeOK
<1>3. new \in TreeNode
  BY <1>1, <1>2, FindNodeType DEF MakeSnapshot, TreeNode, Status, Record, HasChildren
<1>4. others \in [DOMAIN nodes -> TreeNode]
  <2>1. raw \in Nat
    BY <1>1, NodesFunction
  <2>2. ASSUME NEW h \in DOMAIN nodes
        PROVE  others[h] \in TreeNode
    <3>1. FlagUnder(parent, h) \in BOOLEAN
      BY DEF FlagUnder
    <3>2. nodes[h] \in TreeNode
      BY <1>1, NodesFunction
    <3> HIDE DEF raw, parent, orphans
    <3>3. others[h] = [nodes[h] EXCEPT
                         !.parent = IF h \in orphans THEN raw ELSE @,
                         !.hasUnloadedChildren = FlagUnder(parent, h)]
      OBVIOUS
    <3> QED BY <2>1, <3>1, <3>2, <3>3 DEF TreeNode
  <2> QED BY <2>2
<1>5. nodes' = Append(others, new)
  BY DEF LoadFromDatabase, InsertLoadedNode
<1> HIDE DEF others, new
<1>6. nodes' \in Seq(TreeNode) /\ DOMAIN nodes' = DOMAIN nodes \cup {raw}
  BY <1>1, <1>3, <1>4, <1>5, NodesAppended
<1>7. roots' \subseteq DOMAIN nodes'
  BY <1>1, <1>6 DEF LoadFromDatabase, InsertLoadedNode, RootsAfter, CacheTypeOK
<1>8. /\ DOMAIN index' \subseteq Nat
      /\ \A k \in DOMAIN index' : index'[k] \in DOMAIN nodes'
  BY <1>1, <1>2, <1>6
     DEF LoadFromDatabase, InsertLoadedNode, Emplace, CacheTypeOK, MakeSnapshot
<1> QED BY <1>1, <1>6, <1>7, <1>8 DEF TypeOK, DbTypeOK, CacheTypeOK, LoadFromDatabase, dbVars

LEMMA AddChildType ==
    ASSUME TypeOK, NEW id \in DOMAIN index, NEW payload \in Payload, AddChild(id, payload)
    PROVE  TypeOK'
<1> DEFINE parent == FindNode(id)
           child  == [id |-> nextTemporaryId, parentId |-> id, payload |-> payload,
                      status |-> "New", hasUnloadedChildren |-> FALSE, parent |-> parent]
           others == [nodes EXCEPT ![parent].hasUnloadedChildren = FALSE]
<1>1. CacheTypeOK /\ DbTypeOK
  BY DEF TypeOK
<1>2. parent \in DOMAIN nodes /\ parent \in Nat /\ id \in Nat
  BY <1>1, FindNodeType DEF CacheTypeOK, AddChild, ChangeResult
<1>3. nextTemporaryId \in Nat /\ nextTemporaryId < TempBase + MaxTemp
  BY CacheAssumption, <1>1 DEF CacheTypeOK, AddChild, CacheAssumption
<1>4. child \in TreeNode
  BY <1>2, <1>3 DEF TreeNode, Status
<1>5. others \in [DOMAIN nodes -> TreeNode]
  BY <1>1, <1>2, NodesFunction DEF TreeNode
<1>6. nodes' = Append(others, child)
  BY DEF AddChild
<1> HIDE DEF others, child
<1>7. nodes' \in Seq(TreeNode) /\ DOMAIN nodes' = DOMAIN nodes \cup {Len(nodes) + 1}
  BY <1>1, <1>4, <1>5, <1>6, NodesAppended
<1>8. /\ DOMAIN index' \subseteq Nat
      /\ \A k \in DOMAIN index' : index'[k] \in DOMAIN nodes'
  BY <1>1, <1>3, <1>7 DEF AddChild, Emplace, CacheTypeOK
<1>9. nextTemporaryId' \in TempBase..(TempBase + MaxTemp)
  BY CacheAssumption, <1>1, <1>3 DEF AddChild, CacheTypeOK, CacheAssumption
<1> QED BY <1>1, <1>7, <1>8, <1>9 DEF TypeOK, DbTypeOK, CacheTypeOK, AddChild, dbVars

LEMMA EditPayloadType ==
    ASSUME TypeOK, NEW id \in DOMAIN index, NEW payload \in Payload, EditPayload(id, payload)
    PROVE  TypeOK'
<1>1. CacheTypeOK /\ DbTypeOK
  BY DEF TypeOK
<1>2. FindNode(id) \in DOMAIN nodes
  BY <1>1, FindNodeType DEF EditPayload, ChangeResult
<1>3. nodes' \in [DOMAIN nodes -> TreeNode]
  BY <1>1, <1>2, NodesFunction DEF EditPayload, EditedStatus, TreeNode, Status
<1>4. nodes' \in Seq(TreeNode) /\ DOMAIN nodes' = DOMAIN nodes
  BY <1>1, <1>3, NodesSequence
<1> QED BY <1>1, <1>4 DEF TypeOK, DbTypeOK, CacheTypeOK, EditPayload, dbVars

LEMMA RemoveType ==
    ASSUME TypeOK, NEW id \in DOMAIN index, Remove(id)
    PROVE  TypeOK'
<1>1. CacheTypeOK /\ DbTypeOK
  BY DEF TypeOK
<1>2. nodes' \in [DOMAIN nodes -> TreeNode]
  BY <1>1, NodesFunction DEF Remove, TreeNode, Status
<1>3. nodes' \in Seq(TreeNode) /\ DOMAIN nodes' = DOMAIN nodes
  BY <1>1, <1>2, NodesSequence
<1> QED BY <1>1, <1>3 DEF TypeOK, DbTypeOK, CacheTypeOK, Remove, dbVars

LEMMA ResetType ==
    ASSUME TypeOK, Reset
    PROVE  TypeOK'
<1>1. DbTypeOK'
  BY SeedType DEF Reset, ResetDatabase, DbTypeOK
<1>2. << >> \in Seq(TreeNode)
  BY EmptySeq
<1> QED BY CacheAssumption, <1>1, <1>2 DEF Reset, Clear, TypeOK, CacheTypeOK, CacheAssumption

\* A non-empty set of numbers has a least element.
LEMMA LeastElement ==
    ASSUME NEW T \in SUBSET Nat, T # {}
    PROVE  \E m \in T : \A k \in T : m <= k
<1> DEFINE R == {p \in Nat \X Nat : p[1] < p[2]}
<1>1. IsWellFoundedOn(R, Nat)
  BY NatLessThanWellFounded DEF OpToRel
<1> HIDE DEF R
<1>2. PICK m \in T : \A k \in T : <<k, m>> \notin R
  BY <1>1, WFMin
<1>3. ASSUME NEW k \in T
      PROVE  m <= k
  <2>1. ~(k < m)
    <3>1. <<k, m>> \in Nat \X Nat /\ <<k, m>>[1] = k /\ <<k, m>>[2] = m
      OBVIOUS
    <3> QED BY <1>2, <3>1 DEF R
  <2> QED BY <2>1
<1> QED BY <1>3

\* The change sets the synchronisation hands over.
IsChangeSet(changes) ==
    /\ changes.created \in Seq([id : Nat, parentId : Nat, payload : Payload])
    /\ \A id \in DOMAIN changes.modified : changes.modified[id] \in Payload

\* A created element goes under the parent it names, or under one created
\* before it.
LEMMA MappedParentCases ==
    ASSUME DbTypeOK, NEW changes, IsChangeSet(changes),
           NEW i \in 1..Len(changes.created)
    PROVE  \/ /\ MappedParent(changes, i) = changes.created[i].parentId
              /\ \A j \in 1..(i - 1) : changes.created[j].id # changes.created[i].parentId
           \/ \E j \in 1..(i - 1) : /\ changes.created[j].id = changes.created[i].parentId
                                    /\ MappedParent(changes, i) = nextId + j - 1
<1> DEFINE given   == changes.created[i].parentId
           earlier == {j \in 1..(i - 1) : changes.created[j].id = given}
<1>1. Len(changes.created) \in Nat
  BY LenProperties DEF IsChangeSet
<1>2. CASE earlier = {}
  BY <1>2 DEF MappedParent
<1>3. CASE earlier # {}
  <2>1. earlier \in SUBSET Nat
    BY <1>1
  <2>2. \E j \in earlier : \A k \in earlier : j <= k
    BY <1>3, <2>1, LeastElement
  <2> DEFINE m == CHOOSE j \in earlier : \A k \in earlier : j <= k
  <2>3. m \in earlier
    BY <2>2
  <2>4. MappedParent(changes, i) = PersistentId(m)
    BY <1>3 DEF MappedParent
  <2> QED BY <2>3, <2>4 DEF PersistentId
<1> QED BY <1>2, <1>3

\* Creation appends records under the next ids and leaves the others alone.
LEMMA CreationType ==
    ASSUME DbTypeOK, NEW changes, IsChangeSet(changes)
    PROVE  LET rows == AfterCreation(records, changes)
               n    == Len(changes.created)
           IN  /\ n \in Nat
               /\ rows \in [1..(nextId + n - 1) -> Record]
               /\ \A id \in DOMAIN records : rows[id] = records[id]
               /\ \A i \in 1..n :
                     rows[nextId + i - 1] = [parentId |-> MappedParent(changes, i),
                                             payload |-> changes.created[i].payload,
                                             deleted |-> FALSE]
<1> DEFINE rows == AfterCreation(records, changes)
           n    == Len(changes.created)
           ids  == DOMAIN records \cup {PersistentId(i) : i \in DOMAIN changes.created}
<1>1. n \in Nat /\ DOMAIN changes.created = 1..n
  BY LenProperties DEF IsChangeSet
<1>2. nextId \in Nat /\ nextId >= 1 /\ DOMAIN records = 1..(nextId - 1)
  BY DEF DbTypeOK
<1>3. ids = 1..(nextId + n - 1)
  <2>1. ASSUME NEW id \in 1..(nextId + n - 1), id \notin DOMAIN records
        PROVE  id \in {PersistentId(i) : i \in DOMAIN changes.created}
    <3>1. id - nextId + 1 \in 1..n /\ PersistentId(id - nextId + 1) = id
      BY <1>1, <1>2, <2>1 DEF PersistentId
    <3> QED BY <1>1, <3>1
  <2>2. ASSUME NEW i \in DOMAIN changes.created
        PROVE  PersistentId(i) \in 1..(nextId + n - 1)
    BY <1>1, <1>2 DEF PersistentId
  <2>3. DOMAIN records \subseteq 1..(nextId + n - 1)
    BY <1>1, <1>2
  <2> QED BY <2>1, <2>2, <2>3
<1>4. DOMAIN rows = ids
  BY DEF AfterCreation
<1>5. \A id \in DOMAIN records : rows[id] = records[id]
  BY DEF AfterCreation
<1>6. ASSUME NEW i \in 1..n
      PROVE  rows[nextId + i - 1] = [parentId |-> MappedParent(changes, i),
                                     payload |-> changes.created[i].payload,
                                     deleted |-> FALSE]
  <2>1. /\ nextId + i - 1 \in 1..(nextId + n - 1)
        /\ nextId + i - 1 \notin DOMAIN records
        /\ (nextId + i - 1) - nextId + 1 = i
    BY <1>1, <1>2
  <2> QED BY <1>3, <2>1 DEF AfterCreation
<1> HIDE DEF rows
<1>7. ASSUME NEW i \in 1..n
      PROVE  rows[nextId + i - 1] \in Record
  <2>1. changes.created[i] \in [id : Nat, parentId : Nat, payload : Payload]
    BY ElementOfSeq DEF IsChangeSet
  <2>2. MappedParent(changes, i) \in Nat
    BY <1>1, <1>2, <2>1, MappedParentCases
  <2>3. changes.created[i].payload \in Payload
    BY <2>1
  <2>4. rows[nextId + i - 1] = [parentId |-> MappedParent(changes, i),
                                payload |-> changes.created[i].payload,
                                deleted |-> FALSE]
    BY <1>6
  <2> QED BY <2>2, <2>3, <2>4 DEF Record
<1>8. ASSUME NEW id \in 1..(nextId + n - 1)
      PROVE  rows[id] \in Record
  <2>1. CASE id \in DOMAIN records
    BY <1>5, <2>1 DEF DbTypeOK
  <2>2. CASE id \notin DOMAIN records
    <3>1. id - nextId + 1 \in 1..n /\ nextId + (id - nextId + 1) - 1 = id
      BY <1>1, <1>2, <2>2
    <3> QED BY <1>7, <3>1
  <2> QED BY <2>1, <2>2
<1>9. rows \in [1..(nextId + n - 1) -> Record]
  BY <1>3, <1>4, <1>8 DEF AfterCreation, rows
<1> QED BY <1>1, <1>5, <1>6, <1>9 DEF rows

\* Modification writes payloads of records that are not deleted, no more.
LEMMA ModificationType ==
    ASSUME NEW changes, IsChangeSet(changes), NEW D, NEW rows \in [D -> Record]
    PROVE  LET new == AfterModification(rows, changes)
           IN  /\ new \in [D -> Record]
               /\ \A id \in D :
                     /\ new[id].parentId = rows[id].parentId
                     /\ new[id].deleted = rows[id].deleted
                     /\ rows[id].deleted => new[id] = rows[id]
                     /\ new[id].payload = IF id \in DOMAIN changes.modified /\ ~rows[id].deleted
                                          THEN changes.modified[id] ELSE rows[id].payload
<1> DEFINE new == AfterModification(rows, changes)
<1>1. ASSUME NEW id \in D
      PROVE  /\ new[id] \in Record
             /\ new[id].parentId = rows[id].parentId
             /\ new[id].deleted = rows[id].deleted
             /\ rows[id].deleted => new[id] = rows[id]
             /\ new[id].payload = IF id \in DOMAIN changes.modified /\ ~rows[id].deleted
                                  THEN changes.modified[id] ELSE rows[id].payload
  <2>1. rows[id] \in Record
    OBVIOUS
  <2>2. CASE id \in DOMAIN changes.modified /\ ~rows[id].deleted
    <3>1. new[id] = [rows[id] EXCEPT !.payload = changes.modified[id]]
      BY <2>2 DEF AfterModification
    <3>2. changes.modified[id] \in Payload
      BY <2>2 DEF IsChangeSet
    <3> HIDE DEF new
    <3> QED BY <2>1, <2>2, <3>1, <3>2 DEF Record
  <2>3. CASE ~(id \in DOMAIN changes.modified /\ ~rows[id].deleted)
    <3>1. new[id] = rows[id]
      BY <2>3 DEF AfterModification
    <3> HIDE DEF new
    <3> QED BY <2>1, <2>3, <3>1
  <2> QED BY <2>2, <2>3
<1>2. DOMAIN new = D /\ new = [id \in D |-> new[id]]
  BY DEF AfterModification
<1> HIDE DEF new
<1>3. new \in [D -> Record]
  BY <1>1, <1>2
<1> QED BY <1>1, <1>3 DEF new

\* Deletion sets flags, no more.
LEMMA DeletionType ==
    ASSUME NEW changes, NEW D, NEW rows \in [D -> Record]
    PROVE  LET new == AfterDeletion(rows, changes)
           IN  /\ new \in [D -> Record]
               /\ \A id \in D :
                     /\ new[id].parentId = rows[id].parentId
                     /\ new[id].payload = rows[id].payload
                     /\ new[id].deleted <=> \/ rows[id].deleted
                                            \/ id \in Below(ParentIn(new), changes.deleted)
<1> DEFINE new == AfterDeletion(rows, changes)
<1>1. ASSUME NEW id \in D
      PROVE  /\ new[id] \in Record
             /\ new[id].parentId = rows[id].parentId
             /\ new[id].payload = rows[id].payload
             /\ new[id].deleted <=> \/ rows[id].deleted
                                    \/ id \in Doomed(rows, changes.deleted)
  <2> DEFINE flag == rows[id].deleted \/ id \in Doomed(rows, changes.deleted)
  <2>1. rows[id] \in Record /\ flag \in BOOLEAN
    OBVIOUS
  <2>2. new[id] = [rows[id] EXCEPT !.deleted = flag]
    BY DEF AfterDeletion
  <2> HIDE DEF new, flag
  <2>3. /\ new[id] \in Record
        /\ new[id].parentId = rows[id].parentId
        /\ new[id].payload = rows[id].payload
        /\ new[id].deleted = flag
    BY <2>1, <2>2 DEF Record
  <2> QED BY <2>3 DEF flag
<1>2. DOMAIN new = D /\ new = [id \in D |-> new[id]]
  BY DEF AfterDeletion
<1>3. new \in [D -> Record]
  <2> HIDE DEF new
  <2> QED BY <1>1, <1>2
<1>4. ParentIn(new) = ParentIn(rows)
  <2> HIDE DEF new
  <2> QED BY <1>1, <1>2 DEF ParentIn
<1> QED BY <1>1, <1>3, <1>4 DEF Doomed

\* Records are determined by their fields.
LEMMA RecordEqual ==
    ASSUME NEW r \in Record, NEW s \in Record,
           r.parentId = s.parentId, r.payload = s.payload, r.deleted = s.deleted
    PROVE  r = s
BY DEF Record

\* What a change set does to the records.
LEMMA AppliedRows ==
    ASSUME DbTypeOK, NEW changes, IsChangeSet(changes), ApplyChanges(changes),
           nextId + Len(changes.created) <= MaxId + 1
    PROVE  LET n == Len(changes.created)
           IN  /\ DbTypeOK'
               /\ n \in Nat
               /\ nextId' = nextId + n
               /\ DOMAIN records' = 1..(nextId + n - 1)
               /\ \A id \in DOMAIN records :
                     /\ records'[id].parentId = records[id].parentId
                     /\ records[id].deleted => records'[id] = records[id]
                     /\ records'[id].payload =
                           IF id \in DOMAIN changes.modified /\ ~records[id].deleted
                           THEN changes.modified[id] ELSE records[id].payload
                     /\ records'[id].deleted <=>
                           \/ records[id].deleted
                           \/ id \in Below(ParentIn(records'), changes.deleted)
               /\ \A i \in 1..n :
                     /\ records'[nextId + i - 1].parentId = MappedParent(changes, i)
                     /\ records'[nextId + i - 1].deleted <=>
                           nextId + i - 1 \in Below(ParentIn(records'), changes.deleted)
                     /\ nextId + i - 1 \notin DOMAIN changes.modified =>
                           records'[nextId + i - 1].payload = changes.created[i].payload
<1> DEFINE n == Len(changes.created)
           D == 1..(nextId + n - 1)
           A == AfterCreation(records, changes)
           B == AfterModification(A, changes)
<1>1. /\ n \in Nat
      /\ A \in [D -> Record]
      /\ \A id \in DOMAIN records : A[id] = records[id]
      /\ \A i \in 1..n : A[nextId + i - 1] = [parentId |-> MappedParent(changes, i),
                                              payload |-> changes.created[i].payload,
                                              deleted |-> FALSE]
  BY CreationType
<1> HIDE DEF A, D
<1>2. /\ B \in [D -> Record]
      /\ \A id \in D :
            /\ B[id].parentId = A[id].parentId
            /\ B[id].deleted = A[id].deleted
            /\ A[id].deleted => B[id] = A[id]
            /\ B[id].payload = IF id \in DOMAIN changes.modified /\ ~A[id].deleted
                               THEN changes.modified[id] ELSE A[id].payload
  BY <1>1, ModificationType
<1>3. records' = AfterDeletion(B, changes) /\ nextId' = nextId + n
  BY DEF ApplyChanges, A
<1> HIDE DEF B
<1>4. /\ records' \in [D -> Record]
      /\ \A id \in D :
            /\ records'[id].parentId = B[id].parentId
            /\ records'[id].payload = B[id].payload
            /\ records'[id].deleted <=> \/ B[id].deleted
                                        \/ id \in Below(ParentIn(records'), changes.deleted)
  BY <1>2, <1>3, DeletionType
<1>5. nextId \in 1..(MaxId + 1) /\ MaxId \in Nat /\ DOMAIN records = 1..(nextId - 1)
  BY DatabaseAssumption DEF DbTypeOK, DatabaseAssumption
<1>6. DbTypeOK'
  BY <1>1, <1>3, <1>4, <1>5 DEF DbTypeOK, D
<1>7. ASSUME NEW id \in DOMAIN records
      PROVE  /\ records'[id].parentId = records[id].parentId
             /\ records[id].deleted => records'[id] = records[id]
             /\ records'[id].payload =
                   IF id \in DOMAIN changes.modified /\ ~records[id].deleted
                   THEN changes.modified[id] ELSE records[id].payload
             /\ records'[id].deleted <=>
                   \/ records[id].deleted
                   \/ id \in Below(ParentIn(records'), changes.deleted)
  <2>1. id \in D
    BY <1>1, <1>5 DEF D
  <2>2. A[id] = records[id]
    BY <1>1
  <2>3. ASSUME records[id].deleted
        PROVE  records'[id] = records[id]
    <3>1. /\ records'[id] \in Record /\ records[id] \in Record
          /\ B[id] = records[id]
      BY <1>2, <1>4, <2>1, <2>2, <2>3 DEF DbTypeOK
    <3>2. records'[id].deleted = records[id].deleted
      BY <1>4, <2>1, <2>3, <3>1 DEF Record
    <3>3. /\ records'[id].parentId = records[id].parentId
          /\ records'[id].payload = records[id].payload
      BY <1>4, <2>1, <3>1
    <3> QED BY <3>1, <3>2, <3>3, RecordEqual
  <2> QED BY <1>2, <1>4, <2>1, <2>2, <2>3
<1>8. ASSUME NEW i \in 1..n
      PROVE  /\ records'[nextId + i - 1].parentId = MappedParent(changes, i)
             /\ records'[nextId + i - 1].deleted <=>
                   nextId + i - 1 \in Below(ParentIn(records'), changes.deleted)
             /\ nextId + i - 1 \notin DOMAIN changes.modified =>
                   records'[nextId + i - 1].payload = changes.created[i].payload
  <2> DEFINE id == nextId + i - 1
  <2>1. id \in D
    BY <1>1, <1>5 DEF D
  <2>2. A[id] = [parentId |-> MappedParent(changes, i),
                 payload |-> changes.created[i].payload, deleted |-> FALSE]
    BY <1>1
  <2> HIDE DEF id
  <2>3. /\ A[id].parentId = MappedParent(changes, i)
        /\ A[id].payload = changes.created[i].payload
        /\ A[id].deleted = FALSE
    BY <2>2
  <2>4. /\ records'[id].parentId = MappedParent(changes, i)
        /\ records'[id].deleted <=> id \in Below(ParentIn(records'), changes.deleted)
        /\ id \notin DOMAIN changes.modified =>
              records'[id].payload = changes.created[i].payload
    BY <1>2, <1>4, <2>1, <2>3
  <2> QED BY <2>4 DEF id
<1>9. DOMAIN records' = D
  BY <1>4
<1> QED BY <1>1, <1>3, <1>6, <1>7, <1>8, <1>9 DEF D

\* A synchronisation sends the new nodes one by one, and the contents of live
\* nodes only.
LEMMA CollectedType ==
    ASSUME TypeOK, NEW order \in CreationOrders
    PROVE  LET changes == CollectChanges(order)
               n       == Cardinality(NodesIn("New"))
           IN  /\ IsChangeSet(changes)
               /\ n \in Nat
               /\ Len(changes.created) = n
               /\ DOMAIN changes.created = 1..n
               /\ DOMAIN order = 1..n
               /\ \A i \in 1..n :
                     /\ order[i] \in NodesIn("New")
                     /\ changes.created[i] = NewNodeChange(order[i])
               /\ \A h \in NodesIn("New") : \E i \in 1..n : order[i] = h
               /\ DOMAIN changes.modified = IdsIn("Modified")
               /\ changes.deleted = IdsIn("Deleted")
<1> DEFINE changes == CollectChanges(order)
           n       == Cardinality(NodesIn("New"))
           created == [i \in DOMAIN order |-> NewNodeChange(order[i])]
           Entry   == [id : Nat, parentId : Nat, payload : Payload]
<1>1. CacheTypeOK
  BY DEF TypeOK
<1>2. n \in Nat
  <2>1. Len(nodes) \in Nat /\ NodesIn("New") \in SUBSET (1..Len(nodes))
    BY <1>1, NodesFunction DEF NodesIn
  <2>2. IsFiniteSet(1..Len(nodes))
    BY <2>1, FS_Interval
  <2>3. IsFiniteSet(NodesIn("New"))
    BY <2>1, <2>2, FS_Subset
  <2> QED BY <2>3, FS_CardinalityType
<1>3. /\ order \in [1..n -> NodesIn("New")]
      /\ \A h \in NodesIn("New") : \E i \in 1..n : order[i] = h
  BY DEF CreationOrders, Bijection, Injection, Surjection
<1>4. \A h \in DOMAIN nodes : nodes[h] \in TreeNode
  BY <1>1, NodesFunction
<1>5. \A h \in NodesIn("New") : NewNodeChange(h) \in Entry
  BY <1>4 DEF NodesIn, NewNodeChange, TreeNode
<1>6. created \in [1..n -> Entry]
  BY <1>3, <1>5
<1>7. created \in Seq(Entry) /\ Len(created) = n
  <2> HIDE DEF created, n, Entry
  <2>1. created \in Seq(Entry)
    BY <1>2, <1>6, SeqDef
  <2>2. DOMAIN created = 1..n /\ DOMAIN created = 1..Len(created) /\ Len(created) \in Nat
    BY <1>6, <2>1, LenProperties
  <2> QED BY <1>2, <2>1, <2>2
<1>8. /\ changes.created = created
      /\ DOMAIN changes.modified = IdsIn("Modified")
      /\ changes.deleted = IdsIn("Deleted")
  BY DEF CollectChanges
<1>9. ASSUME NEW id \in IdsIn("Modified")
      PROVE  changes.modified[id] \in Payload
  <2> DEFINE h == CHOOSE x \in NodesIn("Modified") : nodes[x].id = id
  <2>1. h \in NodesIn("Modified")
    BY <1>9 DEF IdsIn
  <2>2. changes.modified[id] = nodes[h].payload
    BY <1>9 DEF CollectChanges
  <2> HIDE DEF h
  <2>3. nodes[h] \in TreeNode
    BY <1>4, <2>1 DEF NodesIn
  <2> QED BY <2>2, <2>3 DEF TreeNode
<1>10. IsChangeSet(changes)
  <2> HIDE DEF changes, created
  <2> QED BY <1>7, <1>8, <1>9 DEF IsChangeSet
<1>11. DOMAIN created = 1..n /\ \A i \in 1..n : created[i] = NewNodeChange(order[i])
  BY <1>3
<1> HIDE DEF changes, created, n
<1>12. /\ IsChangeSet(changes)
       /\ n \in Nat
       /\ Len(changes.created) = n
       /\ DOMAIN changes.created = 1..n
       /\ DOMAIN order = 1..n
       /\ \A i \in 1..n :
             /\ order[i] \in NodesIn("New")
             /\ changes.created[i] = NewNodeChange(order[i])
       /\ \A h \in NodesIn("New") : \E i \in 1..n : order[i] = h
       /\ DOMAIN changes.modified = IdsIn("Modified")
       /\ changes.deleted = IdsIn("Deleted")
  BY <1>2, <1>3, <1>7, <1>8, <1>10, <1>11
<1> QED BY <1>12 DEF changes, n

\* Reconciliation puts ids in the place of ids.
LEMMA ReconcileType ==
    ASSUME CacheTypeOK, NEW assigned, ReconcileCache(assigned),
           \A i \in DOMAIN assigned : assigned[i].persistentId \in Nat
    PROVE  CacheTypeOK' /\ DOMAIN nodes' = DOMAIN nodes
<1>1. \A h \in DOMAIN nodes : nodes[h] \in TreeNode
  BY NodesFunction
<1>2. ASSUME NEW h \in DOMAIN nodes
      PROVE  ReassignedNodeId(assigned, h) \in Nat
  <2> DEFINE given == {i \in DOMAIN assigned : FindNode(assigned[i].temporaryId) = h}
  <2>1. CASE given = {}
    BY <1>1, <2>1 DEF ReassignedNodeId, TreeNode
  <2>2. CASE given # {}
    BY <2>2 DEF ReassignedNodeId
  <2> QED BY <2>1, <2>2
<1>3. nodes' \in [DOMAIN nodes -> TreeNode]
  <2>1. nodes' = [h \in DOMAIN nodes |->
                    [nodes[h] EXCEPT !.id = ReassignedNodeId(assigned, h),
                                     !.status = SyncedStatus(@)]]
    BY DEF ReconcileCache
  <2>2. ASSUME NEW h \in DOMAIN nodes
        PROVE  nodes'[h] \in TreeNode
    <3>1. nodes'[h] = [nodes[h] EXCEPT !.id = ReassignedNodeId(assigned, h),
                                       !.status = SyncedStatus(@)]
      BY <2>1
    <3>2. SyncedStatus(nodes[h].status) \in Status
      BY <1>1 DEF SyncedStatus, Status, TreeNode
    <3> QED BY <1>1, <1>2, <3>1, <3>2 DEF TreeNode
  <2> QED BY <2>1, <2>2
<1>4. nodes' \in Seq(TreeNode) /\ DOMAIN nodes' = DOMAIN nodes
  BY <1>3, NodesSequence
<1>5. index' = ReassignedIndex(assigned) /\ UNCHANGED <<roots, nextTemporaryId>>
  BY DEF ReconcileCache
<1>6. ASSUME NEW id \in DOMAIN index'
      PROVE  id \in Nat /\ index'[id] \in DOMAIN nodes
  <2> DEFINE found == {i \in DOMAIN assigned : assigned[i].temporaryId \in DOMAIN index}
             kept  == DOMAIN index \ {assigned[i].temporaryId : i \in found}
             j     == CHOOSE i \in found : assigned[i].persistentId = id
  <2>1. id \in kept \cup {assigned[i].persistentId : i \in found}
    BY <1>5, <1>6 DEF ReassignedIndex
  <2>2. index'[id] = IF id \in kept THEN index[id] ELSE index[assigned[j].temporaryId]
    BY <1>5, <2>1 DEF ReassignedIndex
  <2>3. CASE id \in kept
    BY <2>2, <2>3 DEF CacheTypeOK
  <2>4. CASE id \notin kept
    <3>1. \E i \in found : assigned[i].persistentId = id
      BY <2>1, <2>4
    <3>2. j \in found
      BY <3>1
    <3> HIDE DEF j
    <3> QED BY <2>2, <2>4, <3>1, <3>2 DEF CacheTypeOK
  <2> QED BY <2>3, <2>4
<1> QED BY <1>4, <1>5, <1>6 DEF CacheTypeOK

LEMMA AssignedType ==
    ASSUME DbTypeOK, NEW changes, IsChangeSet(changes)
    PROVE  LET assigned == AssignedIds(changes)
           IN  /\ DOMAIN assigned = DOMAIN changes.created
               /\ \A i \in DOMAIN assigned :
                     /\ assigned[i].temporaryId = changes.created[i].id
                     /\ assigned[i].persistentId = nextId + i - 1
                     /\ assigned[i].persistentId \in Nat
<1>1. DOMAIN changes.created = 1..Len(changes.created) /\ Len(changes.created) \in Nat
  BY LenProperties DEF IsChangeSet
<1>2. nextId \in Nat
  BY DEF DbTypeOK
<1> QED BY <1>1, <1>2 DEF AssignedIds, PersistentId

LEMMA ApplyType ==
    ASSUME TypeOK, Apply
    PROVE  TypeOK'
<1>1. PICK order \in CreationOrders :
            /\ ApplyChanges(CollectChanges(order))
            /\ ReconcileCache(AssignedIds(CollectChanges(order)))
  BY DEF Apply
<1> DEFINE changes == CollectChanges(order)
<1>2. /\ IsChangeSet(changes)
      /\ nextId + Len(changes.created) <= MaxId + 1
  BY CollectedType DEF Apply
<1>3. DbTypeOK'
  BY <1>1, <1>2, AppliedRows DEF TypeOK
<1>4. CacheTypeOK'
  BY <1>1, <1>2, AssignedType, ReconcileType DEF TypeOK
<1> QED BY <1>3, <1>4 DEF TypeOK

LEMMA NextType ==
    ASSUME TypeOK, [Next]_vars
    PROVE  TypeOK'
<1>1. ASSUME NEW id \in DOMAIN records, LoadFromDatabase(id)
      PROVE  TypeOK'
  BY <1>1, LoadType
<1>2. ASSUME NEW id \in DOMAIN index, NEW payload \in Payload, AddChild(id, payload)
      PROVE  TypeOK'
  BY <1>2, AddChildType
<1>3. ASSUME NEW id \in DOMAIN index, NEW payload \in Payload, EditPayload(id, payload)
      PROVE  TypeOK'
  BY <1>3, EditPayloadType
<1>4. ASSUME NEW id \in DOMAIN index, Remove(id)
      PROVE  TypeOK'
  BY <1>4, RemoveType
<1>5. CASE Apply
  BY <1>5, ApplyType
<1>6. CASE Reset
  BY <1>6, ResetType
<1>7. CASE UNCHANGED vars
  BY <1>7 DEF TypeOK, DbTypeOK, CacheTypeOK, vars, dbVars, cacheVars
<1> QED BY <1>1, <1>2, <1>3, <1>4, <1>5, <1>6, <1>7 DEF Next

\* Records are numbered without gaps up to the next id, every handle the
\* index or the roots hold is a live node, and parents, payloads and statuses
\* are of their kinds, in every state the program reaches.
THEOREM TypeCorrect == Spec => []TypeOK
<1>1. Init => TypeOK
  BY InitType
<1>2. TypeOK /\ [Next]_vars => TypeOK'
  BY NextType
<1> QED BY <1>1, <1>2, PTL DEF Spec

-----------------------------------------------------------------------------
(***************************************************************************)
(* The inductive invariant.  IndexIsExact, HierarchyMatchesDatabase and    *)
(* ParentsArePersisted depend on each other: a node may be found under a   *)
(* wrong parent if ids collide, a temporary id may reach the database if a *)
(* new node hangs under a node that is never created, and a record with a  *)
(* temporary parent would lose its place in the cache.                     *)
(***************************************************************************)
\* An id in the cache is that of a record or a temporary one handed out
\* since the last clear; elements to create have one of the latter, elements
\* that came from the database one of the former.
KnownIds ==
    \A h \in DOMAIN nodes :
        /\ nodes[h].id \in DOMAIN records \cup TempBase..(nextTemporaryId - 1)
        /\ nodes[h].status = "New" => nodes[h].id \notin DOMAIN records
        /\ nodes[h].status \in {"Unchanged", "Modified"} => nodes[h].id \in DOMAIN records

\* A root was loaded and still names its parent in the database; an element
\* to create hangs under an older one that is not deleted.
Links ==
    /\ roots = {h \in DOMAIN nodes : nodes[h].parent = NoNode}
    /\ \A h \in DOMAIN nodes :
          /\ nodes[h].parent \in DOMAIN nodes \cup {NoNode}
          /\ nodes[h].parent = NoNode =>
                /\ nodes[h].id \in DOMAIN records
                /\ nodes[h].parentId = records[nodes[h].id].parentId
          /\ nodes[h].status = "New" =>
                /\ nodes[h].parent < h
                /\ nodes[nodes[h].parent].status # "Deleted"

IInv ==
    /\ TypeOK
    /\ IndexIsExact
    /\ KnownIds
    /\ Links
    /\ HierarchyMatchesDatabase
    /\ ParentsArePersisted

-----------------------------------------------------------------------------
\* FindNode in a given index.
Found(map, id) == IF id \in DOMAIN map THEN map[id] ELSE NoNode

\* Records have ids below the temporary ones, and no record has the id 0.
LEMMA RecordIds ==
    ASSUME TypeOK
    PROVE  /\ DOMAIN records = 1..(nextId - 1)
           /\ nextId \in Nat /\ nextId >= 1 /\ nextId <= MaxId + 1
           /\ TempBase \in Nat /\ MaxId \in Nat /\ MaxId < TempBase
           /\ \A id \in DOMAIN records : id \in Nat /\ id # NoId /\ id < TempBase
           /\ nextTemporaryId \in Nat /\ nextTemporaryId >= TempBase
BY DatabaseAssumption, CacheAssumption DEF TypeOK, DbTypeOK, CacheTypeOK, DatabaseAssumption,
   CacheAssumption, NoId

\* An id in the index is the id of a live node.
LEMMA IndexedIds ==
    ASSUME TypeOK, IndexIsExact, KnownIds, NEW id \in DOMAIN index
    PROVE  /\ index[id] \in DOMAIN nodes
           /\ nodes[index[id]].id = id
           /\ id \in DOMAIN records \cup TempBase..(nextTemporaryId - 1)
           /\ id # NoId
<1>1. index[id] \in DOMAIN nodes
  BY DEF TypeOK, CacheTypeOK
<1>2. nodes[index[id]].id = id
  BY DEF IndexIsExact
<1>3. id \in DOMAIN records \cup TempBase..(nextTemporaryId - 1)
  BY <1>1, <1>2 DEF KnownIds
<1>4. id # NoId
  <2>1. CASE id \in DOMAIN records
    BY <2>1, RecordIds
  <2>2. CASE id \in TempBase..(nextTemporaryId - 1)
    BY <2>2, RecordIds DEF NoId
  <2> QED BY <1>3, <2>1, <2>2
<1> QED BY <1>1, <1>2, <1>3, <1>4

\* No handle is the null pointer, and ids tell nodes apart.
LEMMA NodeIds ==
    ASSUME TypeOK, IndexIsExact
    PROVE  /\ NoNode \notin DOMAIN nodes
           /\ \A h \in DOMAIN nodes : /\ nodes[h].id \in DOMAIN index
                                      /\ index[nodes[h].id] = h
                                      /\ h \in Nat
           /\ \A g, h \in DOMAIN nodes : nodes[g].id = nodes[h].id => g = h
<1>1. DOMAIN nodes = 1..Len(nodes) /\ Len(nodes) \in Nat
  BY NodesFunction DEF TypeOK
<1>2. NoNode \notin DOMAIN nodes
  BY <1>1 DEF NoNode
<1>3. \A h \in DOMAIN nodes : nodes[h].id \in DOMAIN index /\ index[nodes[h].id] = h
  BY <1>2 DEF IndexIsExact, FindNode
<1> QED BY <1>1, <1>2, <1>3

LEMMA InitIInv == Init => IInv
<1> SUFFICES ASSUME Init PROVE IInv
  OBVIOUS
<1>1. TypeOK
  BY InitType
<1>2. DOMAIN nodes = {} /\ DOMAIN index = {} /\ roots = {}
  BY DEF Init, CacheInit
<1>3. ParentsArePersisted
  <2>1. /\ Len(SeedRows) \in Nat
        /\ SeedRows \in [1..Len(SeedRows) -> [parentId : Nat, payload : Payload]]
    BY DatabaseAssumption, LenProperties DEF DatabaseAssumption
  <2>2. /\ DOMAIN records = 1..Len(SeedRows)
        /\ \A id \in DOMAIN records : records[id].parentId = SeedRows[id].parentId
    BY DEF Init, DbInit, SeedTestData
  <2> QED BY DatabaseAssumption, <2>1, <2>2 DEF ParentsArePersisted, DatabaseAssumption
<1> QED BY <1>1, <1>2, <1>3
        DEF IInv, IndexIsExact, KnownIds, Links, HierarchyMatchesDatabase

-----------------------------------------------------------------------------
(***************************************************************************)
(* Loading.                                                                *)
(***************************************************************************)
\* What loading does: one more node under its parent, whose orphans it takes.
LEMMA LoadEffect ==
    ASSUME TypeOK, NEW id \in DOMAIN records, LoadFromDatabase(id)
    PROVE  LET raw     == Len(nodes) + 1
               parent  == FindNode(records[id].parentId)
               orphans == Orphans(id)
           IN  /\ id \notin DOMAIN index
               /\ raw \notin DOMAIN nodes
               /\ DOMAIN nodes' = DOMAIN nodes \cup {raw}
               /\ nodes'[raw].id = id
               /\ nodes'[raw].parentId = records[id].parentId
               /\ nodes'[raw].payload = records[id].payload
               /\ nodes'[raw].status = IF records[id].deleted THEN "Deleted" ELSE "Unchanged"
               /\ nodes'[raw].parent = parent
               /\ nodes'[raw].hasUnloadedChildren <=> HasChildren(id) /\ orphans = {}
               /\ \A h \in DOMAIN nodes :
                     /\ nodes'[h].hasUnloadedChildren <=> FlagUnder(parent, h)
                     /\ nodes'[h].id = nodes[h].id
                     /\ nodes'[h].parentId = nodes[h].parentId
                     /\ nodes'[h].payload = nodes[h].payload
                     /\ nodes'[h].status = nodes[h].status
                     /\ nodes'[h].parent = IF h \in orphans THEN raw ELSE nodes[h].parent
               /\ roots' = RootsAfter(orphans, raw, parent)
               /\ index' = Emplace(index, id, raw)
               /\ UNCHANGED <<records, nextId, nextTemporaryId>>
<1> DEFINE raw     == Len(nodes) + 1
           parent  == FindNode(records[id].parentId)
           orphans == Orphans(id)
           others  == [h \in DOMAIN nodes |->
                        [nodes[h] EXCEPT
                           !.parent = IF h \in orphans THEN raw ELSE @,
                           !.hasUnloadedChildren = FlagUnder(parent, h)]]
           new     == [id |-> id, parentId |-> records[id].parentId,
                       payload |-> records[id].payload,
                       status |-> IF records[id].deleted THEN "Deleted" ELSE "Unchanged",
                       hasUnloadedChildren |-> HasChildren(id) /\ orphans = {},
                       parent |-> parent]
<1>1. CacheTypeOK /\ DbTypeOK
  BY DEF TypeOK
<1>2. id \in Nat /\ records[id] \in Record
  BY <1>1 DEF DbTypeOK
<1>3. id \notin DOMAIN index
  BY <1>1, NodesFunction
     DEF LoadFromDatabase, LoadResult, FindNode, NoNode, CacheTypeOK
<1>4. /\ nodes' = Append(others, new)
      /\ roots' = RootsAfter(orphans, raw, parent)
      /\ index' = Emplace(index, id, raw)
      /\ UNCHANGED <<records, nextId, nextTemporaryId>>
  BY DEF LoadFromDatabase, InsertLoadedNode, MakeSnapshot, dbVars
<1>5. new \in TreeNode
  BY <1>1, <1>2, FindNodeType DEF TreeNode, Status, Record, HasChildren
<1>6. ASSUME NEW h \in DOMAIN nodes
      PROVE  /\ others[h] \in TreeNode
             /\ others[h].hasUnloadedChildren = FlagUnder(parent, h)
             /\ others[h].id = nodes[h].id
             /\ others[h].parentId = nodes[h].parentId
             /\ others[h].payload = nodes[h].payload
             /\ others[h].status = nodes[h].status
             /\ others[h].parent = IF h \in orphans THEN raw ELSE nodes[h].parent
  <2>1. raw \in Nat /\ nodes[h] \in TreeNode
    BY <1>1, NodesFunction
  <2>2. FlagUnder(parent, h) \in BOOLEAN
    BY DEF FlagUnder
  <2> HIDE DEF raw, parent, orphans
  <2>3. others[h] = [nodes[h] EXCEPT
                       !.parent = IF h \in orphans THEN raw ELSE @,
                       !.hasUnloadedChildren = FlagUnder(parent, h)]
    OBVIOUS
  <2> QED BY <2>1, <2>2, <2>3 DEF TreeNode
<1>7. DOMAIN others = DOMAIN nodes
  OBVIOUS
<1>8. /\ new.id = id
      /\ new.parentId = records[id].parentId
      /\ new.payload = records[id].payload
      /\ new.status = IF records[id].deleted THEN "Deleted" ELSE "Unchanged"
      /\ new.parent = parent
      /\ new.hasUnloadedChildren <=> HasChildren(id) /\ orphans = {}
  OBVIOUS
<1>9. others \in [DOMAIN nodes -> TreeNode]
  BY <1>6
<1> HIDE DEF others, new, parent, orphans
<1>10. /\ raw \notin DOMAIN nodes
       /\ DOMAIN nodes' = DOMAIN nodes \cup {raw}
       /\ nodes'[raw] = new
       /\ \A h \in DOMAIN nodes : nodes'[h] = others[h]
  BY <1>1, <1>4, <1>5, <1>9, NodesAppended
<1> HIDE DEF raw
<1>11. \A h \in DOMAIN nodes :
          /\ nodes'[h].hasUnloadedChildren <=> FlagUnder(parent, h)
          /\ nodes'[h].id = nodes[h].id
          /\ nodes'[h].parentId = nodes[h].parentId
          /\ nodes'[h].payload = nodes[h].payload
          /\ nodes'[h].status = nodes[h].status
          /\ nodes'[h].parent = IF h \in orphans THEN raw ELSE nodes[h].parent
  BY <1>6, <1>10
<1> QED BY <1>3, <1>4, <1>8, <1>10, <1>11 DEF raw, parent, orphans

LEMMA LoadIInv ==
    ASSUME IInv, NEW id \in DOMAIN records, LoadFromDatabase(id)
    PROVE  IInv'
<1> DEFINE raw     == Len(nodes) + 1
           parent  == FindNode(records[id].parentId)
           orphans == Orphans(id)
<1>1. /\ TypeOK /\ IndexIsExact /\ KnownIds /\ Links
      /\ HierarchyMatchesDatabase /\ ParentsArePersisted
  BY DEF IInv
<1>2. /\ id \notin DOMAIN index
      /\ raw \notin DOMAIN nodes
      /\ DOMAIN nodes' = DOMAIN nodes \cup {raw}
      /\ nodes'[raw].id = id
      /\ nodes'[raw].parentId = records[id].parentId
      /\ nodes'[raw].status = IF records[id].deleted THEN "Deleted" ELSE "Unchanged"
      /\ nodes'[raw].parent = parent
      /\ \A h \in DOMAIN nodes :
            /\ nodes'[h].id = nodes[h].id
            /\ nodes'[h].parentId = nodes[h].parentId
            /\ nodes'[h].payload = nodes[h].payload
            /\ nodes'[h].status = nodes[h].status
            /\ nodes'[h].parent = IF h \in orphans THEN raw ELSE nodes[h].parent
      /\ roots' = RootsAfter(orphans, raw, parent)
      /\ index' = Emplace(index, id, raw)
      /\ UNCHANGED <<records, nextId, nextTemporaryId>>
  BY <1>1, LoadEffect
<1>3. TypeOK'
  BY <1>1, LoadType
<1>4. raw \in Nat /\ raw # NoNode
  BY <1>1, NodesFunction DEF TypeOK, NoNode
<1> HIDE DEF raw
<1>5. /\ DOMAIN index' = DOMAIN index \cup {id}
      /\ index'[id] = raw
      /\ \A k \in DOMAIN index : index'[k] = index[k]
  BY <1>2 DEF Emplace
<1>6. /\ \A k : k # id => Found(index', k) = FindNode(k)
      /\ Found(index', id) = raw
  BY <1>2, <1>5 DEF FindNode, Found
<1>7. orphans = {h \in DOMAIN nodes : nodes[h].parent = NoNode /\ nodes[h].parentId = id}
  BY <1>1 DEF Orphans, Links
<1> HIDE DEF orphans
<1>8. IndexIsExact'
  <2>1. ASSUME NEW k \in DOMAIN index'
        PROVE  nodes'[index'[k]].id = k
    <3>1. CASE k = id
      BY <1>2, <1>5, <3>1
    <3>2. CASE k # id
      <4>1. k \in DOMAIN index /\ index'[k] = index[k]
        BY <1>5, <3>2
      <4>2. index[k] \in DOMAIN nodes /\ nodes[index[k]].id = k
        BY <1>1, <4>1, IndexedIds
      <4> QED BY <1>2, <4>1, <4>2
    <3> QED BY <3>1, <3>2
  <2>2. ASSUME NEW h \in DOMAIN nodes'
        PROVE  Found(index', nodes'[h].id) = h
    <3>1. CASE h = raw
      BY <1>2, <1>6, <3>1
    <3>2. CASE h # raw
      <4>1. h \in DOMAIN nodes /\ nodes'[h].id = nodes[h].id
        BY <1>2, <3>2
      <4>2. nodes[h].id \in DOMAIN index /\ FindNode(nodes[h].id) = h
        BY <1>1, <4>1, NodeIds DEF FindNode
      <4>3. nodes[h].id # id
        BY <1>2, <4>2
      <4> QED BY <1>6, <4>1, <4>2, <4>3
    <3> QED BY <3>1, <3>2
  <2> QED BY <2>1, <2>2 DEF IndexIsExact, FindNode, Found
<1>9. KnownIds'
  <2>1. ASSUME NEW h \in DOMAIN nodes'
        PROVE  /\ nodes'[h].id \in DOMAIN records' \cup TempBase..(nextTemporaryId' - 1)
               /\ nodes'[h].status = "New" => nodes'[h].id \notin DOMAIN records'
               /\ nodes'[h].status \in {"Unchanged", "Modified"} =>
                     nodes'[h].id \in DOMAIN records'
    <3>1. CASE h = raw
      BY <1>2, <3>1
    <3>2. CASE h # raw
      BY <1>1, <1>2, <3>2 DEF KnownIds
    <3> QED BY <3>1, <3>2
  <2> QED BY <2>1 DEF KnownIds
<1>10. parent \in DOMAIN nodes \cup {NoNode}
  BY <1>1, FindNodeType DEF TypeOK
<1> HIDE DEF parent
<1>11. Links'
  <2>1. roots' = {h \in DOMAIN nodes' : nodes'[h].parent = NoNode}
    <3>1. ASSUME NEW h \in DOMAIN nodes'
          PROVE  h \in roots' <=> nodes'[h].parent = NoNode
      <4>1. CASE h = raw
        BY <1>1, <1>2, <4>1 DEF RootsAfter, Links
      <4>2. CASE h # raw
        BY <1>1, <1>2, <1>4, <1>7, <4>2 DEF RootsAfter, Links
      <4> QED BY <4>1, <4>2
    <3>2. roots' \subseteq DOMAIN nodes'
      BY <1>3 DEF TypeOK, CacheTypeOK
    <3> QED BY <3>1, <3>2
  <2>2. ASSUME NEW h \in DOMAIN nodes'
        PROVE  /\ nodes'[h].parent \in DOMAIN nodes' \cup {NoNode}
               /\ nodes'[h].parent = NoNode =>
                     /\ nodes'[h].id \in DOMAIN records'
                     /\ nodes'[h].parentId = records'[nodes'[h].id].parentId
               /\ nodes'[h].status = "New" =>
                     /\ nodes'[h].parent < h
                     /\ nodes'[nodes'[h].parent].status # "Deleted"
    <3>1. CASE h = raw
      BY <1>2, <1>10, <3>1
    <3>2. CASE h # raw
      <4>1. h \in DOMAIN nodes
        BY <1>2, <3>2
      <4>2. CASE h \in orphans
        <5>1. nodes'[h].parent = raw /\ nodes[h].status # "New"
          BY <1>1, <1>2, <1>7, <4>1, <4>2 DEF Links, KnownIds
        <5> QED BY <1>2, <1>4, <4>1, <5>1
      <4>3. CASE h \notin orphans
        <5>1. nodes'[h].parent = nodes[h].parent
          BY <1>2, <4>1, <4>3
        <5>2. nodes[h].status = "New" => nodes[h].parent \in DOMAIN nodes
          BY <1>1, <4>1 DEF Links, KnownIds
        <5> QED BY <1>1, <1>2, <4>1, <5>1, <5>2 DEF Links
      <4> QED BY <4>2, <4>3
    <3> QED BY <3>1, <3>2
  <2> QED BY <2>1, <2>2 DEF Links
<1>12. records[id].parentId # id
  BY <1>1, RecordIds DEF ParentsArePersisted
<1>13. HierarchyMatchesDatabase'
  <2>1. ASSUME NEW h \in DOMAIN nodes'
        PROVE  IF nodes'[h].id \in DOMAIN records'
               THEN nodes'[h].parent = Found(index', records'[nodes'[h].id].parentId)
               ELSE /\ nodes'[h].parent # NoNode
                    /\ nodes'[h].status = "New" =>
                          nodes'[nodes'[h].parent].id = nodes'[h].parentId
    <3>1. CASE h = raw
      BY <1>2, <1>6, <1>12, <3>1 DEF parent
    <3>2. CASE h # raw
      <4>1. h \in DOMAIN nodes
        BY <1>2, <3>2
      <4>2. CASE nodes[h].id \in DOMAIN records
        <5> DEFINE p == records[nodes[h].id].parentId
        <5>1. nodes[h].parent = FindNode(p)
          BY <1>1, <4>1, <4>2 DEF HierarchyMatchesDatabase
        <5>2. CASE p = id
          <6>1. nodes[h].parent = NoNode
            BY <1>2, <5>1, <5>2 DEF FindNode
          <6>2. h \in orphans
            BY <1>1, <1>7, <4>1, <5>2, <6>1 DEF Links
          <6> QED BY <1>2, <1>6, <4>1, <4>2, <5>2, <6>2
        <5>3. CASE p # id
          <6>1. h \notin orphans
            BY <1>1, <1>7, <4>1, <5>3 DEF Links
          <6>2. nodes'[h].parent = nodes[h].parent /\ Found(index', p) = FindNode(p)
            BY <1>2, <1>6, <4>1, <5>3, <6>1
          <6> QED BY <1>2, <4>1, <4>2, <5>1, <6>2
        <5> QED BY <5>2, <5>3
      <4>3. CASE nodes[h].id \notin DOMAIN records
        <5>1. nodes[h].parent \in DOMAIN nodes
          BY <1>1, <4>1, <4>3 DEF HierarchyMatchesDatabase, Links
        <5>2. h \notin orphans
          BY <1>1, <1>7, <5>1, NodeIds
        <5> QED BY <1>1, <1>2, <4>1, <4>3, <5>1, <5>2 DEF HierarchyMatchesDatabase
      <4> QED BY <4>2, <4>3
    <3> QED BY <3>1, <3>2
  <2> QED BY <2>1 DEF HierarchyMatchesDatabase, FindNode, Found
<1>14. ParentsArePersisted'
  BY <1>1, <1>2 DEF ParentsArePersisted
<1> QED BY <1>3, <1>8, <1>9, <1>11, <1>13, <1>14 DEF IInv

-----------------------------------------------------------------------------
(***************************************************************************)
(* Adding, editing and removing.                                           *)
(***************************************************************************)
LEMMA AddChildIInv ==
    ASSUME IInv, NEW id \in DOMAIN index, NEW payload \in Payload, AddChild(id, payload)
    PROVE  IInv'
<1> DEFINE raw    == Len(nodes) + 1
           parent == FindNode(id)
           temp   == nextTemporaryId
           child  == [id |-> temp, parentId |-> id, payload |-> payload,
                      status |-> "New", hasUnloadedChildren |-> FALSE, parent |-> parent]
           others == [nodes EXCEPT ![parent].hasUnloadedChildren = FALSE]
<1>1. /\ TypeOK /\ IndexIsExact /\ KnownIds /\ Links
      /\ HierarchyMatchesDatabase /\ ParentsArePersisted
  BY DEF IInv
<1>2. TypeOK'
  BY <1>1, AddChildType
<1>3. /\ parent \in DOMAIN nodes /\ nodes[parent].id = id
      /\ nodes[parent].status # "Deleted"
  BY <1>1, IndexedIds, FindNodeType DEF AddChild, ChangeResult, FindNode, TypeOK
<1>4. /\ nodes' = Append(others, child)
      /\ index' = Emplace(index, temp, raw)
      /\ nextTemporaryId' = temp + 1
      /\ UNCHANGED <<roots, records, nextId>>
  BY DEF AddChild, dbVars
<1>5. /\ temp \in Nat /\ temp >= TempBase /\ TempBase \in Nat
      /\ temp \notin DOMAIN records
  BY <1>1, RecordIds
<1>6. temp \notin DOMAIN index
  <2>1. temp \notin DOMAIN records \cup TempBase..(temp - 1)
    BY <1>5
  <2> QED BY <1>1, <2>1, IndexedIds
<1>7. child \in TreeNode
  <2>1. parent \in Nat /\ id \in Nat
    BY <1>1, <1>3, NodeIds DEF TypeOK, CacheTypeOK
  <2> QED BY <1>5, <2>1 DEF TreeNode, Status
<1>8. others \in [DOMAIN nodes -> TreeNode]
  BY <1>1, <1>3, NodesFunction DEF TreeNode, TypeOK
<1>9. \A h \in DOMAIN nodes :
         /\ others[h].id = nodes[h].id
         /\ others[h].parentId = nodes[h].parentId
         /\ others[h].status = nodes[h].status
         /\ others[h].parent = nodes[h].parent
  BY <1>1, <1>3, NodesFunction DEF TreeNode, TypeOK
<1>10. /\ child.id = temp /\ child.parentId = id
       /\ child.status = "New" /\ child.parent = parent
  OBVIOUS
<1>11. raw \in Nat /\ raw # NoNode
  BY <1>1, NodesFunction DEF TypeOK, NoNode
<1> HIDE DEF others, child
<1>12. /\ raw \notin DOMAIN nodes
       /\ DOMAIN nodes' = DOMAIN nodes \cup {raw}
       /\ nodes'[raw] = child
       /\ \A h \in DOMAIN nodes : nodes'[h] = others[h]
  BY <1>1, <1>4, <1>7, <1>8, NodesAppended DEF TypeOK
<1> HIDE DEF raw, parent
<1>13. /\ nodes'[raw].id = temp /\ nodes'[raw].parentId = id
       /\ nodes'[raw].status = "New" /\ nodes'[raw].parent = parent
       /\ \A h \in DOMAIN nodes :
             /\ nodes'[h].id = nodes[h].id
             /\ nodes'[h].parentId = nodes[h].parentId
             /\ nodes'[h].status = nodes[h].status
             /\ nodes'[h].parent = nodes[h].parent
  BY <1>9, <1>10, <1>12
<1> HIDE DEF temp
<1>14. /\ DOMAIN index' = DOMAIN index \cup {temp}
       /\ index'[temp] = raw
       /\ \A k \in DOMAIN index : index'[k] = index[k]
  BY <1>4, <1>6 DEF Emplace
<1>15. /\ \A k : k # temp => Found(index', k) = FindNode(k)
       /\ Found(index', temp) = raw
  BY <1>6, <1>14 DEF FindNode, Found
<1>16. IndexIsExact'
  <2>1. ASSUME NEW k \in DOMAIN index'
        PROVE  nodes'[index'[k]].id = k
    <3>1. CASE k = temp
      BY <1>13, <1>14, <3>1
    <3>2. CASE k # temp
      <4>1. k \in DOMAIN index /\ index'[k] = index[k]
        BY <1>14, <3>2
      <4>2. index[k] \in DOMAIN nodes /\ nodes[index[k]].id = k
        BY <1>1, <4>1, IndexedIds
      <4> QED BY <1>13, <4>1, <4>2
    <3> QED BY <3>1, <3>2
  <2>2. ASSUME NEW h \in DOMAIN nodes'
        PROVE  Found(index', nodes'[h].id) = h
    <3>1. CASE h = raw
      BY <1>13, <1>15, <3>1
    <3>2. CASE h # raw
      <4>1. h \in DOMAIN nodes /\ nodes'[h].id = nodes[h].id
        BY <1>12, <1>13, <3>2
      <4>2. nodes[h].id \in DOMAIN index /\ FindNode(nodes[h].id) = h
        BY <1>1, <4>1, NodeIds DEF FindNode
      <4>3. nodes[h].id # temp
        BY <1>6, <4>2
      <4> QED BY <1>15, <4>1, <4>2, <4>3
    <3> QED BY <3>1, <3>2
  <2> QED BY <2>1, <2>2 DEF IndexIsExact, FindNode, Found
<1>17. KnownIds'
  <2>1. ASSUME NEW h \in DOMAIN nodes'
        PROVE  /\ nodes'[h].id \in DOMAIN records' \cup TempBase..(nextTemporaryId' - 1)
               /\ nodes'[h].status = "New" => nodes'[h].id \notin DOMAIN records'
               /\ nodes'[h].status \in {"Unchanged", "Modified"} =>
                     nodes'[h].id \in DOMAIN records'
    <3>1. CASE h = raw
      BY <1>4, <1>5, <1>13, <3>1
    <3>2. CASE h # raw
      <4>1. h \in DOMAIN nodes
        BY <1>12, <3>2
      <4>2. nodes[h].id \in DOMAIN records \cup TempBase..(nextTemporaryId' - 1)
        BY <1>1, <1>4, <1>5, <4>1 DEF KnownIds, temp
      <4> QED BY <1>1, <1>4, <1>13, <4>1, <4>2 DEF KnownIds
    <3> QED BY <3>1, <3>2
  <2> QED BY <2>1 DEF KnownIds
<1>18. Links'
  <2>1. roots' = {h \in DOMAIN nodes' : nodes'[h].parent = NoNode}
    <3>1. parent # NoNode
      BY <1>1, <1>3, NodeIds
    <3>2. ASSUME NEW h \in DOMAIN nodes'
          PROVE  h \in roots' <=> nodes'[h].parent = NoNode
      BY <1>1, <1>4, <1>12, <1>13, <3>1 DEF Links
    <3>3. roots' \subseteq DOMAIN nodes'
      BY <1>2 DEF TypeOK, CacheTypeOK
    <3> QED BY <3>2, <3>3
  <2>2. ASSUME NEW h \in DOMAIN nodes'
        PROVE  /\ nodes'[h].parent \in DOMAIN nodes' \cup {NoNode}
               /\ nodes'[h].parent = NoNode =>
                     /\ nodes'[h].id \in DOMAIN records'
                     /\ nodes'[h].parentId = records'[nodes'[h].id].parentId
               /\ nodes'[h].status = "New" =>
                     /\ nodes'[h].parent < h
                     /\ nodes'[nodes'[h].parent].status # "Deleted"
    <3>1. CASE h = raw
      <4>1. parent # NoNode
        BY <1>1, <1>3, NodeIds
      <4>2. parent < raw
        BY <1>1, <1>3, NodesFunction DEF raw, TypeOK
      <4> QED BY <1>3, <1>12, <1>13, <3>1, <4>1, <4>2
    <3>2. CASE h # raw
      <4>1. h \in DOMAIN nodes
        BY <1>12, <3>2
      <4>2. nodes[h].status = "New" => nodes[h].parent \in DOMAIN nodes
        BY <1>1, <4>1 DEF Links, KnownIds
      <4> QED BY <1>1, <1>4, <1>12, <1>13, <4>1, <4>2 DEF Links
    <3> QED BY <3>1, <3>2
  <2> QED BY <2>1, <2>2 DEF Links
<1>19. HierarchyMatchesDatabase'
  <2>1. ASSUME NEW h \in DOMAIN nodes'
        PROVE  IF nodes'[h].id \in DOMAIN records'
               THEN nodes'[h].parent = Found(index', records'[nodes'[h].id].parentId)
               ELSE /\ nodes'[h].parent # NoNode
                    /\ nodes'[h].status = "New" =>
                          nodes'[nodes'[h].parent].id = nodes'[h].parentId
    <3>1. CASE h = raw
      <4>1. parent # NoNode
        BY <1>1, <1>3, NodeIds
      <4> QED BY <1>3, <1>4, <1>5, <1>13, <3>1, <4>1
    <3>2. CASE h # raw
      <4>1. h \in DOMAIN nodes
        BY <1>12, <3>2
      <4>2. CASE nodes[h].id \in DOMAIN records
        <5>1. records[nodes[h].id].parentId # temp
          BY <1>1, <1>5, <4>2, RecordIds DEF ParentsArePersisted
        <5> QED BY <1>1, <1>4, <1>13, <1>15, <4>1, <4>2, <5>1 DEF HierarchyMatchesDatabase
      <4>3. CASE nodes[h].id \notin DOMAIN records
        <5>1. nodes[h].parent \in DOMAIN nodes
          BY <1>1, <4>1, <4>3 DEF HierarchyMatchesDatabase, Links
        <5>2. /\ nodes[h].parent # NoNode
              /\ nodes[h].status = "New" => nodes[nodes[h].parent].id = nodes[h].parentId
          BY <1>1, <4>1, <4>3 DEF HierarchyMatchesDatabase
        <5>3. /\ nodes'[h].id \notin DOMAIN records'
              /\ nodes'[h].parent = nodes[h].parent
              /\ nodes'[h].status = nodes[h].status
              /\ nodes'[h].parentId = nodes[h].parentId
              /\ nodes'[nodes[h].parent].id = nodes[nodes[h].parent].id
          BY <1>4, <1>13, <4>1, <4>3, <5>1
        <5> QED BY <5>2, <5>3
      <4> QED BY <4>2, <4>3
    <3> QED BY <3>1, <3>2
  <2> QED BY <2>1 DEF HierarchyMatchesDatabase, FindNode, Found
<1>20. ParentsArePersisted'
  BY <1>1, <1>4 DEF ParentsArePersisted
<1> QED BY <1>2, <1>16, <1>17, <1>18, <1>19, <1>20 DEF IInv

\* Editing and removing keep ids and places; they may only turn unchanged
\* elements modified and anything, downwards, deleted.
LEMMA StatusIInv ==
    ASSUME IInv, TypeOK', UNCHANGED <<records, nextId, roots, index, nextTemporaryId>>,
           DOMAIN nodes' = DOMAIN nodes,
           \A h \in DOMAIN nodes :
              /\ nodes'[h].id = nodes[h].id
              /\ nodes'[h].parentId = nodes[h].parentId
              /\ nodes'[h].parent = nodes[h].parent
              /\ \/ nodes'[h].status = nodes[h].status
                 \/ nodes[h].status = "Unchanged" /\ nodes'[h].status = "Modified"
                 \/ nodes'[h].status = "Deleted"
              /\ /\ nodes[h].parent \in DOMAIN nodes
                 /\ nodes'[nodes[h].parent].status = "Deleted"
                 /\ nodes[nodes[h].parent].status # "Deleted"
                 => nodes'[h].status = "Deleted"
    PROVE  IInv'
<1>1. /\ TypeOK /\ IndexIsExact /\ KnownIds /\ Links
      /\ HierarchyMatchesDatabase /\ ParentsArePersisted
  BY DEF IInv
<1>2. IndexIsExact'
  <2>1. \A id \in DOMAIN index : index[id] \in DOMAIN nodes
    BY <1>1 DEF TypeOK, CacheTypeOK
  <2> QED BY <1>1, <2>1 DEF IndexIsExact, FindNode
<1>3. KnownIds'
  BY <1>1 DEF KnownIds
<1>4. Links'
  <2>1. \A h \in DOMAIN nodes : nodes[h].status = "New" => nodes[h].parent \in DOMAIN nodes
    BY <1>1 DEF Links, KnownIds
  <2> QED BY <1>1, <2>1 DEF Links
<1>5. HierarchyMatchesDatabase'
  <2>1. \A h \in DOMAIN nodes : nodes[h].id \notin DOMAIN records => nodes[h].parent \in DOMAIN nodes
    BY <1>1 DEF Links
  <2> QED BY <1>1, <2>1 DEF HierarchyMatchesDatabase, FindNode
<1>6. ParentsArePersisted'
  BY <1>1 DEF ParentsArePersisted
<1> QED BY <1>2, <1>3, <1>4, <1>5, <1>6 DEF IInv

LEMMA EditPayloadIInv ==
    ASSUME IInv, NEW id \in DOMAIN index, NEW payload \in Payload, EditPayload(id, payload)
    PROVE  IInv'
<1> DEFINE n == FindNode(id)
<1>1. TypeOK /\ TypeOK'
  BY EditPayloadType DEF IInv
<1>2. n \in DOMAIN nodes /\ nodes[n].status # "Deleted"
  BY <1>1, FindNodeType DEF EditPayload, ChangeResult, TypeOK
<1>3. nodes' = [nodes EXCEPT ![n].payload = payload, ![n].status = EditedStatus(@)]
  BY DEF EditPayload
<1> HIDE DEF n
<1>4. /\ DOMAIN nodes' = DOMAIN nodes
      /\ \A h \in DOMAIN nodes :
            /\ nodes'[h].id = nodes[h].id
            /\ nodes'[h].parentId = nodes[h].parentId
            /\ nodes'[h].parent = nodes[h].parent
            /\ h # n => nodes'[h].status = nodes[h].status
            /\ h = n => nodes'[h].status = EditedStatus(nodes[h].status)
  BY <1>1, <1>2, <1>3, NodesFunction DEF TreeNode, TypeOK
<1>5. UNCHANGED <<records, nextId, roots, index, nextTemporaryId>>
  BY DEF EditPayload, dbVars
<1> QED BY <1>1, <1>2, <1>4, <1>5, StatusIInv DEF EditedStatus

LEMMA RemoveIInv ==
    ASSUME IInv, NEW id \in DOMAIN index, Remove(id)
    PROVE  IInv'
<1> DEFINE doomed == Below(Up, {FindNode(id)})
<1>1. TypeOK /\ TypeOK'
  BY RemoveType DEF IInv
<1>2. nodes' = [h \in DOMAIN nodes |->
                  IF h \in doomed THEN [nodes[h] EXCEPT !.status = "Deleted"] ELSE nodes[h]]
  BY DEF Remove
<1>3. DOMAIN Up = DOMAIN nodes /\ \A h \in DOMAIN nodes : Up[h] = nodes[h].parent
  BY DEF Up
<1>4. \A h \in DOMAIN nodes : nodes[h].parent \in doomed => h \in doomed
  BY <1>3, BelowClosed
<1> HIDE DEF doomed
<1>5. /\ DOMAIN nodes' = DOMAIN nodes
      /\ \A h \in DOMAIN nodes :
            /\ nodes'[h].id = nodes[h].id
            /\ nodes'[h].parentId = nodes[h].parentId
            /\ nodes'[h].parent = nodes[h].parent
            /\ nodes'[h].status = IF h \in doomed THEN "Deleted" ELSE nodes[h].status
  BY <1>1, <1>2, NodesFunction DEF TreeNode, TypeOK
<1>6. UNCHANGED <<records, nextId, roots, index, nextTemporaryId>>
  BY DEF Remove, dbVars
<1> QED BY <1>1, <1>4, <1>5, <1>6, StatusIInv

LEMMA ResetIInv ==
    ASSUME IInv, Reset
    PROVE  IInv'
<1>1. TypeOK'
  BY ResetType DEF IInv
<1>2. DOMAIN nodes' = {} /\ DOMAIN index' = {} /\ roots' = {}
  BY DEF Reset, Clear
<1>3. ParentsArePersisted'
  <2>1. /\ Len(SeedRows) \in Nat
        /\ SeedRows \in [1..Len(SeedRows) -> [parentId : Nat, payload : Payload]]
    BY DatabaseAssumption, LenProperties DEF DatabaseAssumption
  <2>2. /\ DOMAIN records' = 1..Len(SeedRows)
        /\ \A id \in DOMAIN records' : records'[id].parentId = SeedRows[id].parentId
    BY DEF Reset, ResetDatabase, SeedTestData
  <2> QED BY DatabaseAssumption, <2>1, <2>2 DEF ParentsArePersisted, DatabaseAssumption
<1> QED BY <1>1, <1>2, <1>3
        DEF IInv, IndexIsExact, KnownIds, Links, HierarchyMatchesDatabase

-----------------------------------------------------------------------------
(***************************************************************************)
(* Synchronising.                                                          *)
(***************************************************************************)
\* A synchronisation, its order of creation named.
Synced(order) ==
    /\ nextId + Cardinality(NodesIn("New")) <= MaxId + 1
    /\ ApplyChanges(CollectChanges(order))
    /\ ReconcileCache(AssignedIds(CollectChanges(order)))

\* Each new node gets the id its record was inserted under, every other node
\* keeps its id, and the index follows.
LEMMA ReconcileEffect ==
    ASSUME TypeOK, IndexIsExact, KnownIds, NEW order \in CreationOrders, Synced(order)
    PROVE  LET n     == Cardinality(NodesIn("New"))
               temps == {nodes[h].id : h \in NodesIn("New")}
           IN  /\ DOMAIN nodes' = DOMAIN nodes
               /\ \A h \in DOMAIN nodes :
                     /\ nodes'[h].parentId = nodes[h].parentId
                     /\ nodes'[h].payload = nodes[h].payload
                     /\ nodes'[h].parent = nodes[h].parent
                     /\ nodes'[h].hasUnloadedChildren = nodes[h].hasUnloadedChildren
                     /\ nodes'[h].status = SyncedStatus(nodes[h].status)
                     /\ h \notin NodesIn("New") => nodes'[h].id = nodes[h].id
               /\ \A i \in 1..n : nodes'[order[i]].id = nextId + i - 1
               /\ DOMAIN index' = (DOMAIN index \ temps) \cup {nextId + i - 1 : i \in 1..n}
               /\ \A i \in 1..n : index'[nextId + i - 1] = order[i]
               /\ \A id \in DOMAIN index \ temps : index'[id] = index[id]
               /\ UNCHANGED <<roots, nextTemporaryId>>
<1> DEFINE n        == Cardinality(NodesIn("New"))
           temps    == {nodes[h].id : h \in NodesIn("New")}
           changes  == CollectChanges(order)
           assigned == AssignedIds(changes)
<1>1. /\ IsChangeSet(changes)
      /\ n \in Nat
      /\ DOMAIN changes.created = 1..n
      /\ \A i \in 1..n : order[i] \in NodesIn("New") /\ changes.created[i] = NewNodeChange(order[i])
      /\ \A h \in NodesIn("New") : \E i \in 1..n : order[i] = h
  BY CollectedType
<1>2. \A i, j \in 1..n : order[i] = order[j] => i = j
  BY DEF CreationOrders, Bijection, Injection, IsInjective
<1>3. /\ DOMAIN assigned = 1..n
      /\ \A i \in 1..n : /\ assigned[i].temporaryId = nodes[order[i]].id
                         /\ assigned[i].persistentId = nextId + i - 1
  <2>1. /\ DOMAIN assigned = DOMAIN changes.created
        /\ \A i \in DOMAIN assigned : /\ assigned[i].temporaryId = changes.created[i].id
                                      /\ assigned[i].persistentId = nextId + i - 1
    BY <1>1, AssignedType DEF TypeOK
  <2>2. ASSUME NEW i \in 1..n
        PROVE  changes.created[i].id = nodes[order[i]].id
    <3>1. changes.created[i] = NewNodeChange(order[i])
      BY <1>1
    <3>2. NewNodeChange(order[i]).id = nodes[order[i]].id
      BY DEF NewNodeChange
    <3> QED BY <3>1, <3>2
  <2> QED BY <1>1, <2>1, <2>2
<1>4. ReconcileCache(assigned)
  BY DEF Synced
<1> HIDE DEF assigned, changes, n
<1>5. \A i \in 1..n : order[i] \in DOMAIN nodes /\ order[i] \in NodesIn("New")
  BY <1>1 DEF NodesIn
<1>6. \A h \in DOMAIN nodes : FindNode(nodes[h].id) = h /\ nodes[h].id \in DOMAIN index
  BY NodeIds DEF IndexIsExact
<1>7. ASSUME NEW i \in 1..n
      PROVE  ReassignedNodeId(assigned, order[i]) = nextId + i - 1
  <2> DEFINE given == {k \in DOMAIN assigned : FindNode(assigned[k].temporaryId) = order[i]}
  <2>1. given = {i}
    BY <1>2, <1>3, <1>5, <1>6
  <2>2. (CHOOSE k \in given : TRUE) = i
    BY <2>1
  <2> QED BY <1>3, <2>1, <2>2 DEF ReassignedNodeId
<1>8. ASSUME NEW h \in DOMAIN nodes, h \notin NodesIn("New")
      PROVE  ReassignedNodeId(assigned, h) = nodes[h].id
  <2>1. {k \in DOMAIN assigned : FindNode(assigned[k].temporaryId) = h} = {}
    BY <1>3, <1>5, <1>6, <1>8
  <2> QED BY <2>1 DEF ReassignedNodeId
<1>9. /\ DOMAIN nodes' = DOMAIN nodes
      /\ \A h \in DOMAIN nodes :
            /\ nodes'[h].parentId = nodes[h].parentId
            /\ nodes'[h].payload = nodes[h].payload
            /\ nodes'[h].parent = nodes[h].parent
            /\ nodes'[h].hasUnloadedChildren = nodes[h].hasUnloadedChildren
            /\ nodes'[h].status = SyncedStatus(nodes[h].status)
            /\ nodes'[h].id = ReassignedNodeId(assigned, h)
  <2>1. nodes' = [h \in DOMAIN nodes |->
                    [nodes[h] EXCEPT !.id = ReassignedNodeId(assigned, h),
                                     !.status = SyncedStatus(@)]]
    BY <1>4 DEF ReconcileCache
  <2>2. \A h \in DOMAIN nodes : nodes[h] \in TreeNode
    BY NodesFunction DEF TypeOK
  <2> QED BY <2>1, <2>2 DEF TreeNode
<1> DEFINE found == {i \in DOMAIN assigned : assigned[i].temporaryId \in DOMAIN index}
           kept  == DOMAIN index \ {assigned[i].temporaryId : i \in found}
<1>10. found = 1..n
  BY <1>3, <1>5, <1>6
<1>11. kept = DOMAIN index \ temps
  <2>1. {assigned[i].temporaryId : i \in found} = temps
    BY <1>1, <1>3, <1>10
  <2> QED BY <2>1
<1>12. {assigned[i].persistentId : i \in found} = {nextId + i - 1 : i \in 1..n}
  BY <1>3, <1>10
<1>13. index' = [id \in kept \cup {assigned[i].persistentId : i \in found} |->
                   IF id \in kept THEN index[id]
                   ELSE index[assigned[CHOOSE i \in found :
                                          assigned[i].persistentId = id].temporaryId]]
  BY <1>4 DEF ReconcileCache, ReassignedIndex
<1>14. UNCHANGED <<roots, nextTemporaryId>>
  BY <1>4 DEF ReconcileCache
<1> HIDE DEF found, kept, temps
<1>15. DOMAIN index' = (DOMAIN index \ temps) \cup {nextId + i - 1 : i \in 1..n}
  BY <1>11, <1>12, <1>13
<1>16. \A id \in DOMAIN index \ temps : index'[id] = index[id]
  BY <1>11, <1>13
<1>17. ASSUME NEW i \in 1..n
       PROVE  index'[nextId + i - 1] = order[i]
  <2> DEFINE id == nextId + i - 1
             j  == CHOOSE k \in found : assigned[k].persistentId = id
  <2>1. nextId \in Nat /\ nextId + n <= MaxId + 1 /\ MaxId \in Nat /\ MaxId < TempBase
        /\ TempBase \in Nat
    BY RecordIds DEF Synced, n
  <2>2. id \notin DOMAIN index
    <3>1. id \notin DOMAIN records \cup TempBase..(nextTemporaryId - 1)
      BY <1>1, <2>1, RecordIds
    <3> HIDE DEF id
    <3> QED BY <3>1, IndexedIds
  <2>3. id \notin kept /\ id \in {assigned[k].persistentId : k \in found}
    BY <1>11, <1>12, <2>2
  <2>4. j = i
    <3>1. i \in found /\ assigned[i].persistentId = id
      BY <1>3, <1>10
    <3>2. \A k \in found : assigned[k].persistentId = id => k = i
      BY <1>1, <1>3, <1>10, <2>1
    <3> HIDE DEF id
    <3> QED BY <3>1, <3>2
  <2>5. index'[id] = index[assigned[j].temporaryId]
    <3> HIDE DEF id
    <3> QED BY <1>13, <2>3 DEF j
  <2>6. index'[id] = index[nodes[order[i]].id]
    BY <1>3, <2>4, <2>5
  <2>7. index[nodes[order[i]].id] = order[i]
    BY <1>5, NodeIds
  <2> QED BY <2>6, <2>7
<1>18. /\ \A i \in 1..n : nodes'[order[i]].id = nextId + i - 1
       /\ \A h \in DOMAIN nodes : h \notin NodesIn("New") => nodes'[h].id = nodes[h].id
  BY <1>5, <1>7, <1>8, <1>9
<1> QED BY <1>9, <1>14, <1>15, <1>16, <1>17, <1>18 DEF n, temps

\* A created record is placed under the record of the node its element hangs
\* from, which was created before it or was in the database already.
LEMMA CreatedPlace ==
    ASSUME IInv, NEW order \in CreationOrders, Synced(order),
           NEW i \in 1..Cardinality(NodesIn("New"))
    PROVE  LET p == nodes[order[i]].parent
           IN  /\ p \in DOMAIN nodes
               /\ records'[nextId + i - 1].parentId = nodes'[p].id
               /\ nodes'[p].id \in 1..(nextId + i - 2)
<1> DEFINE n       == Cardinality(NodesIn("New"))
           changes == CollectChanges(order)
           h       == order[i]
           p       == nodes[h].parent
<1>1. /\ TypeOK /\ IndexIsExact /\ KnownIds /\ Links
      /\ HierarchyMatchesDatabase /\ ParentsArePersisted
  BY DEF IInv
<1>2. /\ IsChangeSet(changes)
      /\ n \in Nat
      /\ Len(changes.created) = n
      /\ \A k \in 1..n : order[k] \in NodesIn("New") /\ changes.created[k] = NewNodeChange(order[k])
      /\ \A g \in NodesIn("New") : \E k \in 1..n : order[k] = g
      /\ DOMAIN order = 1..n
  BY <1>1, CollectedType
<1>3. /\ \A g \in DOMAIN nodes : g \notin NodesIn("New") => nodes'[g].id = nodes[g].id
      /\ \A k \in 1..n : nodes'[order[k]].id = nextId + k - 1
  BY <1>1, ReconcileEffect
<1>4. records'[nextId + i - 1].parentId = MappedParent(changes, i)
  BY <1>1, <1>2, AppliedRows DEF Synced, TypeOK
<1>5. ASSUME NEW k \in 1..n
      PROVE  /\ changes.created[k].id = nodes[order[k]].id
             /\ changes.created[k].parentId = nodes[order[k]].parentId
  <2>1. changes.created[k] = NewNodeChange(order[k])
    BY <1>2
  <2>2. /\ NewNodeChange(order[k]).id = nodes[order[k]].id
        /\ NewNodeChange(order[k]).parentId = nodes[order[k]].parentId
    BY DEF NewNodeChange
  <2> QED BY <2>1, <2>2
<1>6. \/ /\ MappedParent(changes, i) = changes.created[i].parentId
         /\ \A k \in 1..(i - 1) : changes.created[k].id # changes.created[i].parentId
      \/ \E k \in 1..(i - 1) : /\ changes.created[k].id = changes.created[i].parentId
                               /\ MappedParent(changes, i) = nextId + k - 1
  BY <1>1, <1>2, MappedParentCases DEF TypeOK
<1> HIDE DEF changes, n
<1>7. h \in DOMAIN nodes /\ h \in NodesIn("New") /\ nodes[h].status = "New"
  BY <1>2 DEF NodesIn, n
<1> HIDE DEF h
<1>8. /\ p \in DOMAIN nodes /\ p < h
      /\ nodes[p].status # "Deleted"
      /\ nodes[p].id = nodes[h].parentId
  BY <1>1, <1>7 DEF KnownIds, Links, HierarchyMatchesDatabase
<1>9. /\ changes.created[i].parentId = nodes[p].id
      /\ \A k \in 1..(i - 1) : changes.created[k].id = nodes[order[k]].id
  BY <1>2, <1>5, <1>8 DEF h, n
<1>10. nextId \in Nat /\ DOMAIN records = 1..(nextId - 1)
  BY <1>1, RecordIds
<1>11. \A k \in 1..n : order[k] \in DOMAIN nodes
  BY <1>2 DEF NodesIn
<1>12. \A f, g \in DOMAIN nodes : nodes[f].id = nodes[g].id => f = g
  BY <1>1, NodeIds
<1> HIDE DEF p
<1>13. CASE p \in NodesIn("New")
  <2>1. PICK k \in 1..n : order[k] = p
    BY <1>2, <1>13
  <2>2. k # i
    BY <1>7, <1>8, <2>1, NodeIds, <1>1 DEF h
  <2>3. ~(i < k)
    <3>1. SUFFICES ASSUME i < k PROVE FALSE
      OBVIOUS
    <3>2. VisitedBefore(h, p)
      BY <1>2, <2>1, <3>1 DEF CreationOrders, h, n
    <3>3. p \in Path(Up, h)
      <4>1. DOMAIN Up = DOMAIN nodes /\ Up[h] = p
        BY <1>7 DEF Up, p
      <4> QED BY <1>7, <1>8, <4>1 DEF Path
    <3> QED BY <3>2, <3>3 DEF VisitedBefore
  <2>4. k \in 1..(i - 1)
    BY <1>2, <2>2, <2>3 DEF n
  <2>5. PICK j \in 1..(i - 1) : /\ changes.created[j].id = changes.created[i].parentId
                                /\ MappedParent(changes, i) = nextId + j - 1
    BY <1>6, <1>9, <2>1, <2>4
  <2>6. j \in 1..n
    BY <1>2, <2>5 DEF n
  <2>7. order[j] = p
    BY <1>8, <1>9, <1>11, <1>12, <2>5, <2>6
  <2>8. nodes'[p].id = nextId + j - 1
    BY <1>3, <2>6, <2>7
  <2>9. nextId + j - 1 \in 1..(nextId + i - 2)
    BY <1>1, <2>5, RecordIds, <1>2 DEF n
  <2> QED BY <1>4, <1>8, <2>5, <2>8, <2>9 DEF p, h
<1>14. CASE p \notin NodesIn("New")
  <2>1. nodes[p].status \in {"Unchanged", "Modified"}
    <3>1. nodes[p] \in TreeNode
      BY <1>1, <1>8, NodesFunction DEF TypeOK
    <3> QED BY <1>8, <1>14, <3>1 DEF NodesIn, TreeNode, Status
  <2>2. nodes[p].id \in DOMAIN records
    BY <1>1, <1>8, <2>1 DEF KnownIds
  <2>3. \A k \in 1..(i - 1) : changes.created[k].id # changes.created[i].parentId
    <3>1. SUFFICES ASSUME NEW k \in 1..(i - 1)
                   PROVE  nodes[order[k]].id # nodes[p].id
      BY <1>9
    <3>2. k \in 1..n
      BY <1>2 DEF n
    <3>3. order[k] \in NodesIn("New")
      BY <1>2, <3>2
    <3> QED BY <1>8, <1>11, <1>12, <1>14, <3>2, <3>3
  <2>4. MappedParent(changes, i) = nodes[p].id
    BY <1>6, <1>9, <2>3
  <2>5. nodes'[p].id = nodes[p].id
    BY <1>3, <1>8, <1>14
  <2>6. nodes[p].id \in 1..(nextId + i - 2)
    BY <1>2, <1>10, <2>2 DEF n
  <2> QED BY <1>4, <1>8, <2>4, <2>5, <2>6 DEF p, h
<1> QED BY <1>13, <1>14

LEMMA ApplyIInv ==
    ASSUME IInv, Apply
    PROVE  IInv'
<1>1. PICK order \in CreationOrders : Synced(order)
  BY DEF Apply, Synced
<1> DEFINE n     == Cardinality(NodesIn("New"))
           temps == {nodes[h].id : h \in NodesIn("New")}
<1>2. /\ TypeOK /\ IndexIsExact /\ KnownIds /\ Links
      /\ HierarchyMatchesDatabase /\ ParentsArePersisted
  BY DEF IInv
<1>3. TypeOK'
  BY <1>2, ApplyType
<1>4. /\ n \in Nat
      /\ \A i \in 1..n : order[i] \in NodesIn("New")
      /\ \A h \in NodesIn("New") : \E i \in 1..n : order[i] = h
      /\ IsChangeSet(CollectChanges(order))
      /\ Len(CollectChanges(order).created) = n
  BY <1>1, <1>2, CollectedType
<1>5. /\ nextId' = nextId + n
      /\ DOMAIN records' = 1..(nextId + n - 1)
      /\ \A id \in DOMAIN records : records'[id].parentId = records[id].parentId
  BY <1>1, <1>2, <1>4, AppliedRows DEF Synced, TypeOK
<1>6. /\ DOMAIN nodes' = DOMAIN nodes
      /\ \A h \in DOMAIN nodes :
            /\ nodes'[h].parentId = nodes[h].parentId
            /\ nodes'[h].parent = nodes[h].parent
            /\ nodes'[h].status = SyncedStatus(nodes[h].status)
            /\ h \notin NodesIn("New") => nodes'[h].id = nodes[h].id
      /\ \A i \in 1..n : nodes'[order[i]].id = nextId + i - 1
      /\ DOMAIN index' = (DOMAIN index \ temps) \cup {nextId + i - 1 : i \in 1..n}
      /\ \A i \in 1..n : index'[nextId + i - 1] = order[i]
      /\ \A id \in DOMAIN index \ temps : index'[id] = index[id]
      /\ UNCHANGED <<roots, nextTemporaryId>>
  BY <1>1, <1>2, ReconcileEffect
<1>7. ASSUME NEW i \in 1..n
      PROVE  LET p == nodes[order[i]].parent
             IN  /\ p \in DOMAIN nodes
                 /\ records'[nextId + i - 1].parentId = nodes'[p].id
                 /\ nodes'[p].id \in 1..(nextId + i - 2)
  BY <1>1, CreatedPlace
<1>8. /\ DOMAIN records = 1..(nextId - 1)
      /\ nextId \in Nat /\ nextId >= 1 /\ nextId + n <= MaxId + 1
      /\ TempBase \in Nat /\ MaxId \in Nat /\ MaxId < TempBase
      /\ nextTemporaryId \in Nat
  BY <1>1, <1>2, RecordIds DEF Synced
<1>9. \A h \in DOMAIN nodes : h \in NodesIn("New") <=> nodes[h].status = "New"
  BY DEF NodesIn
<1>10. \A h \in DOMAIN nodes :
          /\ nodes'[h].status # "New"
          /\ h \notin NodesIn("New") /\ nodes'[h].status \in {"Unchanged", "Modified"}
                => nodes[h].status \in {"Unchanged", "Modified"}
          /\ h \in NodesIn("New") => nodes'[h].status = "Unchanged"
  BY <1>6, <1>9 DEF SyncedStatus
<1>11. /\ \A h \in DOMAIN nodes : nodes[h].id \in DOMAIN index /\ index[nodes[h].id] = h
       /\ \A f, g \in DOMAIN nodes : nodes[f].id = nodes[g].id => f = g
  BY <1>2, NodeIds
<1>12. NodesIn("New") \subseteq DOMAIN nodes
  BY DEF NodesIn
<1>13. \A h \in DOMAIN nodes : h \notin NodesIn("New") => nodes[h].id \notin temps
  BY <1>11, <1>12
<1>14. \A id \in DOMAIN records : id \notin temps
  BY <1>2, <1>9, <1>12 DEF KnownIds
<1>15. \A id \in DOMAIN index :
          /\ index[id] \in DOMAIN nodes
          /\ nodes[index[id]].id = id
          /\ id \in DOMAIN records \cup TempBase..(nextTemporaryId - 1)
  BY <1>2, IndexedIds
<1> HIDE DEF temps, n
<1>16. ASSUME NEW h \in DOMAIN nodes
       PROVE  nodes'[h].id \in DOMAIN index' /\ index'[nodes'[h].id] = h
  <2>1. CASE h \in NodesIn("New")
    <3>1. PICK i \in 1..n : order[i] = h
      BY <1>4, <2>1
    <3>2. nodes'[h].id = nextId + i - 1 /\ index'[nextId + i - 1] = h
      BY <1>6, <3>1
    <3>3. nextId + i - 1 \in DOMAIN index'
      BY <1>6
    <3> QED BY <3>2, <3>3
  <2>2. CASE h \notin NodesIn("New")
    BY <1>6, <1>11, <1>13, <2>2
  <2> QED BY <2>1, <2>2
<1>17. IndexIsExact'
  <2>1. ASSUME NEW id \in DOMAIN index'
        PROVE  nodes'[index'[id]].id = id
    <3>1. CASE id \in DOMAIN index \ temps
      <4>1. index[id] \notin NodesIn("New")
        BY <1>15, <3>1 DEF temps
      <4> QED BY <1>6, <1>15, <3>1, <4>1
    <3>2. CASE id \notin DOMAIN index \ temps
      <4>1. PICK i \in 1..n : id = nextId + i - 1
        BY <1>6, <2>1, <3>2
      <4> QED BY <1>6, <4>1
    <3> QED BY <3>1, <3>2
  <2>2. ASSUME NEW h \in DOMAIN nodes'
        PROVE  Found(index', nodes'[h].id) = h
    BY <1>6, <1>16 DEF Found
  <2> QED BY <2>1, <2>2 DEF IndexIsExact, FindNode, Found
<1>18. KnownIds'
  <2>1. ASSUME NEW h \in DOMAIN nodes'
        PROVE  /\ nodes'[h].id \in DOMAIN records' \cup TempBase..(nextTemporaryId' - 1)
               /\ nodes'[h].status = "New" => nodes'[h].id \notin DOMAIN records'
               /\ nodes'[h].status \in {"Unchanged", "Modified"} =>
                     nodes'[h].id \in DOMAIN records'
    <3>1. h \in DOMAIN nodes
      BY <1>6
    <3>2. CASE h \in NodesIn("New")
      <4>1. PICK i \in 1..n : order[i] = h
        BY <1>4, <3>2
      <4>2. nextId + i - 1 \in DOMAIN records'
        BY <1>4, <1>5, <1>8
      <4> QED BY <1>6, <1>10, <3>1, <4>1, <4>2
    <3>3. CASE h \notin NodesIn("New")
      <4>1. DOMAIN records \subseteq DOMAIN records'
        BY <1>4, <1>5, <1>8
      <4> QED BY <1>2, <1>6, <1>10, <3>1, <3>3, <4>1 DEF KnownIds
    <3> QED BY <3>2, <3>3
  <2> QED BY <2>1 DEF KnownIds
<1>19. ASSUME NEW h \in DOMAIN nodes, h \in NodesIn("New")
       PROVE  nodes[h].parent \in DOMAIN nodes /\ nodes[h].parent # NoNode
  <2>1. nodes[h].parent \in DOMAIN nodes
    BY <1>4, <1>7, <1>19
  <2> QED BY <1>2, <2>1, NodeIds
<1>20. Links'
  <2>1. ASSUME NEW h \in DOMAIN nodes'
        PROVE  /\ nodes'[h].parent \in DOMAIN nodes' \cup {NoNode}
               /\ nodes'[h].parent = NoNode =>
                     /\ nodes'[h].id \in DOMAIN records'
                     /\ nodes'[h].parentId = records'[nodes'[h].id].parentId
               /\ nodes'[h].status # "New"
    <3>1. h \in DOMAIN nodes
      BY <1>6
    <3>2. DOMAIN records \subseteq DOMAIN records'
      BY <1>4, <1>5, <1>8
    <3> QED BY <1>2, <1>5, <1>6, <1>10, <1>19, <3>1, <3>2 DEF Links
  <2>2. roots' = {h \in DOMAIN nodes' : nodes'[h].parent = NoNode}
    BY <1>2, <1>6 DEF Links
  <2> QED BY <2>1, <2>2 DEF Links
<1>21. ParentsArePersisted'
  <2>1. ASSUME NEW id \in DOMAIN records'
        PROVE  records'[id].parentId \in 0..(id - 1)
    <3>1. CASE id \in DOMAIN records
      BY <1>2, <1>5, <3>1 DEF ParentsArePersisted
    <3>2. CASE id \notin DOMAIN records
      <4>1. id - nextId + 1 \in 1..n /\ id = nextId + (id - nextId + 1) - 1
        BY <1>4, <1>5, <1>8, <3>2
      <4>2. PICK i \in 1..n : id = nextId + i - 1
        BY <4>1
      <4>3. records'[id].parentId \in 1..(nextId + i - 2)
        BY <1>7, <4>2
      <4> QED BY <1>4, <1>8, <4>2, <4>3
    <3> QED BY <3>1, <3>2
  <2> QED BY <2>1 DEF ParentsArePersisted
<1>22. \A q \in 0..(nextId - 1) : Found(index', q) = FindNode(q)
  <2>1. SUFFICES ASSUME NEW q \in 0..(nextId - 1)
                 PROVE  Found(index', q) = FindNode(q)
    OBVIOUS
  <2>2. q \notin {nextId + i - 1 : i \in 1..n}
    BY <1>4, <1>8
  <2>3. q \notin temps
    <3>1. CASE q = 0
      <4>1. \A h \in DOMAIN nodes : nodes[h].id # NoId
        BY <1>2, <1>11, IndexedIds
      <4> QED BY <1>12, <3>1, <4>1 DEF temps, NoId
    <3>2. CASE q # 0
      BY <1>8, <1>14, <3>2
    <3> QED BY <3>1, <3>2
  <2> QED BY <1>6, <2>2, <2>3 DEF Found, FindNode
<1>23. HierarchyMatchesDatabase'
  <2>1. ASSUME NEW h \in DOMAIN nodes'
        PROVE  IF nodes'[h].id \in DOMAIN records'
               THEN nodes'[h].parent = Found(index', records'[nodes'[h].id].parentId)
               ELSE /\ nodes'[h].parent # NoNode
                    /\ nodes'[h].status = "New" =>
                          nodes'[nodes'[h].parent].id = nodes'[h].parentId
    <3>1. h \in DOMAIN nodes
      BY <1>6
    <3>2. CASE h \in NodesIn("New")
      <4>1. PICK i \in 1..n : order[i] = h
        BY <1>4, <3>2
      <4>2. nodes'[h].id = nextId + i - 1 /\ nodes'[h].id \in DOMAIN records'
        BY <1>4, <1>5, <1>6, <1>8, <4>1
      <4>3. /\ nodes[h].parent \in DOMAIN nodes
            /\ records'[nodes'[h].id].parentId = nodes'[nodes[h].parent].id
        BY <1>7, <4>1, <4>2
      <4>4. Found(index', nodes'[nodes[h].parent].id) = nodes[h].parent
        BY <1>16, <4>3 DEF Found
      <4> QED BY <1>6, <3>1, <4>2, <4>3, <4>4
    <3>3. CASE h \notin NodesIn("New") /\ nodes[h].id \in DOMAIN records
      <4>1. nodes'[h].id = nodes[h].id /\ nodes'[h].parent = nodes[h].parent
        BY <1>6, <3>1, <3>3
      <4>2. records'[nodes[h].id].parentId = records[nodes[h].id].parentId
        BY <1>5, <3>3
      <4>3. records[nodes[h].id].parentId \in 0..(nextId - 1)
        BY <1>2, <1>8, <3>3 DEF ParentsArePersisted
      <4>4. nodes[h].parent = FindNode(records[nodes[h].id].parentId)
        BY <1>2, <3>1, <3>3 DEF HierarchyMatchesDatabase
      <4>5. nodes[h].id \in DOMAIN records'
        BY <1>4, <1>5, <1>8, <3>3
      <4> QED BY <1>22, <4>1, <4>2, <4>3, <4>4, <4>5
    <3>4. CASE h \notin NodesIn("New") /\ nodes[h].id \notin DOMAIN records
      <4>1. nodes[h].id \in TempBase..(nextTemporaryId - 1)
        BY <1>2, <3>1, <3>4 DEF KnownIds
      <4>2. nodes[h].id \notin DOMAIN records'
        BY <1>4, <1>5, <1>8, <4>1
      <4>3. nodes[h].parent # NoNode
        BY <1>2, <3>1, <3>4 DEF HierarchyMatchesDatabase
      <4> QED BY <1>6, <1>10, <3>1, <3>4, <4>2, <4>3
    <3> QED BY <3>2, <3>3, <3>4
  <2> QED BY <2>1 DEF HierarchyMatchesDatabase, FindNode, Found
<1> QED BY <1>3, <1>17, <1>18, <1>20, <1>21, <1>23 DEF IInv

-----------------------------------------------------------------------------
LEMMA NextIInv ==
    ASSUME IInv, [Next]_vars
    PROVE  IInv'
<1>1. ASSUME NEW id \in DOMAIN records, LoadFromDatabase(id)
      PROVE  IInv'
  BY <1>1, LoadIInv
<1>2. ASSUME NEW id \in DOMAIN index, NEW payload \in Payload, AddChild(id, payload)
      PROVE  IInv'
  BY <1>2, AddChildIInv
<1>3. ASSUME NEW id \in DOMAIN index, NEW payload \in Payload, EditPayload(id, payload)
      PROVE  IInv'
  BY <1>3, EditPayloadIInv
<1>4. ASSUME NEW id \in DOMAIN index, Remove(id)
      PROVE  IInv'
  BY <1>4, RemoveIInv
<1>5. CASE Apply
  BY <1>5, ApplyIInv
<1>6. CASE Reset
  BY <1>6, ResetIInv
<1>7. CASE UNCHANGED vars
  BY <1>7 DEF vars, dbVars, cacheVars, IInv, TypeOK, DbTypeOK, CacheTypeOK, IndexIsExact,
     FindNode, KnownIds, Links, HierarchyMatchesDatabase, ParentsArePersisted
<1> QED BY <1>1, <1>2, <1>3, <1>4, <1>5, <1>6, <1>7 DEF Next

\* The inductive invariant holds in every reachable state.
THEOREM IdentityInvariant == Spec => []IInv
<1>1. IInv /\ [Next]_vars => IInv'
  BY NextIInv
<1> QED BY InitIInv, <1>1, PTL DEF Spec

\* index_ stays exact through loading, creation and the replacement of
\* temporary ids, for any database, any bounds and any order of calls.
THEOREM IndexStaysExact == Spec => []IndexIsExact
<1>1. IInv => IndexIsExact
  BY DEF IInv
<1> QED BY IdentityInvariant, <1>1, PTL

\* The cached hierarchy stays that of the database whatever order parents
\* and children are loaded, created and synchronised in.
THEOREM HierarchyStaysExact == Spec => []HierarchyMatchesDatabase
<1>1. IInv => HierarchyMatchesDatabase
  BY DEF IInv
<1> QED BY IdentityInvariant, <1>1, PTL

\* No temporary id ever reaches the database.
THEOREM TemporaryIdsStayLocal == Spec => []ParentsArePersisted
<1>1. IInv => ParentsArePersisted
  BY DEF IInv
<1> QED BY IdentityInvariant, <1>1, PTL

\* Temporary ids are told from those of the database by TempBase, and the
\* status of an element says which of them it has.
THEOREM IdsFollowStatus == Spec => []IdsAgreeWithStatus
<1>1. ASSUME IInv
      PROVE  IdsAgreeWithStatus
  <2>1. TypeOK /\ KnownIds
    BY <1>1 DEF IInv
  <2> QED BY <2>1, RecordIds DEF KnownIds, IdsAgreeWithStatus
<1> QED BY IdentityInvariant, <1>1, PTL

=============================================================================
