----------------------------- MODULE CallsProofs -----------------------------
(***************************************************************************)
(* The vectors and the index of the cache at every step of every call.     *)
(***************************************************************************)
EXTENDS RunningCalls, FiniteSetTheorems, SequenceTheorems, TLAPS

-----------------------------------------------------------------------------
(***************************************************************************)
(* What the variables and the running call hold.                           *)
(***************************************************************************)
Object ==
    [id : Nat, parentId : Nat, payload : Payload,
     status : {"New", "Modified", "Deleted", "Unchanged"},
     hasUnloadedChildren : BOOLEAN, parent : Nat, children : Seq(Nat)]

Change == [id : Nat, parentId : Nat, payload : Payload]

Table == UNION {[S -> Nat] : S \in SUBSET Nat}

Frame ==
    [at : {"idle", "adopt", "remove", "collect", "insert", "modify", "delete", "reassign",
           "sync", "seed"},
     stack : Seq(Nat), node : Nat, parent : Nat, hasChildren : BOOLEAN,
     created : Seq(Change), modified : Seq(Change), deleted : Seq(Change),
     temporaryToPersistent : Table,
     assignedIds : Seq([temporaryId : Nat, persistentId : Nat])]

Typed ==
    /\ DbTypeOK
    /\ objects \in Seq(Object)
    /\ rootList \in Seq(Nat)
    /\ index \in Table
    /\ nextTemporaryId \in TempBase..(TempBase + MaxTemp)
    /\ call \in Frame

Rising(s) == \A i, j \in DOMAIN s : i < j => s[i] < s[j]

VectorOf(objs, roots, h) == IF h = NoNode THEN roots ELSE objs[h].children

\* The vector holds the objects with this owner, each once and in order.
Keeps(objs, vector, h) ==
    /\ \A i \in DOMAIN vector : vector[i] \in DOMAIN objs /\ objs[vector[i]].parent = h
    /\ \A c \in DOMAIN objs : objs[c].parent = h => \E i \in DOMAIN vector : vector[i] = c
    /\ Rising(vector)

\* OwnedOnce, of any objects and roots; and every owner is live.
Owned(objs, roots) ==
    /\ \A c \in DOMAIN objs : objs[c].parent \in {NoNode} \cup DOMAIN objs
    /\ \A h \in {NoNode} \cup DOMAIN objs : Keeps(objs, VectorOf(objs, roots, h), h)

\* IndexNeverDangles, of any objects and index.
Exact(objs, idx) ==
    /\ \A id \in DOMAIN idx : idx[id] \in DOMAIN objs /\ objs[idx[id]].id = id
    /\ \A h \in DOMAIN objs : objs[h].id \in DOMAIN idx /\ idx[objs[h].id] = h

\* No id of the index is still to be given to another node.
GivenOnce(idx, next, nextTemporary) ==
    \A id \in DOMAIN idx :
        id \in 1..(next - 1) \/ id \in TempBase..(nextTemporary - 1)

\* The persistent ids that reassignId enters are not in the index, and no
\* two nodes get the same.
Fresh(assigned, idx, next) ==
    /\ \A i \in DOMAIN assigned :
          /\ assigned[i].persistentId \in 1..(next - 1)
          /\ assigned[i].persistentId \notin DOMAIN idx
    /\ \A i, j \in DOMAIN assigned :
          i # j => assigned[i].persistentId # assigned[j].persistentId

\* What is left to adopt was constructed after the children node has, and in
\* the order in which it will be attached.
AdoptOK ==
    call.at = "adopt" =>
        /\ call.node \in DOMAIN objects
        /\ \A i \in DOMAIN call.stack :
              /\ call.stack[i] \in DOMAIN index
              /\ \A k \in DOMAIN objects[call.node].children :
                    objects[call.node].children[k] < index[call.stack[i]]
        /\ \A i, j \in DOMAIN call.stack :
              i < j => index[call.stack[i]] < index[call.stack[j]]

\* A walk over children_ meets live objects only.
WalkOK ==
    call.at \in {"remove", "collect", "sync"} =>
        \A i \in DOMAIN call.stack : call.stack[i] \in DOMAIN objects

NewAmong(objs, S) == {h \in S : objs[h].status = "New"}

\* A walk from the roots that has visited some objects, has these left on its
\* stack, and has met this many new ones.
Walked(objs, visited, stack, count) ==
    /\ \A v \in visited : objs[v].parent \in visited \cup {NoNode}
    /\ \A i \in DOMAIN stack :
          /\ stack[i] \in DOMAIN objs \ visited
          /\ objs[stack[i]].parent \in visited \cup {NoNode}
    /\ \A i, j \in DOMAIN stack : i # j => stack[i] # stack[j]
    /\ count = Cardinality(NewAmong(objs, visited))

CollectOK ==
    call.at = "collect" =>
        /\ nextId + Cardinality(NewAmong(objects, DOMAIN objects)) <= MaxId + 1
        /\ \E visited \in SUBSET DOMAIN objects :
              Walked(objects, visited, call.stack, Len(call.created))

\* The database has room for what is left to insert.
InsertOK == call.at = "insert" => nextId + Len(call.created) <= MaxId + 1

CallsInv ==
    /\ Typed
    /\ Owned(objects, rootList)
    /\ Exact(objects, index)
    /\ GivenOnce(index, nextId, nextTemporaryId)
    /\ Fresh(call.assignedIds, index, nextId)
    /\ AdoptOK
    /\ WalkOK
    /\ CollectOK
    /\ InsertOK

-----------------------------------------------------------------------------
(***************************************************************************)
(* Vectors that grow and shrink.                                           *)
(***************************************************************************)
\* A vector with a larger element at its end rises, and a vector that rises
\* holds nothing twice.
LEMMA RisingAppend ==
    ASSUME NEW s \in Seq(Nat), NEW n \in Nat, Rising(s), \A i \in DOMAIN s : s[i] < n
    PROVE  /\ Append(s, n) \in Seq(Nat)
           /\ Rising(Append(s, n))
           /\ DOMAIN Append(s, n) = DOMAIN s \cup {Len(s) + 1}
           /\ \A i \in DOMAIN s : Append(s, n)[i] = s[i]
           /\ Append(s, n)[Len(s) + 1] = n
BY DEF Rising

LEMMA RisingDistinct ==
    ASSUME NEW s \in Seq(Nat), Rising(s), NEW i \in DOMAIN s, NEW j \in DOMAIN s, i # j
    PROVE  s[i] # s[j]
<1>1. /\ i < j => s[i] < s[j]
      /\ j < i => s[j] < s[i]
  BY DEF Rising
<1>2. s[i] \in Nat /\ s[j] \in Nat /\ (i < j \/ j < i)
  OBVIOUS
<1> QED BY <1>1, <1>2

\* erase leaves the other elements in order.
LEMMA RemoveAtElements ==
    ASSUME NEW s \in Seq(Nat), NEW p \in 1..Len(s)
    PROVE  /\ Seqs!RemoveAt(s, p) \in Seq(Nat)
           /\ Len(Seqs!RemoveAt(s, p)) = Len(s) - 1
           /\ \A i \in 1..(Len(s) - 1) :
                 Seqs!RemoveAt(s, p)[i] = IF i < p THEN s[i] ELSE s[i + 1]
<1> DEFINE front == SubSeq(s, 1, p - 1)
           back  == SubSeq(s, p + 1, Len(s))
<1>1. /\ front \in Seq(Nat) /\ Len(front) = p - 1
      /\ \A i \in 1..(p - 1) : front[i] = s[i]
  OBVIOUS
<1>2. /\ back \in Seq(Nat) /\ Len(back) = Len(s) - p
      /\ \A i \in 1..(Len(s) - p) : back[i] = s[p + i]
  <2>1. /\ Len(s) \in Nat /\ p \in Nat /\ p <= Len(s)
        /\ \A i \in 1..Len(s) : s[i] \in Nat
    OBVIOUS
  <2>2. back \in Seq(Nat)
    BY <2>1
  <2>3. Len(back) = Len(s) - p
    BY <2>1
  <2>4. ASSUME NEW i \in 1..(Len(s) - p)
        PROVE  back[i] = s[p + i]
    BY <2>1
  <2> QED BY <2>2, <2>3, <2>4
<1>3. Seqs!RemoveAt(s, p) = front \o back
  BY DEF Seqs!RemoveAt
<1> HIDE DEF front, back
<1>4. /\ front \o back \in Seq(Nat)
      /\ Len(front \o back) = Len(front) + Len(back)
      /\ \A i \in 1..(Len(front) + Len(back)) :
            (front \o back)[i] = IF i <= Len(front) THEN front[i] ELSE back[i - Len(front)]
  BY <1>1, <1>2, ConcatProperties
<1>5. Len(front) + Len(back) = Len(s) - 1
  BY <1>1, <1>2
<1>6. ASSUME NEW i \in 1..(Len(s) - 1)
      PROVE  (front \o back)[i] = IF i < p THEN s[i] ELSE s[i + 1]
  <2>1. CASE i < p
    <3>1. i <= Len(front) /\ i \in 1..(p - 1)
      BY <1>1, <2>1
    <3>2. (front \o back)[i] = front[i]
      BY <1>4, <1>5, <3>1
    <3> QED BY <1>1, <2>1, <3>1, <3>2
  <2>2. CASE ~(i < p)
    <3>1. /\ ~(i <= Len(front)) /\ i - Len(front) \in 1..(Len(s) - p)
          /\ p + (i - Len(front)) = i + 1
      BY <1>1, <2>2
    <3>2. (front \o back)[i] = back[i - Len(front)]
      BY <1>4, <1>5, <3>1
    <3>3. back[i - Len(front)] = s[p + (i - Len(front))]
      BY <1>2, <3>1
    <3> QED BY <2>2, <3>1, <3>2, <3>3
  <2> QED BY <2>1, <2>2
<1> QED BY <1>3, <1>4, <1>5, <1>6

LEMMA RisingRemoveAt ==
    ASSUME NEW s \in Seq(Nat), NEW p \in 1..Len(s), Rising(s)
    PROVE  /\ Seqs!RemoveAt(s, p) \in Seq(Nat)
           /\ Rising(Seqs!RemoveAt(s, p))
           /\ \A i \in DOMAIN Seqs!RemoveAt(s, p) :
                 \E j \in DOMAIN s : j # p /\ Seqs!RemoveAt(s, p)[i] = s[j]
           /\ \A j \in DOMAIN s :
                 j # p => \E i \in DOMAIN Seqs!RemoveAt(s, p) : Seqs!RemoveAt(s, p)[i] = s[j]
<1> DEFINE t == Seqs!RemoveAt(s, p)
<1>1. /\ t \in Seq(Nat) /\ Len(t) = Len(s) - 1
      /\ \A i \in 1..(Len(s) - 1) : t[i] = IF i < p THEN s[i] ELSE s[i + 1]
  BY RemoveAtElements
<1> HIDE DEF t
<1>2. DOMAIN t = 1..(Len(s) - 1) /\ DOMAIN s = 1..Len(s)
  BY <1>1
<1>3. ASSUME NEW i \in DOMAIN t, NEW j \in DOMAIN t, i < j
      PROVE  t[i] < t[j]
  <2> DEFINE was(k) == IF k < p THEN k ELSE k + 1
  <2>3. i \in 1..(Len(s) - 1) /\ j \in 1..(Len(s) - 1) /\ Len(s) \in Nat /\ p \in Nat
    BY <1>2, <1>3
  <2>4. was(i) \in DOMAIN s /\ was(i) # p
    BY <1>2, <2>3
  <2>5. was(j) \in DOMAIN s /\ was(j) # p
    BY <1>2, <2>3
  <2>6. was(i) < was(j)
    BY <1>3, <2>3
  <2>1. /\ was(i) \in DOMAIN s /\ was(j) \in DOMAIN s /\ was(i) < was(j)
        /\ was(i) # p /\ was(j) # p
    BY <2>4, <2>5, <2>6
  <2>2. t[i] = s[was(i)] /\ t[j] = s[was(j)]
    BY <1>1, <1>2
  <2> HIDE DEF was
  <2> QED BY <2>1, <2>2 DEF Rising
<1>4. ASSUME NEW i \in DOMAIN t
      PROVE  \E j \in DOMAIN s : j # p /\ t[i] = s[j]
  <2>1. CASE i < p
    <3>1. i \in DOMAIN s /\ i # p /\ t[i] = s[i]
      BY <1>1, <1>2, <2>1
    <3> QED BY <3>1
  <2>2. CASE ~(i < p)
    <3>1. i + 1 \in DOMAIN s /\ i + 1 # p
      BY <1>2, <2>2
    <3>2. t[i] = s[i + 1]
      BY <1>1, <1>2, <2>2
    <3> QED BY <3>1, <3>2
  <2> QED BY <2>1, <2>2
<1>5. ASSUME NEW j \in DOMAIN s, j # p
      PROVE  \E i \in DOMAIN t : t[i] = s[j]
  <2>1. CASE j < p
    <3>1. j \in DOMAIN t
      BY <1>2, <2>1
    <3> QED BY <1>1, <1>2, <2>1, <3>1
  <2>2. CASE ~(j < p)
    <3>1. j - 1 \in 1..(Len(s) - 1) /\ ~(j - 1 < p) /\ (j - 1) + 1 = j
      BY <1>2, <1>5, <2>2
    <3>2. t[j - 1] = s[(j - 1) + 1]
      BY <1>1, <3>1
    <3> QED BY <1>2, <3>1, <3>2
  <2> QED BY <2>1, <2>2
<1> QED BY <1>1, <1>3, <1>4, <1>5 DEF t, Rising

\* What h owns after a step: what it did, one object more, or one less.
OwnsSame(objs, objs2, h) ==
    /\ DOMAIN objs \subseteq DOMAIN objs2
    /\ \A c \in DOMAIN objs2 :
          objs2[c].parent = h <=> c \in DOMAIN objs /\ objs[c].parent = h

OwnsOneMore(objs, objs2, h, child) ==
    /\ DOMAIN objs \cup {child} \subseteq DOMAIN objs2
    /\ \A c \in DOMAIN objs2 :
          objs2[c].parent = h <=> c = child \/ (c \in DOMAIN objs /\ objs[c].parent = h)

OwnsOneLess(objs, objs2, h, child) ==
    /\ DOMAIN objs \subseteq DOMAIN objs2
    /\ \A c \in DOMAIN objs2 :
          objs2[c].parent = h <=> c # child /\ c \in DOMAIN objs /\ objs[c].parent = h

\* A vector that stays as it is.
LEMMA KeepsSame ==
    ASSUME NEW objs, NEW objs2, NEW vector, NEW h, Keeps(objs, vector, h),
           OwnsSame(objs, objs2, h)
    PROVE  Keeps(objs2, vector, h)
BY DEF Keeps, OwnsSame

\* A vector that gets one object more.
LEMMA KeepsOneMore ==
    ASSUME NEW objs, NEW objs2, NEW vector \in Seq(Nat), NEW h, Keeps(objs, vector, h),
           NEW child \in Nat, \A i \in DOMAIN vector : vector[i] < child,
           OwnsOneMore(objs, objs2, h, child)
    PROVE  Keeps(objs2, Append(vector, child), h)
<1> DEFINE new == Append(vector, child)
<1>1. /\ Rising(new) /\ DOMAIN new = DOMAIN vector \cup {Len(vector) + 1}
      /\ \A i \in DOMAIN vector : new[i] = vector[i]
      /\ new[Len(vector) + 1] = child
  BY RisingAppend DEF Keeps
<1> HIDE DEF new
<1>2. \A i \in DOMAIN new : new[i] \in DOMAIN objs2 /\ objs2[new[i]].parent = h
  <2>1. ASSUME NEW i \in DOMAIN vector
        PROVE  new[i] \in DOMAIN objs2 /\ objs2[new[i]].parent = h
    <3>1. vector[i] \in DOMAIN objs /\ objs[vector[i]].parent = h
      BY DEF Keeps
    <3> QED BY <1>1, <3>1 DEF OwnsOneMore
  <2>2. child \in DOMAIN objs2 /\ objs2[child].parent = h
    BY DEF OwnsOneMore
  <2> QED BY <1>1, <2>1, <2>2
<1>3. ASSUME NEW c \in DOMAIN objs2, objs2[c].parent = h
      PROVE  \E i \in DOMAIN new : new[i] = c
  <2>1. CASE c = child
    BY <1>1, <2>1
  <2>2. CASE c \in DOMAIN objs /\ objs[c].parent = h
    <3>1. PICK i \in DOMAIN vector : vector[i] = c
      BY <2>2 DEF Keeps
    <3> QED BY <1>1, <3>1
  <2> QED BY <1>3, <2>1, <2>2 DEF OwnsOneMore
<1> QED BY <1>1, <1>2, <1>3 DEF Keeps, new

\* A vector that loses the object at one place.
LEMMA KeepsOneLess ==
    ASSUME NEW objs, NEW objs2, NEW vector \in Seq(Nat), NEW h, Keeps(objs, vector, h),
           NEW place \in 1..Len(vector), OwnsOneLess(objs, objs2, h, vector[place])
    PROVE  Keeps(objs2, Seqs!RemoveAt(vector, place), h)
<1> DEFINE new == Seqs!RemoveAt(vector, place)
<1>1. /\ Rising(new)
      /\ \A i \in DOMAIN new : \E j \in DOMAIN vector : j # place /\ new[i] = vector[j]
      /\ \A j \in DOMAIN vector : j # place => \E i \in DOMAIN new : new[i] = vector[j]
  BY RisingRemoveAt DEF Keeps
<1> HIDE DEF new
<1>2. ASSUME NEW j \in DOMAIN vector, j # place
      PROVE  vector[j] # vector[place]
  <2>1. j < place \/ place < j
    BY <1>2
  <2>2. vector[j] < vector[place] \/ vector[place] < vector[j]
    BY <2>1 DEF Keeps, Rising
  <2>3. vector[j] \in Nat /\ vector[place] \in Nat
    OBVIOUS
  <2> QED BY <2>2, <2>3
<1>3. ASSUME NEW i \in DOMAIN new
      PROVE  new[i] \in DOMAIN objs2 /\ objs2[new[i]].parent = h
  <2>1. PICK j \in DOMAIN vector : j # place /\ new[i] = vector[j]
    BY <1>1
  <2>2. vector[j] \in DOMAIN objs /\ objs[vector[j]].parent = h
    BY DEF Keeps
  <2> QED BY <1>2, <2>1, <2>2 DEF OwnsOneLess
<1>4. ASSUME NEW c \in DOMAIN objs2, objs2[c].parent = h
      PROVE  \E i \in DOMAIN new : new[i] = c
  <2>1. PICK j \in DOMAIN vector : vector[j] = c
    BY <1>4 DEF Keeps, OwnsOneLess
  <2>2. j # place
    BY <1>4, <2>1 DEF OwnsOneLess
  <2> QED BY <1>1, <2>1, <2>2
<1> QED BY <1>1, <1>3, <1>4 DEF Keeps, new

\* Objects have the fields of objects, handles are numbers.
LEMMA ObjectFields ==
    ASSUME NEW objs \in Seq(Object)
    PROVE  /\ Len(objs) \in Nat /\ DOMAIN objs = 1..Len(objs)
           /\ NoNode \notin DOMAIN objs /\ Len(objs) + 1 \notin DOMAIN objs
           /\ \A h \in DOMAIN objs :
                 /\ objs[h] \in Object
                 /\ objs[h].id \in Nat /\ objs[h].parent \in Nat
                 /\ objs[h].children \in Seq(Nat)
<1>1. Len(objs) \in Nat /\ DOMAIN objs = 1..Len(objs)
  OBVIOUS
<1>2. \A h \in DOMAIN objs : objs[h] \in Object
  BY <1>1, ElementOfSeq
<1> QED BY <1>1, <1>2 DEF NoNode, Object

\* One object gets n as its last child.
Grows(objs, objs2, p, n) ==
    \A h \in DOMAIN objs :
        /\ objs2[h].id = objs[h].id
        /\ objs2[h].parent = objs[h].parent
        /\ objs2[h].children = IF h = p THEN Append(objs[h].children, n) ELSE objs[h].children

\* A new object at the end of the vector of its parent.
LEMMA GrowOwned ==
    ASSUME NEW objs \in Seq(Object), NEW roots \in Seq(Nat),
           NEW objs2 \in Seq(Object), NEW roots2,
           NEW p \in {NoNode} \cup DOMAIN objs, NEW n, n = Len(objs) + 1, Len(objs2) = n,
           Grows(objs, objs2, p, n), objs2[n].parent = p, objs2[n].children = << >>,
           roots2 = IF p = NoNode THEN Append(roots, n) ELSE roots,
           Owned(objs, roots)
    PROVE  Owned(objs2, roots2)
<1>1. /\ DOMAIN objs2 = DOMAIN objs \cup {n} /\ n \notin DOMAIN objs /\ NoNode \notin DOMAIN objs
      /\ DOMAIN objs = 1..Len(objs) /\ n \in Nat /\ n # NoNode
  BY ObjectFields DEF NoNode
<1>2. \A c \in DOMAIN objs : objs2[c].parent = objs[c].parent /\ objs[c].parent # n
  BY <1>1 DEF Owned, Grows
<1>3. \A c \in DOMAIN objs2 : objs2[c].parent \in {NoNode} \cup DOMAIN objs2
  BY <1>1, <1>2 DEF Owned
<1>4. ASSUME NEW h \in {NoNode} \cup DOMAIN objs2
      PROVE  Keeps(objs2, VectorOf(objs2, roots2, h), h)
  <2>1. CASE h = n
    <3>1. VectorOf(objs2, roots2, h) = << >>
      BY <1>1, <2>1 DEF VectorOf
    <3>2. DOMAIN << >> = {}
      OBVIOUS
    <3>3. \A c \in DOMAIN objs2 : objs2[c].parent # h
      BY <1>1, <1>2, <2>1
    <3> QED BY <3>1, <3>2, <3>3 DEF Keeps, Rising
  <2>2. CASE h # n
    <3> DEFINE old == VectorOf(objs, roots, h)
    <3>1. h \in {NoNode} \cup DOMAIN objs /\ Keeps(objs, old, h)
      BY <1>1, <2>2 DEF Owned
    <3>2. old \in Seq(Nat)
      BY <3>1, ObjectFields DEF VectorOf
    <3>3. VectorOf(objs2, roots2, h) = IF h = p THEN Append(old, n) ELSE old
      BY <1>1, <3>1 DEF VectorOf, Grows
    <3> HIDE DEF old
    <3>4. \A i \in DOMAIN old : old[i] < n
      BY <1>1, <3>1 DEF Keeps
    <3>5. CASE h # p
      <4>1. OwnsSame(objs, objs2, h)
        BY <1>1, <1>2, <3>5 DEF OwnsSame
      <4> QED BY <3>1, <3>3, <3>5, <4>1, KeepsSame
    <3>6. CASE h = p
      <4>1. OwnsOneMore(objs, objs2, h, n)
        BY <1>1, <1>2, <3>6 DEF OwnsOneMore
      <4>2. Keeps(objs2, Append(old, n), h)
        BY <1>1, <3>1, <3>2, <3>4, <4>1, KeepsOneMore
      <4> QED BY <3>3, <3>6, <4>2
    <3> QED BY <3>5, <3>6
  <2> QED BY <2>1, <2>2
<1> QED BY <1>3, <1>4 DEF Owned

\* One object becomes the last child of another.
Moves(objs, objs2, n, child) ==
    \A h \in DOMAIN objs :
        /\ objs2[h].id = objs[h].id
        /\ objs2[h].parent = IF h = child THEN n ELSE objs[h].parent
        /\ objs2[h].children = IF h = n THEN Append(objs[h].children, child)
                               ELSE objs[h].children

\* A root that becomes the last child of another object.
LEMMA MoveOwned ==
    ASSUME NEW objs \in Seq(Object), NEW roots \in Seq(Nat), NEW objs2 \in Seq(Object),
           NEW place \in DOMAIN roots, NEW n \in DOMAIN objs, NEW child,
           child = roots[place], Len(objs2) = Len(objs),
           \A i \in DOMAIN objs[n].children : objs[n].children[i] < child,
           Moves(objs, objs2, n, child), Owned(objs, roots)
    PROVE  Owned(objs2, Seqs!RemoveAt(roots, place))
<1> DEFINE roots2 == Seqs!RemoveAt(roots, place)
<1>1. /\ DOMAIN objs2 = DOMAIN objs /\ NoNode \notin DOMAIN objs /\ n # NoNode
      /\ place \in 1..Len(roots)
  BY ObjectFields
<1>2. /\ Keeps(objs, roots, NoNode) /\ child \in DOMAIN objs /\ objs[child].parent = NoNode
      /\ child \in Nat
  <2>1. Keeps(objs, roots, NoNode)
    BY DEF Owned, VectorOf
  <2>2. child \in DOMAIN objs /\ objs[child].parent = NoNode
    BY <2>1 DEF Keeps
  <2>3. child \in Nat
    OBVIOUS
  <2> QED BY <2>1, <2>2, <2>3
<1>3. \A c \in DOMAIN objs2 : objs2[c].parent \in {NoNode} \cup DOMAIN objs2
  BY <1>1 DEF Owned, Moves
<1>5. /\ objs2[child].parent = n
      /\ \A c \in DOMAIN objs : c # child => objs2[c].parent = objs[c].parent
  BY <1>2 DEF Moves
<1>4. ASSUME NEW h \in {NoNode} \cup DOMAIN objs2
      PROVE  Keeps(objs2, VectorOf(objs2, roots2, h), h)
  <2>1. CASE h = NoNode
    <3>1. OwnsOneLess(objs, objs2, NoNode, child)
      BY <1>1, <1>2, <1>5 DEF OwnsOneLess
    <3>2. Keeps(objs2, roots2, NoNode)
      BY <1>1, <1>2, <3>1, KeepsOneLess
    <3> QED BY <2>1, <3>2 DEF VectorOf
  <2>2. CASE h = n
    <3>1. objs[n].children \in Seq(Nat) /\ Keeps(objs, objs[n].children, n)
      BY <1>1, ObjectFields DEF Owned, VectorOf
    <3>2. OwnsOneMore(objs, objs2, n, child)
      BY <1>1, <1>2, <1>5 DEF OwnsOneMore
    <3>3. Keeps(objs2, Append(objs[n].children, child), n)
      BY <1>2, <3>1, <3>2, KeepsOneMore
    <3> QED BY <1>1, <2>2, <3>3 DEF VectorOf, Moves
  <2>3. CASE h # NoNode /\ h # n
    <3>1. Keeps(objs, objs[h].children, h) /\ VectorOf(objs2, roots2, h) = objs[h].children
      BY <1>1, <2>3 DEF Owned, VectorOf, Moves
    <3>2. OwnsSame(objs, objs2, h)
      BY <1>1, <1>2, <1>5, <2>3 DEF OwnsSame
    <3> QED BY <3>1, <3>2, KeepsSame
  <2> QED BY <2>1, <2>2, <2>3
<1> QED BY <1>3, <1>4 DEF Owned

-----------------------------------------------------------------------------
(***************************************************************************)
(* The index.                                                              *)
(***************************************************************************)
\* emplace of a key that is not there.
LEMMA EmplaceNew ==
    ASSUME NEW table, NEW key, NEW value, key \notin DOMAIN table
    PROVE  /\ DOMAIN Emplace(table, key, value) = DOMAIN table \cup {key}
           /\ \A k \in DOMAIN table : Emplace(table, key, value)[k] = table[k]
           /\ Emplace(table, key, value)[key] = value
BY DEF Emplace

\* A table of numbers stays one.
LEMMA EmplaceType ==
    ASSUME NEW table \in Table, NEW key \in Nat, NEW value \in Nat
    PROVE  Emplace(table, key, value) \in Table
<1>1. PICK S \in SUBSET Nat : table \in [S -> Nat]
  BY DEF Table
<1>2. S \cup {key} \in SUBSET Nat /\ DOMAIN table = S
  BY <1>1
<1>3. Emplace(table, key, value) \in [S \cup {key} -> Nat]
  BY <1>1, <1>2 DEF Emplace
<1> QED BY <1>2, <1>3 DEF Table

\* The entry of a new object.
LEMMA GrowExact ==
    ASSUME NEW objs \in Seq(Object), NEW objs2 \in Seq(Object), NEW idx, NEW id,
           NEW n, n = Len(objs) + 1, Len(objs2) = n,
           \A h \in DOMAIN objs : objs2[h].id = objs[h].id,
           objs2[n].id = id, id \notin DOMAIN idx, Exact(objs, idx)
    PROVE  Exact(objs2, Emplace(idx, id, n))
<1> DEFINE idx2 == Emplace(idx, id, n)
<1>1. DOMAIN objs2 = DOMAIN objs \cup {n} /\ n \notin DOMAIN objs
  BY ObjectFields
<1>2. /\ DOMAIN idx2 = DOMAIN idx \cup {id} /\ idx2[id] = n
      /\ \A k \in DOMAIN idx : idx2[k] = idx[k]
  BY DEF Emplace
<1> HIDE DEF idx2
<1>3. \A k \in DOMAIN idx2 : idx2[k] \in DOMAIN objs2 /\ objs2[idx2[k]].id = k
  BY <1>1, <1>2 DEF Exact
<1>4. \A h \in DOMAIN objs2 : objs2[h].id \in DOMAIN idx2 /\ idx2[objs2[h].id] = h
  BY <1>1, <1>2 DEF Exact
<1> QED BY <1>3, <1>4 DEF Exact, idx2

\* reassignId moves one entry to the new id of its object.
LEMMA RenameExact ==
    ASSUME NEW objs, NEW objs2, NEW idx, NEW old \in DOMAIN idx, NEW new, new \notin DOMAIN idx,
           DOMAIN objs2 = DOMAIN objs,
           \A h \in DOMAIN objs : objs2[h].id = IF h = idx[old] THEN new ELSE objs[h].id,
           Exact(objs, idx)
    PROVE  Exact(objs2, Emplace([k \in DOMAIN idx \ {old} |-> idx[k]], new, idx[old]))
<1> DEFINE rest == [k \in DOMAIN idx \ {old} |-> idx[k]]
           idx2 == Emplace(rest, new, idx[old])
<1>1. DOMAIN rest = DOMAIN idx \ {old} /\ \A k \in DOMAIN rest : rest[k] = idx[k]
  OBVIOUS
<1> HIDE DEF rest
<1>2. new \notin DOMAIN rest
  BY <1>1
<1>3. /\ DOMAIN idx2 = (DOMAIN idx \ {old}) \cup {new} /\ idx2[new] = idx[old]
      /\ \A k \in DOMAIN idx \ {old} : idx2[k] = idx[k]
  BY <1>1, <1>2 DEF Emplace
<1> HIDE DEF idx2
<1>4. ASSUME NEW k \in DOMAIN idx2
      PROVE  idx2[k] \in DOMAIN objs2 /\ objs2[idx2[k]].id = k
  BY <1>3 DEF Exact
<1>5. ASSUME NEW h \in DOMAIN objs2
      PROVE  objs2[h].id \in DOMAIN idx2 /\ idx2[objs2[h].id] = h
  <2>1. CASE h = idx[old]
    BY <1>3, <2>1
  <2>2. CASE h # idx[old]
    <3>1. objs2[h].id = objs[h].id /\ objs[h].id \in DOMAIN idx /\ idx[objs[h].id] = h
      BY <2>2 DEF Exact
    <3> QED BY <1>3, <2>2, <3>1
  <2> QED BY <2>1, <2>2
<1> QED BY <1>4, <1>5 DEF Exact, idx2, rest

\* A step that changes no owner and no vector.
LEMMA SameOwners ==
    ASSUME NEW objs, NEW objs2, NEW roots, DOMAIN objs2 = DOMAIN objs,
           \A h \in DOMAIN objs : /\ objs2[h].parent = objs[h].parent
                                 /\ objs2[h].children = objs[h].children,
           Owned(objs, roots)
    PROVE  Owned(objs2, roots)
<1>1. ASSUME NEW h \in {NoNode} \cup DOMAIN objs
      PROVE  Keeps(objs2, VectorOf(objs2, roots, h), h)
  <2>1. Keeps(objs, VectorOf(objs, roots, h), h)
    BY DEF Owned
  <2>2. VectorOf(objs2, roots, h) = VectorOf(objs, roots, h)
    BY DEF VectorOf
  <2>3. OwnsSame(objs, objs2, h)
    BY DEF OwnsSame
  <2> QED BY <2>1, <2>2, <2>3, KeepsSame
<1>2. \A c \in DOMAIN objs2 : objs2[c].parent \in {NoNode} \cup DOMAIN objs2
  BY DEF Owned
<1> QED BY <1>1, <1>2 DEF Owned

-----------------------------------------------------------------------------
(***************************************************************************)
(* The running call.                                                       *)
(***************************************************************************)
\* Nothing runs.
LEMMA NoCallType ==
    /\ NoCall \in Frame
    /\ NoCall.at = "idle" /\ NoCall.assignedIds = << >> /\ NoCall.stack = << >>
    /\ NoCall.created = << >>
<1>1. << >> \in Table
  <2>1. << >> \in [{} -> Nat] /\ {} \in SUBSET Nat
    OBVIOUS
  <2> QED BY <2>1 DEF Table
<1>2. << >> \in Seq(Nat) /\ << >> \in Seq(Change)
      /\ << >> \in Seq([temporaryId : Nat, persistentId : Nat])
  BY EmptySeq
<1> QED BY <1>1, <1>2 DEF NoCall, Frame, NoNode

\* Only the stack changes.
LEMMA StackChanges ==
    ASSUME NEW c \in Frame, NEW s \in Seq(Nat), NEW d, d = [c EXCEPT !.stack = s]
    PROVE  /\ d \in Frame /\ d.stack = s
           /\ d.at = c.at /\ d.node = c.node /\ d.created = c.created
           /\ d.assignedIds = c.assignedIds
BY DEF Frame

\* Every place of a concatenation is a place of one of the two.
LEMMA ConcatElements ==
    ASSUME NEW S, NEW f \in Seq(S), NEW r \in Seq(S), NEW both, both = f \o r
    PROVE  /\ both \in Seq(S)
           /\ \A i \in DOMAIN both :
                 \/ i \in DOMAIN f /\ both[i] = f[i]
                 \/ i - Len(f) \in DOMAIN r /\ i \notin DOMAIN f /\ both[i] = r[i - Len(f)]
           /\ \A i \in DOMAIN both : i \in Int /\ i - Len(f) \in Int
<1>1. /\ both \in Seq(S) /\ Len(both) = Len(f) + Len(r)
      /\ \A i \in 1..(Len(f) + Len(r)) :
            both[i] = IF i <= Len(f) THEN f[i] ELSE r[i - Len(f)]
  BY ConcatProperties
<1>2. /\ DOMAIN f = 1..Len(f) /\ DOMAIN r = 1..Len(r) /\ DOMAIN both = 1..(Len(f) + Len(r))
      /\ Len(f) \in Nat /\ Len(r) \in Nat
  BY <1>1, LenProperties
<1>3. ASSUME NEW i \in DOMAIN both
      PROVE  \/ i \in DOMAIN f /\ both[i] = f[i]
             \/ i - Len(f) \in DOMAIN r /\ i \notin DOMAIN f /\ both[i] = r[i - Len(f)]
  <2>1. CASE i <= Len(f)
    BY <1>1, <1>2, <2>1
  <2>2. CASE ~(i <= Len(f))
    <3>1. i - Len(f) \in 1..Len(r) /\ i \notin 1..Len(f)
      BY <1>2, <2>2
    <3> QED BY <1>1, <1>2, <2>2, <3>1
  <2> QED BY <2>1, <2>2
<1> QED BY <1>1, <1>2, <1>3

\* A walk goes down from a live object to live objects.
LEMMA DescendType ==
    ASSUME NEW objs \in Seq(Object), NEW roots, Owned(objs, roots),
           NEW stack \in Seq(Nat), stack # << >>, NEW below,
           \A i \in DOMAIN stack : stack[i] \in DOMAIN objs,
           below = objs[Head(stack)].children \o Tail(stack)
    PROVE  /\ below \in Seq(Nat)
           /\ \A i \in DOMAIN below : below[i] \in DOMAIN objs
<1>1. /\ Head(stack) \in DOMAIN objs /\ Tail(stack) \in Seq(Nat)
      /\ \A i \in DOMAIN Tail(stack) : Tail(stack)[i] \in DOMAIN objs
  OBVIOUS
<1>2. PICK first : first = objs[Head(stack)].children
  OBVIOUS
<1>3. PICK rest : rest = Tail(stack)
  OBVIOUS
<1>4. first \in Seq(Nat) /\ Keeps(objs, first, Head(stack))
  BY <1>1, <1>2, ObjectFields DEF Owned, VectorOf
<1>5. rest \in Seq(Nat) /\ below = first \o rest
  BY <1>1, <1>2, <1>3
<1>6. /\ below \in Seq(Nat)
      /\ \A i \in DOMAIN below :
            \/ i \in DOMAIN first /\ below[i] = first[i]
            \/ /\ i - Len(first) \in DOMAIN rest /\ i \notin DOMAIN first
               /\ below[i] = rest[i - Len(first)]
      /\ \A i \in DOMAIN below : i \in Int /\ i - Len(first) \in Int
  BY <1>4, <1>5, ConcatElements
<1>7. \A k \in DOMAIN first : first[k] \in DOMAIN objs
  BY <1>4 DEF Keeps
<1>8. \A k \in DOMAIN rest : rest[k] \in DOMAIN objs
  BY <1>1, <1>3
<1> QED BY <1>6, <1>7, <1>8

\* One object more is visited, for the first time.
LEMMA WalkedStep ==
    ASSUME NEW objs \in Seq(Object), NEW roots, Owned(objs, roots),
           NEW visited \in SUBSET DOMAIN objs, NEW stack \in Seq(Nat), stack # << >>,
           NEW count \in Nat, Walked(objs, visited, stack, count), NEW below,
           below = objs[Head(stack)].children \o Tail(stack)
    PROVE  /\ visited \cup {Head(stack)} \in SUBSET DOMAIN objs
           /\ Walked(objs, visited \cup {Head(stack)}, below,
                     IF objs[Head(stack)].status = "New" THEN count + 1 ELSE count)
<1>1. PICK x : x = Head(stack)
  OBVIOUS
<1>2. PICK first : first = objs[x].children
  OBVIOUS
<1>3. PICK rest : rest = Tail(stack)
  OBVIOUS
<1>4. /\ rest \in Seq(Nat) /\ 1 \in DOMAIN stack /\ x = stack[1]
      /\ \A k \in DOMAIN rest : k + 1 \in DOMAIN stack /\ k + 1 # 1 /\ rest[k] = stack[k + 1]
  BY <1>1, <1>3
<1>5. x \in DOMAIN objs \ visited /\ objs[x].parent \in visited \cup {NoNode} /\ x # NoNode
  BY <1>4, ObjectFields DEF Walked
<1>6. first \in Seq(Nat) /\ Keeps(objs, first, x)
  BY <1>2, <1>5, ObjectFields DEF Owned, VectorOf
<1>15. below = first \o rest
  BY <1>1, <1>2, <1>3
<1>7. /\ below \in Seq(Nat)
      /\ \A i \in DOMAIN below :
            \/ i \in DOMAIN first /\ below[i] = first[i]
            \/ /\ i - Len(first) \in DOMAIN rest /\ i \notin DOMAIN first
               /\ below[i] = rest[i - Len(first)]
      /\ \A i \in DOMAIN below : i \in Int /\ i - Len(first) \in Int
  <2>1. rest \in Seq(Nat) /\ first \in Seq(Nat)
    BY <1>4, <1>6
  <2> QED BY <1>15, <2>1, ConcatElements
<1> DEFINE seen == visited \cup {x}
<1>8. ASSUME NEW k \in DOMAIN first
      PROVE  first[k] \in DOMAIN objs \ seen /\ objs[first[k]].parent = x
  <2>1. first[k] \in DOMAIN objs /\ objs[first[k]].parent = x
    BY <1>6 DEF Keeps
  <2>2. first[k] \notin visited
    BY <1>5, <2>1 DEF Walked
  <2>3. first[k] # x
    BY <1>5, <2>1
  <2> QED BY <2>1, <2>2, <2>3
<1>9. ASSUME NEW k \in DOMAIN rest
      PROVE  rest[k] \in DOMAIN objs \ seen /\ objs[rest[k]].parent \in visited \cup {NoNode}
  <2>1. rest[k] = stack[k + 1] /\ k + 1 \in DOMAIN stack /\ k + 1 # 1
    BY <1>4
  <2> QED BY <1>4, <2>1 DEF Walked
<1>10. ASSUME NEW i \in DOMAIN below
       PROVE  below[i] \in DOMAIN objs \ seen /\ objs[below[i]].parent \in seen \cup {NoNode}
  BY <1>7, <1>8, <1>9
<1>11. ASSUME NEW i \in DOMAIN below, NEW j \in DOMAIN below, i # j
       PROVE  below[i] # below[j]
  <2>1. CASE i \in DOMAIN first /\ j \in DOMAIN first
    <3>1. below[i] = first[i] /\ below[j] = first[j]
      BY <1>7, <2>1
    <3>2. first[i] # first[j]
      BY <1>6, <1>11, <2>1, RisingDistinct DEF Keeps
    <3> QED BY <3>1, <3>2
  <2>2. CASE i \notin DOMAIN first /\ j \notin DOMAIN first
    <3>4. PICK k \in Int : k = i - Len(first)
      BY <1>7
    <3>5. PICK l \in Int : l = j - Len(first)
      BY <1>7
    <3>1. k \in DOMAIN rest /\ l \in DOMAIN rest /\ below[i] = rest[k] /\ below[j] = rest[l]
      BY <1>7, <2>2, <3>4, <3>5
    <3>6. Len(first) \in Int
      BY <1>6
    <3>2. k # l
      BY <1>7, <1>11, <3>4, <3>5, <3>6
    <3>3. k + 1 # l + 1 /\ k + 1 \in DOMAIN stack /\ l + 1 \in DOMAIN stack
          /\ rest[k] = stack[k + 1] /\ rest[l] = stack[l + 1]
      BY <1>4, <3>1, <3>2
    <3> QED BY <3>1, <3>3 DEF Walked
  <2>3. CASE i \in DOMAIN first /\ j \notin DOMAIN first
    <3>1. objs[below[i]].parent = x /\ objs[below[j]].parent \in visited \cup {NoNode}
      BY <1>7, <1>8, <1>9, <2>3
    <3> QED BY <1>5, <3>1
  <2>4. CASE i \notin DOMAIN first /\ j \in DOMAIN first
    <3>1. objs[below[j]].parent = x /\ objs[below[i]].parent \in visited \cup {NoNode}
      BY <1>7, <1>8, <1>9, <2>4
    <3> QED BY <1>5, <3>1
  <2> QED BY <2>1, <2>2, <2>3, <2>4
<1>12. Cardinality(NewAmong(objs, seen)) =
           IF objs[x].status = "New" THEN count + 1 ELSE count
  <2>1. IsFiniteSet(DOMAIN objs)
    BY ObjectFields, FS_Interval
  <2>2. IsFiniteSet(NewAmong(objs, visited)) /\ x \notin NewAmong(objs, visited)
    BY <1>5, <2>1, FS_Subset DEF NewAmong
  <2>3. NewAmong(objs, seen) =
            IF objs[x].status = "New" THEN NewAmong(objs, visited) \cup {x}
            ELSE NewAmong(objs, visited)
    BY DEF NewAmong
  <2>4. Cardinality(NewAmong(objs, visited) \cup {x}) = Cardinality(NewAmong(objs, visited)) + 1
    BY <2>2, FS_AddElement
  <2> QED BY <2>3, <2>4 DEF Walked
<1>13. \A v \in seen : objs[v].parent \in seen \cup {NoNode}
  BY <1>5 DEF Walked
<1>14. Walked(objs, seen, below, IF objs[x].status = "New" THEN count + 1 ELSE count)
  BY <1>10, <1>11, <1>12, <1>13 DEF Walked
<1> QED BY <1>1, <1>5, <1>14

-----------------------------------------------------------------------------
(***************************************************************************)
(* The steps that move the call only.                                      *)
(***************************************************************************)
\* A call that begins with a walk.
LEMMA BeginsWalk ==
    ASSUME NEW s \in Seq(Nat), NEW d, NEW a \in {"remove", "collect"},
           d = [NoCall EXCEPT !.at = a, !.stack = s]
    PROVE  /\ d \in Frame /\ d.at = a /\ d.stack = s
           /\ d.created = << >> /\ d.assignedIds = << >>
<1>1. NoCall \in Frame /\ NoCall.created = << >> /\ NoCall.assignedIds = << >>
  BY NoCallType
<1> HIDE DEF NoCall
<1> QED BY <1>1 DEF Frame

\* The call goes to another loop.
LEMMA PlaceChanges ==
    ASSUME NEW c \in Frame, NEW d, NEW a \in {"insert", "modify", "delete", "reassign"},
           d = [c EXCEPT !.at = a]
    PROVE  /\ d \in Frame /\ d.at = a
           /\ d.stack = c.stack /\ d.created = c.created /\ d.assignedIds = c.assignedIds
BY DEF Frame

LEMMA SyncBegins ==
    ASSUME NEW c \in Frame, NEW d, NEW s \in Seq(Nat),
           d = [c EXCEPT !.at = "sync", !.stack = s]
    PROVE  /\ d \in Frame /\ d.at = "sync" /\ d.stack = s /\ d.assignedIds = c.assignedIds
BY DEF Frame

\* Nothing is assigned.
LEMMA FreshNone ==
    ASSUME NEW idx, NEW next
    PROVE  Fresh(<< >>, idx, next)
BY DEF Fresh

\* What a step that moves the call only has to show.
LEMMA CallOnly ==
    ASSUME CallsInv, UNCHANGED <<cacheVars, dbVars>>, call' \in Frame,
           call'.assignedIds \in {<< >>, call.assignedIds},
           AdoptOK', WalkOK', CollectOK', InsertOK'
    PROVE  CallsInv'
<1>1. UNCHANGED <<objects, rootList, index, nextTemporaryId, records, nextId>>
  BY DEF cacheVars, dbVars
<1>2. Typed'
  BY <1>1 DEF CallsInv, Typed, DbTypeOK
<1>3. Owned(objects, rootList)' /\ Exact(objects, index)'
      /\ GivenOnce(index, nextId, nextTemporaryId)'
  BY <1>1 DEF CallsInv
<1>4. Fresh(call'.assignedIds, index', nextId')
  <2>1. CASE call'.assignedIds = << >>
    BY <2>1, FreshNone
  <2>2. CASE call'.assignedIds = call.assignedIds
    BY <1>1, <2>2 DEF CallsInv
  <2> QED BY <2>1, <2>2
<1> QED BY <1>2, <1>3, <1>4 DEF CallsInv

LEMMA RemoveStep ==
    ASSUME CallsInv, NEW id \in DOMAIN index, Remove(id)
    PROVE  CallsInv'
<1>1. index[id] \in DOMAIN objects /\ FindNode(id) = index[id] /\ index[id] \in Nat
  BY ObjectFields DEF CallsInv, Exact, FindNode, Typed
<1>2. <<FindNode(id)>> \in Seq(Nat)
  BY <1>1
<1>3. /\ call' \in Frame /\ call'.at = "remove" /\ call'.stack = <<FindNode(id)>>
      /\ call'.assignedIds = << >>
  <2>1. PICK s : s = <<FindNode(id)>>
    OBVIOUS
  <2>2. PICK d : d = call'
    OBVIOUS
  <2>3. s \in Seq(Nat) /\ d = [NoCall EXCEPT !.at = "remove", !.stack = s]
    BY <1>2, <2>1, <2>2 DEF Remove, Begin
  <2>4. d \in Frame /\ d.at = "remove" /\ d.stack = s /\ d.assignedIds = << >>
    BY <2>3, BeginsWalk
  <2> QED BY <2>1, <2>2, <2>4
<1>4. UNCHANGED <<cacheVars, dbVars>>
  BY DEF Remove
<1>5. objects' = objects
  BY <1>4 DEF cacheVars
<1>6. WalkOK'
  BY <1>1, <1>3, <1>5 DEF WalkOK
<1>7. AdoptOK' /\ CollectOK' /\ InsertOK'
  BY <1>3 DEF AdoptOK, CollectOK, InsertOK
<1> QED BY <1>3, <1>4, <1>6, <1>7, CallOnly

LEMMA ApplyStep ==
    ASSUME CallsInv, Apply
    PROVE  CallsInv'
<1>1. /\ objects \in Seq(Object) /\ rootList \in Seq(Nat) /\ Keeps(objects, rootList, NoNode)
  BY DEF CallsInv, Typed, Owned, VectorOf
<1>2. /\ call' \in Frame /\ call'.at = "collect" /\ call'.stack = rootList
      /\ call'.created = << >> /\ call'.assignedIds = << >>
  BY <1>1, BeginsWalk DEF Apply, Begin
<1>3. UNCHANGED <<cacheVars, dbVars>>
  BY DEF Apply
<1>4. UNCHANGED <<objects, rootList, nextId>>
  BY <1>3 DEF cacheVars, dbVars
<1>5. \A i \in DOMAIN rootList :
          rootList[i] \in DOMAIN objects /\ objects[rootList[i]].parent = NoNode
  BY <1>1 DEF Keeps
<1>6. Walked(objects, {}, rootList, 0)
  <2>1. \A i, j \in DOMAIN rootList : i # j => rootList[i] # rootList[j]
    BY <1>1, RisingDistinct DEF Keeps
  <2>2. NewAmong(objects, {}) = {}
    BY DEF NewAmong
  <2> QED BY <1>5, <2>1, <2>2, FS_EmptySet DEF Walked
<1>7. Walked(objects', {}, call'.stack, Len(call'.created)) /\ {} \in SUBSET DOMAIN objects'
  BY <1>2, <1>4, <1>6, EmptySeq
<1>8. nextId + Cardinality(NewAmong(objects, DOMAIN objects)) <= MaxId + 1
  BY DEF Apply, NewAmong
<1>9. CollectOK'
  BY <1>4, <1>7, <1>8 DEF CollectOK
<1>10. WalkOK'
  BY <1>2, <1>4, <1>5 DEF WalkOK
<1>11. AdoptOK' /\ InsertOK'
  BY <1>2 DEF AdoptOK, InsertOK
<1> QED BY <1>2, <1>3, <1>9, <1>10, <1>11, CallOnly

LEMMA FinishStep ==
    ASSUME CallsInv, Finish
    PROVE  CallsInv'
<1>1. call' = NoCall /\ UNCHANGED <<cacheVars, dbVars>>
  BY DEF Finish, Return
<1>2. call' \in Frame /\ call'.at = "idle" /\ call'.assignedIds = << >>
  BY <1>1, NoCallType
<1>3. AdoptOK' /\ WalkOK' /\ CollectOK' /\ InsertOK'
  BY <1>2 DEF AdoptOK, WalkOK, CollectOK, InsertOK
<1> QED BY <1>1, <1>2, <1>3, CallOnly

LEMMA ProceedStep ==
    ASSUME CallsInv, Proceed
    PROVE  CallsInv'
<1>1. UNCHANGED <<cacheVars, dbVars>> /\ call \in Frame
  BY DEF Proceed, CallsInv, Typed
<1>2. UNCHANGED <<objects, rootList, nextId>>
  BY <1>1 DEF cacheVars, dbVars
<1>3. CASE call.at = "collect" /\ call.stack = << >> /\ call' = [call EXCEPT !.at = "insert"]
  <2>1. /\ call' \in Frame /\ call'.at = "insert" /\ call'.created = call.created
        /\ call'.assignedIds = call.assignedIds
    BY <1>1, <1>3, PlaceChanges
  <2>2. PICK visited \in SUBSET DOMAIN objects :
            Walked(objects, visited, call.stack, Len(call.created))
    BY <1>3 DEF CallsInv, CollectOK
  <2>3. IsFiniteSet(DOMAIN objects)
    <3>1. objects \in Seq(Object)
      BY DEF CallsInv, Typed
    <3> QED BY <3>1, ObjectFields, FS_Interval
  <2>4. IsFiniteSet(NewAmong(objects, DOMAIN objects))
    BY <2>3, FS_Subset DEF NewAmong
  <2>5. NewAmong(objects, visited) \subseteq NewAmong(objects, DOMAIN objects)
    BY DEF NewAmong
  <2>6. /\ Len(call.created) <= Cardinality(NewAmong(objects, DOMAIN objects))
        /\ Cardinality(NewAmong(objects, DOMAIN objects)) \in Nat
        /\ Len(call.created) \in Nat
    BY <2>2, <2>4, <2>5, FS_Subset, FS_CardinalityType DEF Walked
  <2>7. nextId + Cardinality(NewAmong(objects, DOMAIN objects)) <= MaxId + 1
    BY <1>3 DEF CallsInv, CollectOK
  <2>8. nextId + Len(call.created) <= MaxId + 1
    BY <2>6, <2>7, DatabaseAssumption DEF DatabaseAssumption, CallsInv, Typed, DbTypeOK
  <2>9. InsertOK'
    BY <1>2, <2>1, <2>8 DEF InsertOK
  <2>10. AdoptOK' /\ WalkOK' /\ CollectOK'
    BY <2>1 DEF AdoptOK, WalkOK, CollectOK
  <2> QED BY <1>1, <2>1, <2>9, <2>10, CallOnly
<1>4. CASE \E a \in {"modify", "delete", "reassign"} : call' = [call EXCEPT !.at = a]
  <2>1. /\ call' \in Frame /\ call'.at \in {"modify", "delete", "reassign"}
        /\ call'.assignedIds = call.assignedIds
    BY <1>1, <1>4, PlaceChanges
  <2>2. AdoptOK' /\ WalkOK' /\ CollectOK' /\ InsertOK'
    BY <2>1 DEF AdoptOK, WalkOK, CollectOK, InsertOK
  <2> QED BY <1>1, <2>1, <2>2, CallOnly
<1>5. CASE call' = [call EXCEPT !.at = "sync", !.stack = rootList]
  <2>1. /\ call' \in Frame /\ call'.at = "sync" /\ call'.stack = rootList
        /\ call'.assignedIds = call.assignedIds
    BY <1>1, <1>5, SyncBegins DEF CallsInv, Typed
  <2>5. Keeps(objects, rootList, NoNode)
    BY DEF CallsInv, Owned, VectorOf
  <2>2. \A i \in DOMAIN rootList : rootList[i] \in DOMAIN objects
    BY <2>5 DEF Keeps
  <2>4. WalkOK'
    BY <1>2, <2>1, <2>2 DEF WalkOK
  <2>3. AdoptOK' /\ CollectOK' /\ InsertOK'
    BY <2>1 DEF AdoptOK, CollectOK, InsertOK
  <2> QED BY <1>1, <2>1, <2>3, <2>4, CallOnly
<1> QED BY <1>3, <1>4, <1>5 DEF Proceed

\* The three lists of a change set grow by what the node is.
WithLists(c, cr, mo, de, s) ==
    [c EXCEPT !.created = cr, !.modified = mo, !.deleted = de, !.stack = s]

LEMMA ListsGrow ==
    ASSUME NEW c \in Frame, NEW d, NEW cr \in Seq(Change), NEW mo \in Seq(Change),
           NEW de \in Seq(Change), NEW s \in Seq(Nat),
           d = WithLists(c, cr, mo, de, s)
    PROVE  /\ d \in Frame /\ d.at = c.at /\ d.stack = s /\ d.created = cr
           /\ d.assignedIds = c.assignedIds
BY DEF Frame, WithLists

LEMMA CollectStep ==
    ASSUME CallsInv, CollectChanges
    PROVE  CallsInv'
<1> DEFINE node == objects[Head(call.stack)]
           change == [id |-> node.id, parentId |-> node.parentId, payload |-> node.payload]
           grown(status, list) == IF node.status = status THEN Append(list, change) ELSE list
<1>1. /\ UNCHANGED <<cacheVars, dbVars>> /\ call.at = "collect" /\ call.stack # << >>
      /\ call \in Frame /\ objects \in Seq(Object) /\ Owned(objects, rootList)
  BY DEF CollectChanges, CallsInv, Typed
<1>2. UNCHANGED <<objects, rootList, nextId>>
  BY <1>1 DEF cacheVars, dbVars
<1>3. /\ call.stack \in Seq(Nat) /\ call.created \in Seq(Change)
      /\ call.modified \in Seq(Change) /\ call.deleted \in Seq(Change)
  BY <1>1 DEF Frame
<1>4. PICK visited \in SUBSET DOMAIN objects :
          Walked(objects, visited, call.stack, Len(call.created))
  BY <1>1 DEF CallsInv, CollectOK
<1>5. \A i \in DOMAIN call.stack : call.stack[i] \in DOMAIN objects
  BY <1>4 DEF Walked
<1>6. Head(call.stack) \in DOMAIN objects
  BY <1>1, <1>3, <1>5
<1>7. Descend \in Seq(Nat) /\ \A i \in DOMAIN Descend : Descend[i] \in DOMAIN objects
  BY <1>1, <1>3, <1>5, DescendType DEF Descend
<1>8. node \in Object
  BY <1>1, <1>6, ObjectFields
<1>9. change \in Change
  BY <1>8 DEF Object, Change
<1> HIDE DEF change
<1>10. \A status, list : list \in Seq(Change) => grown(status, list) \in Seq(Change)
  BY <1>9, AppendProperties
<1>11. call' = WithLists(call, grown("New", call.created), grown("Modified", call.modified),
                         grown("Deleted", call.deleted), Descend)
  BY DEF CollectChanges, change, WithLists
<1>12. Len(grown("New", call.created)) =
           IF node.status = "New" THEN Len(call.created) + 1 ELSE Len(call.created)
  BY <1>3, <1>9, AppendProperties
<1>13. /\ grown("New", call.created) \in Seq(Change)
       /\ grown("Modified", call.modified) \in Seq(Change)
       /\ grown("Deleted", call.deleted) \in Seq(Change)
  BY <1>3, <1>10
<1> HIDE DEF grown
<1>19. PICK cr \in Seq(Change), mo \in Seq(Change), de \in Seq(Change), below \in Seq(Nat) :
           /\ cr = grown("New", call.created) /\ mo = grown("Modified", call.modified)
           /\ de = grown("Deleted", call.deleted) /\ below = Descend
  BY <1>7, <1>13
<1>20. call' = WithLists(call, cr, mo, de, below)
  BY <1>11, <1>19
<1>14. /\ call' \in Frame /\ call'.at = "collect" /\ call'.stack = Descend
       /\ call'.created = grown("New", call.created) /\ call'.assignedIds = call.assignedIds
  <2>1. /\ call' \in Frame /\ call'.at = call.at /\ call'.stack = below /\ call'.created = cr
        /\ call'.assignedIds = call.assignedIds
    BY <1>1, <1>20, ListsGrow
  <2> QED BY <1>1, <1>19, <2>1
<1>15. PICK seen \in SUBSET DOMAIN objects :
           Walked(objects, seen, Descend, Len(grown("New", call.created)))
  <2>1. Len(call.created) \in Nat
    BY <1>3
  <2>2. Descend = objects[Head(call.stack)].children \o Tail(call.stack)
    BY DEF Descend
  <2>3. /\ visited \cup {Head(call.stack)} \in SUBSET DOMAIN objects
        /\ Walked(objects, visited \cup {Head(call.stack)}, Descend,
                  IF objects[Head(call.stack)].status = "New" THEN Len(call.created) + 1
                  ELSE Len(call.created))
    <3>1. PICK stack \in Seq(Nat), count \in Nat :
              stack = call.stack /\ count = Len(call.created)
      BY <1>3, <2>1
    <3>2. PICK under \in Seq(Nat) : under = Descend
      BY <1>7
    <3>3. /\ Walked(objects, visited, stack, count) /\ stack # << >>
          /\ under = objects[Head(stack)].children \o Tail(stack)
      BY <1>1, <1>4, <2>2, <3>1, <3>2
    <3>4. /\ visited \cup {Head(stack)} \in SUBSET DOMAIN objects
          /\ Walked(objects, visited \cup {Head(stack)}, under,
                    IF objects[Head(stack)].status = "New" THEN count + 1 ELSE count)
      BY <1>1, <3>3, WalkedStep
    <3> QED BY <3>1, <3>2, <3>4
  <2> QED BY <1>12, <2>3
<1>16. CollectOK'
  BY <1>1, <1>2, <1>14, <1>15 DEF CollectOK, CallsInv
<1>17. WalkOK'
  BY <1>2, <1>7, <1>14 DEF WalkOK
<1>18. AdoptOK' /\ InsertOK'
  BY <1>14 DEF AdoptOK, InsertOK
<1> QED BY <1>1, <1>14, <1>16, <1>17, <1>18, CallOnly

\* The deletions of a change set have nothing to do with the cache.
LEMMA DeletedShrinks ==
    ASSUME NEW c \in Frame, NEW d, NEW de \in Seq(Change), NEW s \in Seq(Nat),
           d = [c EXCEPT !.stack = s, !.deleted = de]
    PROVE  d \in Frame /\ d.at = c.at /\ d.assignedIds = c.assignedIds
BY DEF Frame

LEMMA DeleteNextStep ==
    ASSUME CallsInv, DeleteNext
    PROVE  CallsInv'
<1>1. /\ UNCHANGED <<cacheVars, dbVars>> /\ call.at = "delete" /\ call.deleted # << >>
      /\ call \in Frame
  BY DEF DeleteNext, CallsInv, Typed
<1>6. call.deleted \in Seq(Change)
  BY <1>1 DEF Frame
<1>7. call' = [call EXCEPT !.stack = <<Head(call.deleted).id>>, !.deleted = Tail(call.deleted)]
  BY DEF DeleteNext
<1>2. Tail(call.deleted) \in Seq(Change) /\ Head(call.deleted) \in Change
  BY <1>1, <1>6, HeadTailProperties
<1>3. <<Head(call.deleted).id>> \in Seq(Nat)
  BY <1>2 DEF Change
<1>4. call' \in Frame /\ call'.at = "delete" /\ call'.assignedIds = call.assignedIds
  BY <1>1, <1>2, <1>3, <1>7, DeletedShrinks
<1>5. AdoptOK' /\ WalkOK' /\ CollectOK' /\ InsertOK'
  BY <1>4 DEF AdoptOK, WalkOK, CollectOK, InsertOK
<1> QED BY <1>1, <1>4, <1>5, CallOnly

-----------------------------------------------------------------------------
(***************************************************************************)
(* The steps in the database.                                              *)
(***************************************************************************)
\* Ids that were given stay given.
LEMMA GivenLonger ==
    ASSUME NEW idx, NEW next \in Nat, NEW next2 \in Nat, NEW tid, next <= next2,
           NEW assigned, GivenOnce(idx, next, tid), Fresh(assigned, idx, next)
    PROVE  GivenOnce(idx, next2, tid) /\ Fresh(assigned, idx, next2)
BY DEF GivenOnce, Fresh

\* What a step has to show that leaves the cache alone.
LEMMA DatabaseOnly ==
    ASSUME CallsInv, UNCHANGED cacheVars, DbTypeOK', nextId' \in {nextId, nextId + 1},
           call' \in Frame, call'.at \notin {"adopt", "remove", "collect", "sync"},
           Fresh(call'.assignedIds, index, nextId'), InsertOK'
    PROVE  CallsInv'
<1>1. UNCHANGED <<objects, rootList, index, nextTemporaryId>>
  BY DEF cacheVars
<1>2. Typed'
  BY <1>1 DEF CallsInv, Typed
<1>3. Owned(objects, rootList)' /\ Exact(objects, index)'
  BY <1>1 DEF CallsInv
<1>4. AdoptOK' /\ WalkOK' /\ CollectOK'
  BY DEF AdoptOK, WalkOK, CollectOK
<1>5. GivenOnce(index, nextId + 1, nextTemporaryId)
  BY GivenLonger, DatabaseAssumption
  DEF CallsInv, Typed, DbTypeOK, DatabaseAssumption
<1>6. GivenOnce(index, nextId, nextTemporaryId)'
  BY <1>1, <1>5 DEF CallsInv
<1>7. Fresh(call.assignedIds, index, nextId)'
  BY <1>1
<1> QED BY <1>2, <1>3, <1>4, <1>6, <1>7 DEF CallsInv

\* What lists a set is a function to it.
LEMMA OrdersType ==
    ASSUME NEW S, NEW order \in Orders(S)
    PROVE  /\ order \in [1..Cardinality(S) -> S]
           /\ \A x \in S : \E i \in 1..Cardinality(S) : order[i] = x
BY DEF Orders, Bijection, Injection, Surjection

\* A record changed is a record.
LEMMA RecordChanges ==
    ASSUME NEW S, NEW rows \in [S -> Record], NEW id \in S, NEW payload \in Payload
    PROVE  /\ [rows EXCEPT ![id].payload = payload] \in [S -> Record]
           /\ [rows EXCEPT ![id].deleted = TRUE] \in [S -> Record]
BY DEF Record

\* A record under the next id.
LEMMA RecordEntered ==
    ASSUME NEW next \in 1..MaxId, NEW rows \in [1..(next - 1) -> Record],
           NEW parentId \in Nat, NEW payload \in Payload
    PROVE  /\ next + 1 \in 1..(MaxId + 1)
           /\ Emplace(rows, next, [parentId |-> parentId, payload |-> payload, deleted |-> FALSE])
                  \in [1..((next + 1) - 1) -> Record]
<1> DEFINE row == [parentId |-> parentId, payload |-> payload, deleted |-> FALSE]
<1>1. row \in Record
  BY DEF Record
<1>2. MaxId \in Nat
  BY DatabaseAssumption DEF DatabaseAssumption
<1> HIDE DEF row
<1>3. DOMAIN rows = 1..(next - 1) /\ 1..((next + 1) - 1) = 1..(next - 1) \cup {next}
  OBVIOUS
<1>4. Emplace(rows, next, row) \in [1..(next - 1) \cup {next} -> Record]
  BY <1>1, <1>3 DEF Emplace
<1>5. /\ next + 1 \in 1..(MaxId + 1)
      /\ 1..((next + 1) - 1) = 1..(next - 1) \cup {next}
  BY <1>2, <1>3
<1> QED BY <1>4, <1>5 DEF row

\* The call after a row of the change set.
LEMMA ModifiedShrinks ==
    ASSUME NEW c \in Frame, NEW d, NEW mo \in Seq(Change), d = [c EXCEPT !.modified = mo]
    PROVE  d \in Frame /\ d.at = c.at /\ d.assignedIds = c.assignedIds
BY DEF Frame

LEMMA ModifyStep ==
    ASSUME CallsInv, ModifyRecord
    PROVE  CallsInv'
<1>1. /\ UNCHANGED cacheVars /\ nextId' = nextId /\ call.at = "modify" /\ call \in Frame
      /\ call.modified # << >> /\ call' = [call EXCEPT !.modified = Tail(call.modified)]
  BY DEF ModifyRecord, CallsInv, Typed
<1>2. call.modified \in Seq(Change)
  BY <1>1 DEF Frame
<1>10. Tail(call.modified) \in Seq(Change) /\ Head(call.modified) \in Change
  BY <1>1, <1>2, HeadTailProperties
<1>3. Tail(call.modified) \in Seq(Change) /\ Head(call.modified).payload \in Payload
  BY <1>10 DEF Change
<1>4. call' \in Frame /\ call'.at = "modify" /\ call'.assignedIds = call.assignedIds
  BY <1>1, <1>3, ModifiedShrinks
<1>5. records \in [1..(nextId - 1) -> Record] /\ nextId \in 1..(MaxId + 1)
  BY DEF CallsInv, Typed, DbTypeOK
<1>6. records' \in [1..(nextId - 1) -> Record]
  <2>1. CASE UNCHANGED records
    BY <1>5, <2>1
  <2>2. CASE /\ Head(call.modified).id \in DOMAIN records
             /\ records' = [records EXCEPT ![Head(call.modified).id].payload =
                                               Head(call.modified).payload]
    BY <1>3, <1>5, <2>2, RecordChanges
  <2> QED BY <2>1, <2>2 DEF ModifyRecord
<1>7. DbTypeOK'
  BY <1>1, <1>5, <1>6 DEF DbTypeOK
<1>8. Fresh(call'.assignedIds, index, nextId')
  BY <1>1, <1>4 DEF CallsInv
<1>9. InsertOK'
  BY <1>4 DEF InsertOK
<1> QED BY <1>1, <1>4, <1>7, <1>8, <1>9, DatabaseOnly

LEMMA MarkRecordStep ==
    ASSUME CallsInv, MarkRecord
    PROVE  CallsInv'
<1> DEFINE id       == Head(call.stack)
           children == {c \in DOMAIN records : records[c].parentId = id}
<1>1. /\ UNCHANGED cacheVars /\ nextId' = nextId /\ call.at = "delete" /\ call \in Frame
      /\ call.stack # << >>
  BY DEF MarkRecord, CallsInv, Typed
<1>2. call.stack \in Seq(Nat)
  BY <1>1 DEF Frame
<1>3. Tail(call.stack) \in Seq(Nat)
  BY <1>1, <1>2, HeadTailProperties
<1>4. records \in [1..(nextId - 1) -> Record] /\ nextId \in 1..(MaxId + 1)
  BY DEF CallsInv, Typed, DbTypeOK
<1>5. /\ \E s \in Seq(Nat) : call' = [call EXCEPT !.stack = s]
      /\ records' \in [1..(nextId - 1) -> Record]
  <2>1. CASE call' = [call EXCEPT !.stack = Tail(call.stack)] /\ UNCHANGED records
    BY <1>3, <1>4, <2>1
  <2>2. CASE /\ id \in DOMAIN records
             /\ records' = [records EXCEPT ![id].deleted = TRUE]
             /\ \E childIds \in Orders(children) :
                   call' = [call EXCEPT !.stack = childIds \o Tail(call.stack)]
    <3>1. PICK childIds \in Orders(children) :
              call' = [call EXCEPT !.stack = childIds \o Tail(call.stack)]
      BY <2>2
    <3>2. IsFiniteSet(children) /\ children \subseteq Nat
      <4>1. children \subseteq 1..(nextId - 1)
        BY <1>4
      <4>2. IsFiniteSet(1..(nextId - 1)) /\ 1..(nextId - 1) \subseteq Nat
        <5>1. nextId - 1 \in Nat
          BY <1>4, DatabaseAssumption DEF DatabaseAssumption
        <5> QED BY <5>1, FS_Interval
      <4> QED BY <4>1, <4>2, FS_Subset
    <3>3. Cardinality(children) \in Nat
      BY <3>2, FS_CardinalityType
    <3> HIDE DEF children
    <3>4. childIds \in [1..Cardinality(children) -> children]
      BY OrdersType
    <3>5. childIds \in Seq(Nat)
      <4>1. childIds \in Seq(children)
        BY <3>3, <3>4
      <4> QED BY <3>2, <4>1, SeqMonotonic
    <3>6. childIds \o Tail(call.stack) \in Seq(Nat)
      BY <1>3, <3>5, ConcatProperties
    <3>7. records' \in [1..(nextId - 1) -> Record]
      BY <1>4, <2>2 DEF Record
    <3> QED BY <3>1, <3>6, <3>7
  <2> QED BY <2>1, <2>2 DEF MarkRecord
<1>6. call' \in Frame /\ call'.at = "delete" /\ call'.assignedIds = call.assignedIds
  BY <1>1, <1>5, StackChanges
<1>7. DbTypeOK'
  BY <1>1, <1>4, <1>5 DEF DbTypeOK
<1>8. Fresh(call'.assignedIds, index, nextId')
  BY <1>1, <1>6 DEF CallsInv
<1>9. InsertOK'
  BY <1>6 DEF InsertOK
<1> QED BY <1>1, <1>6, <1>7, <1>8, <1>9, DatabaseOnly

\* The seed has room for every row.
LEMMA SeedStep ==
    ASSUME CallsInv, SeedRecord
    PROVE  CallsInv'
<1>1. /\ UNCHANGED <<cacheVars, call>> /\ call.at = "seed" /\ call \in Frame
      /\ nextId <= Len(SeedRows) /\ nextId' = nextId + 1
      /\ records' = Emplace(records, nextId, [parentId |-> SeedRows[nextId].parentId,
                                              payload |-> SeedRows[nextId].payload,
                                              deleted |-> FALSE])
  BY DEF SeedRecord, InsertRecord, CallsInv, Typed
<1>2. /\ records \in [1..(nextId - 1) -> Record] /\ nextId \in 1..(MaxId + 1)
      /\ SeedRows \in Seq([parentId : Nat, payload : Payload])
      /\ MaxId \in Nat /\ Len(SeedRows) <= MaxId
  BY DatabaseAssumption DEF CallsInv, Typed, DbTypeOK, DatabaseAssumption
<1>3. nextId \in 1..MaxId /\ nextId \in 1..Len(SeedRows)
  BY <1>1, <1>2
<1>4. SeedRows[nextId] \in [parentId : Nat, payload : Payload]
  BY <1>2, <1>3, ElementOfSeq
<1>5. SeedRows[nextId].parentId \in Nat /\ SeedRows[nextId].payload \in Payload
  BY <1>4
<1>6. nextId + 1 \in 1..(MaxId + 1) /\ records' \in [1..((nextId + 1) - 1) -> Record]
  BY <1>1, <1>2, <1>3, <1>5, RecordEntered
<1>7. DbTypeOK'
  BY <1>1, <1>6 DEF DbTypeOK
<1>8. Fresh(call.assignedIds, index, nextId + 1)
  <2>1. nextId \in Nat /\ nextId + 1 \in Nat /\ nextId <= nextId + 1
    BY <1>2
  <2>2. GivenOnce(index, nextId, nextTemporaryId) /\ Fresh(call.assignedIds, index, nextId)
    BY DEF CallsInv
  <2> QED BY <2>1, <2>2, GivenLonger
<1>9. InsertOK'
  BY <1>1 DEF InsertOK
<1> QED BY <1>1, <1>7, <1>8, <1>9, DatabaseOnly

\* The call after an insertion.
WithInserted(c, table, assigned, created) ==
    [c EXCEPT !.temporaryToPersistent = table, !.assignedIds = assigned, !.created = created]

LEMMA InsertedType ==
    ASSUME NEW c \in Frame, NEW d, NEW table \in Table, NEW created \in Seq(Change),
           NEW assigned \in Seq([temporaryId : Nat, persistentId : Nat]),
           d = WithInserted(c, table, assigned, created)
    PROVE  /\ d \in Frame /\ d.at = c.at /\ d.created = created
           /\ d.assignedIds = assigned
BY DEF Frame, WithInserted

\* The next id is assigned.
LEMMA FreshOneMore ==
    ASSUME NEW idx, NEW next \in Nat \ {0}, next \notin DOMAIN idx,
           NEW assigned \in Seq([temporaryId : Nat, persistentId : Nat]),
           NEW entry \in [temporaryId : Nat, persistentId : Nat], entry.persistentId = next,
           Fresh(assigned, idx, next)
    PROVE  Fresh(Append(assigned, entry), idx, next + 1)
<1> DEFINE more == Append(assigned, entry)
<1>1. /\ DOMAIN more = DOMAIN assigned \cup {Len(assigned) + 1}
      /\ \A i \in DOMAIN assigned : more[i] = assigned[i]
      /\ more[Len(assigned) + 1] = entry
  OBVIOUS
<1> HIDE DEF more
<1>2. \A i \in DOMAIN assigned :
          /\ more[i].persistentId \in 1..(next - 1)
          /\ more[i].persistentId \notin DOMAIN idx
  BY <1>1 DEF Fresh
<1>3. \A i \in DOMAIN more :
          more[i].persistentId \in 1..((next + 1) - 1) /\ more[i].persistentId \notin DOMAIN idx
  BY <1>1, <1>2
<1>4. ASSUME NEW i \in DOMAIN more, NEW j \in DOMAIN more, i # j
      PROVE  more[i].persistentId # more[j].persistentId
  <2>1. CASE i \in DOMAIN assigned /\ j \in DOMAIN assigned
    BY <1>1, <1>4, <2>1 DEF Fresh
  <2>2. CASE i \notin DOMAIN assigned
    <3>1. more[i].persistentId = next /\ j \in DOMAIN assigned
      BY <1>1, <1>4, <2>2
    <3> QED BY <1>2, <3>1
  <2>3. CASE j \notin DOMAIN assigned
    <3>1. more[j].persistentId = next /\ i \in DOMAIN assigned
      BY <1>1, <1>4, <2>3
    <3> QED BY <1>2, <3>1
  <2> QED BY <2>1, <2>2, <2>3
<1> QED BY <1>3, <1>4 DEF Fresh, more

\* An id the database may still give is not in the index.
LEMMA NextIsFree ==
    ASSUME NEW idx, NEW next \in 1..MaxId, NEW tid, GivenOnce(idx, next, tid)
    PROVE  next \notin DOMAIN idx
BY CallsAssumption, DatabaseAssumption
DEF CallsAssumption, DatabaseAssumption, GivenOnce

\* Room for some is room for one.
LEMMA RoomForOne ==
    ASSUME NEW next \in 1..(MaxId + 1), NEW count \in Nat \ {0}, next + count <= MaxId + 1
    PROVE  next \in 1..MaxId /\ (next + 1) + (count - 1) <= MaxId + 1
BY DatabaseAssumption DEF DatabaseAssumption

LEMMA InsertStep ==
    ASSUME CallsInv, InsertCreated
    PROVE  CallsInv'
<1> DEFINE first    == Head(call.created)
           mapped   == call.temporaryToPersistent
           parentId == IF first.parentId \in DOMAIN mapped THEN mapped[first.parentId]
                       ELSE first.parentId
           entry    == [temporaryId |-> first.id, persistentId |-> nextId]
<1>1. /\ UNCHANGED cacheVars /\ call.at = "insert" /\ call.created # << >> /\ call \in Frame
      /\ records' = Emplace(records, nextId, [parentId |-> parentId, payload |-> first.payload,
                                              deleted |-> FALSE])
      /\ nextId' = nextId + 1
  BY DEF InsertCreated, InsertRecord, CallsInv, Typed
<1>2. call' = WithInserted(call, Emplace(mapped, first.id, nextId),
                           Append(call.assignedIds, entry), Tail(call.created))
  BY DEF InsertCreated, WithInserted
<1>3. /\ call.created \in Seq(Change) /\ mapped \in Table
      /\ call.assignedIds \in Seq([temporaryId : Nat, persistentId : Nat])
  BY <1>1 DEF Frame
<1>4. /\ first \in Change /\ Tail(call.created) \in Seq(Change)
      /\ Len(Tail(call.created)) = Len(call.created) - 1 /\ Len(call.created) \in Nat \ {0}
  BY <1>1, <1>3, HeadTailProperties, EmptySeq
<1>5. first.id \in Nat /\ first.parentId \in Nat /\ first.payload \in Payload
  BY <1>4 DEF Change
<1>6. /\ nextId \in 1..(MaxId + 1) /\ records \in [1..(nextId - 1) -> Record]
      /\ nextId + Len(call.created) <= MaxId + 1 /\ MaxId \in Nat
  BY <1>1, DatabaseAssumption DEF CallsInv, Typed, DbTypeOK, InsertOK, DatabaseAssumption
<1>7. nextId \in 1..MaxId /\ nextId \in Nat \ {0}
      /\ (nextId + 1) + Len(Tail(call.created)) <= MaxId + 1
  <2>1. PICK count \in Nat \ {0} : count = Len(call.created)
    BY <1>4
  <2>2. nextId \in 1..MaxId /\ (nextId + 1) + (count - 1) <= MaxId + 1
    BY <1>6, <2>1, RoomForOne
  <2>3. Len(Tail(call.created)) = count - 1
    BY <1>4, <2>1
  <2>4. (nextId + 1) + Len(Tail(call.created)) <= MaxId + 1
    BY <2>2, <2>3
  <2>5. nextId \in Nat \ {0}
    BY <2>2, <1>6
  <2> QED BY <2>2, <2>4, <2>5
<1>8. nextId \notin DOMAIN index
  BY <1>7, NextIsFree DEF CallsInv
<1>9. entry \in [temporaryId : Nat, persistentId : Nat] /\ entry.persistentId = nextId
  BY <1>5, <1>7
<1>10. parentId \in Nat
  <2>1. PICK S \in SUBSET Nat : mapped \in [S -> Nat]
    BY <1>3 DEF Table
  <2> QED BY <1>5, <2>1
<1> HIDE DEF entry, parentId, first, mapped
<1>11. /\ nextId + 1 \in 1..(MaxId + 1)
       /\ records' \in [1..((nextId + 1) - 1) -> Record]
  BY <1>1, <1>5, <1>6, <1>7, <1>10, RecordEntered
<1>12. DbTypeOK'
  BY <1>1, <1>11 DEF DbTypeOK
<1>13. Emplace(mapped, first.id, nextId) \in Table
  BY <1>3, <1>5, <1>7, EmplaceType
<1>14. Append(call.assignedIds, entry) \in Seq([temporaryId : Nat, persistentId : Nat])
  BY <1>3, <1>9, AppendProperties
<1>15. /\ call' \in Frame /\ call'.at = "insert" /\ call'.created = Tail(call.created)
       /\ call'.assignedIds = Append(call.assignedIds, entry)
  <2>1. PICK table \in Table, created \in Seq(Change),
             assigned \in Seq([temporaryId : Nat, persistentId : Nat]) :
            /\ table = Emplace(mapped, first.id, nextId) /\ created = Tail(call.created)
            /\ assigned = Append(call.assignedIds, entry)
    BY <1>4, <1>13, <1>14
  <2>2. call' = WithInserted(call, table, assigned, created)
    BY <1>2, <2>1
  <2>3. /\ call' \in Frame /\ call'.at = call.at /\ call'.created = created
        /\ call'.assignedIds = assigned
    BY <1>1, <2>2, InsertedType
  <2> QED BY <1>1, <2>1, <2>3
<1>16. Fresh(Append(call.assignedIds, entry), index, nextId + 1)
  <2>1. Fresh(call.assignedIds, index, nextId)
    BY DEF CallsInv
  <2> QED BY <1>3, <1>7, <1>8, <1>9, <2>1, FreshOneMore
<1>17. InsertOK'
  BY <1>1, <1>7, <1>15 DEF InsertOK
<1> QED BY <1>1, <1>12, <1>15, <1>16, <1>17, DatabaseOnly

-----------------------------------------------------------------------------
(***************************************************************************)
(* The steps that change what objects hold, but not their vectors.         *)
(***************************************************************************)
\* What such a step has to show.
LEMMA ShapeStays ==
    ASSUME CallsInv, objects' \in Seq(Object), DOMAIN objects' = DOMAIN objects,
           \A h \in DOMAIN objects : /\ objects'[h].id = objects[h].id
                                    /\ objects'[h].parent = objects[h].parent
                                    /\ objects'[h].children = objects[h].children,
           UNCHANGED <<rootList, index, nextTemporaryId, dbVars>>, call' \in Frame,
           call'.assignedIds \in {<< >>, call.assignedIds},
           AdoptOK', WalkOK', CollectOK', InsertOK'
    PROVE  CallsInv'
<1>1. UNCHANGED <<rootList, index, nextTemporaryId, records, nextId>>
  BY DEF dbVars
<1>2. Typed'
  BY <1>1 DEF CallsInv, Typed, DbTypeOK
<1>3. Owned(objects', rootList)
  BY SameOwners DEF CallsInv
<1>4. Exact(objects', index)
  BY DEF CallsInv, Exact
<1>5. GivenOnce(index, nextId, nextTemporaryId)'
  BY <1>1 DEF CallsInv
<1>6. Fresh(call'.assignedIds, index', nextId')
  <2>1. CASE call'.assignedIds = << >>
    BY <2>1, FreshNone
  <2>2. CASE call'.assignedIds = call.assignedIds
    BY <1>1, <2>2 DEF CallsInv
  <2> QED BY <2>1, <2>2
<1> QED BY <1>1, <1>2, <1>3, <1>4, <1>5, <1>6 DEF CallsInv

\* One object gets another status, or another payload and status.
LEMMA StatusChanges ==
    ASSUME NEW objs \in Seq(Object), NEW objs2, NEW h \in DOMAIN objs,
           NEW status \in {"New", "Modified", "Deleted", "Unchanged"},
           objs2 = [objs EXCEPT ![h].status = status]
    PROVE  /\ objs2 \in Seq(Object) /\ DOMAIN objs2 = DOMAIN objs
           /\ \A g \in DOMAIN objs : /\ objs2[g].id = objs[g].id
                                     /\ objs2[g].parent = objs[g].parent
                                     /\ objs2[g].children = objs[g].children
<1>1. objs[h] \in Object /\ DOMAIN objs = 1..Len(objs) /\ objs \in [1..Len(objs) -> Object]
  BY ObjectFields
<1>2. [objs[h] EXCEPT !.status = status] \in Object
  BY <1>1 DEF Object
<1>3. objs2 = [objs EXCEPT ![h] = [objs[h] EXCEPT !.status = status]]
  OBVIOUS
<1>4. objs2 \in Seq(Object) /\ DOMAIN objs2 = DOMAIN objs
  BY <1>1, <1>2, <1>3, ExceptSeq
<1>5. ASSUME NEW g \in DOMAIN objs
      PROVE  /\ objs2[g].id = objs[g].id /\ objs2[g].parent = objs[g].parent
             /\ objs2[g].children = objs[g].children
  <2>1. CASE g = h
    <3>1. objs2[g] = [objs[h] EXCEPT !.status = status]
      BY <1>1, <1>3, <2>1
    <3> QED BY <1>1, <2>1, <3>1 DEF Object
  <2>2. CASE g # h
    BY <1>1, <1>3, <2>2
  <2> QED BY <2>1, <2>2
<1> QED BY <1>4, <1>5

LEMMA MarkDeletedStep ==
    ASSUME CallsInv, MarkDeleted
    PROVE  CallsInv'
<1>1. /\ call.at = "remove" /\ call.stack # << >> /\ call \in Frame
      /\ objects \in Seq(Object) /\ Owned(objects, rootList)
      /\ UNCHANGED <<rootList, index, nextTemporaryId, dbVars>>
      /\ objects' = [objects EXCEPT ![Head(call.stack)].status = "Deleted"]
      /\ call' = [call EXCEPT !.stack = Descend]
  BY DEF MarkDeleted, CallsInv, Typed
<1>2. call.stack \in Seq(Nat)
  BY <1>1 DEF Frame
<1>3. \A i \in DOMAIN call.stack : call.stack[i] \in DOMAIN objects
  BY <1>1 DEF CallsInv, WalkOK
<1>4. Head(call.stack) \in DOMAIN objects
  BY <1>1, <1>2, <1>3
<1>5. Descend \in Seq(Nat) /\ \A i \in DOMAIN Descend : Descend[i] \in DOMAIN objects
  BY <1>1, <1>2, <1>3, DescendType DEF Descend
<1>6. /\ objects' \in Seq(Object) /\ DOMAIN objects' = DOMAIN objects
      /\ \A g \in DOMAIN objects : /\ objects'[g].id = objects[g].id
                                   /\ objects'[g].parent = objects[g].parent
                                   /\ objects'[g].children = objects[g].children
  <2>1. PICK objs2 : objs2 = objects'
    OBVIOUS
  <2>2. PICK h : h = Head(call.stack)
    OBVIOUS
  <2>3. /\ objects \in Seq(Object) /\ h \in DOMAIN objects
        /\ objs2 = [objects EXCEPT ![h].status = "Deleted"]
    BY <1>1, <1>4, <2>1, <2>2
  <2>4. /\ objs2 \in Seq(Object) /\ DOMAIN objs2 = DOMAIN objects
        /\ \A g \in DOMAIN objects : /\ objs2[g].id = objects[g].id
                                     /\ objs2[g].parent = objects[g].parent
                                     /\ objs2[g].children = objects[g].children
    BY <2>3, StatusChanges
  <2> QED BY <2>1, <2>4
<1>7. /\ call' \in Frame /\ call'.at = "remove" /\ call'.stack = Descend
      /\ call'.assignedIds = call.assignedIds
  BY <1>1, <1>5, StackChanges
<1>8. WalkOK'
  BY <1>5, <1>6, <1>7 DEF WalkOK
<1>9. AdoptOK' /\ CollectOK' /\ InsertOK'
  BY <1>7 DEF AdoptOK, CollectOK, InsertOK
<1> QED BY <1>1, <1>6, <1>7, <1>8, <1>9, ShapeStays

LEMMA MarkSyncedStep ==
    ASSUME CallsInv, MarkSynced
    PROVE  CallsInv'
<1> DEFINE h      == Head(call.stack)
           status == IF objects[h].status \in {"New", "Modified"} THEN "Unchanged"
                     ELSE objects[h].status
<1>1. /\ call.at = "sync" /\ call.stack # << >> /\ call \in Frame
      /\ objects \in Seq(Object) /\ Owned(objects, rootList)
      /\ UNCHANGED <<rootList, index, nextTemporaryId, dbVars>>
      /\ call' = [call EXCEPT !.stack = Descend]
  BY DEF MarkSynced, CallsInv, Typed
<1>2. call.stack \in Seq(Nat)
  BY <1>1 DEF Frame
<1>3. \A i \in DOMAIN call.stack : call.stack[i] \in DOMAIN objects
  BY <1>1 DEF CallsInv, WalkOK
<1>4. h \in DOMAIN objects
  BY <1>1, <1>2, <1>3
<1>5. Descend \in Seq(Nat) /\ \A i \in DOMAIN Descend : Descend[i] \in DOMAIN objects
  BY <1>1, <1>2, <1>3, DescendType DEF Descend
<1>10. status \in {"New", "Modified", "Deleted", "Unchanged"}
  <2>1. objects[h] \in Object
    BY <1>1, <1>4, ObjectFields
  <2> QED BY <2>1 DEF Object
<1>11. objects' = [objects EXCEPT ![h].status = status]
  BY DEF MarkSynced
<1> HIDE DEF status, h
<1>6. /\ objects' \in Seq(Object) /\ DOMAIN objects' = DOMAIN objects
      /\ \A g \in DOMAIN objects : /\ objects'[g].id = objects[g].id
                                   /\ objects'[g].parent = objects[g].parent
                                   /\ objects'[g].children = objects[g].children
  BY <1>1, <1>4, <1>10, <1>11, StatusChanges
<1>7. /\ call' \in Frame /\ call'.at = "sync" /\ call'.stack = Descend
      /\ call'.assignedIds = call.assignedIds
  BY <1>1, <1>5, StackChanges
<1>8. WalkOK'
  BY <1>5, <1>6, <1>7 DEF WalkOK
<1>9. AdoptOK' /\ CollectOK' /\ InsertOK'
  BY <1>7 DEF AdoptOK, CollectOK, InsertOK
<1> QED BY <1>1, <1>6, <1>7, <1>8, <1>9, ShapeStays

\* editPayload: the payload and the status of one object.
WithPayload(o, payload, status) == [o EXCEPT !.payload = payload, !.status = status]

LEMMA PayloadChanges ==
    ASSUME NEW objs \in Seq(Object), NEW objs2, NEW h \in DOMAIN objs, NEW payload \in Payload,
           NEW status \in {"New", "Modified", "Deleted", "Unchanged"},
           objs2 = [objs EXCEPT ![h] = WithPayload(objs[h], payload, status)]
    PROVE  /\ objs2 \in Seq(Object) /\ DOMAIN objs2 = DOMAIN objs
           /\ \A g \in DOMAIN objs : /\ objs2[g].id = objs[g].id
                                     /\ objs2[g].parent = objs[g].parent
                                     /\ objs2[g].children = objs[g].children
<1>1. objs[h] \in Object /\ DOMAIN objs = 1..Len(objs) /\ objs \in [1..Len(objs) -> Object]
  BY ObjectFields
<1>2. PICK o : o = WithPayload(objs[h], payload, status)
  OBVIOUS
<1>3. /\ o \in Object /\ o.id = objs[h].id /\ o.parent = objs[h].parent
      /\ o.children = objs[h].children
  BY <1>1, <1>2 DEF Object, WithPayload
<1>4. objs2 = [objs EXCEPT ![h] = o]
  BY <1>2
<1>5. objs2 \in Seq(Object) /\ DOMAIN objs2 = DOMAIN objs
  BY <1>1, <1>3, <1>4, ExceptSeq
<1>6. ASSUME NEW g \in DOMAIN objs
      PROVE  /\ objs2[g].id = objs[g].id /\ objs2[g].parent = objs[g].parent
             /\ objs2[g].children = objs[g].children
  <2>1. objs2[g] = IF g = h THEN o ELSE objs[g]
    BY <1>1, <1>4
  <2> QED BY <1>3, <2>1
<1> QED BY <1>5, <1>6

LEMMA EditStep ==
    ASSUME CallsInv, NEW id \in DOMAIN index, NEW payload \in Payload, EditPayload(id, payload)
    PROVE  CallsInv'
<1> DEFINE node   == FindNode(id)
           status == IF objects[node].status = "Unchanged" THEN "Modified"
                     ELSE objects[node].status
<1>1. /\ objects \in Seq(Object)
      /\ UNCHANGED <<rootList, index, nextTemporaryId, dbVars>>
      /\ call' = NoCall
  BY DEF EditPayload, Straight, Idle, CallsInv, Typed
<1>2. node \in DOMAIN objects
  BY DEF CallsInv, Exact, FindNode
<1>3. objects[node] \in Object
  BY <1>1, <1>2, ObjectFields
<1>4. status \in {"New", "Modified", "Deleted", "Unchanged"}
  BY <1>3 DEF Object
<1>5. objects' = [objects EXCEPT ![node] = WithPayload(objects[node], payload, status)]
  BY DEF EditPayload, WithPayload
<1> HIDE DEF status, node
<1>6. /\ objects' \in Seq(Object) /\ DOMAIN objects' = DOMAIN objects
      /\ \A g \in DOMAIN objects : /\ objects'[g].id = objects[g].id
                                   /\ objects'[g].parent = objects[g].parent
                                   /\ objects'[g].children = objects[g].children
  BY <1>1, <1>2, <1>4, <1>5, PayloadChanges
<1>7. call' \in Frame /\ call'.at = "idle" /\ call'.assignedIds = << >>
  BY <1>1, NoCallType
<1>8. AdoptOK' /\ WalkOK' /\ CollectOK' /\ InsertOK'
  BY <1>7 DEF AdoptOK, WalkOK, CollectOK, InsertOK
<1> QED BY <1>1, <1>6, <1>7, <1>8, ShapeStays

\* Every object keeps all but its flag.
LEMMA FlagChanges ==
    ASSUME NEW o \in Object, NEW flag \in BOOLEAN, NEW o2,
           o2 = [o EXCEPT !.hasUnloadedChildren = flag]
    PROVE  o2 \in Object /\ o2.id = o.id /\ o2.parent = o.parent /\ o2.children = o.children
BY DEF Object

LEMMA FinishLoadingStep ==
    ASSUME CallsInv, FinishLoading
    PROVE  CallsInv'
<1> DEFINE childless(h) == objects[h].children = << >>
           flag(h) == CASE h = call.node   -> call.hasChildren /\ childless(h)
                        [] h = call.parent -> objects[h].hasUnloadedChildren /\ childless(h)
                        [] OTHER           -> objects[h].hasUnloadedChildren
<1>1. /\ objects \in Seq(Object) /\ call \in Frame
      /\ UNCHANGED <<rootList, index, nextTemporaryId, dbVars>>
      /\ call' = NoCall
  BY DEF FinishLoading, Return, CallsInv, Typed
<1>2. objects' = [h \in DOMAIN objects |-> [objects[h] EXCEPT !.hasUnloadedChildren = flag(h)]]
  BY DEF FinishLoading
<1>3. ASSUME NEW h \in DOMAIN objects
      PROVE  objects[h] \in Object /\ flag(h) \in BOOLEAN
  <2>1. objects[h] \in Object
    BY <1>1, ObjectFields
  <2>2. objects[h].hasUnloadedChildren \in BOOLEAN /\ call.hasChildren \in BOOLEAN
    BY <1>1, <2>1 DEF Object, Frame
  <2>3. childless(h) \in BOOLEAN
    OBVIOUS
  <2> HIDE DEF childless
  <2>4. flag(h) \in BOOLEAN
    BY <2>2, <2>3, Zenon
  <2> QED BY <2>1, <2>4
<1> HIDE DEF flag
<1>4. ASSUME NEW h \in DOMAIN objects
      PROVE  /\ objects'[h] \in Object /\ objects'[h].id = objects[h].id
             /\ objects'[h].parent = objects[h].parent
             /\ objects'[h].children = objects[h].children
  <2>1. PICK o \in Object : o = objects[h]
    BY <1>3
  <2>2. PICK b \in BOOLEAN : b = flag(h)
    BY <1>3
  <2>3. PICK o2 : o2 = [o EXCEPT !.hasUnloadedChildren = b]
    OBVIOUS
  <2>4. objects'[h] = o2
    BY <1>2, <2>1, <2>2, <2>3
  <2>5. o2 \in Object /\ o2.id = o.id /\ o2.parent = o.parent /\ o2.children = o.children
    BY <2>3, FlagChanges
  <2> QED BY <2>1, <2>4, <2>5
<1>5. objects' \in Seq(Object) /\ DOMAIN objects' = DOMAIN objects
  <2>1. DOMAIN objects' = DOMAIN objects /\ DOMAIN objects = 1..Len(objects) /\ Len(objects) \in Nat
    BY <1>1, <1>2, ObjectFields
  <2>2. objects' \in [1..Len(objects) -> Object]
    <3>1. objects' = [h \in 1..Len(objects) |-> objects'[h]]
      BY <1>2, <2>1
    <3> QED BY <1>4, <2>1, <3>1
  <2> QED BY <2>1, <2>2
<1>7. call' \in Frame /\ call'.at = "idle" /\ call'.assignedIds = << >>
  BY <1>1, NoCallType
<1>8. AdoptOK' /\ WalkOK' /\ CollectOK' /\ InsertOK'
  BY <1>7 DEF AdoptOK, WalkOK, CollectOK, InsertOK
<1> QED BY <1>1, <1>4, <1>5, <1>7, <1>8, ShapeStays


-----------------------------------------------------------------------------
(***************************************************************************)
(* The steps that construct an object: addChild and loadFromDatabase.      *)
(***************************************************************************)
\* One object is put in the place of another.
LEMMA OneReplaced ==
    ASSUME NEW objs \in Seq(Object), NEW h \in DOMAIN objs, NEW o \in Object, NEW objs2,
           objs2 = [objs EXCEPT ![h] = o]
    PROVE  /\ objs2 \in Seq(Object) /\ Len(objs2) = Len(objs) /\ DOMAIN objs2 = DOMAIN objs
           /\ \A g \in DOMAIN objs : objs2[g] = IF g = h THEN o ELSE objs[g]
<1>1. DOMAIN objs = 1..Len(objs) /\ objs \in [1..Len(objs) -> Object] /\ Len(objs) \in Nat
  BY ObjectFields
<1>2. objs2 \in Seq(Object) /\ DOMAIN objs2 = DOMAIN objs /\ Len(objs2) = Len(objs)
  BY <1>1, ExceptSeq
<1> QED BY <1>1, <1>2

\* The object of a parent: its vector has one child more.
WithChildren(o, children) == [o EXCEPT !.children = children]

WithChildAdded(o, children) == [o EXCEPT !.children = children, !.hasUnloadedChildren = FALSE]

LEMMA ChildrenChange ==
    ASSUME NEW o \in Object, NEW children \in Seq(Nat), NEW o2,
           \/ o2 = WithChildren(o, children)
           \/ o2 = WithChildAdded(o, children)
    PROVE  o2 \in Object /\ o2.id = o.id /\ o2.parent = o.parent /\ o2.children = children
BY DEF Object, WithChildren, WithChildAdded

\* The parent gets one child more, whatever becomes of its flag.
ChildEntered(objs, objs2, p, n) ==
    \/ objs2 = [objs EXCEPT ![p] = WithChildren(objs[p], Append(objs[p].children, n))]
    \/ objs2 = [objs EXCEPT ![p] = WithChildAdded(objs[p], Append(objs[p].children, n))]

LEMMA ParentChanges ==
    ASSUME NEW objs \in Seq(Object), NEW p \in DOMAIN objs, NEW n \in Nat, NEW objs2,
           ChildEntered(objs, objs2, p, n)
    PROVE  /\ objs2 \in Seq(Object) /\ Len(objs2) = Len(objs)
           /\ Grows(objs, objs2, p, n)
<1>1. PICK children \in Seq(Nat) : children = Append(objs[p].children, n)
  BY ObjectFields, AppendProperties
<1>2. PICK o : /\ o = WithChildren(objs[p], children) \/ o = WithChildAdded(objs[p], children)
               /\ objs2 = [objs EXCEPT ![p] = o]
  BY <1>1 DEF ChildEntered
<1>3. objs[p] \in Object
  BY ObjectFields
<1>4. /\ o \in Object /\ o.id = objs[p].id /\ o.parent = objs[p].parent
      /\ o.children = children
  BY <1>2, <1>3, ChildrenChange
<1>5. /\ objs2 \in Seq(Object) /\ Len(objs2) = Len(objs)
      /\ \A g \in DOMAIN objs : objs2[g] = IF g = p THEN o ELSE objs[g]
  BY <1>2, <1>4, OneReplaced
<1> QED BY <1>1, <1>4, <1>5 DEF Grows

\* The new object is the last, and the last of its vector; its id is new.
Constructs(objs, roots, idx, p, n, mid, o, objs2, roots2) ==
    /\ objs \in Seq(Object) /\ roots \in Seq(Nat) /\ idx \in Table
    /\ Owned(objs, roots) /\ Exact(objs, idx)
    /\ p \in {NoNode} \cup DOMAIN objs /\ n = Len(objs) + 1
    /\ mid \in Seq(Object) /\ Len(mid) = Len(objs) /\ Grows(objs, mid, p, n)
    /\ o \in Object /\ o.parent = p /\ o.children = << >> /\ o.id \notin DOMAIN idx
    /\ objs2 = Append(mid, o)
    /\ roots2 = IF p = NoNode THEN Append(roots, n) ELSE roots

LEMMA Constructed ==
    ASSUME NEW objs, NEW roots, NEW idx, NEW p, NEW n, NEW mid, NEW o, NEW objs2, NEW roots2,
           Constructs(objs, roots, idx, p, n, mid, o, objs2, roots2)
    PROVE  /\ objs2 \in Seq(Object) /\ roots2 \in Seq(Nat)
           /\ DOMAIN objs2 = DOMAIN objs \cup {n} /\ objs2[n] = o
           /\ Emplace(idx, o.id, n) \in Table
           /\ Owned(objs2, roots2)
           /\ Exact(objs2, Emplace(idx, o.id, n))
<1> USE DEF Constructs
<1>1. /\ DOMAIN objs = 1..Len(objs) /\ Len(objs) \in Nat /\ n \in Nat
      /\ DOMAIN mid = DOMAIN objs
  BY ObjectFields
<1>2. /\ objs2 \in Seq(Object) /\ Len(objs2) = n /\ objs2[n] = o
      /\ DOMAIN objs2 = DOMAIN objs \cup {n}
      /\ \A h \in DOMAIN objs : objs2[h] = mid[h]
  BY <1>1, AppendProperties
<1>3. roots2 \in Seq(Nat)
  BY <1>1, AppendProperties
<1>4. o.id \in Nat
  BY DEF Object
<1>5. Emplace(idx, o.id, n) \in Table
  BY <1>1, <1>4, EmplaceType
<1>6. Owned(objs2, roots2)
  <2>1. objs2[n].parent = p /\ objs2[n].children = << >> /\ Grows(objs, objs2, p, n)
    BY <1>2 DEF Grows
  <2> QED BY <1>2, <2>1, GrowOwned
<1>7. Exact(objs2, Emplace(idx, o.id, n))
  <2>1. objs2[n].id = o.id /\ \A h \in DOMAIN objs : objs2[h].id = objs[h].id
    BY <1>2 DEF Grows
  <2> QED BY <1>2, <2>1, GrowExact
<1> QED BY <1>2, <1>3, <1>5, <1>6, <1>7

\* The next temporary id is not in the index, and is then given.
LEMMA TemporaryIsFree ==
    ASSUME NEW idx, NEW next \in 1..(MaxId + 1), NEW tid \in Nat, TempBase <= tid,
           GivenOnce(idx, next, tid)
    PROVE  /\ tid \notin DOMAIN idx
           /\ \A value : GivenOnce(Emplace(idx, tid, value), next, tid + 1)
<1>1. MaxId \in Nat /\ TempBase \in Nat /\ MaxId < TempBase
  BY DatabaseAssumption, CallsAssumption DEF DatabaseAssumption, CallsAssumption
<1>2. tid \notin 1..(next - 1) /\ tid \notin TempBase..(tid - 1)
  BY <1>1
<1>3. tid \notin DOMAIN idx
  BY <1>2 DEF GivenOnce
<1>4. ASSUME NEW value, NEW id \in DOMAIN Emplace(idx, tid, value)
      PROVE  id \in 1..(next - 1) \/ id \in TempBase..((tid + 1) - 1)
  <2>1. id \in DOMAIN idx \/ id = tid
    BY <1>4 DEF Emplace
  <2>2. CASE id \in DOMAIN idx
    <3>1. id \in 1..(next - 1) \/ id \in TempBase..(tid - 1)
      BY <2>2 DEF GivenOnce
    <3> QED BY <1>1, <3>1
  <2> QED BY <1>1, <2>1, <2>2
<1> QED BY <1>3, <1>4 DEF GivenOnce

LEMMA AddStep ==
    ASSUME CallsInv, NEW parentId \in DOMAIN index, NEW payload \in Payload,
           AddChild(parentId, payload)
    PROVE  CallsInv'
<1> DEFINE parent == FindNode(parentId)
           raw    == Len(objects) + 1
           mid    == [objects EXCEPT ![parent].children = Append(@, raw),
                                     ![parent].hasUnloadedChildren = FALSE]
           o      == [id |-> nextTemporaryId, parentId |-> parentId, payload |-> payload,
                      status |-> "New", hasUnloadedChildren |-> FALSE, parent |-> parent,
                      children |-> << >>]
<1>1. /\ objects \in Seq(Object) /\ rootList \in Seq(Nat) /\ index \in Table
      /\ nextId \in 1..(MaxId + 1) /\ nextTemporaryId \in TempBase..(TempBase + MaxTemp)
      /\ Owned(objects, rootList) /\ Exact(objects, index)
      /\ GivenOnce(index, nextId, nextTemporaryId)
  BY DEF CallsInv, Typed, DbTypeOK
<1>2. /\ UNCHANGED <<rootList, dbVars>> /\ call' = NoCall
      /\ nextTemporaryId < TempBase + MaxTemp
      /\ nextTemporaryId' = nextTemporaryId + 1
      /\ objects' = Append(mid, o)
      /\ index' = Emplace(index, nextTemporaryId, raw)
  BY DEF AddChild, Straight, Idle
<1>3. TempBase \in Nat /\ MaxTemp \in Nat
  BY CallsAssumption DEF CallsAssumption
<1>4. /\ nextTemporaryId \in Nat /\ TempBase <= nextTemporaryId
      /\ nextTemporaryId + 1 \in TempBase..(TempBase + MaxTemp)
  BY <1>1, <1>2, <1>3
<1>5. /\ parent \in DOMAIN objects /\ parent \in Nat
      /\ raw \in Nat /\ raw = Len(objects) + 1
  BY <1>1, ObjectFields DEF Exact, FindNode
<1>6. parentId \in Nat
  <2>1. PICK S \in SUBSET Nat : index \in [S -> Nat]
    BY <1>1 DEF Table
  <2> QED BY <2>1
<1>7. o \in Object /\ o.parent = parent /\ o.children = << >> /\ o.id = nextTemporaryId
  BY <1>4, <1>5, <1>6, EmptySeq DEF Object
<1>8. mid = [objects EXCEPT ![parent] =
                 WithChildAdded(objects[parent], Append(objects[parent].children, raw))]
  BY DEF WithChildAdded
<1>9. /\ nextTemporaryId \notin DOMAIN index
      /\ GivenOnce(index', nextId, nextTemporaryId + 1)
  BY <1>1, <1>2, <1>4, TemporaryIsFree
<1> HIDE DEF o, mid, parent, raw
<1>10. mid \in Seq(Object) /\ Len(mid) = Len(objects) /\ Grows(objects, mid, parent, raw)
  <2>1. ChildEntered(objects, mid, parent, raw)
    BY <1>8 DEF ChildEntered
  <2> QED BY <1>1, <1>5, <2>1, ParentChanges
<1>11. rootList = IF parent = NoNode THEN Append(rootList, raw) ELSE rootList
  BY <1>1, <1>5, ObjectFields
<1>12. /\ objects' \in Seq(Object) /\ index' \in Table
       /\ Owned(objects', rootList) /\ Exact(objects', index')
  <2>1. PICK root : root = rootList
    OBVIOUS
  <2>2. PICK n : n = raw
    OBVIOUS
  <2>3. PICK old \in Object : old = o
    BY <1>7
  <2>4. old.parent = parent /\ old.children = << >> /\ old.id = nextTemporaryId
    BY <1>7, <2>3
  <2>5. /\ objects' \in Seq(Object) /\ Emplace(index, old.id, n) \in Table
        /\ Owned(objects', root) /\ Exact(objects', Emplace(index, old.id, n))
    <3>1. /\ objects \in Seq(Object) /\ rootList \in Seq(Nat) /\ index \in Table
          /\ Owned(objects, rootList) /\ Exact(objects, index)
      BY <1>1
    <3>2. parent \in {NoNode} \cup DOMAIN objects /\ n = Len(objects) + 1
      BY <1>5, <2>2
    <3>3. mid \in Seq(Object) /\ Len(mid) = Len(objects) /\ Grows(objects, mid, parent, n)
      BY <1>10, <2>2
    <3>4. /\ old.parent = parent /\ old.children = << >> /\ old.id \notin DOMAIN index
          /\ objects' = Append(mid, old)
      BY <1>2, <1>9, <2>3, <2>4
    <3>5. root = IF parent = NoNode THEN Append(rootList, n) ELSE rootList
      BY <1>11, <2>1, <2>2
    <3>6. PICK objs2 : objs2 = objects' /\ objs2 = Append(mid, old)
      BY <3>4
    <3>7. /\ objs2 \in Seq(Object) /\ Emplace(index, old.id, n) \in Table
          /\ Owned(objs2, root) /\ Exact(objs2, Emplace(index, old.id, n))
      <4>1. Constructs(objects, rootList, index, parent, n, mid, old, objs2, root)
        BY <3>1, <3>2, <3>3, <3>4, <3>5, <3>6 DEF Constructs
      <4> QED BY <4>1, Constructed
    <3> QED BY <3>6, <3>7
  <2> QED BY <1>2, <2>1, <2>2, <2>4, <2>5
<1>13. call' \in Frame /\ call'.at = "idle" /\ call'.assignedIds = << >>
  BY <1>2, NoCallType
<1>14. UNCHANGED <<records, nextId, rootList>>
  BY <1>2 DEF dbVars
<1>15. Typed'
  BY <1>2, <1>4, <1>12, <1>13, <1>14 DEF CallsInv, Typed, DbTypeOK
<1>16. Owned(objects, rootList)' /\ Exact(objects, index)'
  BY <1>12, <1>14
<1>17. GivenOnce(index, nextId, nextTemporaryId)'
  BY <1>2, <1>9, <1>14
<1>18. Fresh(call.assignedIds, index, nextId)'
  BY <1>13, FreshNone
<1>19. AdoptOK' /\ WalkOK' /\ CollectOK' /\ InsertOK'
  BY <1>13 DEF AdoptOK, WalkOK, CollectOK, InsertOK
<1> QED BY <1>15, <1>16, <1>17, <1>18, <1>19 DEF CallsInv


\* The ids of the roots at some positions, in the order of the positions:
\* also the order in which the objects were constructed.
IdsAt(objs, roots, found) == [i \in DOMAIN found |-> objs[roots[found[i]]].id]

LEMMA ScannedInOrder ==
    ASSUME NEW objs \in Seq(Object), NEW roots \in Seq(Nat), NEW idx,
           Owned(objs, roots), Exact(objs, idx),
           NEW positions \in SUBSET DOMAIN roots, NEW found \in Ascending(positions), NEW s,
           s = IdsAt(objs, roots, found)
    PROVE  /\ s \in Seq(Nat)
           /\ \A i \in DOMAIN s : s[i] \in DOMAIN idx
           /\ \A i, j \in DOMAIN s : i < j => idx[s[i]] < idx[s[j]]
<1>1. IsFiniteSet(positions)
  <2>1. DOMAIN roots = 1..Len(roots) /\ Len(roots) \in Nat
    OBVIOUS
  <2>2. IsFiniteSet(DOMAIN roots)
    BY <2>1, FS_Interval
  <2> QED BY <2>2, FS_Subset
<1>2. PICK n \in Nat : n = Cardinality(positions)
  BY <1>1, FS_CardinalityType
<1>3. /\ found \in [1..n -> positions]
      /\ \A i, j \in DOMAIN found : i < j => found[i] < found[j]
  BY <1>2, OrdersType DEF Ascending
<1>4. Keeps(objs, roots, NoNode)
  BY DEF Owned, VectorOf
<1>5. /\ DOMAIN s = 1..n /\ DOMAIN found = 1..n
      /\ \A i \in 1..n : s[i] = objs[roots[found[i]]].id
  BY <1>3 DEF IdsAt
<1>6. ASSUME NEW i \in 1..n
      PROVE  /\ s[i] \in Nat /\ s[i] \in DOMAIN idx /\ idx[s[i]] = roots[found[i]]
  <2>1. found[i] \in DOMAIN roots
    BY <1>3
  <2>2. roots[found[i]] \in DOMAIN objs
    BY <1>4, <2>1 DEF Keeps
  <2>3. s[i] = objs[roots[found[i]]].id
    BY <1>5
  <2>4. PICK h \in DOMAIN objs : h = roots[found[i]]
    BY <2>2
  <2>5. objs[h].id \in Nat /\ objs[h].id \in DOMAIN idx /\ idx[objs[h].id] = h
    BY ObjectFields DEF Exact
  <2> QED BY <2>3, <2>4, <2>5
<1>7. s \in Seq(Nat)
  <2>1. s = [i \in 1..n |-> s[i]]
    BY <1>5 DEF IdsAt
  <2>2. s \in [1..n -> Nat]
    BY <1>6, <2>1
  <2> QED BY <2>2
<1>8. ASSUME NEW i \in 1..n, NEW j \in 1..n, i < j
      PROVE  idx[s[i]] < idx[s[j]]
  <2>1. found[i] < found[j] /\ found[i] \in DOMAIN roots /\ found[j] \in DOMAIN roots
    BY <1>3, <1>5, <1>8
  <2>2. roots[found[i]] < roots[found[j]]
    BY <1>4, <2>1 DEF Keeps, Rising
  <2> QED BY <1>6, <2>2
<1> QED BY <1>5, <1>6, <1>7, <1>8

\* The call that adopts.
Adopting(node, parent, hasChildren, stack) ==
    [NoCall EXCEPT !.at = "adopt", !.node = node, !.parent = parent,
                   !.hasChildren = hasChildren, !.stack = stack]

LEMMA BeginsAdopting ==
    ASSUME NEW node \in Nat, NEW parent \in Nat, NEW hasChildren \in BOOLEAN,
           NEW stack \in Seq(Nat), NEW d, d = Adopting(node, parent, hasChildren, stack)
    PROVE  /\ d \in Frame /\ d.at = "adopt" /\ d.node = node /\ d.stack = stack
           /\ d.assignedIds = << >>
<1>1. NoCall \in Frame /\ NoCall.assignedIds = << >>
  BY NoCallType
<1> HIDE DEF NoCall
<1> QED BY <1>1 DEF Frame, Adopting

LEMMA LoadStep ==
    ASSUME CallsInv, NEW id \in DOMAIN records, LoadFromDatabase(id)
    PROVE  CallsInv'
<1> DEFINE snapshot == MakeSnapshot(id)
           raw      == Len(objects) + 1
           parent   == FindNode(snapshot.parentId)
           mid      == IF parent = NoNode THEN objects
                       ELSE [objects EXCEPT ![parent].children = Append(@, raw)]
           o        == [id |-> id, parentId |-> snapshot.parentId,
                        payload |-> snapshot.payload,
                        status |-> IF snapshot.deleted THEN "Deleted" ELSE "Unchanged",
                        hasUnloadedChildren |-> FALSE, parent |-> parent, children |-> << >>]
           orphans  == {i \in DOMAIN rootList : objects[rootList[i]].parentId = id}
<1>1. /\ objects \in Seq(Object) /\ rootList \in Seq(Nat) /\ index \in Table
      /\ nextId \in 1..(MaxId + 1) /\ records \in [1..(nextId - 1) -> Record]
      /\ Owned(objects, rootList) /\ Exact(objects, index)
      /\ GivenOnce(index, nextId, nextTemporaryId)
  BY DEF CallsInv, Typed, DbTypeOK
<1>2. /\ FindNode(id) = NoNode /\ UNCHANGED <<nextTemporaryId, dbVars>>
      /\ objects' = Append(mid, o)
      /\ rootList' = IF parent = NoNode THEN Append(rootList, raw) ELSE rootList
      /\ index' = Emplace(index, id, raw)
  BY DEF LoadFromDatabase
<1>3. PICK found \in Ascending(orphans) :
          call' = Adopting(raw, parent, snapshot.hasChildren, IdsAt(objects, rootList, found))
  BY DEF LoadFromDatabase, Begin, Adopting, IdsAt
<1>4. PICK s : s = IdsAt(objects, rootList, found)
  OBVIOUS
<1>5. /\ s \in Seq(Nat) /\ \A i \in DOMAIN s : s[i] \in DOMAIN index
      /\ \A i, j \in DOMAIN s : i < j => index[s[i]] < index[s[j]]
  <2>1. orphans \in SUBSET DOMAIN rootList
    OBVIOUS
  <2> HIDE DEF orphans
  <2> QED BY <1>1, <1>4, <2>1, ScannedInOrder
<1>6. id \in Nat /\ records[id] \in Record
  BY <1>1
<1>7. /\ snapshot.parentId \in Nat /\ snapshot.payload \in Payload
      /\ snapshot.deleted \in BOOLEAN /\ snapshot.hasChildren \in BOOLEAN
  BY <1>6 DEF MakeSnapshot, Record, HasChildren
<1>8. /\ parent \in {NoNode} \cup DOMAIN objects /\ parent \in Nat
      /\ raw \in Nat /\ raw = Len(objects) + 1
  <2>1. parent \in {NoNode} \cup DOMAIN objects
    BY <1>1 DEF Exact, FindNode
  <2> HIDE DEF parent
  <2>2. DOMAIN objects = 1..Len(objects) /\ Len(objects) \in Nat
    BY <1>1, ObjectFields
  <2> QED BY <2>1, <2>2 DEF NoNode
<1>9. id \notin DOMAIN index
  BY <1>1, <1>2, ObjectFields DEF FindNode, Exact
<1> HIDE DEF parent, snapshot, raw
<1>10. o \in Object /\ o.parent = parent /\ o.children = << >> /\ o.id = id
  <2>1. PICK status \in {"New", "Modified", "Deleted", "Unchanged"} :
            status = IF snapshot.deleted THEN "Deleted" ELSE "Unchanged"
    OBVIOUS
  <2> QED BY <1>6, <1>7, <1>8, <2>1, EmptySeq DEF Object
<1> HIDE DEF o
<1>11. mid \in Seq(Object) /\ Len(mid) = Len(objects) /\ Grows(objects, mid, parent, raw)
  <2>1. CASE parent = NoNode
    <3>1. mid = objects /\ parent \notin DOMAIN objects
      BY <1>1, <2>1, ObjectFields
    <3> QED BY <1>1, <3>1 DEF Grows
  <2>2. CASE parent # NoNode
    <3>1. mid = [objects EXCEPT ![parent] =
                     WithChildren(objects[parent], Append(objects[parent].children, raw))]
      BY <2>2 DEF WithChildren
    <3> HIDE DEF mid
    <3>2. ChildEntered(objects, mid, parent, raw)
      BY <3>1 DEF ChildEntered
    <3> QED BY <1>1, <1>8, <2>2, <3>2, ParentChanges
  <2> QED BY <2>1, <2>2
<1> HIDE DEF mid
<1>12. /\ objects' \in Seq(Object) /\ rootList' \in Seq(Nat) /\ index' \in Table
       /\ DOMAIN objects' = DOMAIN objects \cup {raw} /\ objects'[raw] = o
       /\ Owned(objects', rootList') /\ Exact(objects', index')
  <2>1. PICK n : n = raw
    OBVIOUS
  <2>2. PICK new \in Object : new = o
    BY <1>10
  <2>3. new.parent = parent /\ new.children = << >> /\ new.id = id
    BY <1>10, <2>2
  <2>4. PICK roots : roots = IF parent = NoNode THEN Append(rootList, raw) ELSE rootList
    OBVIOUS
  <2>5. /\ objects' \in Seq(Object) /\ roots \in Seq(Nat)
        /\ Emplace(index, new.id, n) \in Table
        /\ DOMAIN objects' = DOMAIN objects \cup {n} /\ objects'[n] = new
        /\ Owned(objects', roots) /\ Exact(objects', Emplace(index, new.id, n))
    <3>1. /\ objects \in Seq(Object) /\ rootList \in Seq(Nat) /\ index \in Table
          /\ Owned(objects, rootList) /\ Exact(objects, index)
      BY <1>1
    <3>2. parent \in {NoNode} \cup DOMAIN objects /\ n = Len(objects) + 1
      BY <1>8, <2>1
    <3>3. mid \in Seq(Object) /\ Len(mid) = Len(objects) /\ Grows(objects, mid, parent, n)
      BY <1>11, <2>1
    <3>4. /\ new.parent = parent /\ new.children = << >> /\ new.id \notin DOMAIN index
          /\ objects' = Append(mid, new)
      BY <1>2, <1>9, <2>2, <2>3
    <3>5. roots = IF parent = NoNode THEN Append(rootList, n) ELSE rootList
      BY <2>1, <2>4
    <3>6. PICK objs2 : objs2 = objects' /\ objs2 = Append(mid, new)
      BY <3>4
    <3>7. /\ objs2 \in Seq(Object) /\ roots \in Seq(Nat)
          /\ DOMAIN objs2 = DOMAIN objects \cup {n} /\ objs2[n] = new
          /\ Emplace(index, new.id, n) \in Table
          /\ Owned(objs2, roots) /\ Exact(objs2, Emplace(index, new.id, n))
      <4>1. Constructs(objects, rootList, index, parent, n, mid, new, objs2, roots)
        BY <3>1, <3>2, <3>3, <3>4, <3>5, <3>6 DEF Constructs
      <4> QED BY <4>1, Constructed
    <3> QED BY <3>6, <3>7
  <2> QED BY <1>2, <2>1, <2>2, <2>3, <2>4, <2>5
<1>13. /\ call' \in Frame /\ call'.at = "adopt" /\ call'.node = raw /\ call'.stack = s
       /\ call'.assignedIds = << >>
  BY <1>3, <1>4, <1>5, <1>7, <1>8, BeginsAdopting
<1>14. UNCHANGED <<records, nextId, nextTemporaryId>>
  BY <1>2 DEF dbVars
<1>15. Typed'
  BY <1>12, <1>13, <1>14 DEF CallsInv, Typed, DbTypeOK
<1>16. AdoptOK'
  <2>1. \A k \in DOMAIN index : k \in DOMAIN index' /\ index'[k] = index[k]
    <3>1. index' = Emplace(index, id, raw)
      BY <1>2
    <3> QED BY <3>1 DEF Emplace
  <2>2. objects'[raw].children = << >> /\ DOMAIN << >> = {}
    BY <1>10, <1>12
  <2>3. raw \in DOMAIN objects'
    BY <1>12
  <2>4. \A i \in DOMAIN s : s[i] \in DOMAIN index'
    BY <1>5, <2>1
  <2>5. \A i, j \in DOMAIN s : i < j => index'[s[i]] < index'[s[j]]
    BY <1>5, <2>1
  <2> QED BY <1>13, <2>2, <2>3, <2>4, <2>5 DEF AdoptOK
<1>17. WalkOK' /\ CollectOK' /\ InsertOK'
  BY <1>13 DEF WalkOK, CollectOK, InsertOK
<1>18. GivenOnce(index', nextId', nextTemporaryId')
  <2>1. \A k \in DOMAIN index' : k \in DOMAIN index \/ k = id
    BY <1>2 DEF Emplace
  <2>2. id \in 1..(nextId - 1)
    BY <1>1
  <2> QED BY <1>1, <1>14, <2>1, <2>2 DEF GivenOnce
<1>19. Fresh(call'.assignedIds, index', nextId')
  BY <1>13, FreshNone
<1> QED BY <1>12, <1>15, <1>16, <1>17, <1>18, <1>19 DEF CallsInv


-----------------------------------------------------------------------------
(***************************************************************************)
(* detachRoot and attachChild.                                             *)
(***************************************************************************)
\* What a loop has left after its first element.
LEMMA RestOf ==
    ASSUME NEW S, NEW s \in Seq(S), s # << >>
    PROVE  /\ Tail(s) \in Seq(S) /\ 1 \in DOMAIN s /\ Head(s) = s[1] /\ Head(s) \in S
           /\ \A i \in DOMAIN Tail(s) :
                 i \in Int /\ i + 1 \in DOMAIN s /\ 1 < i + 1 /\ Tail(s)[i] = s[i + 1]
           /\ \A i, j \in DOMAIN Tail(s) : (i < j => i + 1 < j + 1) /\ (i # j => i + 1 # j + 1)
<1>1. /\ Tail(s) \in Seq(S) /\ Head(s) \in S /\ Len(s) \in Nat \ {0}
      /\ Head(s) = s[1] /\ DOMAIN s = 1..Len(s) /\ DOMAIN Tail(s) = 1..(Len(s) - 1)
      /\ \A i \in 1..(Len(s) - 1) : Tail(s)[i] = s[i + 1]
  <2>1. Len(s) \in Nat /\ Len(s) # 0
    BY EmptySeq
  <2>2. Len(Tail(s)) = Len(s) - 1
    BY HeadTailProperties
  <2> QED BY <2>1, <2>2, HeadTailProperties
<1> QED BY <1>1

\* The object that is attached gets its parent.
WithParent(o, parent) == [o EXCEPT !.parent = parent]

LEMMA ParentSet ==
    ASSUME NEW o \in Object, NEW parent \in Nat, NEW o2, o2 = WithParent(o, parent)
    PROVE  o2 \in Object /\ o2.id = o.id /\ o2.parent = parent /\ o2.children = o.children
BY DEF Object, WithParent

Attaches(objs, mid, objs2, n, child) ==
    /\ objs \in Seq(Object) /\ n \in DOMAIN objs /\ child \in DOMAIN objs
    /\ ChildEntered(objs, mid, n, child)
    /\ objs2 = [mid EXCEPT ![child] = WithParent(mid[child], n)]

LEMMA Attached ==
    ASSUME NEW objs, NEW mid, NEW objs2, NEW n, NEW child, Attaches(objs, mid, objs2, n, child)
    PROVE  /\ objs2 \in Seq(Object) /\ Len(objs2) = Len(objs)
           /\ Moves(objs, objs2, n, child)
<1> USE DEF Attaches
<1>1. n \in Nat /\ child \in Nat
  BY ObjectFields
<1>2. mid \in Seq(Object) /\ Len(mid) = Len(objs) /\ Grows(objs, mid, n, child)
  BY <1>1, ParentChanges
<1>3. DOMAIN mid = DOMAIN objs
  BY <1>2, ObjectFields
<1>4. PICK was \in Object : was = mid[child]
  BY <1>2, <1>3, ObjectFields
<1>5. PICK o : o = WithParent(was, n)
  OBVIOUS
<1>6. o \in Object /\ o.id = was.id /\ o.parent = n /\ o.children = was.children
  BY <1>1, <1>5, ParentSet
<1>7. /\ objs2 \in Seq(Object) /\ Len(objs2) = Len(mid) /\ DOMAIN objs2 = DOMAIN mid
      /\ \A g \in DOMAIN mid : objs2[g] = IF g = child THEN o ELSE mid[g]
  <2>1. objs2 = [mid EXCEPT ![child] = o]
    BY <1>4, <1>5
  <2> QED BY <1>2, <1>3, <1>6, <2>1, OneReplaced
<1>8. ASSUME NEW h \in DOMAIN objs
      PROVE  /\ objs2[h].id = objs[h].id
             /\ objs2[h].parent = IF h = child THEN n ELSE objs[h].parent
             /\ objs2[h].children = IF h = n THEN Append(objs[h].children, child)
                                    ELSE objs[h].children
  <2>1. /\ mid[h].id = objs[h].id /\ mid[h].parent = objs[h].parent
        /\ mid[h].children = IF h = n THEN Append(objs[h].children, child)
                             ELSE objs[h].children
    BY <1>2 DEF Grows
  <2>2. objs2[h] = IF h = child THEN o ELSE mid[h]
    BY <1>3, <1>7
  <2> QED BY <1>4, <1>6, <2>1, <2>2
<1> QED BY <1>2, <1>7, <1>8 DEF Moves

LEMMA AdoptStep ==
    ASSUME CallsInv, AdoptOrphan
    PROVE  CallsInv'
<1> DEFINE x     == Head(call.stack)
           hits  == {i \in DOMAIN rootList : objects[rootList[i]].id = x}
           place == CHOOSE i \in hits : \A j \in hits : i <= j
           child == rootList[place]
           n     == call.node
<1>1. /\ objects \in Seq(Object) /\ rootList \in Seq(Nat) /\ call \in Frame
      /\ Owned(objects, rootList) /\ Exact(objects, index)
      /\ call.at = "adopt" /\ call.stack # << >>
      /\ call' = [call EXCEPT !.stack = Tail(call.stack)]
      /\ UNCHANGED <<index, nextTemporaryId, dbVars>>
  BY DEF AdoptOrphan, CallsInv, Typed
<1>2. call.stack \in Seq(Nat)
  BY <1>1 DEF Frame
<1>3. PICK stack, rest : stack \in Seq(Nat) /\ stack = call.stack /\ rest = Tail(call.stack)
  BY <1>2
<1>4. /\ rest \in Seq(Nat) /\ 1 \in DOMAIN stack /\ x = stack[1]
      /\ \A i \in DOMAIN rest :
            i \in Int /\ i + 1 \in DOMAIN stack /\ 1 < i + 1 /\ rest[i] = stack[i + 1]
      /\ \A i, j \in DOMAIN rest : i < j => i + 1 < j + 1
  BY <1>1, <1>3, RestOf
<1>5. /\ n \in DOMAIN objects
      /\ \A i \in DOMAIN stack :
            /\ stack[i] \in DOMAIN index
            /\ \A k \in DOMAIN objects[n].children :
                  objects[n].children[k] < index[stack[i]]
      /\ \A i, j \in DOMAIN stack : i < j => index[stack[i]] < index[stack[j]]
  BY <1>1, <1>3 DEF CallsInv, AdoptOK
<1>6. /\ call' \in Frame /\ call'.at = "adopt" /\ call'.node = n /\ call'.stack = rest
      /\ call'.assignedIds = call.assignedIds
  <2>1. call' = [call EXCEPT !.stack = rest]
    BY <1>1, <1>3
  <2>2. call \in Frame /\ rest \in Seq(Nat) /\ call.at = "adopt" /\ n = call.node
    BY <1>1, <1>4
  <2> HIDE DEF n
  <2> QED BY <2>1, <2>2, StackChanges
<1>7. \A i, j \in DOMAIN rest : i < j => index[rest[i]] < index[rest[j]]
  BY <1>4, <1>5
<1>8. WalkOK' /\ CollectOK' /\ InsertOK'
  BY <1>6 DEF WalkOK, CollectOK, InsertOK
<1>9. CASE UNCHANGED <<objects, rootList>>
  <2>1. UNCHANGED <<cacheVars, dbVars>>
    BY <1>1, <1>9 DEF cacheVars
  <2>2. \A i \in DOMAIN rest :
            /\ rest[i] \in DOMAIN index
            /\ \A k \in DOMAIN objects[n].children : objects[n].children[k] < index[rest[i]]
    BY <1>4, <1>5
  <2>3. AdoptOK'
    BY <1>1, <1>5, <1>6, <1>7, <1>9, <2>2 DEF AdoptOK
  <2> QED BY <1>6, <1>8, <2>1, <2>3, CallOnly
<1>10. CASE /\ hits # {}
            /\ rootList' = Seqs!RemoveAt(rootList, place)
            /\ objects' = [objects EXCEPT ![n].children = Append(@, child), ![child].parent = n]
  <2>1. Keeps(objects, rootList, NoNode) /\ Rising(rootList)
    BY <1>1 DEF Owned, VectorOf, Keeps
  <2>2. ASSUME NEW i \in hits
        PROVE  i \in DOMAIN rootList /\ rootList[i] = index[x] /\ rootList[i] \in DOMAIN objects
    <3>1. i \in DOMAIN rootList /\ objects[rootList[i]].id = x
      OBVIOUS
    <3>2. rootList[i] \in DOMAIN objects
      BY <2>1, <3>1 DEF Keeps
    <3>3. PICK h \in DOMAIN objects : h = rootList[i]
      BY <3>2
    <3>4. index[objects[h].id] = h
      BY <1>1 DEF Exact
    <3> QED BY <3>1, <3>3, <3>4
  <2>3. ASSUME NEW i \in hits, NEW j \in hits
        PROVE  i = j
    <3>1. /\ i \in DOMAIN rootList /\ j \in DOMAIN rootList
          /\ rootList[i] = rootList[j]
      BY <2>2
    <3> QED BY <1>1, <2>1, <3>1, RisingDistinct
  <2>4. place \in hits
    <3>1. PICK i \in hits : TRUE
      BY <1>10
    <3>2. i <= i
      <4>1. i \in DOMAIN rootList
        OBVIOUS
      <4>2. i \in Int
        BY <1>1, <4>1
      <4> QED BY <4>2
    <3>3. \A j \in hits : i <= j
      BY <2>3, <3>2
    <3> HIDE DEF hits
    <3> QED BY <3>1, <3>3
  <2>5. /\ place \in DOMAIN rootList /\ child = rootList[place] /\ child = index[x]
        /\ child \in DOMAIN objects
    BY <2>2, <2>4
  <2> HIDE DEF place, x, hits
  <2>6. PICK mid : mid = [objects EXCEPT ![n] =
                              WithChildren(objects[n], Append(objects[n].children, child))]
    OBVIOUS
  <2>7. objects' = [mid EXCEPT ![child] = WithParent(mid[child], n)]
    BY <1>10, <2>6 DEF WithChildren, WithParent
  <2> HIDE DEF child, n
  <2>8. /\ objects' \in Seq(Object) /\ Len(objects') = Len(objects)
        /\ DOMAIN objects' = DOMAIN objects /\ Moves(objects, objects', n, child)
    <3>1. ChildEntered(objects, mid, n, child)
      BY <2>6 DEF ChildEntered
    <3>2. PICK objs2 : objs2 = objects'
      OBVIOUS
    <3>3. objs2 = [mid EXCEPT ![child] = WithParent(mid[child], n)]
      BY <2>7, <3>2
    <3>4. /\ objs2 \in Seq(Object) /\ Len(objs2) = Len(objects)
          /\ Moves(objects, objs2, n, child)
      <4>1. objects \in Seq(Object) /\ n \in DOMAIN objects /\ child \in DOMAIN objects
        BY <1>1, <1>5, <2>5
      <4>2. Attaches(objects, mid, objs2, n, child)
        BY <3>1, <3>3, <4>1 DEF Attaches
      <4> QED BY <4>2, Attached
    <3>5. DOMAIN objs2 = DOMAIN objects
      BY <1>1, <3>4, ObjectFields
    <3> QED BY <3>2, <3>4, <3>5
  <2>9. \A k \in DOMAIN objects[n].children : objects[n].children[k] < child
    BY <1>4, <1>5, <2>5
  <2>10. Owned(objects', rootList')
    <3>1. PICK objs2 \in Seq(Object) : objs2 = objects'
      BY <2>8
    <3>2. Len(objs2) = Len(objects) /\ Moves(objects, objs2, n, child)
      BY <2>8, <3>1
    <3>3. Owned(objs2, Seqs!RemoveAt(rootList, place))
      BY <1>1, <1>5, <2>5, <2>9, <3>2, MoveOwned
    <3> QED BY <1>10, <3>1, <3>3
  <2>11. rootList' \in Seq(Nat)
    <3>1. place \in 1..Len(rootList)
      BY <1>1, <2>5
    <3> QED BY <1>1, <1>10, <3>1, RemoveAtElements
  <2>12. Exact(objects', index')
    BY <1>1, <2>8 DEF Exact, Moves
  <2>13. UNCHANGED <<index, nextTemporaryId, records, nextId>>
    BY <1>1 DEF dbVars
  <2>14. Typed'
    BY <1>6, <2>8, <2>11, <2>13 DEF CallsInv, Typed, DbTypeOK
  <2>15. GivenOnce(index, nextId, nextTemporaryId)' /\ Fresh(call.assignedIds, index, nextId)'
    BY <1>6, <2>13 DEF CallsInv
  <2>16. ASSUME NEW i \in DOMAIN rest
         PROVE  /\ rest[i] \in DOMAIN index
                /\ \A k \in DOMAIN objects'[n].children :
                      objects'[n].children[k] < index[rest[i]]
    <3>1. /\ rest[i] \in DOMAIN index
          /\ \A k \in DOMAIN objects[n].children : objects[n].children[k] < index[rest[i]]
          /\ child < index[rest[i]]
      BY <1>4, <1>5, <2>5
    <3>2. PICK old \in Seq(Nat) : old = objects[n].children
      BY <1>1, <1>5, ObjectFields
    <3>3. PICK new : new = objects'[n].children /\ new = Append(old, child)
      BY <1>5, <2>8, <3>2 DEF Moves
    <3>4. child \in Nat
      BY <1>1, <2>5, ObjectFields
    <3>5. \A k \in DOMAIN new : (k \in DOMAIN old /\ new[k] = old[k]) \/ new[k] = child
      BY <3>3, <3>4
    <3>6. \A k \in DOMAIN new : new[k] < index[rest[i]]
      BY <3>1, <3>2, <3>5
    <3> QED BY <3>1, <3>3, <3>6
  <2>17. AdoptOK'
    BY <1>1, <1>5, <1>6, <1>7, <2>8, <2>16 DEF AdoptOK
  <2> QED BY <1>8, <2>10, <2>12, <2>14, <2>15, <2>17 DEF CallsInv
<1>11. IF hits = {} THEN UNCHANGED <<objects, rootList>>
       ELSE /\ rootList' = Seqs!RemoveAt(rootList, place)
            /\ objects' = [objects EXCEPT ![n].children = Append(@, child),
                                          ![child].parent = n]
  BY DEF AdoptOrphan
<1> QED BY <1>9, <1>10, <1>11


-----------------------------------------------------------------------------
(***************************************************************************)
(* reassignId.                                                             *)
(***************************************************************************)
Assignment == [temporaryId : Nat, persistentId : Nat]

\* The assignments that are left, when one has been entered.
LEMMA FreshRest ==
    ASSUME NEW idx, NEW idx2, NEW next, NEW assigned \in Seq(Assignment), assigned # << >>,
           Fresh(assigned, idx, next),
           DOMAIN idx2 \subseteq DOMAIN idx \cup {Head(assigned).persistentId}
    PROVE  /\ Fresh(Tail(assigned), idx2, next)
           /\ Head(assigned).persistentId \in 1..(next - 1)
           /\ Head(assigned).persistentId \notin DOMAIN idx
<1>1. PICK rest : rest = Tail(assigned)
  OBVIOUS
<1>2. /\ 1 \in DOMAIN assigned /\ Head(assigned) = assigned[1]
      /\ \A i \in DOMAIN rest : i \in Int /\ i + 1 \in DOMAIN assigned /\ 1 < i + 1
                               /\ rest[i] = assigned[i + 1]
      /\ \A i, j \in DOMAIN rest : i # j => i + 1 # j + 1
  BY <1>1, RestOf
<1>3. /\ assigned[1].persistentId \in 1..(next - 1)
      /\ assigned[1].persistentId \notin DOMAIN idx
  BY <1>2 DEF Fresh
<1>4. ASSUME NEW i \in DOMAIN rest
      PROVE  /\ rest[i].persistentId \in 1..(next - 1)
             /\ rest[i].persistentId \notin DOMAIN idx2
  <2>1. i + 1 \in DOMAIN assigned /\ i + 1 # 1 /\ rest[i] = assigned[i + 1]
    BY <1>2
  <2>2. /\ assigned[i + 1].persistentId \in 1..(next - 1)
        /\ assigned[i + 1].persistentId \notin DOMAIN idx
        /\ assigned[i + 1].persistentId # assigned[1].persistentId
    BY <1>2, <2>1 DEF Fresh
  <2> QED BY <1>2, <2>1, <2>2
<1>5. ASSUME NEW i \in DOMAIN rest, NEW j \in DOMAIN rest, i # j
      PROVE  rest[i].persistentId # rest[j].persistentId
  <2>1. /\ i + 1 \in DOMAIN assigned /\ j + 1 \in DOMAIN assigned /\ i + 1 # j + 1
        /\ rest[i] = assigned[i + 1] /\ rest[j] = assigned[j + 1]
    BY <1>2, <1>5
  <2> QED BY <2>1 DEF Fresh
<1> QED BY <1>1, <1>2, <1>3, <1>4, <1>5 DEF Fresh

\* One object gets another id.
Renamed(objs, objs2, h, id) ==
    \A g \in DOMAIN objs : /\ objs2[g].id = IF g = h THEN id ELSE objs[g].id
                           /\ objs2[g].parent = objs[g].parent
                           /\ objs2[g].children = objs[g].children

LEMMA IdChanges ==
    ASSUME NEW objs \in Seq(Object), NEW h \in DOMAIN objs, NEW id \in Nat, NEW o,
           o = [objs[h] EXCEPT !.id = id], NEW objs2, objs2 = [objs EXCEPT ![h] = o]
    PROVE  /\ objs2 \in Seq(Object) /\ DOMAIN objs2 = DOMAIN objs
           /\ Renamed(objs, objs2, h, id)
<1>1. objs[h] \in Object
  BY ObjectFields
<1>2. /\ o \in Object /\ o.id = id /\ o.parent = objs[h].parent
      /\ o.children = objs[h].children
  BY <1>1 DEF Object
<1>3. /\ objs2 \in Seq(Object) /\ Len(objs2) = Len(objs) /\ DOMAIN objs2 = DOMAIN objs
      /\ \A g \in DOMAIN objs : objs2[g] = IF g = h THEN o ELSE objs[g]
  BY <1>2, OneReplaced
<1> QED BY <1>2, <1>3 DEF Renamed

\* The call after an assignment.
LEMMA AssignedShrinks ==
    ASSUME NEW c \in Frame, NEW d, NEW assigned \in Seq(Assignment),
           d = [c EXCEPT !.assignedIds = assigned]
    PROVE  d \in Frame /\ d.at = c.at /\ d.assignedIds = assigned
BY DEF Frame, Assignment

LEMMA ReassignStep ==
    ASSUME CallsInv, ReassignId
    PROVE  CallsInv'
<1> DEFINE first == Head(call.assignedIds)
           old   == first.temporaryId
           new   == first.persistentId
           node  == FindNode(old)
<1>1. /\ objects \in Seq(Object) /\ rootList \in Seq(Nat) /\ index \in Table
      /\ call \in Frame /\ Owned(objects, rootList) /\ Exact(objects, index)
      /\ GivenOnce(index, nextId, nextTemporaryId)
      /\ Fresh(call.assignedIds, index, nextId)
      /\ call.at = "reassign" /\ call.assignedIds # << >>
      /\ call' = [call EXCEPT !.assignedIds = Tail(call.assignedIds)]
      /\ UNCHANGED <<rootList, nextTemporaryId, dbVars>>
  BY DEF ReassignId, CallsInv, Typed
<1>2. call.assignedIds \in Seq(Assignment)
  BY <1>1 DEF Frame, Assignment
<1>3. first \in Assignment /\ Tail(call.assignedIds) \in Seq(Assignment)
  BY <1>1, <1>2, HeadTailProperties
<1>4. old \in Nat /\ new \in Nat
  BY <1>3 DEF Assignment
<1>5. call' \in Frame /\ call'.at = "reassign" /\ call'.assignedIds = Tail(call.assignedIds)
  BY <1>1, <1>3, AssignedShrinks
<1>6. AdoptOK' /\ WalkOK' /\ CollectOK' /\ InsertOK'
  BY <1>5 DEF AdoptOK, WalkOK, CollectOK, InsertOK
<1>7. UNCHANGED <<rootList, nextTemporaryId, records, nextId>>
  BY <1>1 DEF dbVars
<1>8. new \in 1..(nextId - 1) /\ new \notin DOMAIN index
  <2>1. DOMAIN index \subseteq DOMAIN index \cup {Head(call.assignedIds).persistentId}
    OBVIOUS
  <2> QED BY <1>1, <1>2, <2>1, FreshRest
<1>9. ASSUME objects' \in Seq(Object), index' \in Table, Owned(objects', rootList),
             Exact(objects', index'), DOMAIN index' \subseteq DOMAIN index \cup {new}
      PROVE  CallsInv'
  <2>1. Typed'
    BY <1>5, <1>7, <1>9 DEF CallsInv, Typed, DbTypeOK
  <2>2. GivenOnce(index', nextId, nextTemporaryId)
    BY <1>1, <1>8, <1>9 DEF GivenOnce
  <2>3. Fresh(Tail(call.assignedIds), index', nextId)
    <3>1. PICK assigned \in Seq(Assignment) : assigned = call.assignedIds
      BY <1>2
    <3>2. PICK idx2 : idx2 = index'
      OBVIOUS
    <3>3. Fresh(Tail(assigned), idx2, nextId)
      BY <1>1, <1>9, <3>1, <3>2, FreshRest
    <3> QED BY <3>1, <3>2, <3>3
  <2>4. Fresh(call.assignedIds, index, nextId)'
    BY <1>5, <1>7, <2>3
  <2>5. GivenOnce(index, nextId, nextTemporaryId)' /\ Owned(objects, rootList)'
    BY <1>7, <1>9, <2>2
  <2> QED BY <1>6, <1>9, <2>1, <2>4, <2>5 DEF CallsInv
<1>10. CASE UNCHANGED <<objects, index>>
  BY <1>1, <1>9, <1>10
<1>11. CASE /\ node # NoNode
            /\ objects' = [objects EXCEPT ![node].id = new]
            /\ index' = Emplace([id \in DOMAIN index \ {old} |-> index[id]], new, node)
  <2>1. old \in DOMAIN index /\ node = index[old] /\ node \in DOMAIN objects
    BY <1>1, <1>11 DEF FindNode, Exact
  <2>2. node \in Nat
    BY <1>1, <2>1, ObjectFields
  <2> HIDE DEF node, new, old
  <2>3. /\ objects' \in Seq(Object) /\ DOMAIN objects' = DOMAIN objects
        /\ Renamed(objects, objects', node, new)
    <3>1. PICK o : o = [objects[node] EXCEPT !.id = new]
      OBVIOUS
    <3>2. PICK objs2 : objs2 = objects' /\ objs2 = [objects EXCEPT ![node] = o]
      BY <1>11, <3>1
    <3>3. new \in Nat
      BY <1>4
    <3>4. objects \in Seq(Object) /\ node \in DOMAIN objects
      BY <1>1, <2>1
    <3>5. objs2 = [objects EXCEPT ![node] = o]
      BY <3>2
    <3>6. /\ objs2 \in Seq(Object) /\ DOMAIN objs2 = DOMAIN objects
          /\ Renamed(objects, objs2, node, new)
      BY <3>1, <3>3, <3>4, <3>5, IdChanges
    <3> QED BY <3>2, <3>6
  <2>4. Owned(objects', rootList)
    BY <1>1, <2>3, SameOwners DEF Renamed
  <2>5. Exact(objects', index')
    <3>1. \A h \in DOMAIN objects :
              objects'[h].id = IF h = index[old] THEN new ELSE objects[h].id
      BY <2>1, <2>3 DEF Renamed
    <3>2. Exact(objects', Emplace([k \in DOMAIN index \ {old} |-> index[k]], new, index[old]))
      BY <1>1, <1>8, <2>1, <2>3, <3>1, RenameExact
    <3> QED BY <1>11, <2>1, <3>2
  <2>6. PICK rest : rest = [id \in DOMAIN index \ {old} |-> index[id]]
    OBVIOUS
  <2>7. rest \in Table /\ DOMAIN rest \subseteq DOMAIN index
    <3>1. PICK S \in SUBSET Nat : index \in [S -> Nat]
      BY <1>1 DEF Table
    <3>2. S \ {old} \in SUBSET Nat /\ rest \in [S \ {old} -> Nat]
      BY <2>6, <3>1
    <3> QED BY <3>1, <3>2 DEF Table
  <2>8. index' \in Table
    BY <1>4, <1>11, <2>2, <2>6, <2>7, EmplaceType
  <2>9. DOMAIN index' \subseteq DOMAIN index \cup {new}
    BY <1>11, <2>6, <2>7 DEF Emplace
  <2> QED BY <1>9, <2>3, <2>4, <2>5, <2>8, <2>9
<1> QED BY <1>10, <1>11 DEF ReassignId

-----------------------------------------------------------------------------
(***************************************************************************)
(* A cache that is empty.                                                  *)
(***************************************************************************)
LEMMA EmptyCache ==
    /\ << >> \in Seq(Object) /\ << >> \in Seq(Nat) /\ << >> \in Table
    /\ Owned(<< >>, << >>)
    /\ Exact(<< >>, << >>)
    /\ \A next, tid : GivenOnce(<< >>, next, tid)
<1>1. DOMAIN << >> = {}
  OBVIOUS
<1>2. << >> \in Table
  <2>1. << >> \in [{} -> Nat] /\ {} \in SUBSET Nat
    OBVIOUS
  <2> QED BY <2>1 DEF Table
<1>3. Owned(<< >>, << >>)
  BY <1>1 DEF Owned, Keeps, VectorOf, Rising
<1>4. Exact(<< >>, << >>) /\ \A next, tid : GivenOnce(<< >>, next, tid)
  BY <1>1 DEF Exact, GivenOnce
<1> QED BY <1>2, <1>3, <1>4, EmptySeq

LEMMA SeedBegins ==
    ASSUME NEW d, d = [NoCall EXCEPT !.at = "seed"]
    PROVE  d \in Frame /\ d.at = "seed" /\ d.assignedIds = << >>
<1>1. NoCall \in Frame /\ NoCall.assignedIds = << >>
  BY NoCallType
<1> HIDE DEF NoCall
<1> QED BY <1>1 DEF Frame

LEMMA ResetStep ==
    ASSUME CallsInv, Reset
    PROVE  CallsInv'
<1>1. /\ objects' = << >> /\ rootList' = << >> /\ index' = << >>
      /\ nextTemporaryId' = TempBase /\ records' = << >> /\ nextId' = 1
  BY DEF Reset
<1>2. call' \in Frame /\ call'.at = "seed" /\ call'.assignedIds = << >>
  BY SeedBegins DEF Reset, Begin
<1>3. AdoptOK' /\ WalkOK' /\ CollectOK' /\ InsertOK'
  BY <1>2 DEF AdoptOK, WalkOK, CollectOK, InsertOK
<1>4. DbTypeOK'
  <2>1. << >> \in [1..(1 - 1) -> Record]
    OBVIOUS
  <2>2. 1 \in 1..(MaxId + 1)
    BY DatabaseAssumption DEF DatabaseAssumption
  <2> QED BY <1>1, <2>1, <2>2 DEF DbTypeOK
<1>5. TempBase \in TempBase..(TempBase + MaxTemp)
  BY CallsAssumption DEF CallsAssumption
<1>6. Typed'
  BY <1>1, <1>2, <1>4, <1>5, EmptyCache DEF Typed
<1>7. /\ Owned(objects, rootList)' /\ Exact(objects, index)'
      /\ GivenOnce(index, nextId, nextTemporaryId)'
  BY <1>1, EmptyCache
<1>8. Fresh(call.assignedIds, index, nextId)'
  BY <1>2, FreshNone
<1> QED BY <1>3, <1>6, <1>7, <1>8 DEF CallsInv

-----------------------------------------------------------------------------
(***************************************************************************)
(* The invariant.                                                          *)
(***************************************************************************)
LEMMA CallsInit ==
    ASSUME Init
    PROVE  CallsInv
<1>1. /\ objects = << >> /\ rootList = << >> /\ index = << >>
      /\ nextTemporaryId = TempBase /\ call = NoCall /\ DbInit
  BY DEF Init
<1>2. call \in Frame /\ call.at = "idle" /\ call.assignedIds = << >>
  BY <1>1, NoCallType
<1>3. AdoptOK /\ WalkOK /\ CollectOK /\ InsertOK
  BY <1>2 DEF AdoptOK, WalkOK, CollectOK, InsertOK
<1>4. DbTypeOK
  <2>1. /\ SeedRows \in Seq([parentId : Nat, payload : Payload])
        /\ MaxId \in Nat /\ Len(SeedRows) <= MaxId /\ Len(SeedRows) \in Nat
    BY DatabaseAssumption DEF DatabaseAssumption
  <2>2. \A id \in 1..Len(SeedRows) :
            SeedRows[id].parentId \in Nat /\ SeedRows[id].payload \in Payload
    <3>1. \A id \in 1..Len(SeedRows) : SeedRows[id] \in [parentId : Nat, payload : Payload]
      BY <2>1, ElementOfSeq
    <3> QED BY <3>1
  <2>3. SeedTestData \in [1..Len(SeedRows) -> Record]
    BY <2>2 DEF SeedTestData, Record
  <2>4. (Len(SeedRows) + 1) - 1 = Len(SeedRows) /\ Len(SeedRows) + 1 \in 1..(MaxId + 1)
    BY <2>1
  <2> QED BY <1>1, <2>3, <2>4 DEF DbInit, DbTypeOK
<1>5. TempBase \in TempBase..(TempBase + MaxTemp)
  BY CallsAssumption DEF CallsAssumption
<1>6. Typed
  BY <1>1, <1>2, <1>4, <1>5, EmptyCache DEF Typed
<1> QED BY <1>1, <1>2, <1>3, <1>6, EmptyCache, FreshNone DEF CallsInv

LEMMA CallsIdle ==
    ASSUME CallsInv, UNCHANGED callVars
    PROVE  CallsInv'
BY DEF callVars, cacheVars, dbVars, CallsInv, Typed, DbTypeOK, AdoptOK, WalkOK, CollectOK, InsertOK

LEMMA CallsNext ==
    ASSUME CallsInv, [Next]_callVars
    PROVE  CallsInv'
<1>1. CASE \E id \in DOMAIN records : LoadFromDatabase(id)
  BY <1>1, LoadStep
<1>2. CASE \E id \in DOMAIN index, payload \in Payload : AddChild(id, payload)
  BY <1>2, AddStep
<1>3. CASE \E id \in DOMAIN index, payload \in Payload : EditPayload(id, payload)
  BY <1>3, EditStep
<1>4. CASE \E id \in DOMAIN index : Remove(id)
  BY <1>4, RemoveStep
<1>5. CASE Apply
  BY <1>5, ApplyStep
<1>6. CASE Reset
  BY <1>6, ResetStep
<1>7. CASE AdoptOrphan
  BY <1>7, AdoptStep
<1>8. CASE FinishLoading
  BY <1>8, FinishLoadingStep
<1>9. CASE MarkDeleted
  BY <1>9, MarkDeletedStep
<1>10. CASE CollectChanges
  BY <1>10, CollectStep
<1>11. CASE InsertCreated
  BY <1>11, InsertStep
<1>12. CASE ModifyRecord
  BY <1>12, ModifyStep
<1>13. CASE DeleteNext
  BY <1>13, DeleteNextStep
<1>14. CASE MarkRecord
  BY <1>14, MarkRecordStep
<1>15. CASE ReassignId
  BY <1>15, ReassignStep
<1>16. CASE MarkSynced
  BY <1>16, MarkSyncedStep
<1>17. CASE Proceed
  BY <1>17, ProceedStep
<1>18. CASE SeedRecord
  BY <1>18, SeedStep
<1>19. CASE Finish
  BY <1>19, FinishStep
<1>20. CASE UNCHANGED callVars
  BY <1>20, CallsIdle
<1> QED BY <1>1, <1>2, <1>3, <1>4, <1>5, <1>6, <1>7, <1>8, <1>9, <1>10, <1>11, <1>12, <1>13,
           <1>14, <1>15, <1>16, <1>17, <1>18, <1>19, <1>20 DEF Next, Call, Step

\* At every step of every call the vectors, the stack of the walk, the lists
\* of the change set and the ids still to assign fit together.
THEOREM CallsStayConsistent == Spec => []CallsInv
<1>1. Init => CallsInv
  BY CallsInit
<1>2. CallsInv /\ [Next]_callVars => CallsInv'
  BY CallsNext
<1> QED BY <1>1, <1>2, PTL DEF Spec

\* Each live object is in exactly one of the vectors children_ and roots_,
\* the one of its parent_, and each vector is in the order of construction:
\* also while CacheService moves orphans from one vector to another.
THEOREM EachObjectOwnedOnce == Spec => []OwnedOnce
<1>1. CallsInv => OwnedOnce
  <2> SUFFICES ASSUME CallsInv
               PROVE  OwnedOnce
    OBVIOUS
  <2>1. ASSUME NEW h \in {NoNode} \cup DOMAIN objects
        PROVE  LET vector == IF h = NoNode THEN rootList ELSE objects[h].children
               IN  /\ Seqs!ToSet(vector) = {c \in DOMAIN objects : objects[c].parent = h}
                   /\ \A i, j \in DOMAIN vector : i < j => vector[i] < vector[j]
    <3>1. PICK vector : vector = IF h = NoNode THEN rootList ELSE objects[h].children
      OBVIOUS
    <3>2. Keeps(objects, vector, h)
      BY <3>1 DEF CallsInv, Owned, VectorOf
    <3>3. Seqs!ToSet(vector) = {c \in DOMAIN objects : objects[c].parent = h}
      BY <3>2 DEF Keeps, Seqs!ToSet
    <3> QED BY <3>1, <3>2, <3>3 DEF Keeps, Rising
  <2> QED BY <2>1 DEF OwnedOnce
<1> QED BY <1>1, CallsStayConsistent, PTL

\* index_ leads every id to the object that bears it, and every object is
\* found under its id: also between two assignments of reconcileIds.
THEOREM IndexStaysExact == Spec => []IndexNeverDangles
<1>1. CallsInv => IndexNeverDangles
  BY DEF CallsInv, Exact, IndexNeverDangles, FindNode
<1> QED BY <1>1, CallsStayConsistent, PTL

=============================================================================
