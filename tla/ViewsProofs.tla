----------------------------- MODULE ViewsProofs ------------------------------
(***************************************************************************)
(* The recursions of the code compute what the specification says of them: *)
(* the rows of both views, the search for a row, the two markings and the  *)
(* walk of a synchronisation.  Each recursive definition is first shown to *)
(* have a solution, built from the leaves upwards; what it computes then   *)
(* follows node by node.                                                   *)
(***************************************************************************)
EXTENDS Views, ApplyProofs

-----------------------------------------------------------------------------
(***************************************************************************)
(* The item model over any tree of rows.                                   *)
(***************************************************************************)
\* A bounded set of numbers has a greatest element.
LEMMA GreatestElement ==
    ASSUME NEW T \in SUBSET Nat, T # {}, NEW bound \in Nat, \A k \in T : k <= bound
    PROVE  \E m \in T : \A k \in T : k <= m
<1>1. PICK U : U = {bound - k : k \in T}
  OBVIOUS
<1>2. U \in SUBSET Nat /\ U # {}
  <2>1. \A k \in T : bound - k \in Nat
    OBVIOUS
  <2> QED BY <1>1, <2>1
<1>3. PICK u \in U : \A v \in U : u <= v
  BY <1>2, LeastElement
<1>4. PICK m \in T : u = bound - m
  BY <1>1
<1>5. ASSUME NEW k \in T
      PROVE  k <= m
  <2>1. u <= bound - k
    BY <1>1, <1>3
  <2>2. m \in Nat /\ k \in Nat
    OBVIOUS
  <2> QED BY <1>4, <2>1, <2>2
<1> QED BY <1>5

\* The rows are those of a tree, and the ids grow downwards in it.
RowsOf(provider, vector, p) ==
    /\ vector \in Seq(DOMAIN provider.id)
    /\ \A i \in DOMAIN vector : provider.parent[vector[i]] = p
    /\ \A i, j \in DOMAIN vector : vector[i] = vector[j] => i = j

IdsGrow(provider) ==
    /\ \A h \in DOMAIN provider.id :
          /\ provider.id[h] \in Nat
          /\ provider.parent[h] \in DOMAIN provider.id =>
                provider.id[provider.parent[h]] < provider.id[h]
    /\ \E bound \in Nat : \A h \in DOMAIN provider.id : provider.id[h] <= bound

TreeOfRows(provider) ==
    /\ NoHandle \notin DOMAIN provider.id
    /\ DOMAIN provider.rows = {NoHandle} \cup DOMAIN provider.id
    /\ \A p \in DOMAIN provider.rows : RowsOf(provider, provider.rows[p], p)
    /\ \A h \in DOMAIN provider.id :
          /\ provider.parent[h] \in DOMAIN provider.rows
          /\ \E i \in DOMAIN provider.rows[provider.parent[h]] :
                provider.rows[provider.parent[h]][i] = h
    /\ IdsGrow(provider)

LEMMA RowOfChild ==
    ASSUME NEW provider, TreeOfRows(provider), NEW p \in DOMAIN provider.rows,
           NEW row \in 0..(Len(provider.rows[p]) - 1)
    PROVE  /\ provider.rows[p][row + 1] \in DOMAIN provider.id
           /\ provider.parent[provider.rows[p][row + 1]] = p
           /\ IndexOfChild(provider, provider.rows[p][row + 1]) = row
<1>1. PICK vector : vector = provider.rows[p]
  OBVIOUS
<1>2. RowsOf(provider, vector, p)
  BY <1>1 DEF TreeOfRows
<1>3. vector \in Seq(DOMAIN provider.id) /\ Len(vector) \in Nat /\ DOMAIN vector = 1..Len(vector)
  BY <1>2 DEF RowsOf
<1>4. PICK i : i = row + 1
  OBVIOUS
<1>5. i \in DOMAIN vector /\ row \in Int
  BY <1>1, <1>3, <1>4
<1>6. PICK h : h = vector[i]
  OBVIOUS
<1>7. h \in DOMAIN provider.id /\ provider.parent[h] = p
  BY <1>2, <1>3, <1>5, <1>6 DEF RowsOf
<1>8. PICK rows : rows = {r \in 0..(Len(vector) - 1) : vector[r + 1] = h}
  OBVIOUS
<1>9. ASSUME NEW r \in rows
      PROVE  r = row
  <2>1. r \in 0..(Len(vector) - 1) /\ vector[r + 1] = h
    BY <1>8
  <2>2. PICK j : j = r + 1
    OBVIOUS
  <2>3. j \in DOMAIN vector /\ vector[j] = vector[i]
    BY <1>3, <1>6, <2>1, <2>2
  <2>4. j = i
    BY <1>2, <1>5, <2>3 DEF RowsOf
  <2> QED BY <1>4, <1>5, <2>1, <2>2, <2>4
<1>10. row \in rows
  BY <1>1, <1>4, <1>6, <1>8
<1>11. rows # {} /\ (CHOOSE r \in rows : TRUE) = row
  BY <1>9, <1>10
<1>12. IndexOfChild(provider, h) = IF rows = {} THEN 0 ELSE CHOOSE r \in rows : TRUE
  BY <1>1, <1>7, <1>8 DEF IndexOfChild
<1>13. IndexOfChild(provider, h) = row
  BY <1>11, <1>12
<1> QED BY <1>1, <1>4, <1>6, <1>7, <1>13

\* What the two lemmas above give is the contract of the item model.
LEMMA TreeKeepsContract ==
    ASSUME NEW provider, TreeOfRows(provider)
    PROVE  KeepsContract(provider)
<1>1. SUFFICES ASSUME NEW parent \in Indices(provider),
                      NEW row \in 0..(RowCount(provider, parent) - 1)
               PROVE  /\ Index(provider, row, parent) \in Indices(provider)
                      /\ Parent(provider, Index(provider, row, parent)) = parent
  BY DEF KeepsContract
<1>2. PICK p : p = parent.handle
  OBVIOUS
<1>3. /\ p \in DOMAIN provider.rows
      /\ parent = IF p = NoHandle THEN Root ELSE [row |-> IndexOfChild(provider, p), handle |-> p]
  <2>1. CASE parent = Root
    BY <1>2, <2>1 DEF Root, TreeOfRows
  <2>2. CASE parent # Root
    <3>1. PICK h \in DOMAIN provider.id : parent = [row |-> IndexOfChild(provider, h), handle |-> h]
      BY <2>2 DEF Indices
    <3> QED BY <1>2, <3>1 DEF TreeOfRows
  <2> QED BY <2>1, <2>2
<1>4. PICK h : h = provider.rows[p][row + 1]
  OBVIOUS
<1>5. row \in 0..(Len(provider.rows[p]) - 1)
  BY <1>2 DEF RowCount
<1>6. h \in DOMAIN provider.id /\ provider.parent[h] = p /\ IndexOfChild(provider, h) = row
  BY <1>3, <1>4, <1>5, RowOfChild
<1>7. PICK child : child = Index(provider, row, parent)
  OBVIOUS
<1>8. child = [row |-> row, handle |-> h]
  BY <1>2, <1>4, <1>7 DEF Index
<1>9. child \in Indices(provider)
  BY <1>6, <1>8 DEF Indices
<1>10. child # Root /\ child.handle = h
  BY <1>5, <1>8 DEF Root
<1>11. Parent(provider, child) = parent
  BY <1>3, <1>6, <1>10 DEF Parent
<1> QED BY <1>7, <1>9, <1>11

LEMMA FirstHitIsFound ==
    ASSUME NEW found, DOMAIN found \subseteq Nat
    PROVE  \/ FirstHit(found) = Root /\ \A row \in DOMAIN found : found[row] = Root
           \/ /\ FirstHit(found) # Root
              /\ \E row \in DOMAIN found : FirstHit(found) = found[row]
<1>1. PICK hits : hits = {row \in DOMAIN found : found[row] # Root}
  OBVIOUS
<1>2. CASE hits = {}
  BY <1>1, <1>2 DEF FirstHit
<1>3. CASE hits # {}
  <2>1. PICK first : first = CHOOSE row \in hits : \A other \in hits : row <= other
    OBVIOUS
  <2>2. \E row \in hits : \A other \in hits : row <= other
    BY <1>1, <1>3, LeastElement
  <2>3. first \in hits
    BY <2>1, <2>2
  <2>4. FirstHit(found) = found[first]
    BY <1>1, <1>3, <2>1 DEF FirstHit
  <2> QED BY <1>1, <2>3, <2>4
<1> QED BY <1>2, <1>3

\* What one round of the search does.
FoundAmong(provider, id, g, vector, result) ==
    \/ /\ result = Root
       /\ \A i \in DOMAIN vector : provider.id[vector[i]] # id /\ g[vector[i]] = Root
    \/ /\ result # Root
       /\ \E i \in DOMAIN vector :
             \/ provider.id[vector[i]] = id /\ result.handle = vector[i]
             \/ result = g[vector[i]]

LEMMA SearchRound ==
    ASSUME NEW provider, NEW id, NEW g, NEW p,
           NEW vector, vector = provider.rows[p], vector \in Seq(DOMAIN provider.id),
           NEW result, result = SearchRows(provider, id, g, p)
    PROVE  FoundAmong(provider, id, g, vector, result)
<1>1. PICK found : found = [row \in 0..(Len(vector) - 1) |->
                               IF provider.id[vector[row + 1]] = id
                               THEN [row |-> row, handle |-> vector[row + 1]]
                               ELSE g[vector[row + 1]]]
  OBVIOUS
<1>2. result = FirstHit(found)
  BY <1>1 DEF SearchRows
<1>3. /\ Len(vector) \in Nat /\ DOMAIN vector = 1..Len(vector)
      /\ DOMAIN found = 0..(Len(vector) - 1)
  BY <1>1
<1>4. \/ result = Root /\ \A row \in DOMAIN found : found[row] = Root
      \/ result # Root /\ \E row \in DOMAIN found : result = found[row]
  <2>1. DOMAIN found \subseteq Nat
    BY <1>3
  <2> QED BY <1>2, <2>1, FirstHitIsFound
<1>5. ASSUME NEW row \in DOMAIN found, NEW i, i = row + 1
      PROVE  /\ found[row] = IF provider.id[vector[i]] = id
                             THEN [row |-> row, handle |-> vector[i]] ELSE g[vector[i]]
             /\ i \in DOMAIN vector
             /\ [row |-> row, handle |-> vector[i]] # Root
  <2>1. found[row] = IF provider.id[vector[i]] = id
                     THEN [row |-> row, handle |-> vector[i]] ELSE g[vector[i]]
    BY <1>1, <1>5
  <2>2. i \in DOMAIN vector /\ row # -1
    BY <1>3, <1>5
  <2> QED BY <2>1, <2>2 DEF Root
<1>6. CASE result = Root
  <2>1. ASSUME NEW i \in DOMAIN vector
        PROVE  provider.id[vector[i]] # id /\ g[vector[i]] = Root
    <3>1. PICK row : row = i - 1
      OBVIOUS
    <3>2. row \in DOMAIN found /\ i = row + 1
      BY <1>3, <3>1
    <3> QED BY <1>4, <1>5, <1>6, <3>2
  <2> QED BY <1>6, <2>1 DEF FoundAmong
<1>7. CASE result # Root
  <2>1. PICK row \in DOMAIN found : result = found[row]
    BY <1>4, <1>7
  <2>2. PICK i : i = row + 1
    OBVIOUS
  <2>3. /\ result = IF provider.id[vector[i]] = id
                    THEN [row |-> row, handle |-> vector[i]] ELSE g[vector[i]]
        /\ i \in DOMAIN vector
    BY <1>5, <2>1, <2>2
  <2> QED BY <1>7, <2>3 DEF FoundAmong
<1> QED BY <1>6, <1>7

LEMMA SearchAlike ==
    ASSUME NEW provider, NEW id, NEW f, NEW g, NEW p,
           NEW vector, vector = provider.rows[p], vector \in Seq(DOMAIN provider.id),
           \A i \in DOMAIN vector : f[vector[i]] = g[vector[i]]
    PROVE  SearchRows(provider, id, f, p) = SearchRows(provider, id, g, p)
<1> DEFINE found(s) == [row \in 0..(Len(vector) - 1) |->
                           IF provider.id[vector[row + 1]] = id
                           THEN [row |-> row, handle |-> vector[row + 1]]
                           ELSE s[vector[row + 1]]]
<1>1. \A row \in 0..(Len(vector) - 1) : row + 1 \in DOMAIN vector
  OBVIOUS
<1>2. found(f) = found(g)
  BY <1>1
<1>3. SearchRows(provider, id, f, p) = FirstHit(found(f))
  BY DEF SearchRows
<1>4. SearchRows(provider, id, g, p) = FirstHit(found(g))
  BY DEF SearchRows
<1> HIDE DEF found
<1> QED BY <1>2, <1>3, <1>4

\* How far down a handle can be.
Depth(provider) ==
    [p \in DOMAIN provider.rows |-> IF p = NoHandle THEN 0 ELSE provider.id[p] + 1]

LEMMA RowsAreDeeper ==
    ASSUME NEW provider, TreeOfRows(provider), NEW depth, depth = Depth(provider),
           NEW p \in DOMAIN provider.rows, NEW vector, vector = provider.rows[p]
    PROVE  /\ vector \in Seq(DOMAIN provider.id)
           /\ \A i \in DOMAIN vector : /\ vector[i] \in DOMAIN provider.rows
                                       /\ depth[vector[i]] > depth[p]
<1>1. RowsOf(provider, vector, p)
  BY DEF TreeOfRows
<1>2. ASSUME NEW i \in DOMAIN vector
      PROVE  vector[i] \in DOMAIN provider.rows /\ depth[vector[i]] > depth[p]
  <2>1. PICK c : c = vector[i]
    OBVIOUS
  <2>2. c \in DOMAIN provider.id /\ provider.parent[c] = p
    BY <1>1, <2>1 DEF RowsOf
  <2>3. c \in DOMAIN provider.rows /\ c # NoHandle /\ provider.id[c] \in Nat
    BY <2>2 DEF TreeOfRows, IdsGrow
  <2>4. p # NoHandle => p \in DOMAIN provider.id /\ provider.id[p] < provider.id[c]
                            /\ provider.id[p] \in Nat
    BY <2>2 DEF TreeOfRows, IdsGrow
  <2> QED BY <2>1, <2>3, <2>4 DEF Depth
<1> QED BY <1>1, <1>2 DEF RowsOf

LEMMA DepthIsBounded ==
    ASSUME NEW provider, TreeOfRows(provider), NEW depth, depth = Depth(provider)
    PROVE  \E bound \in Nat :
               \A p \in DOMAIN provider.rows : depth[p] \in Nat /\ depth[p] < bound
<1>1. PICK most \in Nat : \A h \in DOMAIN provider.id : provider.id[h] <= most
  BY DEF TreeOfRows, IdsGrow
<1>2. \A p \in DOMAIN provider.rows : depth[p] \in Nat /\ depth[p] < most + 2
  BY <1>1 DEF TreeOfRows, IdsGrow, Depth
<1> QED BY <1>2

\* The definition of searchIndex has a solution: what is searched below a
\* handle is known once it is known below the handles with larger ids.
LEMMA SearchIsDefined ==
    ASSUME NEW provider, TreeOfRows(provider), NEW id
    PROVE  \E g : g = [p \in DOMAIN provider.rows |-> SearchRows(provider, id, g, p)]
<1>1. PICK P : P = DOMAIN provider.rows
  OBVIOUS
<1>2. PICK depth : depth = Depth(provider)
  OBVIOUS
<1>3. PICK bound \in Nat : \A p \in P : depth[p] \in Nat /\ depth[p] < bound
  BY <1>1, <1>2, DepthIsBounded
<1> DEFINE Solved(g, k) ==
               /\ g = [p \in P |-> g[p]]
               /\ \A p \in P : depth[p] >= k => g[p] = SearchRows(provider, id, g, p)
           Known == {k \in Nat : \E g : Solved(g, k)}
<1>5. ASSUME NEW p \in P
      PROVE  /\ provider.rows[p] \in Seq(DOMAIN provider.id)
             /\ \A i \in DOMAIN provider.rows[p] :
                   provider.rows[p][i] \in P /\ depth[provider.rows[p][i]] > depth[p]
  BY <1>1, <1>2, RowsAreDeeper
<1>6. bound \in Known
  <2>1. PICK g : g = [p \in P |-> Root]
    OBVIOUS
  <2>2. \A p \in P : ~(depth[p] >= bound)
    BY <1>3
  <2>3. g = [p \in P |-> g[p]]
    BY <2>1
  <2>4. Solved(g, bound)
    BY <2>2, <2>3
  <2> QED BY <2>4
<1>7. PICK m \in Known : \A k \in Known : m <= k
  <2>1. Known \in SUBSET Nat /\ Known # {}
    BY <1>6
  <2> HIDE DEF Known
  <2> QED BY <2>1, LeastElement
<1>8. PICK g : Solved(g, m)
  OBVIOUS
<1>9. m = 0
  <2>1. SUFFICES ASSUME m # 0
                 PROVE  FALSE
    OBVIOUS
  <2>2. PICK k : k = m - 1
    OBVIOUS
  <2>3. m \in Nat /\ k \in Nat /\ k < m
    BY <2>1, <2>2
  <2>4. PICK f : f = [p \in P |-> IF depth[p] = k THEN SearchRows(provider, id, g, p) ELSE g[p]]
    OBVIOUS
  <2>5. ASSUME NEW p \in P, depth[p] >= k
        PROVE  f[p] = SearchRows(provider, id, f, p)
    <3>1. PICK vector : vector = provider.rows[p]
      OBVIOUS
    <3>2. /\ vector \in Seq(DOMAIN provider.id)
          /\ \A i \in DOMAIN vector : vector[i] \in P /\ depth[vector[i]] > depth[p]
      BY <1>5, <3>1
    <3>3. \A i \in DOMAIN vector : depth[vector[i]] # k
      BY <1>3, <2>3, <2>5, <3>2
    <3>4. \A i \in DOMAIN vector : f[vector[i]] = g[vector[i]]
      BY <2>4, <3>2, <3>3
    <3>5. SearchRows(provider, id, f, p) = SearchRows(provider, id, g, p)
      BY <3>1, <3>2, <3>4, SearchAlike
    <3>6. CASE depth[p] = k
      BY <2>4, <3>5, <3>6
    <3>7. CASE depth[p] # k
      <4>1. depth[p] >= m
        BY <1>3, <2>2, <2>3, <2>5, <3>7
      <4>2. g[p] = SearchRows(provider, id, g, p)
        BY <1>8, <4>1
      <4> QED BY <2>4, <3>5, <3>7, <4>2
    <3> QED BY <3>6, <3>7
  <2>6. f = [p \in P |-> f[p]]
    BY <2>4
  <2>7. k \in Known
    BY <2>3, <2>5, <2>6
  <2> HIDE DEF Known
  <2> QED BY <1>7, <2>3, <2>7
<1>10. \A p \in P : g[p] = SearchRows(provider, id, g, p)
  BY <1>3, <1>8, <1>9
<1>11. g = [p \in P |-> SearchRows(provider, id, g, p)]
  BY <1>8, <1>10
<1> QED BY <1>1, <1>11

LEMMA SearchSolution ==
    ASSUME NEW provider, TreeOfRows(provider), NEW id, NEW parent
    PROVE  \E g : /\ g = [p \in DOMAIN provider.rows |-> SearchRows(provider, id, g, p)]
                  /\ SearchIndex(provider, id, parent) = g[parent.handle]
<1>1. \E g : g = [p \in DOMAIN provider.rows |-> SearchRows(provider, id, g, p)]
  BY SearchIsDefined
<1> QED BY <1>1 DEF SearchIndex

\* The search comes to the one handle with the id, wherever it is in the tree.
LEMMA SearchFinds ==
    ASSUME NEW provider, TreeOfRows(provider), NEW id,
           \A h, k \in DOMAIN provider.id : provider.id[h] = id /\ provider.id[k] = id => h = k
    PROVE  /\ \A t \in DOMAIN provider.id :
                 provider.id[t] = id => IndexForId(provider, id).handle = t
           /\ (\A t \in DOMAIN provider.id : provider.id[t] # id)
                 => IndexForId(provider, id).handle = NoHandle
<1>1. PICK P : P = DOMAIN provider.rows
  OBVIOUS
<1>2. PICK depth : depth = Depth(provider)
  OBVIOUS
<1>3. PICK bound \in Nat : \A p \in P : depth[p] \in Nat /\ depth[p] < bound
  BY <1>1, <1>2, DepthIsBounded
<1>4. PICK g : /\ g = [p \in P |-> SearchRows(provider, id, g, p)]
               /\ SearchIndex(provider, id, Root) = g[Root.handle]
  BY <1>1, SearchSolution
<1>5. IndexForId(provider, id) = g[NoHandle] /\ NoHandle \in P
  BY <1>1, <1>4 DEF IndexForId, Root, TreeOfRows
<1> DEFINE Hit(p) == /\ g[p].handle \in DOMAIN provider.id
                     /\ provider.id[g[p].handle] = id
<1>6. ASSUME NEW p \in P, NEW vector, vector = provider.rows[p]
      PROVE  /\ \A i \in DOMAIN vector : /\ vector[i] \in DOMAIN provider.id
                                         /\ vector[i] \in P /\ depth[vector[i]] > depth[p]
             /\ FoundAmong(provider, id, g, vector, g[p])
  <2>1. vector \in Seq(DOMAIN provider.id)
    BY <1>1, <1>2, <1>6, RowsAreDeeper
  <2>2. g[p] = SearchRows(provider, id, g, p)
    BY <1>4
  <2>3. FoundAmong(provider, id, g, vector, g[p])
    <3>1. PICK result : result = g[p]
      OBVIOUS
    <3>2. result = SearchRows(provider, id, g, p)
      BY <2>2, <3>1
    <3> QED BY <1>6, <2>1, <3>1, <3>2, SearchRound
  <2>4. \A i \in DOMAIN vector : vector[i] \in P /\ depth[vector[i]] > depth[p]
    BY <1>1, <1>2, <1>6, RowsAreDeeper
  <2> QED BY <2>1, <2>3, <2>4
<1>7. \A p \in P : g[p] # Root => Hit(p)
  <2>1. PICK bad : bad = {p \in P : g[p] # Root /\ ~Hit(p)}
    OBVIOUS
  <2>2. SUFFICES ASSUME bad # {}
                 PROVE  FALSE
    BY <2>1
  <2>3. PICK depths : depths = {depth[p] : p \in bad}
    OBVIOUS
  <2>4. depths \in SUBSET Nat /\ depths # {} /\ \A k \in depths : k <= bound
    BY <1>3, <2>1, <2>2, <2>3
  <2>5. PICK m \in depths : \A k \in depths : k <= m
    BY <2>4, GreatestElement
  <2>6. PICK p \in bad : depth[p] = m
    BY <2>3, <2>5
  <2>7. PICK vector : vector = provider.rows[p]
    OBVIOUS
  <2>8. /\ p \in P /\ g[p] # Root /\ ~Hit(p)
        /\ \A i \in DOMAIN vector : /\ vector[i] \in DOMAIN provider.id
                                    /\ vector[i] \in P /\ depth[vector[i]] > depth[p]
    BY <1>6, <2>1, <2>6, <2>7
  <2>9. PICK i \in DOMAIN vector : \/ provider.id[vector[i]] = id /\ g[p].handle = vector[i]
                                   \/ g[p] = g[vector[i]]
    BY <1>6, <2>7, <2>8 DEF FoundAmong
  <2>10. g[p] = g[vector[i]]
    BY <2>8, <2>9
  <2>11. vector[i] \in bad
    BY <2>1, <2>8, <2>10
  <2>12. depth[vector[i]] \in depths /\ depth[vector[i]] \in Nat /\ m \in Nat
    BY <1>3, <2>3, <2>4, <2>8, <2>11
  <2> QED BY <2>5, <2>6, <2>8, <2>12
<1>8. ASSUME NEW t \in DOMAIN provider.id, provider.id[t] = id
      PROVE  g[NoHandle] # Root
  <2>1. ASSUME NEW h \in DOMAIN provider.id, h = t \/ g[h] # Root
        PROVE  /\ provider.parent[h] \in P /\ g[provider.parent[h]] # Root
               /\ h \in P => depth[provider.parent[h]] < depth[h]
    <3>1. PICK p : p = provider.parent[h]
      OBVIOUS
    <3>2. PICK vector : vector = provider.rows[p]
      OBVIOUS
    <3>3. p \in P /\ \E i \in DOMAIN vector : vector[i] = h
      BY <1>1, <3>1, <3>2 DEF TreeOfRows
    <3>4. PICK i \in DOMAIN vector : vector[i] = h
      BY <3>3
    <3>5. g[p] # Root
      BY <1>6, <1>8, <2>1, <3>2, <3>3, <3>4 DEF FoundAmong
    <3>6. depth[p] < depth[h]
      BY <1>3, <1>6, <3>2, <3>3, <3>4
    <3> QED BY <3>1, <3>3, <3>5, <3>6
  <2>2. PICK found : found = {p \in P : g[p] # Root}
    OBVIOUS
  <2>3. PICK depths : depths = {depth[p] : p \in found}
    OBVIOUS
  <2>4. depths \in SUBSET Nat /\ depths # {}
    BY <1>3, <2>1, <2>2, <2>3
  <2>5. PICK m \in depths : \A k \in depths : m <= k
    BY <2>4, LeastElement
  <2>6. PICK p \in found : depth[p] = m
    BY <2>3, <2>5
  <2>7. ASSUME p # NoHandle
        PROVE  FALSE
    <3>1. p \in P /\ g[p] # Root
      BY <2>2
    <3>2. p \in DOMAIN provider.id
      BY <1>1, <2>7, <3>1 DEF TreeOfRows
    <3>3. PICK q : q = provider.parent[p]
      OBVIOUS
    <3>4. q \in found /\ depth[q] < depth[p]
      BY <2>1, <2>2, <3>1, <3>2, <3>3
    <3>5. depth[q] \in depths /\ depth[q] \in Nat /\ m \in Nat
      BY <1>3, <2>2, <2>3, <2>4, <3>4
    <3> QED BY <2>5, <2>6, <3>4, <3>5
  <2> QED BY <2>2, <2>7
<1>9. ASSUME NEW t \in DOMAIN provider.id, provider.id[t] = id
      PROVE  IndexForId(provider, id).handle = t
  <2>1. Hit(NoHandle)
    BY <1>5, <1>7, <1>8, <1>9
  <2> QED BY <1>5, <1>9, <2>1
<1>10. ASSUME \A t \in DOMAIN provider.id : provider.id[t] # id
       PROVE  IndexForId(provider, id).handle = NoHandle
  <2>1. g[NoHandle] = Root
    BY <1>5, <1>7, <1>10
  <2> QED BY <1>5, <2>1 DEF Root
<1> QED BY <1>9, <1>10

-----------------------------------------------------------------------------
(***************************************************************************)
(* The rows of the cache.                                                  *)
(***************************************************************************)
\* The vectors and the ids of a cache between two calls.
CacheDescends ==
    /\ objects \in Seq(Object) /\ rootList \in Seq(Nat)
    /\ Owned(objects, rootList)
    /\ Exact(objects, index)
    /\ \A h \in DOMAIN objects :
          objects[h].parent # NoNode => objects[objects[h].parent].id < objects[h].id
    /\ \A h \in DOMAIN objects : objects[h].id <= TempBase + MaxTemp

LEMMA CacheBetweenCalls ==
    ASSUME CallsInv, AtomicInv, Idle
    PROVE  CacheDescends
<1>1. /\ objects \in Seq(Object) /\ rootList \in Seq(Nat)
      /\ Owned(objects, rootList) /\ Exact(objects, index)
      /\ nextId \in 1..(MaxId + 1) /\ nextTemporaryId \in TempBase..(TempBase + MaxTemp)
      /\ GivenOnce(index, nextId, nextTemporaryId)
  BY DEF CallsInv, Typed, DbTypeOK
<1>2. NowDescending
  BY SeenOutside, DescendingNow DEF AtomicInv, Stable
<1>3. ASSUME NEW h \in DOMAIN objects
      PROVE  objects[h].id <= TempBase + MaxTemp
  <2>1. PICK id : id = objects[h].id
    OBVIOUS
  <2>2. id \in DOMAIN index
    BY <1>1, <2>1 DEF Exact
  <2>3. id \in 1..(nextId - 1) \/ id \in TempBase..(nextTemporaryId - 1)
    BY <1>1, <2>2 DEF GivenOnce
  <2>4. TempBase \in Nat /\ MaxTemp \in Nat /\ MaxId \in Nat /\ MaxId < TempBase
    BY CallsAssumption, DatabaseAssumption
  <2>5. PICK n, m : n = nextId /\ m = nextTemporaryId
    OBVIOUS
  <2>6. n \in Nat /\ m \in Nat /\ n <= MaxId + 1 /\ m <= TempBase + MaxTemp
    BY <1>1, <2>4, <2>5
  <2>7. (id \in 1..(n - 1) \/ id \in TempBase..(m - 1)) => id <= TempBase + MaxTemp
    BY <2>4, <2>6
  <2> QED BY <2>1, <2>3, <2>5, <2>7
<1>4. \A h \in DOMAIN objects :
          objects[h].parent # NoNode => objects[objects[h].parent].id < objects[h].id
  BY <1>2 DEF NowDescending, Hangs
<1> QED BY <1>1, <1>3, <1>4 DEF CacheDescends

LEMMA VectorOfNode ==
    ASSUME CacheDescends, NEW p \in {NoNode} \cup DOMAIN objects, NEW vector, vector = Children(p)
    PROVE  /\ vector \in Seq(DOMAIN objects) /\ vector \in Seq(Nat) /\ Rising(vector)
           /\ \A i \in DOMAIN vector : objects[vector[i]].parent = p
           /\ \A c \in DOMAIN objects : objects[c].parent = p => \E i \in DOMAIN vector : vector[i] = c
           /\ \A i, j \in DOMAIN vector : vector[i] = vector[j] => i = j
<1>1. objects \in Seq(Object) /\ rootList \in Seq(Nat) /\ Owned(objects, rootList)
  BY DEF CacheDescends
<1>2. Keeps(objects, vector, p)
  BY <1>1 DEF Owned, VectorOf, Children
<1>3. vector \in Seq(Nat)
  BY <1>1, ObjectFields DEF Children
<1>4. DOMAIN vector = 1..Len(vector) /\ Len(vector) \in Nat
  BY <1>3
<1>5. /\ \A i \in DOMAIN vector : vector[i] \in DOMAIN objects /\ objects[vector[i]].parent = p
      /\ \A c \in DOMAIN objects : objects[c].parent = p => \E i \in DOMAIN vector : vector[i] = c
      /\ Rising(vector)
  BY <1>2 DEF Keeps
<1>6. vector \in Seq(DOMAIN objects)
  BY <1>3, <1>5
<1>7. \A i, j \in DOMAIN vector : vector[i] = vector[j] => i = j
  BY <1>3, <1>5, RisingDistinct
<1> QED BY <1>3, <1>5, <1>6, <1>7

LEMMA CacheIsTree ==
    ASSUME CacheDescends
    PROVE  TreeOfRows(CacheTreeProvider)
<1>1. PICK provider : provider = CacheTreeProvider
  OBVIOUS
<1>2. /\ DOMAIN provider.rows = {NoNode} \cup DOMAIN objects
      /\ DOMAIN provider.id = DOMAIN objects
      /\ \A h \in {NoNode} \cup DOMAIN objects : provider.rows[h] = Children(h)
      /\ \A h \in DOMAIN objects : /\ provider.parent[h] = objects[h].parent
                                   /\ provider.id[h] = objects[h].id
  BY <1>1 DEF CacheTreeProvider
<1>3. /\ objects \in Seq(Object) /\ Owned(objects, rootList)
      /\ \A h \in DOMAIN objects :
            objects[h].parent # NoNode => objects[objects[h].parent].id < objects[h].id
      /\ \A h \in DOMAIN objects : objects[h].id <= TempBase + MaxTemp
  BY DEF CacheDescends
<1>4. /\ NoNode \notin DOMAIN objects /\ \A h \in DOMAIN objects : objects[h].id \in Nat
      /\ \A h \in DOMAIN objects : objects[h].parent \in {NoNode} \cup DOMAIN objects
  BY <1>3, ObjectFields DEF Owned
<1>5. IdsGrow(provider)
  <2>1. TempBase + MaxTemp \in Nat
    BY CallsAssumption
  <2> QED BY <1>2, <1>3, <1>4, <2>1 DEF IdsGrow
<1>6. ASSUME NEW p \in {NoNode} \cup DOMAIN objects
      PROVE  RowsOf(provider, provider.rows[p], p)
  <2>1. PICK vector : vector = Children(p)
    OBVIOUS
  <2>2. /\ vector \in Seq(DOMAIN objects)
        /\ \A i \in DOMAIN vector : objects[vector[i]].parent = p
        /\ \A i, j \in DOMAIN vector : vector[i] = vector[j] => i = j
    BY <2>1, VectorOfNode
  <2>3. \A i \in DOMAIN vector : vector[i] \in DOMAIN objects
    BY <2>2
  <2>4. RowsOf(provider, vector, p)
    BY <1>2, <2>2, <2>3 DEF RowsOf
  <2> QED BY <1>2, <2>1, <2>4
<1>7. ASSUME NEW h \in DOMAIN objects, NEW p, p = objects[h].parent
      PROVE  \E i \in DOMAIN Children(p) : Children(p)[i] = h
  <2>1. PICK vector : vector = Children(p)
    OBVIOUS
  <2>2. p \in {NoNode} \cup DOMAIN objects
    BY <1>4, <1>7
  <2>3. \A c \in DOMAIN objects : objects[c].parent = p => \E i \in DOMAIN vector : vector[i] = c
    BY <2>1, <2>2, VectorOfNode
  <2> QED BY <1>7, <2>1, <2>3
<1>8. \A h \in DOMAIN provider.id :
          /\ provider.parent[h] \in DOMAIN provider.rows
          /\ \E i \in DOMAIN provider.rows[provider.parent[h]] :
                provider.rows[provider.parent[h]][i] = h
  BY <1>2, <1>4, <1>7
<1>9. TreeOfRows(provider)
  BY <1>2, <1>4, <1>5, <1>6, <1>8 DEF TreeOfRows, NoNode, NoHandle
<1> QED BY <1>1, <1>9

LEMMA SearchFollows ==
    ASSUME CacheDescends, NEW id
    PROVE  IndexForId(CacheTreeProvider, id).handle = FindNode(id)
<1>1. PICK provider : provider = CacheTreeProvider
  OBVIOUS
<1>2. TreeOfRows(provider)
  BY <1>1, CacheIsTree
<1>3. /\ DOMAIN provider.id = DOMAIN objects
      /\ \A h \in DOMAIN objects : provider.id[h] = objects[h].id
  BY <1>1 DEF CacheTreeProvider
<1>4. Exact(objects, index)
  BY DEF CacheDescends
<1>5. \A h, k \in DOMAIN provider.id : provider.id[h] = id /\ provider.id[k] = id => h = k
  BY <1>3, <1>4 DEF Exact
<1>6. /\ \A t \in DOMAIN provider.id :
            provider.id[t] = id => IndexForId(provider, id).handle = t
      /\ (\A t \in DOMAIN provider.id : provider.id[t] # id)
            => IndexForId(provider, id).handle = NoHandle
  BY <1>2, <1>5, SearchFinds
<1>7. CASE id \in DOMAIN index
  BY <1>1, <1>3, <1>4, <1>6, <1>7 DEF Exact, FindNode
<1>8. CASE id \notin DOMAIN index
  BY <1>1, <1>3, <1>4, <1>6, <1>8 DEF Exact, FindNode, NoNode, NoHandle
<1> QED BY <1>7, <1>8

\* The edit of an element is shown where the element is: the search for the row
\* of an id ends at the node the index has for it, however deep it is, and at
\* no row for an id that is not cached.
THEOREM SearchEndsAtIndex == Spec => []SearchFollowsIndex
<1>1. CallsInv /\ AtomicInv => SearchFollowsIndex
  BY CacheBetweenCalls, SearchFollows DEF SearchFollowsIndex
<1> QED BY <1>1, CallsStayConsistent, CallsKeepTrack, PTL

-----------------------------------------------------------------------------
(***************************************************************************)
(* The rows of the database.                                               *)
(***************************************************************************)
\* A vector that rises and lists a set, one place longer.
LEMMA RisingListGrows ==
    ASSUME NEW s \in Seq(Nat), Rising(s), NEW n \in Nat, \A i \in DOMAIN s : s[i] < n,
           NEW t, t = Append(s, n)
    PROVE  t \in Seq(Nat) /\ Rising(t) /\ Elements(t) = Elements(s) \cup {n}
<1>1. /\ t \in Seq(Nat) /\ Rising(t)
      /\ DOMAIN t = DOMAIN s \cup {Len(s) + 1}
      /\ \A i \in DOMAIN s : t[i] = s[i]
      /\ t[Len(s) + 1] = n
  BY RisingAppend
<1>2. PICK last : last = Len(s) + 1
  OBVIOUS
<1>3. Elements(t) = {t[i] : i \in DOMAIN s} \cup {t[last]}
  BY <1>1, <1>2 DEF Elements
<1> QED BY <1>1, <1>2, <1>3 DEF Elements

\* Every set of numbers up to n is listed by a vector that rises.
LEMMA RisingList ==
    ASSUME NEW n \in Nat, NEW S \in SUBSET (1..n)
    PROVE  \E s \in Seq(Nat) : Rising(s) /\ Elements(s) = S
<1> DEFINE Listed(k) == \E s \in Seq(Nat) : Rising(s) /\ Elements(s) = S \cap 1..k
<1>1. PICK T : T = {k \in 0..n : Listed(n - k)}
  OBVIOUS
<1>2. n \in T
  <2>1. Rising(<< >>) /\ Elements(<< >>) = {} /\ << >> \in Seq(Nat) /\ S \cap 1..0 = {}
    BY DEF Rising, Elements
  <2>2. Listed(0)
    BY <2>1
  <2> HIDE DEF Listed
  <2> QED BY <1>1, <2>2
<1>3. PICK m \in T : \A k \in T : m <= k
  <2> HIDE DEF Listed
  <2>1. T \in SUBSET Nat /\ T # {}
    BY <1>1, <1>2
  <2> QED BY <2>1, LeastElement
<1>4. m = 0
  <2>1. SUFFICES ASSUME m # 0
                 PROVE  FALSE
    OBVIOUS
  <2>2. PICK p, q : p = m - 1 /\ q = n - m
    OBVIOUS
  <2>3. p \in 0..n /\ q \in Nat /\ n - p = q + 1 /\ p < m /\ q + 1 \in Nat
    BY <1>1, <2>1, <2>2
  <2>4. PICK s \in Seq(Nat) : Rising(s) /\ Elements(s) = S \cap 1..q
    BY <1>1, <2>2
  <2>5. PICK next : next = q + 1
    OBVIOUS
  <2>6. S \cap 1..next = IF next \in S THEN (S \cap 1..q) \cup {next} ELSE S \cap 1..q
    BY <2>3, <2>5
  <2>7. \A i \in DOMAIN s : s[i] < next
    <3>1. \A e \in Elements(s) : e < next
      BY <2>3, <2>4, <2>5
    <3> QED BY <3>1 DEF Elements
  <2>8. Listed(next)
    <3>1. CASE next \in S
      <4>1. PICK t : t = Append(s, next)
        OBVIOUS
      <4>2. t \in Seq(Nat) /\ Rising(t) /\ Elements(t) = Elements(s) \cup {next}
        BY <2>3, <2>4, <2>5, <2>7, <4>1, RisingListGrows
      <4> QED BY <2>4, <2>6, <3>1, <4>2
    <3>2. CASE next \notin S
      BY <2>4, <2>6, <3>2
    <3> QED BY <3>1, <3>2
  <2>9. p \in T
    <3> HIDE DEF Listed
    <3> QED BY <1>1, <2>3, <2>5, <2>8
  <2> QED BY <1>3, <2>3, <2>9
<1>5. Listed(n)
  <2> HIDE DEF Listed
  <2> QED BY <1>1, <1>3, <1>4
<1> QED BY <1>5

\* A vector that lists a set, each element once.
ListsOnce(s, S) ==
    /\ s \in Seq(S)
    /\ \A i, j \in DOMAIN s : s[i] = s[j] => i = j
    /\ \A x \in S : \E i \in DOMAIN s : s[i] = x

\* So a scan finds something, however the table is ordered.
LEMMA ScanExists ==
    ASSUME NEW n \in Nat, NEW places \in SUBSET (1..n), NEW found,
           found = CHOOSE s \in Ascending(places) : TRUE
    PROVE  ListsOnce(found, places)
<1>1. PICK s \in Seq(Nat) : Rising(s) /\ Elements(s) = places
  BY RisingList
<1>2. PICK m \in Nat : m = Len(s) /\ DOMAIN s = 1..m
  OBVIOUS
<1>3. /\ s \in [1..m -> places]
      /\ \A x \in places : \E i \in 1..m : s[i] = x
      /\ \A i, j \in 1..m : s[i] = s[j] => i = j
  <2>1. \A i, j \in 1..m : s[i] = s[j] => i = j
    BY <1>1, <1>2, RisingDistinct
  <2> QED BY <1>1, <1>2, <2>1 DEF Elements
<1>4. s \in Bijection(1..m, places)
  BY <1>3 DEF Bijection, Injection, Surjection, IsInjective
<1>5. Cardinality(places) = m
  <2>1. ExistsBijection(1..m, places)
    BY <1>4 DEF ExistsBijection
  <2> QED BY <2>1, FS_CountingElements
<1>6. s \in Ascending(places)
  BY <1>1, <1>4, <1>5 DEF Ascending, Orders, Rising
<1>7. found \in Ascending(places)
  BY <1>6
<1>8. found \in Bijection(1..m, places)
  BY <1>5, <1>7 DEF Ascending, Orders
<1>9. /\ found \in [1..m -> places]
      /\ \A x \in places : \E i \in 1..m : found[i] = x
      /\ \A i, j \in 1..m : found[i] = found[j] => i = j
  BY <1>8 DEF Bijection, Injection, Surjection, IsInjective
<1>10. DOMAIN found = 1..m /\ found = [i \in 1..m |-> found[i]]
  BY <1>9
<1>11. found \in Seq(places)
  BY <1>9, <1>10
<1> QED BY <1>9, <1>10, <1>11 DEF ListsOnce

\* The orders in which a hash table may list the records list each of them.
LEMMA TableOrder ==
    ASSUME NEW n \in Nat, NEW order \in Seqs!SetToSeqs(1..n)
    PROVE  /\ order \in [1..n -> 1..n]
           /\ \A i, j \in 1..n : order[i] = order[j] => i = j
           /\ \A x \in 1..n : \E i \in 1..n : order[i] = x
<1>1. IsFiniteSet(1..n) /\ Cardinality(1..n) = n
  <2>1. n - 1 + 1 = n /\ 1 <= n + 1
    OBVIOUS
  <2> QED BY FS_Interval
<1>2. /\ order \in [1..n -> 1..n]
      /\ \A i, j \in 1..n : i # j => order[i] # order[j]
  BY <1>1 DEF Seqs!SetToSeqs, Seqs!Cardinality, Cardinality
<1>3. PICK M : M = {order[i] : i \in 1..n}
  OBVIOUS
<1>4. M \in SUBSET (1..n)
  BY <1>2, <1>3
<1>5. order \in Bijection(1..n, M)
  BY <1>2, <1>3 DEF Bijection, Injection, Surjection, IsInjective
<1>6. Cardinality(M) = n
  <2>1. ExistsBijection(1..n, M)
    BY <1>5 DEF ExistsBijection
  <2> QED BY <2>1, FS_CountingElements
<1>7. M = 1..n
  BY <1>1, <1>4, <1>6, FS_Subset
<1> QED BY <1>2, <1>3, <1>7

\* The table and its parents between two calls.
TableDescends ==
    /\ nextId - 1 \in Nat
    /\ DOMAIN records = 1..(nextId - 1)
    /\ \A id \in DOMAIN records : records[id].parentId \in 0..(id - 1)

LEMMA TableBetweenCalls ==
    ASSUME CallsInv, AtomicInv, Idle
    PROVE  TableDescends
<1>1. nextId \in 1..(MaxId + 1) /\ records \in [1..(nextId - 1) -> Record]
  BY DEF CallsInv, Typed, DbTypeOK
<1>2. RowsDescend(records)
  BY SeenOutside, DescendingNow DEF AtomicInv, Stable, NowDescending
<1>3. MaxId \in Nat
  BY DatabaseAssumption
<1>4. ASSUME NEW id \in DOMAIN records
      PROVE  records[id].parentId \in 0..(id - 1)
  <2>1. records[id] \in Record /\ id \in Nat
    BY <1>1
  <2>2. records[id].parentId \in Nat /\ records[id].parentId < id
    BY <1>2, <2>1 DEF Record, RowsDescend
  <2> QED BY <2>1, <2>2
<1> QED BY <1>1, <1>3, <1>4 DEF TableDescends

\* What is fetched under an id are the records with this parent, each once.
LEMMA FetchedRows ==
    ASSUME TableDescends, NEW order \in Seqs!SetToSeqs(DOMAIN records), NEW p,
           NEW rows, rows = Fetched(order, p)
    PROVE  /\ rows \in Seq(DOMAIN records)
           /\ \A i \in DOMAIN rows : records[rows[i]].parentId = p
           /\ \A i, j \in DOMAIN rows : rows[i] = rows[j] => i = j
           /\ \A id \in DOMAIN records :
                 records[id].parentId = p => \E i \in DOMAIN rows : rows[i] = id
<1>1. PICK n \in Nat : DOMAIN records = 1..n
  BY DEF TableDescends
<1>2. /\ order \in [1..n -> 1..n]
      /\ \A i, j \in 1..n : order[i] = order[j] => i = j
      /\ \A x \in 1..n : \E i \in 1..n : order[i] = x
  BY <1>1, TableOrder
<1>3. PICK places : places = {i \in DOMAIN order : records[order[i]].parentId = p}
  OBVIOUS
<1>4. places \in SUBSET (1..n)
  BY <1>2, <1>3
<1>5. PICK found : found = CHOOSE s \in Ascending(places) : TRUE
  OBVIOUS
<1>6. /\ found \in Seq(places)
      /\ \A i, j \in DOMAIN found : found[i] = found[j] => i = j
      /\ \A x \in places : \E i \in DOMAIN found : found[i] = x
  <2>1. ListsOnce(found, places)
    BY <1>4, <1>5, ScanExists
  <2> QED BY <2>1 DEF ListsOnce
<1>7. rows = [i \in DOMAIN found |-> order[found[i]]]
  BY <1>3, <1>5 DEF Fetched, Picked
<1>8. \A i \in DOMAIN found : found[i] \in places /\ found[i] \in 1..n
  <2>1. \A i \in DOMAIN found : found[i] \in places
    BY <1>6
  <2> QED BY <1>4, <2>1
<1>9. \A i \in DOMAIN rows : /\ rows[i] \in 1..n /\ records[rows[i]].parentId = p
                            /\ rows[i] = order[found[i]] /\ i \in DOMAIN found
  BY <1>2, <1>3, <1>7, <1>8
<1>10. rows \in Seq(DOMAIN records)
  <2>1. PICK m \in Nat : DOMAIN found = 1..m
    BY <1>6
  <2>2. DOMAIN rows = 1..m /\ rows \in [1..m -> 1..n]
    BY <1>7, <1>9, <2>1
  <2> QED BY <1>1, <2>2
<1>11. \A i, j \in DOMAIN rows : rows[i] = rows[j] => i = j
  BY <1>2, <1>6, <1>8, <1>9
<1>12. ASSUME NEW id \in DOMAIN records, records[id].parentId = p
       PROVE  \E i \in DOMAIN rows : rows[i] = id
  <2>1. PICK x \in 1..n : order[x] = id
    BY <1>1, <1>2
  <2>2. x \in places
    BY <1>2, <1>3, <1>12, <2>1
  <2>3. PICK i \in DOMAIN found : found[i] = x
    BY <1>6, <2>2
  <2> QED BY <1>7, <2>1, <2>3
<1> QED BY <1>9, <1>10, <1>11, <1>12

LEMMA DatabaseIsTree ==
    ASSUME TableDescends, NEW order \in Seqs!SetToSeqs(DOMAIN records)
    PROVE  TreeOfRows(DatabaseTreeProvider(order))
<1>1. PICK provider : provider = DatabaseTreeProvider(order)
  OBVIOUS
<1>2. /\ DOMAIN provider.rows = {NoId} \cup DOMAIN records
      /\ DOMAIN provider.id = DOMAIN records
      /\ \A p \in {NoId} \cup DOMAIN records : provider.rows[p] = Fetched(order, p)
      /\ \A id \in DOMAIN records : /\ provider.parent[id] = records[id].parentId
                                    /\ provider.id[id] = id
  BY <1>1 DEF DatabaseTreeProvider
<1>3. PICK n \in Nat : /\ DOMAIN records = 1..n
                       /\ \A id \in 1..n : records[id].parentId \in 0..(id - 1)
  BY DEF TableDescends
<1>4. IdsGrow(provider)
  <2>1. \A h \in DOMAIN provider.id : provider.id[h] = h /\ h \in 1..n
    BY <1>2, <1>3
  <2>2. ASSUME NEW h \in DOMAIN provider.id
        PROVE  /\ provider.id[h] \in Nat /\ provider.id[h] <= n
               /\ provider.parent[h] \in DOMAIN provider.id =>
                     provider.id[provider.parent[h]] < provider.id[h]
    <3>1. PICK p : p = provider.parent[h]
      OBVIOUS
    <3>2. provider.id[h] = h /\ h \in 1..n /\ p \in 0..(h - 1)
      BY <1>2, <1>3, <2>1, <3>1
    <3>3. p \in DOMAIN provider.id => provider.id[p] = p
      BY <2>1
    <3> QED BY <3>1, <3>2, <3>3
  <2> QED BY <2>2 DEF IdsGrow
<1>5. \A id \in DOMAIN records : records[id].parentId \in {NoId} \cup DOMAIN records
  BY <1>3 DEF NoId
<1>6. ASSUME NEW p \in {NoId} \cup DOMAIN records
      PROVE  RowsOf(provider, provider.rows[p], p)
  <2>1. PICK rows : rows = Fetched(order, p)
    OBVIOUS
  <2>2. /\ rows \in Seq(DOMAIN records)
        /\ \A i \in DOMAIN rows : records[rows[i]].parentId = p
        /\ \A i, j \in DOMAIN rows : rows[i] = rows[j] => i = j
    BY <2>1, FetchedRows
  <2>3. \A i \in DOMAIN rows : rows[i] \in DOMAIN records
    BY <2>2
  <2>4. RowsOf(provider, rows, p)
    BY <1>2, <2>2, <2>3 DEF RowsOf
  <2> QED BY <1>2, <2>1, <2>4
<1>7. ASSUME NEW id \in DOMAIN records, NEW p, p = records[id].parentId
      PROVE  \E i \in DOMAIN Fetched(order, p) : Fetched(order, p)[i] = id
  <2>1. PICK rows : rows = Fetched(order, p)
    OBVIOUS
  <2>2. \A k \in DOMAIN records : records[k].parentId = p => \E i \in DOMAIN rows : rows[i] = k
    BY <2>1, FetchedRows
  <2> QED BY <1>7, <2>1, <2>2
<1>8. \A h \in DOMAIN provider.id :
          /\ provider.parent[h] \in DOMAIN provider.rows
          /\ \E i \in DOMAIN provider.rows[provider.parent[h]] :
                provider.rows[provider.parent[h]][i] = h
  BY <1>2, <1>5, <1>7
<1>9. NoHandle \notin DOMAIN provider.id /\ NoId = NoHandle
  BY <1>2, <1>3 DEF NoHandle, NoId
<1>10. TreeOfRows(provider)
  BY <1>2, <1>4, <1>6, <1>8, <1>9 DEF TreeOfRows
<1> QED BY <1>1, <1>10

\* The item models may ask for any index: in both views, and whatever order
\* the hash table lists the records in, each row has an index, indexOfChild
\* gives it back, and its parent is the index it was asked under.
THEOREM RowsAlwaysFit == Spec => []RowsFitTogether
<1>1. ASSUME CallsInv, AtomicInv
      PROVE  RowsFitTogether
  <2>1. Idle => CacheDescends /\ TableDescends
    BY <1>1, CacheBetweenCalls, TableBetweenCalls
  <2>2. CacheDescends => KeepsContract(CacheTreeProvider)
    BY CacheIsTree, TreeKeepsContract
  <2>3. ASSUME TableDescends, NEW order \in Seqs!SetToSeqs(DOMAIN records)
        PROVE  KeepsContract(DatabaseTreeProvider(order))
    BY <2>3, DatabaseIsTree, TreeKeepsContract
  <2> QED BY <2>1, <2>2, <2>3 DEF RowsFitTogether
<1> QED BY <1>1, CallsStayConsistent, CallsKeepTrack, PTL

\* The left view shows the whole database: whatever order the records are
\* fetched in, the search through its rows comes to every one of them.
THEOREM EveryRecordIsShown == Spec => []EveryRecordHasItsRow
<1>1. ASSUME CallsInv, AtomicInv
      PROVE  EveryRecordHasItsRow
  <2>1. Idle => TableDescends
    BY <1>1, TableBetweenCalls
  <2>2. ASSUME TableDescends, NEW order \in Seqs!SetToSeqs(DOMAIN records),
               NEW id \in DOMAIN records
        PROVE  IndexForId(DatabaseTreeProvider(order), id).handle = id
    <3>1. PICK provider : provider = DatabaseTreeProvider(order)
      OBVIOUS
    <3>2. TreeOfRows(provider)
      BY <2>2, <3>1, DatabaseIsTree
    <3>3. DOMAIN provider.id = DOMAIN records /\ \A h \in DOMAIN records : provider.id[h] = h
      BY <3>1 DEF DatabaseTreeProvider
    <3>4. \A h, k \in DOMAIN provider.id : provider.id[h] = id /\ provider.id[k] = id => h = k
      BY <3>3
    <3>5. \A t \in DOMAIN provider.id : provider.id[t] = id => IndexForId(provider, id).handle = t
      BY <3>2, <3>4, SearchFinds
    <3> QED BY <3>1, <3>3, <3>5
  <2> QED BY <2>1, <2>2 DEF EveryRecordHasItsRow
<1> QED BY <1>1, CallsStayConsistent, CallsKeepTrack, PTL

-----------------------------------------------------------------------------
(***************************************************************************)
(* The two markings.                                                       *)
(***************************************************************************)
\* A forest: each node has a depth, and its parent a smaller one.
Rooted(up, depth) ==
    /\ NoNode \notin DOMAIN up
    /\ \A x \in DOMAIN up : /\ up[x] \in {NoNode} \cup DOMAIN up
                            /\ depth[x] \in Nat
                            /\ up[x] \in DOMAIN up => depth[up[x]] < depth[x]

\* A subtree is its top and the subtrees of the children.
LEMMA BelowChildren ==
    ASSUME NEW up, NEW h \in DOMAIN up
    PROVE  Below(up, {h}) = {h} \cup UNION {Below(up, {c}) : c \in {k \in DOMAIN up : up[k] = h}}
<1>1. PICK kids : kids = {k \in DOMAIN up : up[k] = h}
  OBVIOUS
<1>2. PICK C : C = {h} \cup UNION {Below(up, {c}) : c \in kids}
  OBVIOUS
<1>3. \A x : Below(up, {x}) \subseteq DOMAIN up
  BY DEF Below
<1>4. C \in SUBSET DOMAIN up
  <2>1. ASSUME NEW e \in C
        PROVE  e \in DOMAIN up
    <3>1. e = h \/ \E c \in kids : e \in Below(up, {c})
      BY <1>2
    <3> QED BY <1>3, <3>1
  <2> QED BY <2>1
<1>5. ASSUME NEW x \in DOMAIN up, up[x] \in C
      PROVE  x \in C
  <2>1. CASE up[x] = h
    <3>1. x \in kids /\ x \in Below(up, {x})
      BY <1>1, <2>1, BelowContains
    <3> QED BY <1>2, <3>1
  <2>2. CASE up[x] # h
    <3>1. PICK c \in kids : up[x] \in Below(up, {c})
      BY <1>2, <1>5, <2>2
    <3>2. x \in Below(up, {c})
      BY <3>1, BelowClosed
    <3> QED BY <1>2, <3>1, <3>2
  <2> QED BY <2>1, <2>2
<1>6. Below(up, {h}) \subseteq C
  <2>1. {h} \cap DOMAIN up \subseteq C
    BY <1>2
  <2> QED BY <1>4, <1>5, <2>1, BelowLeast
<1>7. ASSUME NEW c \in kids
      PROVE  Below(up, {c}) \subseteq Below(up, {h})
  <2>1. c \in Below(up, {h})
    BY <1>1, BelowContains, BelowClosed
  <2>2. PICK B : B = Below(up, {h})
    OBVIOUS
  <2>3. B \in SUBSET DOMAIN up /\ \A x \in DOMAIN up : up[x] \in B => x \in B
    BY <1>3, <2>2, BelowClosed
  <2>4. {c} \cap DOMAIN up \subseteq B
    BY <2>1, <2>2
  <2> QED BY <2>2, <2>3, <2>4, BelowLeast
<1>8. C \subseteq Below(up, {h})
  BY <1>2, <1>7, BelowContains
<1> QED BY <1>1, <1>2, <1>6, <1>8

\* What a recursion over the children marks, if it ends at all.
Marks(up, mark) ==
    mark = [n \in DOMAIN up |-> {n} \cup UNION {mark[c] : c \in {k \in DOMAIN up : up[k] = n}}]

LEMMA MarksExist ==
    ASSUME NEW up, NEW mark, mark = [n \in DOMAIN up |-> Below(up, {n})]
    PROVE  Marks(up, mark)
<1>1. ASSUME NEW n \in DOMAIN up
      PROVE  mark[n] = {n} \cup UNION {mark[c] : c \in {k \in DOMAIN up : up[k] = n}}
  <2>1. PICK kids : kids = {k \in DOMAIN up : up[k] = n}
    OBVIOUS
  <2>2. {Below(up, {c}) : c \in kids} = {mark[c] : c \in kids}
    BY <2>1
  <2>3. Below(up, {n}) = {n} \cup UNION {Below(up, {c}) : c \in kids}
    BY <2>1, BelowChildren
  <2> QED BY <2>1, <2>2, <2>3
<1> QED BY <1>1 DEF Marks

LEMMA MarksAreBelow ==
    ASSUME NEW up, NEW depth, Rooted(up, depth),
           NEW bound \in Nat, \A x \in DOMAIN up : depth[x] <= bound,
           NEW mark, Marks(up, mark), NEW h \in DOMAIN up
    PROVE  mark[h] = Below(up, {h})
<1>1. PICK Wrong : Wrong = {x \in DOMAIN up : mark[x] # Below(up, {x})}
  OBVIOUS
<1>2. SUFFICES ASSUME h \in Wrong
               PROVE  FALSE
  BY <1>1
<1>3. PICK T : T = {depth[x] : x \in Wrong}
  OBVIOUS
<1>4. T \in SUBSET Nat /\ T # {} /\ \A k \in T : k <= bound
  BY <1>1, <1>2, <1>3 DEF Rooted
<1>5. PICK m \in T : \A k \in T : k <= m
  BY <1>4, GreatestElement
<1>6. PICK n \in Wrong : depth[n] = m
  BY <1>3
<1>7. PICK kids : kids = {k \in DOMAIN up : up[k] = n}
  OBVIOUS
<1>8. ASSUME NEW c \in kids
      PROVE  mark[c] = Below(up, {c})
  <2>1. c \in DOMAIN up /\ up[c] = n /\ n \in DOMAIN up
    BY <1>1, <1>7
  <2>2. depth[n] < depth[c] /\ depth[c] \in Nat /\ depth[n] \in Nat
    BY <2>1 DEF Rooted
  <2>3. depth[c] \notin T
    BY <1>5, <1>6, <2>2
  <2> QED BY <1>1, <1>3, <2>1, <2>3
<1>9. {mark[c] : c \in kids} = {Below(up, {c}) : c \in kids}
  BY <1>8
<1>10. mark[n] = {n} \cup UNION {mark[c] : c \in kids}
  BY <1>1, <1>7 DEF Marks
<1>11. Below(up, {n}) = {n} \cup UNION {Below(up, {c}) : c \in kids}
  BY <1>1, <1>7, BelowChildren
<1> QED BY <1>1, <1>9, <1>10, <1>11

\* The nodes and their parents, and how deep they are.
ParentNow == [h \in DOMAIN objects |-> objects[h].parent]
IdNow == [h \in DOMAIN objects |-> objects[h].id]

LEMMA NodesAreRooted ==
    ASSUME CacheDescends
    PROVE  /\ Rooted(ParentNow, IdNow) /\ DOMAIN ParentNow \subseteq Nat
           /\ \E bound \in Nat : \A x \in DOMAIN ParentNow : IdNow[x] <= bound
<1>1. /\ objects \in Seq(Object) /\ Owned(objects, rootList)
      /\ \A h \in DOMAIN objects :
            objects[h].parent # NoNode => objects[objects[h].parent].id < objects[h].id
      /\ \A h \in DOMAIN objects : objects[h].id <= TempBase + MaxTemp
  BY DEF CacheDescends
<1>2. /\ NoNode \notin DOMAIN objects /\ \A h \in DOMAIN objects : objects[h].id \in Nat
      /\ \A h \in DOMAIN objects : objects[h].parent \in {NoNode} \cup DOMAIN objects
  BY <1>1, ObjectFields DEF Owned
<1>3. TempBase + MaxTemp \in Nat
  BY CallsAssumption
<1>4. Rooted(ParentNow, IdNow)
  BY <1>1, <1>2 DEF Rooted, ParentNow, IdNow
<1>5. DOMAIN ParentNow \subseteq Nat
  BY <1>1 DEF ParentNow
<1>6. \A x \in DOMAIN ParentNow : IdNow[x] <= TempBase + MaxTemp
  BY <1>1 DEF ParentNow, IdNow
<1> QED BY <1>3, <1>4, <1>5, <1>6

LEMMA ElementsOfVector ==
    ASSUME CacheDescends, NEW p \in {NoNode} \cup DOMAIN objects
    PROVE  {Children(p)[i] : i \in DOMAIN Children(p)} = {k \in DOMAIN objects : ParentNow[k] = p}
<1>1. PICK vector : vector = Children(p)
  OBVIOUS
<1>2. /\ vector \in Seq(DOMAIN objects)
      /\ \A i \in DOMAIN vector : objects[vector[i]].parent = p
      /\ \A c \in DOMAIN objects : objects[c].parent = p => \E i \in DOMAIN vector : vector[i] = c
  BY <1>1, VectorOfNode
<1>3. \A i \in DOMAIN vector : vector[i] \in DOMAIN objects
  BY <1>2
<1> QED BY <1>1, <1>2, <1>3 DEF ParentNow

LEMMA NodesMarked ==
    ASSUME CacheDescends, NEW h \in DOMAIN objects
    PROVE  MarkedNodes(h) = Below(ParentNow, {h})
<1>1. PICK up : up = ParentNow
  OBVIOUS
<1>2. DOMAIN up = DOMAIN objects
  BY <1>1 DEF ParentNow
<1>3. ASSUME NEW mark, NEW n \in DOMAIN objects
      PROVE  {mark[Children(n)[i]] : i \in DOMAIN Children(n)} =
             {mark[c] : c \in {k \in DOMAIN up : up[k] = n}}
  <2>1. PICK vector : vector = Children(n)
    OBVIOUS
  <2>2. PICK kids : kids = {k \in DOMAIN up : up[k] = n}
    OBVIOUS
  <2>3. {vector[i] : i \in DOMAIN vector} = kids
    BY <1>1, <1>2, <2>1, <2>2, ElementsOfVector
  <2>4. {mark[vector[i]] : i \in DOMAIN vector} = {mark[c] : c \in kids}
    BY <2>3
  <2> QED BY <2>1, <2>2, <2>4
<1> DEFINE Walk(mark) == [n \in DOMAIN objects |->
                {n} \cup UNION {mark[Children(n)[i]] : i \in DOMAIN Children(n)}]
<1>4. ASSUME NEW mark
      PROVE  mark = Walk(mark) <=> Marks(up, mark)
  <2>1. \A n \in DOMAIN objects :
            {n} \cup UNION {mark[Children(n)[i]] : i \in DOMAIN Children(n)} =
            {n} \cup UNION {mark[c] : c \in {k \in DOMAIN up : up[k] = n}}
    <3>1. ASSUME NEW n \in DOMAIN objects, NEW A, NEW B,
                 A = {mark[Children(n)[i]] : i \in DOMAIN Children(n)},
                 B = {mark[c] : c \in {k \in DOMAIN up : up[k] = n}}
          PROVE  {n} \cup UNION A = {n} \cup UNION B
      <4>1. A = B
        BY <1>3, <3>1
      <4> QED BY <4>1
    <3> QED BY <3>1
  <2>2. Walk(mark) = [n \in DOMAIN objects |->
            {n} \cup UNION {mark[c] : c \in {k \in DOMAIN up : up[k] = n}}]
    BY <2>1
  <2> HIDE DEF Walk
  <2> QED BY <1>2, <2>2 DEF Marks
<1>5. \E mark : mark = Walk(mark)
  <2>1. PICK mark : mark = [n \in DOMAIN up |-> Below(up, {n})]
    OBVIOUS
  <2>2. Marks(up, mark)
    BY <2>1, MarksExist
  <2> HIDE DEF Walk
  <2> QED BY <1>4, <2>2
<1>6. \E mark : mark = Walk(mark) /\ MarkedNodes(h) = mark[h]
  BY <1>5 DEF MarkedNodes
<1>7. PICK mark : Marks(up, mark) /\ MarkedNodes(h) = mark[h]
  <2> HIDE DEF Walk
  <2> QED BY <1>4, <1>6
<1>8. PICK bound \in Nat : \A x \in DOMAIN up : IdNow[x] <= bound
  BY <1>1, NodesAreRooted
<1>9. mark[h] = Below(up, {h})
  BY <1>1, <1>2, <1>7, <1>8, NodesAreRooted, MarksAreBelow
<1> QED BY <1>1, <1>7, <1>9

LEMMA RecordsMarked ==
    ASSUME TableDescends, NEW id
    PROVE  MarkedRecords(id) = Doomed(records, {id})
<1>1. PICK up : up = ParentIn(records)
  OBVIOUS
<1>2. DOMAIN up = DOMAIN records /\ \A r \in DOMAIN records : up[r] = records[r].parentId
  BY <1>1 DEF ParentIn
<1>3. PICK n \in Nat : /\ DOMAIN records = 1..n
                       /\ \A r \in 1..n : records[r].parentId \in 0..(r - 1)
  BY DEF TableDescends
<1>4. PICK depth : depth = [r \in 1..n |-> r]
  OBVIOUS
<1>5. Rooted(up, depth) /\ \A x \in DOMAIN up : depth[x] <= n
  <2>1. ASSUME NEW x \in DOMAIN up
        PROVE  /\ up[x] \in {NoNode} \cup DOMAIN up /\ depth[x] \in Nat /\ depth[x] <= n
               /\ up[x] \in DOMAIN up => depth[up[x]] < depth[x]
    <3>1. PICK p : p = up[x]
      OBVIOUS
    <3>2. x \in 1..n /\ p \in 0..(x - 1) /\ DOMAIN up = 1..n
      BY <1>2, <1>3, <3>1
    <3> QED BY <1>4, <3>1, <3>2 DEF NoNode
  <2>2. NoNode \notin DOMAIN up
    BY <1>2, <1>3 DEF NoNode
  <2> QED BY <2>1, <2>2 DEF Rooted
<1>6. CASE id \notin DOMAIN records
  <2>1. MarkedRecords(id) = {}
    BY <1>6 DEF MarkedRecords
  <2>2. PICK none : none = {}
    OBVIOUS
  <2>3. none \in SUBSET DOMAIN up /\ {id} \cap DOMAIN up \subseteq none
        /\ \A x \in DOMAIN up : up[x] \in none => x \in none
    BY <1>2, <1>6, <2>2
  <2>4. Below(up, {id}) \subseteq none
    BY <2>3, BelowLeast
  <2> QED BY <1>1, <2>1, <2>2, <2>4 DEF Doomed
<1>7. CASE id \in DOMAIN records
  <2> DEFINE Walk(mark) == [r \in DOMAIN records |->
            {r} \cup UNION {mark[c] : c \in {k \in DOMAIN records : records[k].parentId = r}}]
  <2>1. ASSUME NEW mark
        PROVE  mark = Walk(mark) <=> Marks(up, mark)
    <3>1. \A r : {k \in DOMAIN records : records[k].parentId = r} = {k \in DOMAIN up : up[k] = r}
      BY <1>2
    <3>2. Walk(mark) = [r \in DOMAIN up |->
              {r} \cup UNION {mark[c] : c \in {k \in DOMAIN up : up[k] = r}}]
      BY <1>2, <3>1
    <3> QED BY <3>2 DEF Marks
  <2>2. \E mark : mark = Walk(mark)
    <3>1. PICK mark : mark = [r \in DOMAIN up |-> Below(up, {r})]
      OBVIOUS
    <3>2. Marks(up, mark)
      BY <3>1, MarksExist
    <3> HIDE DEF Walk
    <3> QED BY <2>1, <3>2
  <2>3. \E mark : mark = Walk(mark) /\ MarkedRecords(id) = mark[id]
    BY <1>7, <2>2 DEF MarkedRecords
  <2>4. PICK mark : Marks(up, mark) /\ MarkedRecords(id) = mark[id]
    <3> HIDE DEF Walk
    <3> QED BY <2>1, <2>3
  <2>5. mark[id] = Below(up, {id})
    BY <1>2, <1>5, <1>7, <2>4, MarksAreBelow
  <2> QED BY <1>1, <2>4, <2>5 DEF Doomed
<1> QED BY <1>6, <1>7

\* What the interface greys out after a deletion is the subtree, in the cache
\* and in the database: both recursions mark everything below the element
\* they are called on, and stop there.
THEOREM MarkingsCoverSubtrees == Spec => []MarkingCoversSubtree
<1>1. ASSUME CallsInv, AtomicInv
      PROVE  MarkingCoversSubtree
  <2>1. Idle => CacheDescends /\ TableDescends
    BY <1>1, CacheBetweenCalls, TableBetweenCalls
  <2>2. Idle => Atomic!Up = ParentNow
    <3>1. ASSUME Idle
          PROVE  Atomic!Up = ParentNow
      <4>1. Seen = Now
        BY <3>1, SeenOutside
      <4>2. DOMAIN Now.nodes = DOMAIN objects
            /\ \A h \in DOMAIN objects : Now.nodes[h].parent = objects[h].parent
        BY <1>1, NowNodes DEF SameFields
      <4> QED BY <4>1, <4>2 DEF Atomic!Up, ParentNow
    <3> QED BY <3>1
  <2>3. \A up, S : Atomic!Below(up, S) = Below(up, S)
    BY DEF Atomic!Below, Below, Atomic!ClosedAbove, ClosedAbove
  <2>4. ASSUME CacheDescends, NEW h \in DOMAIN objects
        PROVE  MarkedNodes(h) = Below(ParentNow, {h})
    BY <2>4, NodesMarked
  <2>5. ASSUME TableDescends, NEW id
        PROVE  MarkedRecords(id) = Doomed(records, {id})
    BY <2>5, RecordsMarked
  <2> QED BY <2>1, <2>2, <2>3, <2>4, <2>5 DEF MarkingCoversSubtree
<1> QED BY <1>1, CallsStayConsistent, CallsKeepTrack, PTL

-----------------------------------------------------------------------------
(***************************************************************************)
(* Paths in a forest.                                                      *)
(***************************************************************************)
LEMMA PathType ==
    ASSUME NEW up, NEW x
    PROVE  Path(up, x) \subseteq DOMAIN up
BY DEF Path

\* Ancestors of ancestors are ancestors.
LEMMA PathGoesUp ==
    ASSUME NEW up, NEW x, NEW y \in Path(up, x)
    PROVE  Path(up, y) \subseteq Path(up, x)
<1>1. PICK C : C = Path(up, x)
  OBVIOUS
<1>2. C \in SUBSET DOMAIN up /\ \A z \in C : up[z] \in DOMAIN up => up[z] \in C
  BY <1>1, PathType, PathClosed
<1> QED BY <1>1, <1>2, PathLeast

\* The path of a node beyond the node itself is that of its parent.
LEMMA PathAboveNode ==
    ASSUME NEW up, NEW x \in DOMAIN up, NEW y \in Path(up, x), y # x
    PROVE  up[x] \in DOMAIN up /\ y \in Path(up, up[x])
<1>1. up[x] \in DOMAIN up
  BY PathOfRoot
<1> QED BY <1>1, PathOfChild

\* It leads to lesser depths.
LEMMA PathRises ==
    ASSUME NEW up, NEW depth, Rooted(up, depth), NEW x \in DOMAIN up, NEW y \in Path(up, x)
    PROVE  depth[y] <= depth[x] /\ (y # x => depth[y] < depth[x])
<1>1. ASSUME NEW z \in DOMAIN up, NEW w \in Path(up, z)
      PROVE  depth[w] <= depth[z]
  <2>1. PICK C : C = {v \in DOMAIN up : depth[v] <= depth[z]}
    OBVIOUS
  <2>2. z \in C /\ C \in SUBSET DOMAIN up
    BY <2>1 DEF Rooted
  <2>3. ASSUME NEW v \in C, up[v] \in DOMAIN up
        PROVE  up[v] \in C
    <3>1. PICK p : p = up[v]
      OBVIOUS
    <3>2. /\ depth[p] < depth[v] /\ depth[v] <= depth[z]
          /\ depth[p] \in Nat /\ depth[v] \in Nat /\ depth[z] \in Nat
      BY <2>1, <2>3, <3>1 DEF Rooted
    <3> QED BY <2>1, <2>3, <3>1, <3>2
  <2>4. Path(up, z) \subseteq C
    BY <2>2, <2>3, PathLeast
  <2> QED BY <2>1, <2>4
<1>2. depth[y] <= depth[x]
  BY <1>1
<1>3. ASSUME y # x
      PROVE  depth[y] < depth[x]
  <2>1. PICK p : p = up[x]
    OBVIOUS
  <2>2. p \in DOMAIN up /\ y \in Path(up, p)
    BY <1>3, <2>1, PathAboveNode
  <2>3. depth[y] <= depth[p]
    BY <1>1, <2>2
  <2>4. y \in DOMAIN up
    BY PathType
  <2>5. depth[p] < depth[x] /\ depth[p] \in Nat /\ depth[x] \in Nat /\ depth[y] \in Nat
    BY <2>1, <2>2, <2>4 DEF Rooted
  <2> QED BY <2>3, <2>5
<1> QED BY <1>2, <1>3

\* Of two nodes of a path one is above the other.
LEMMA PathIsLine ==
    ASSUME NEW up, NEW x \in DOMAIN up, NEW c \in Path(up, x), NEW p \in Path(up, x)
    PROVE  p \in Path(up, c) \/ c \in Path(up, p)
<1>1. PICK C : C = {y \in Path(up, x) : y \in Path(up, c) \/ c \in Path(up, y)}
  OBVIOUS
<1>2. C \in SUBSET DOMAIN up /\ x \in C
  BY <1>1, PathType, PathContains
<1>3. ASSUME NEW y \in C, up[y] \in DOMAIN up
      PROVE  up[y] \in C
  <2>1. up[y] \in Path(up, x)
    BY <1>1, <1>3, PathClosed
  <2>2. CASE y \in Path(up, c)
    <3>1. up[y] \in Path(up, c)
      BY <1>3, <2>2, PathClosed
    <3> QED BY <1>1, <2>1, <3>1
  <2>3. CASE c \in Path(up, y)
    <3>1. CASE c = y
      <4>1. y \in Path(up, c)
        BY <2>3, <3>1
      <4> QED BY <2>2, <4>1
    <3>2. CASE c # y
      <4>1. y \in DOMAIN up
        BY <1>2
      <4>2. c \in Path(up, up[y])
        BY <2>3, <3>2, <4>1, PathAboveNode
      <4> QED BY <1>1, <2>1, <4>2
    <3> QED BY <3>1, <3>2
  <2> QED BY <1>1, <2>2, <2>3
<1>4. Path(up, x) \subseteq C
  BY <1>2, <1>3, PathLeast
<1> QED BY <1>1, <1>4

\* It has one node of each generation.
LEMMA PathHasNoSiblings ==
    ASSUME NEW up, NEW depth, Rooted(up, depth), NEW x \in DOMAIN up,
           NEW p \in Path(up, x), NEW q \in Path(up, x), up[p] = up[q]
    PROVE  p = q
<1>1. ASSUME NEW a \in DOMAIN up, NEW b \in DOMAIN up, up[a] = up[b], a \in Path(up, b), a # b
      PROVE  FALSE
  <2>1. PICK u : u = up[b]
    OBVIOUS
  <2>2. u \in DOMAIN up /\ a \in Path(up, u)
    BY <1>1, <2>1, PathAboveNode
  <2>3. depth[a] <= depth[u]
    BY <2>2, PathRises
  <2>4. depth[u] < depth[a] /\ depth[a] \in Nat /\ depth[u] \in Nat
    BY <1>1, <2>1, <2>2 DEF Rooted
  <2> QED BY <2>3, <2>4
<1>2. p \in DOMAIN up /\ q \in DOMAIN up
  BY PathType
<1>3. p \in Path(up, q) \/ q \in Path(up, p)
  BY PathIsLine
<1> QED BY <1>1, <1>2, <1>3

\* Below a node there are its children and what is below them.
LEMMA PathThroughChild ==
    ASSUME NEW up, NEW x \in DOMAIN up, NEW h \in Path(up, x), h # x
    PROVE  \E c \in Path(up, x) : up[c] = h
<1>1. SUFFICES ASSUME \A c \in Path(up, x) : up[c] # h
               PROVE  FALSE
  OBVIOUS
<1>2. PICK C : C = Path(up, x) \ {h}
  OBVIOUS
<1>3. C \in SUBSET DOMAIN up /\ x \in C
  BY <1>2, PathType, PathContains
<1>4. \A y \in C : up[y] \in DOMAIN up => up[y] \in C
  BY <1>1, <1>2, PathClosed
<1>5. Path(up, x) \subseteq C
  BY <1>3, <1>4, PathLeast
<1> QED BY <1>2, <1>5

LEMMA PathFromRoot ==
    ASSUME NEW up, NEW depth, Rooted(up, depth), NEW x \in DOMAIN up
    PROVE  \E c \in Path(up, x) : up[c] = NoNode
<1>1. PICK T : T = {depth[c] : c \in Path(up, x)}
  OBVIOUS
<1>2. T \in SUBSET Nat /\ T # {}
  BY <1>1, PathType, PathContains DEF Rooted
<1>3. PICK m \in T : \A k \in T : m <= k
  BY <1>2, LeastElement
<1>4. PICK c \in Path(up, x) : depth[c] = m
  BY <1>1, <1>3
<1>5. c \in DOMAIN up
  BY PathType
<1>6. ASSUME up[c] \in DOMAIN up
      PROVE  FALSE
  <2>1. PICK p : p = up[c]
    OBVIOUS
  <2>2. p \in Path(up, x)
    BY <1>6, <2>1, PathClosed
  <2>3. m <= depth[p]
    BY <1>1, <1>3, <2>2
  <2>4. depth[p] < depth[c] /\ depth[p] \in Nat /\ depth[c] \in Nat
    BY <1>5, <1>6, <2>1 DEF Rooted
  <2> QED BY <1>4, <2>3, <2>4
<1> QED BY <1>5, <1>6 DEF Rooted

\* What is below a node, or anywhere, below NoNode.
Under(up, h) == {x \in DOMAIN up : h = NoNode \/ h \in Path(up, x)}

LEMMA UnderChildren ==
    ASSUME NEW up, NEW depth, Rooted(up, depth), NEW h \in {NoNode} \cup DOMAIN up, NEW x
    PROVE  x \in Under(up, h) <=>
               \/ x = h /\ h # NoNode
               \/ \E c \in DOMAIN up : up[c] = h /\ x \in Under(up, c)
<1>1. NoNode \notin DOMAIN up
  BY DEF Rooted
<1>2. ASSUME NEW c \in DOMAIN up, up[c] = h, x \in Under(up, c)
      PROVE  x \in Under(up, h)
  <2>1. c \in Path(up, x) /\ x \in DOMAIN up
    BY <1>1, <1>2 DEF Under
  <2>2. h \in DOMAIN up => h \in Path(up, x)
    BY <1>2, <2>1, PathClosed
  <2> QED BY <2>1, <2>2 DEF Under
<1>3. x = h /\ h # NoNode => x \in Under(up, h)
  BY PathContains DEF Under
<1>4. ASSUME x \in Under(up, h), x # h \/ h = NoNode
      PROVE  \E c \in DOMAIN up : up[c] = h /\ x \in Under(up, c)
  <2>1. x \in DOMAIN up
    BY <1>4 DEF Under
  <2>2. PICK c \in Path(up, x) : up[c] = h
    <3>1. CASE h = NoNode
      BY <2>1, <3>1, PathFromRoot
    <3>2. CASE h # NoNode
      <4>1. h \in Path(up, x) /\ h # x
        BY <1>4, <3>2 DEF Under
      <4> QED BY <2>1, <4>1, PathThroughChild
    <3> QED BY <3>1, <3>2
  <2>3. c \in DOMAIN up
    BY PathType
  <2> QED BY <2>1, <2>2, <2>3 DEF Under
<1> QED BY <1>2, <1>3, <1>4

\* A node comes before what is below it.
LEMMA NodeFirst ==
    ASSUME NEW up, NEW depth, Rooted(up, depth), DOMAIN up \subseteq Nat,
           NEW h \in DOMAIN up, NEW x \in Under(up, h), x # h
    PROVE  Precedes(up, h, x)
<1>1. x \in DOMAIN up /\ h \in Path(up, x)
  BY DEF Under, Rooted
<1>2. x \notin Path(up, h)
  <2>1. SUFFICES ASSUME x \in Path(up, h)
                 PROVE  FALSE
    OBVIOUS
  <2>2. depth[h] < depth[x] /\ depth[x] < depth[h]
    BY <1>1, <2>1, PathRises
  <2> QED BY <1>1, <2>2 DEF Rooted
<1>3. ASSUME NEW p \in Path(up, h), NEW q \in Path(up, x), up[p] = up[q]
      PROVE  p <= q
  <2>1. p \in Path(up, x)
    BY <1>1, PathGoesUp
  <2>2. p = q
    BY <1>1, <1>3, <2>1, PathHasNoSiblings
  <2>3. p \in Nat
    BY PathType
  <2> QED BY <2>2, <2>3
<1> QED BY <1>2, <1>3 DEF Precedes

\* The subtree of an older sibling comes before that of a younger one.
LEMMA OlderFirst ==
    ASSUME NEW up, NEW depth, Rooted(up, depth), DOMAIN up \subseteq Nat,
           NEW c \in DOMAIN up, NEW d \in DOMAIN up, up[c] = up[d], c < d,
           NEW a \in Under(up, c), NEW b \in Under(up, d)
    PROVE  Precedes(up, a, b)
<1>1. a \in DOMAIN up /\ b \in DOMAIN up /\ c \in Path(up, a) /\ d \in Path(up, b)
  BY DEF Under, Rooted
<1>2. c # d /\ c \in Nat /\ d \in Nat
  OBVIOUS
<1>3. \A z \in DOMAIN up : ~(c \in Path(up, z) /\ d \in Path(up, z))
  BY <1>2, PathHasNoSiblings
<1>4. b \notin Path(up, a)
  <2>1. b \in Path(up, a) => d \in Path(up, a)
    BY <1>1, PathGoesUp
  <2> QED BY <1>1, <1>3, <2>1
<1>5. ASSUME NEW p \in Path(up, a), NEW q \in Path(up, b), up[p] = up[q]
      PROVE  p <= q
  <2>0. p \in DOMAIN up /\ q \in DOMAIN up /\ p \in Nat /\ q \in Nat
    BY PathType
  <2>1. p \in Path(up, c)
    <3>1. SUFFICES ASSUME p \notin Path(up, c)
                   PROVE  FALSE
      OBVIOUS
    <3>2. c \in Path(up, p) /\ p # c
      BY <1>1, <3>1, PathIsLine, PathContains
    <3>3. up[p] \in DOMAIN up /\ c \in Path(up, up[p])
      BY <2>0, <3>2, PathAboveNode
    <3>4. up[q] \in Path(up, b)
      BY <1>5, <3>3, PathClosed
    <3>5. c \in Path(up, b)
      BY <1>5, <3>3, <3>4, PathGoesUp
    <3> QED BY <1>1, <1>3, <3>5
  <2>2. q \in Path(up, d)
    <3>1. SUFFICES ASSUME q \notin Path(up, d)
                   PROVE  FALSE
      OBVIOUS
    <3>2. d \in Path(up, q) /\ q # d
      BY <1>1, <3>1, PathIsLine, PathContains
    <3>3. up[q] \in DOMAIN up /\ d \in Path(up, up[q])
      BY <2>0, <3>2, PathAboveNode
    <3>4. up[p] \in Path(up, a)
      BY <1>5, <3>3, PathClosed
    <3>5. d \in Path(up, a)
      BY <1>5, <3>3, <3>4, PathGoesUp
    <3> QED BY <1>1, <1>3, <3>5
  <2>3. CASE p = c
    <3>1. up[q] = up[d]
      BY <1>5, <2>3
    <3>2. q = d
      BY <2>2, <3>1, PathContains, PathHasNoSiblings
    <3> QED BY <1>2, <2>3, <3>2
  <2>4. CASE p # c
    <3>1. q # d
      <4>1. SUFFICES ASSUME q = d
                     PROVE  FALSE
        OBVIOUS
      <4>2. up[p] = up[c]
        BY <1>5, <4>1
      <4>3. p = c
        BY <2>1, <4>2, PathContains, PathHasNoSiblings
      <4> QED BY <2>4, <4>3
    <3>2. PICK u : u = up[c]
      OBVIOUS
    <3>3. u \in DOMAIN up /\ p \in Path(up, u)
      BY <2>1, <2>4, <3>2, PathAboveNode
    <3>4. q \in Path(up, u)
      BY <2>2, <3>1, <3>2, PathAboveNode
    <3>5. p = q
      BY <1>5, <3>3, <3>4, PathHasNoSiblings
    <3> QED BY <2>0, <3>5
  <2> QED BY <2>3, <2>4
<1> QED BY <1>4, <1>5 DEF Precedes

\* Two nodes cannot each come before the other.
LEMMA PrecedesOneWay ==
    ASSUME NEW up, NEW depth, Rooted(up, depth), DOMAIN up \subseteq Nat,
           NEW a \in DOMAIN up, NEW b \in DOMAIN up, Precedes(up, a, b), Precedes(up, b, a)
    PROVE  FALSE
<1>1. /\ b \notin Path(up, a) /\ a \notin Path(up, b)
      /\ \A p \in Path(up, a), q \in Path(up, b) : up[p] = up[q] => p <= q /\ q <= p
  BY DEF Precedes
<1>2. ASSUME NEW p \in Path(up, a), NEW q \in Path(up, b), up[p] = up[q]
      PROVE  p = q
  <2>1. p \in Nat /\ q \in Nat
    BY PathType
  <2> QED BY <1>1, <1>2, <2>1
<1>3. PICK C : C = Path(up, a) \cap Path(up, b)
  OBVIOUS
<1>4. C # {}
  <2>1. PICK p \in Path(up, a) : up[p] = NoNode
    BY PathFromRoot
  <2>2. PICK q \in Path(up, b) : up[q] = NoNode
    BY PathFromRoot
  <2> QED BY <1>2, <1>3, <2>1, <2>2
<1>5. PICK T : T = {depth[c] : c \in C}
  OBVIOUS
<1>6. T \in SUBSET Nat /\ T # {} /\ depth[a] \in Nat
  BY <1>3, <1>4, <1>5, PathType DEF Rooted
<1>7. \A k \in T : k <= depth[a]
  BY <1>3, <1>5, PathRises
<1>8. PICK m \in T : \A k \in T : k <= m
  BY <1>6, <1>7, GreatestElement
<1>9. PICK c \in C : depth[c] = m
  BY <1>5, <1>8
<1>10. c # a /\ c # b
  BY <1>1, <1>3
<1>11. PICK p \in Path(up, a) : up[p] = c
  BY <1>3, <1>10, PathThroughChild
<1>12. PICK q \in Path(up, b) : up[q] = c
  BY <1>3, <1>10, PathThroughChild
<1>13. p = q /\ p \in C
  BY <1>2, <1>3, <1>11, <1>12
<1>14. depth[p] \in T /\ depth[c] < depth[p] /\ depth[p] \in Nat /\ depth[c] \in Nat
  <2>1. p \in DOMAIN up /\ c \in DOMAIN up
    BY <1>3, PathType
  <2> QED BY <1>5, <1>11, <1>13, <2>1 DEF Rooted
<1> QED BY <1>8, <1>9, <1>14

-----------------------------------------------------------------------------
(***************************************************************************)
(* The walk of a synchronisation, as a recursion.                          *)
(***************************************************************************)
LEMMA JoinInOrder ==
    ASSUME NEW up, NEW f \in Seq(Nat), NEW r \in Seq(Nat), InOrder(up, f), InOrder(up, r),
           \A a \in Elements(f), b \in Elements(r) : Precedes(up, a, b),
           NEW both, both = f \o r
    PROVE  InOrder(up, both)
<1>1. /\ Len(f) \in Nat /\ Len(r) \in Nat
      /\ DOMAIN f = 1..Len(f) /\ DOMAIN r = 1..Len(r)
      /\ DOMAIN both = 1..(Len(f) + Len(r))
      /\ \A i \in 1..(Len(f) + Len(r)) :
            both[i] = IF i <= Len(f) THEN f[i] ELSE r[i - Len(f)]
  BY ConcatProperties
<1>2. ASSUME NEW i \in DOMAIN both, NEW j \in DOMAIN both, i < j
      PROVE  Precedes(up, both[i], both[j])
  <2>1. i \in Int /\ j \in Int
    BY <1>1
  <2>2. CASE j <= Len(f)
    <3>1. i \in DOMAIN f /\ j \in DOMAIN f /\ both[i] = f[i] /\ both[j] = f[j]
      BY <1>1, <1>2, <2>2
    <3> QED BY <1>2, <3>1 DEF InOrder
  <2>3. CASE ~(i <= Len(f))
    <3>0. PICK n, o : n = Len(f) /\ o = Len(r)
      OBVIOUS
    <3>1. PICK k, l : k = i - Len(f) /\ l = j - Len(f)
      OBVIOUS
    <3>2. k \in DOMAIN r /\ l \in DOMAIN r /\ k < l
      <4>1. n \in Nat /\ o \in Nat /\ i \in 1..(n + o) /\ j \in 1..(n + o) /\ ~(i <= n)
        BY <1>1, <2>3, <3>0
      <4>2. i - n \in 1..o /\ j - n \in 1..o /\ i - n < j - n
        BY <1>2, <4>1
      <4> QED BY <1>1, <3>0, <3>1, <4>2
    <3>3. ~(j <= Len(f))
      BY <1>1, <1>2, <2>1, <2>3
    <3>4. both[i] = r[k] /\ both[j] = r[l]
      BY <1>1, <2>1, <2>3, <3>1, <3>3
    <3> QED BY <3>2, <3>4 DEF InOrder
  <2>4. CASE i <= Len(f) /\ ~(j <= Len(f))
    <3>1. PICK l : l = j - Len(f)
      OBVIOUS
    <3>2. i \in DOMAIN f /\ l \in DOMAIN r /\ both[i] = f[i] /\ both[j] = r[l]
      BY <1>1, <2>1, <2>4, <3>1
    <3> QED BY <3>2 DEF Elements
  <2> QED BY <2>2, <2>3, <2>4
<1> QED BY <1>2 DEF InOrder

\* Parts of a walk, each after the other.
Parts(up, parts, m) ==
    /\ parts = [i \in 1..m |-> parts[i]]
    /\ \A i \in 1..m : parts[i] \in Seq(Nat) /\ InOrder(up, parts[i])
    /\ \A i, j \in 1..m : i < j =>
          \A a \in Elements(parts[i]), b \in Elements(parts[j]) : Precedes(up, a, b)

Gathers(s, parts, m) ==
    \A e : e \in Elements(s) <=> \E j \in 1..m : e \in Elements(parts[j])

Flattened(parts, m, flat) ==
    flat = [i \in 1..m |-> IF i = 1 THEN parts[i] ELSE flat[i - 1] \o parts[i]]

LEMMA FlattenedExists ==
    ASSUME NEW parts, NEW m \in Nat
    PROVE  \E flat : Flattened(parts, m, flat)
<1> DEFINE Solved(f, k) ==
               /\ f = [i \in 1..m |-> f[i]]
               /\ \A i \in 1..m : i <= k =>
                     f[i] = IF i = 1 THEN parts[i] ELSE f[i - 1] \o parts[i]
           Left == {k \in 0..m : \E f : Solved(f, m - k)}
<1>1. m \in Left
  <2>1. PICK f : f = [i \in 1..m |-> << >>]
    OBVIOUS
  <2>2. f = [i \in 1..m |-> f[i]]
    BY <2>1
  <2>3. \A i \in 1..m : ~(i <= 0)
    OBVIOUS
  <2>4. Solved(f, 0)
    BY <2>2, <2>3
  <2> HIDE DEF Solved
  <2> QED BY <2>4
<1>2. PICK k \in Left : \A l \in Left : k <= l
  <2>1. Left \in SUBSET Nat /\ Left # {}
    BY <1>1
  <2> HIDE DEF Left
  <2> QED BY <2>1, LeastElement
<1>3. k = 0
  <2>1. SUFFICES ASSUME k # 0
                 PROVE  FALSE
    OBVIOUS
  <2>2. PICK l, n : l = k - 1 /\ n = m - k
    OBVIOUS
  <2>3. l \in 0..m /\ l < k /\ n \in Nat /\ m - l = n + 1 /\ n + 1 \in 1..m
    BY <2>1, <2>2
  <2>4. PICK f : Solved(f, n)
    BY <2>2
  <2>5. PICK next : next = n + 1
    OBVIOUS
  <2>6. PICK v : v = IF next = 1 THEN parts[next] ELSE f[next - 1] \o parts[next]
    OBVIOUS
  <2>7. PICK g : g = [i \in 1..m |-> IF i = next THEN v ELSE f[i]]
    OBVIOUS
  <2>8. g = [i \in 1..m |-> g[i]]
    BY <2>7
  <2>9. ASSUME NEW i \in 1..m, i <= next
        PROVE  g[i] = IF i = 1 THEN parts[i] ELSE g[i - 1] \o parts[i]
    <3>1. i # 1 => i - 1 \in 1..m /\ i - 1 # next
      BY <2>3, <2>5, <2>9
    <3>2. i # 1 => g[i - 1] = f[i - 1]
      BY <2>7, <3>1
    <3>3. CASE i = next
      BY <2>6, <2>7, <3>2, <3>3
    <3>4. CASE i # next
      <4>1. i <= n
        BY <2>3, <2>5, <2>9, <3>4
      <4>2. f[i] = IF i = 1 THEN parts[i] ELSE f[i - 1] \o parts[i]
        BY <2>4, <4>1
      <4> QED BY <2>7, <3>2, <3>4, <4>2
    <3> QED BY <3>3, <3>4
  <2>10. Solved(g, next)
    BY <2>8, <2>9
  <2>11. l \in Left
    <3> HIDE DEF Solved
    <3> QED BY <2>3, <2>5, <2>10
  <2> HIDE DEF Left
  <2> QED BY <1>2, <2>3, <2>11
<1>4. PICK f : Solved(f, m)
  <2> HIDE DEF Solved
  <2> QED BY <1>2, <1>3
<1>5. Flattened(parts, m, f)
  <2>1. ASSUME NEW i \in 1..m
        PROVE  f[i] = IF i = 1 THEN parts[i] ELSE f[i - 1] \o parts[i]
    <3>1. i <= m
      OBVIOUS
    <3> QED BY <1>4, <3>1
  <2>2. f = [i \in 1..m |-> f[i]]
    BY <1>4
  <2>3. f = [i \in 1..m |-> IF i = 1 THEN parts[i] ELSE f[i - 1] \o parts[i]]
    BY <2>1, <2>2
  <2> QED BY <2>3 DEF Flattened
<1> QED BY <1>5

LEMMA FlattenedInOrder ==
    ASSUME NEW up, NEW parts, NEW m \in Nat, Parts(up, parts, m),
           NEW flat, Flattened(parts, m, flat), NEW i \in 1..m
    PROVE  /\ flat[i] \in Seq(Nat) /\ InOrder(up, flat[i])
           /\ Gathers(flat[i], parts, i)
<1> DEFINE Good(k) == /\ flat[k] \in Seq(Nat) /\ InOrder(up, flat[k])
                      /\ Gathers(flat[k], parts, k)
           Bad == {k \in 1..m : ~Good(k)}
<1>1. SUFFICES ASSUME i \in Bad
               PROVE  FALSE
  OBVIOUS
<1>2. PICK k \in Bad : \A l \in Bad : k <= l
  <2> HIDE DEF Good
  <2>1. Bad \in SUBSET Nat /\ Bad # {}
    BY <1>1
  <2> HIDE DEF Bad
  <2> QED BY <2>1, LeastElement
<1>3. k \in 1..m /\ ~Good(k)
  <2> HIDE DEF Good
  <2> QED BY <1>2
<1>4. PICK part : part = parts[k]
  OBVIOUS
<1>5. part \in Seq(Nat) /\ InOrder(up, part)
  BY <1>3, <1>4 DEF Parts
<1>6. CASE k = 1
  <2>1. flat[k] = part
    BY <1>3, <1>4, <1>6 DEF Flattened
  <2>2. Gathers(part, parts, k)
    <3>1. 1..k = {k}
      BY <1>6
    <3> QED BY <1>4, <3>1 DEF Gathers
  <2> QED BY <1>3, <1>5, <2>1, <2>2
<1>7. CASE k # 1
  <2>1. PICK l : l = k - 1
    OBVIOUS
  <2>2. l \in 1..m /\ l < k /\ ~(k <= l)
    BY <1>3, <1>7, <2>1
  <2>3. Good(l)
    <3> HIDE DEF Good
    <3> QED BY <1>2, <2>2
  <2>4. PICK start : start = flat[l]
    OBVIOUS
  <2>5. start \in Seq(Nat) /\ InOrder(up, start)
        /\ Gathers(start, parts, l)
    BY <2>3, <2>4
  <2>6. flat[k] = start \o part
    BY <1>3, <1>4, <1>7, <2>1, <2>4 DEF Flattened
  <2>7. ASSUME NEW a \in Elements(start), NEW b \in Elements(part)
        PROVE  Precedes(up, a, b)
    <3>1. PICK j \in 1..l : a \in Elements(parts[j])
      BY <2>5 DEF Gathers
    <3>2. j \in 1..m /\ j < k
      BY <2>2, <3>1
    <3> QED BY <1>3, <1>4, <3>1, <3>2 DEF Parts
  <2>8. PICK both : both = start \o part
    OBVIOUS
  <2>9. both \in Seq(Nat) /\ InOrder(up, both)
    <3>1. both \in Seq(Nat)
      BY <1>5, <2>5, <2>8
    <3>2. InOrder(up, both)
      BY <1>5, <2>5, <2>7, <2>8, JoinInOrder
    <3> QED BY <3>1, <3>2
  <2>10. Elements(both) = Elements(start) \cup Elements(part)
    BY <1>5, <2>5, <2>8, ElementsOfBoth
  <2>11. 1..k = (1..l) \cup {k}
    BY <1>3, <2>1, <2>2
  <2>12. Gathers(both, parts, k)
    <3>1. \A e : (\E j \in 1..k : e \in Elements(parts[j])) <=>
                 (\E j \in 1..l : e \in Elements(parts[j])) \/ e \in Elements(part)
      BY <1>4, <2>11
    <3> QED BY <2>5, <2>10, <3>1 DEF Gathers
  <2>13. Good(k)
    <3>1. flat[k] = both
      BY <2>6, <2>8
    <3> QED BY <2>9, <2>12, <3>1
  <2> HIDE DEF Good
  <2> QED BY <1>3, <2>13
<1> QED BY <1>6, <1>7

LEMMA FlattenInOrder ==
    ASSUME NEW up, NEW parts, NEW m \in Nat, Parts(up, parts, m),
           NEW whole, whole = Seqs!FlattenSeq(parts)
    PROVE  /\ whole \in Seq(Nat) /\ InOrder(up, whole)
           /\ Gathers(whole, parts, m)
<1>1. parts \in Seq(Seq(Nat)) /\ Len(parts) = m
  <2>1. parts \in [1..m -> Seq(Nat)]
    BY DEF Parts
  <2> QED BY <2>1
<1>2. CASE m = 0
  <2>1. whole = parts
    BY <1>1, <1>2 DEF Seqs!FlattenSeq
  <2>2. parts = << >>
    BY <1>1, <1>2
  <2>3. Elements(whole) = {} /\ 1..m = {}
    BY <1>2, <2>1, <2>2 DEF Elements
  <2> QED BY <2>1, <2>2, <2>3 DEF InOrder, Gathers
<1>3. CASE m # 0
  <2> DEFINE Flat(f) == [i \in 1..m |-> IF i = 1 THEN parts[i] ELSE f[i - 1] \o parts[i]]
  <2>1. \E f : f = Flat(f)
    <3>1. PICK f : Flattened(parts, m, f)
      BY FlattenedExists
    <3> QED BY <3>1 DEF Flattened
  <2>2. \E f : f = Flat(f) /\ whole = f[m]
    BY <1>1, <1>3, <2>1 DEF Seqs!FlattenSeq
  <2>3. PICK f : Flattened(parts, m, f) /\ whole = f[m]
    BY <2>2 DEF Flattened
  <2>4. m \in 1..m
    BY <1>3
  <2>5. /\ f[m] \in Seq(Nat) /\ InOrder(up, f[m])
        /\ Gathers(f[m], parts, m)
    BY <2>3, <2>4, FlattenedInOrder
  <2> QED BY <2>3, <2>5
<1> QED BY <1>2, <1>3

\* The vectors lead to greater depths.
Deepens(depth, bound) ==
    \A p \in {NoNode} \cup DOMAIN objects :
        /\ depth[p] \in Nat /\ depth[p] < bound
        /\ \A i \in DOMAIN Children(p) :
              /\ Children(p)[i] \in {NoNode} \cup DOMAIN objects
              /\ depth[Children(p)[i]] > depth[p]

LEMMA CacheDeepens ==
    ASSUME CacheDescends
    PROVE  \E depth : \E bound \in Nat : Deepens(depth, bound)
<1>1. PICK provider : provider = CacheTreeProvider
  OBVIOUS
<1>2. TreeOfRows(provider)
  BY <1>1, CacheIsTree
<1>3. /\ DOMAIN provider.rows = {NoNode} \cup DOMAIN objects
      /\ \A p \in {NoNode} \cup DOMAIN objects : provider.rows[p] = Children(p)
  BY <1>1 DEF CacheTreeProvider
<1>4. PICK depth : depth = Depth(provider)
  OBVIOUS
<1>5. PICK bound \in Nat : \A p \in DOMAIN provider.rows : depth[p] \in Nat /\ depth[p] < bound
  BY <1>2, <1>4, DepthIsBounded
<1>6. ASSUME NEW p \in {NoNode} \cup DOMAIN objects, NEW i \in DOMAIN Children(p)
      PROVE  /\ Children(p)[i] \in {NoNode} \cup DOMAIN objects
             /\ depth[Children(p)[i]] > depth[p]
  <2>1. PICK vector : vector = provider.rows[p]
    OBVIOUS
  <2>2. vector = Children(p) /\ p \in DOMAIN provider.rows
    BY <1>3, <2>1
  <2>3. \A k \in DOMAIN vector : vector[k] \in DOMAIN provider.rows /\ depth[vector[k]] > depth[p]
    BY <1>2, <1>4, <2>1, <2>2, RowsAreDeeper
  <2> QED BY <1>3, <2>2, <2>3
<1>7. Deepens(depth, bound)
  BY <1>3, <1>5, <1>6 DEF Deepens
<1> QED BY <1>7

LEMMA VisitAlike ==
    ASSUME NEW S, NEW f, NEW g, NEW n,
           \A i \in DOMAIN Children(n) : f[Children(n)[i]] = g[Children(n)[i]]
    PROVE  VisitAt(S, f, n) = VisitAt(S, g, n)
<1>1. PICK vector : vector = Children(n)
  OBVIOUS
<1>2. [i \in DOMAIN vector |-> f[vector[i]]] = [i \in DOMAIN vector |-> g[vector[i]]]
  BY <1>1
<1> QED BY <1>1, <1>2 DEF VisitAt

\* The walk ends: what is visited below a node is known once it is known below
\* the nodes that are deeper.
LEMMA VisitIsDefined ==
    ASSUME CacheDescends, NEW S
    PROVE  \E g : g = [n \in {NoNode} \cup DOMAIN objects |-> VisitAt(S, g, n)]
<1>1. PICK P : P = {NoNode} \cup DOMAIN objects
  OBVIOUS
<1>2. \E depth : \E bound \in Nat : Deepens(depth, bound)
  BY CacheDeepens
<1>3. PICK depth : \E bound \in Nat : Deepens(depth, bound)
  BY <1>2
<1>4. PICK bound \in Nat : Deepens(depth, bound)
  BY <1>3
<1> DEFINE Solved(g, k) ==
               /\ g = [p \in P |-> g[p]]
               /\ \A p \in P : depth[p] >= k => g[p] = VisitAt(S, g, p)
           Known == {k \in Nat : \E g : Solved(g, k)}
<1>5. \A p \in P : /\ depth[p] \in Nat /\ depth[p] < bound
                   /\ \A i \in DOMAIN Children(p) :
                         Children(p)[i] \in P /\ depth[Children(p)[i]] > depth[p]
  BY <1>1, <1>4 DEF Deepens
<1>6. bound \in Known
  <2>1. PICK g : g = [p \in P |-> << >>]
    OBVIOUS
  <2>2. \A p \in P : ~(depth[p] >= bound)
    BY <1>5
  <2>3. g = [p \in P |-> g[p]]
    BY <2>1
  <2>4. Solved(g, bound)
    BY <2>2, <2>3
  <2> HIDE DEF Solved
  <2> QED BY <2>4
<1>7. PICK m \in Known : \A k \in Known : m <= k
  <2>1. Known \in SUBSET Nat /\ Known # {}
    BY <1>6
  <2> HIDE DEF Known
  <2> QED BY <2>1, LeastElement
<1>8. PICK g : Solved(g, m)
  OBVIOUS
<1>9. m = 0
  <2>1. SUFFICES ASSUME m # 0
                 PROVE  FALSE
    OBVIOUS
  <2>2. PICK k : k = m - 1
    OBVIOUS
  <2>3. m \in Nat /\ k \in Nat /\ k < m
    BY <2>1, <2>2
  <2>4. PICK f : f = [p \in P |-> IF depth[p] = k THEN VisitAt(S, g, p) ELSE g[p]]
    OBVIOUS
  <2>5. ASSUME NEW p \in P, depth[p] >= k
        PROVE  f[p] = VisitAt(S, f, p)
    <3>1. PICK vector : vector = Children(p)
      OBVIOUS
    <3>2. \A i \in DOMAIN vector : vector[i] \in P /\ depth[vector[i]] > depth[p]
      BY <1>5, <3>1
    <3>3. \A i \in DOMAIN vector : depth[vector[i]] # k
      BY <1>5, <2>3, <2>5, <3>2
    <3>4. \A i \in DOMAIN vector : f[vector[i]] = g[vector[i]]
      BY <2>4, <3>2, <3>3
    <3>5. VisitAt(S, f, p) = VisitAt(S, g, p)
      BY <3>1, <3>4, VisitAlike
    <3>6. CASE depth[p] = k
      BY <2>4, <3>5, <3>6
    <3>7. CASE depth[p] # k
      <4>1. depth[p] >= m
        BY <1>5, <2>2, <2>3, <2>5, <3>7
      <4>2. g[p] = VisitAt(S, g, p)
        BY <1>8, <4>1
      <4> QED BY <2>4, <3>5, <3>7, <4>2
    <3> QED BY <3>6, <3>7
  <2>6. f = [p \in P |-> f[p]]
    BY <2>4
  <2>7. Solved(f, k)
    BY <2>5, <2>6
  <2>8. k \in Known
    <3> HIDE DEF Solved
    <3> QED BY <2>3, <2>7
  <2> HIDE DEF Known
  <2> QED BY <1>7, <2>3, <2>8
<1>10. ASSUME NEW p \in P
       PROVE  g[p] = VisitAt(S, g, p)
  <2>1. depth[p] >= m
    BY <1>5, <1>9
  <2> QED BY <1>8, <2>1
<1>11. g = [p \in P |-> g[p]]
  BY <1>8
<1>12. g = [p \in P |-> VisitAt(S, g, p)]
  BY <1>10, <1>11
<1> QED BY <1>1, <1>12

LEMMA VisitSolution ==
    ASSUME CacheDescends, NEW S, NEW h
    PROVE  \E g : /\ g = [n \in {NoNode} \cup DOMAIN objects |-> VisitAt(S, g, n)]
                  /\ Visit(S, h) = g[h]
<1>1. \E g : g = [n \in {NoNode} \cup DOMAIN objects |-> VisitAt(S, g, n)]
  BY VisitIsDefined
<1> QED BY <1>1 DEF Visit

\* What the walk visits from a node.
Visited(S, s, h) ==
    /\ s \in Seq(Nat) /\ InOrder(ParentNow, s)
    /\ \A e : e \in Elements(s) <=> e \in S /\ e \in Under(ParentNow, h)

\* From each node of a vector, what is below it; so from the node above it.
VisitedBelow(S, g, h) ==
    /\ h \in {NoNode} \cup DOMAIN objects
    /\ S \subseteq DOMAIN objects
    /\ \A i \in DOMAIN Children(h) : Visited(S, g[Children(h)[i]], Children(h)[i])

\* The parts of the walk below a node.
PartsBelow(S, up, parts, m, h) ==
    /\ Parts(up, parts, m)
    /\ \A e : (\E j \in 1..m : e \in Elements(parts[j])) <=>
           e \in S /\ \E c \in DOMAIN up : up[c] = h /\ e \in Under(up, c)

LEMMA VisitParts ==
    ASSUME CacheDescends, NEW S, NEW g, NEW h, VisitedBelow(S, g, h),
           NEW vector, vector = Children(h),
           NEW parts, parts = [i \in DOMAIN vector |-> g[vector[i]]]
    PROVE  vector \in Seq(Nat) /\ PartsBelow(S, ParentNow, parts, Len(vector), h)
<1>1. /\ vector \in Seq(DOMAIN objects) /\ vector \in Seq(Nat) /\ Rising(vector)
      /\ \A i \in DOMAIN vector : objects[vector[i]].parent = h
      /\ \A c \in DOMAIN objects : objects[c].parent = h => \E i \in DOMAIN vector : vector[i] = c
  BY VectorOfNode DEF VisitedBelow
<1>2. PICK m \in Nat : m = Len(vector) /\ DOMAIN vector = 1..m
  BY <1>1
<1>3. PICK up : up = ParentNow
  OBVIOUS
<1>4. \A i \in 1..m : vector[i] \in DOMAIN objects
  BY <1>1, <1>2
<1>5. DOMAIN up = DOMAIN objects /\ \A c \in DOMAIN objects : up[c] = objects[c].parent
  BY <1>3 DEF ParentNow
<1>6. \A i \in 1..m : parts[i] = g[vector[i]] /\ Visited(S, parts[i], vector[i])
  BY <1>2 DEF VisitedBelow
<1>7. Rooted(up, IdNow) /\ DOMAIN up \subseteq Nat
  BY <1>3, NodesAreRooted
<1>8. ASSUME NEW i \in 1..m, NEW j \in 1..m, i < j,
             NEW a \in Elements(parts[i]), NEW b \in Elements(parts[j])
      PROVE  Precedes(up, a, b)
  <2>1. PICK c, d : c = vector[i] /\ d = vector[j]
    OBVIOUS
  <2>2. c \in DOMAIN up /\ d \in DOMAIN up /\ c < d /\ up[c] = up[d]
    BY <1>1, <1>2, <1>4, <1>5, <1>8, <2>1 DEF Rising
  <2>3. a \in Under(up, c) /\ b \in Under(up, d)
    BY <1>3, <1>6, <2>1 DEF Visited
  <2> QED BY <1>7, <2>2, <2>3, OlderFirst
<1>9. Parts(up, parts, m)
  <2>1. parts = [i \in 1..m |-> parts[i]]
    BY <1>2
  <2>2. \A i \in 1..m : parts[i] \in Seq(Nat) /\ InOrder(up, parts[i])
    BY <1>3, <1>6 DEF Visited
  <2> QED BY <1>8, <2>1, <2>2 DEF Parts
<1>10. ASSUME NEW e
       PROVE  (\E j \in 1..m : e \in Elements(parts[j])) <=>
                  e \in S /\ \E c \in DOMAIN up : up[c] = h /\ e \in Under(up, c)
  <2>1. \A j \in 1..m : e \in Elements(parts[j]) <=> e \in S /\ e \in Under(up, vector[j])
    BY <1>3, <1>6 DEF Visited
  <2>2. \A j \in 1..m : vector[j] \in DOMAIN up /\ up[vector[j]] = h
    BY <1>1, <1>2, <1>4, <1>5
  <2>3. \A c \in DOMAIN up : up[c] = h => \E j \in 1..m : vector[j] = c
    BY <1>1, <1>2, <1>5
  <2> QED BY <2>1, <2>2, <2>3
<1>11. PartsBelow(S, up, parts, m, h)
  BY <1>9, <1>10 DEF PartsBelow
<1> QED BY <1>1, <1>2, <1>3, <1>11

LEMMA VisitStep ==
    ASSUME CacheDescends, NEW S, NEW g, NEW h, VisitedBelow(S, g, h), NEW s, s = VisitAt(S, g, h)
    PROVE  Visited(S, s, h)
<1>1. PICK vector : vector = Children(h)
  OBVIOUS
<1>2. PICK parts : parts = [i \in DOMAIN vector |-> g[vector[i]]]
  OBVIOUS
<1>3. PICK m : m = Len(vector)
  OBVIOUS
<1>4. PICK up : up = ParentNow
  OBVIOUS
<1>5. /\ vector \in Seq(Nat) /\ Parts(up, parts, m)
      /\ \A e : (\E j \in 1..m : e \in Elements(parts[j])) <=>
             e \in S /\ \E c \in DOMAIN up : up[c] = h /\ e \in Under(up, c)
  <2>1. vector \in Seq(Nat) /\ PartsBelow(S, up, parts, m, h)
    BY <1>1, <1>2, <1>3, <1>4, VisitParts
  <2> QED BY <2>1 DEF PartsBelow
<1>6. m \in Nat
  BY <1>3, <1>5
<1>7. PICK whole : whole = Seqs!FlattenSeq(parts)
  OBVIOUS
<1>8. whole \in Seq(Nat) /\ InOrder(up, whole) /\ Gathers(whole, parts, m)
  BY <1>5, <1>6, <1>7, FlattenInOrder
<1>9. \A e : e \in Elements(whole) <=>
             e \in S /\ \E c \in DOMAIN up : up[c] = h /\ e \in Under(up, c)
  BY <1>5, <1>8 DEF Gathers
<1>10. PICK head : head = IF h \in S THEN <<h>> ELSE << >>
  OBVIOUS
<1>11. s = head \o whole
  BY <1>1, <1>2, <1>7, <1>10 DEF VisitAt
<1>12. /\ h \in {NoNode} \cup DOMAIN up /\ S \subseteq DOMAIN up
       /\ Rooted(up, IdNow) /\ DOMAIN up \subseteq Nat
  BY <1>4, NodesAreRooted DEF VisitedBelow, ParentNow
<1>13. NoNode \notin S
  BY <1>12 DEF Rooted
<1>14. head \in Seq(Nat) /\ (\A e : e \in Elements(head) <=> e = h /\ h \in S) /\ InOrder(up, head)
  <2>1. CASE h \in S
    <3>1. h \in Nat /\ head = <<h>>
      BY <1>10, <1>12, <2>1
    <3>2. head \in Seq(Nat) /\ DOMAIN head = {1} /\ head[1] = h
      BY <3>1
    <3> QED BY <2>1, <3>2 DEF Elements, InOrder
  <2>2. CASE h \notin S
    <3>1. head = << >>
      BY <1>10, <2>2
    <3>2. head \in Seq(Nat) /\ DOMAIN head = {}
      BY <3>1
    <3> QED BY <2>2, <3>2 DEF Elements, InOrder
  <2> QED BY <2>1, <2>2
<1>15. ASSUME NEW a \in Elements(head), NEW b \in Elements(whole)
       PROVE  Precedes(up, a, b)
  <2>1. a = h /\ h \in S /\ h \in DOMAIN up
    BY <1>12, <1>14
  <2>2. PICK c \in DOMAIN up : up[c] = h /\ b \in Under(up, c)
    BY <1>9
  <2>3. b \in Under(up, h)
    BY <1>12, <2>2, UnderChildren
  <2>4. b # h
    <3>1. SUFFICES ASSUME b = h
                   PROVE  FALSE
      OBVIOUS
    <3>2. c \in Path(up, h)
      BY <1>12, <2>2, <3>1 DEF Under, Rooted
    <3>3. IdNow[c] <= IdNow[h]
      BY <1>12, <2>1, <3>2, PathRises
    <3>4. IdNow[h] < IdNow[c] /\ IdNow[h] \in Nat /\ IdNow[c] \in Nat
      BY <1>12, <2>1, <2>2 DEF Rooted
    <3> QED BY <3>3, <3>4
  <2> QED BY <1>12, <2>1, <2>3, <2>4, NodeFirst
<1>16. s \in Seq(Nat)
  BY <1>8, <1>11, <1>14
<1>17. InOrder(up, s)
  BY <1>8, <1>11, <1>14, <1>15, JoinInOrder
<1>18. ASSUME NEW e
       PROVE  e \in Elements(s) <=> e \in S /\ e \in Under(up, h)
  <2>1. Elements(s) = Elements(head) \cup Elements(whole)
    BY <1>8, <1>11, <1>14, ElementsOfBoth
  <2>2. e \in Under(up, h) <=>
            \/ e = h /\ h # NoNode
            \/ \E c \in DOMAIN up : up[c] = h /\ e \in Under(up, c)
    BY <1>12, UnderChildren
  <2> QED BY <1>9, <1>13, <1>14, <2>1, <2>2
<1> QED BY <1>4, <1>16, <1>17, <1>18 DEF Visited

\* The walk from any node visits what is below it, in order.
LEMMA VisitFindsAll ==
    ASSUME CacheDescends, NEW S \in SUBSET DOMAIN objects, NEW h \in {NoNode} \cup DOMAIN objects
    PROVE  Visited(S, Visit(S, h), h)
<1>1. PICK P : P = {NoNode} \cup DOMAIN objects
  OBVIOUS
<1>2. PICK g : /\ g = [n \in P |-> VisitAt(S, g, n)]
               /\ Visit(S, h) = g[h]
  BY <1>1, VisitSolution
<1>3. \E depth : \E bound \in Nat : Deepens(depth, bound)
  BY CacheDeepens
<1>4. PICK depth : \E bound \in Nat : Deepens(depth, bound)
  BY <1>3
<1>5. PICK bound \in Nat : Deepens(depth, bound)
  BY <1>4
<1>6. \A p \in P : /\ depth[p] \in Nat /\ depth[p] < bound
                   /\ \A i \in DOMAIN Children(p) :
                         Children(p)[i] \in P /\ depth[Children(p)[i]] > depth[p]
  BY <1>1, <1>5 DEF Deepens
<1>7. PICK Wrong : Wrong = {n \in P : ~Visited(S, g[n], n)}
  OBVIOUS
<1>8. Wrong = {}
  <2>1. SUFFICES ASSUME Wrong # {}
                 PROVE  FALSE
    OBVIOUS
  <2>2. PICK T : T = {depth[n] : n \in Wrong}
    OBVIOUS
  <2>3. T \in SUBSET Nat /\ T # {}
    BY <1>6, <1>7, <2>1, <2>2
  <2>4. \A k \in T : k <= bound
    <3>1. \A n \in Wrong : depth[n] <= bound
      BY <1>6, <1>7
    <3> QED BY <2>2, <3>1
  <2>5. PICK m \in T : \A k \in T : k <= m
    BY <2>3, <2>4, GreatestElement
  <2>6. PICK n \in Wrong : depth[n] = m
    BY <2>2, <2>5
  <2>7. n \in P /\ ~Visited(S, g[n], n)
    BY <1>7, <2>6
  <2>8. ASSUME NEW i \in DOMAIN Children(n)
        PROVE  Visited(S, g[Children(n)[i]], Children(n)[i])
    <3>1. PICK c : c = Children(n)[i]
      OBVIOUS
    <3>2. c \in P /\ depth[c] > depth[n] /\ depth[c] \in Nat /\ depth[n] \in Nat
      BY <1>6, <2>7, <3>1
    <3>3. depth[c] \notin T
      BY <2>5, <2>6, <3>2
    <3>4. c \notin Wrong
      BY <2>2, <3>3
    <3> QED BY <1>7, <3>1, <3>2, <3>4
  <2>9. VisitedBelow(S, g, n)
    BY <1>1, <2>7, <2>8 DEF VisitedBelow
  <2>10. g[n] = VisitAt(S, g, n)
    BY <1>2, <2>7
  <2>11. Visited(S, g[n], n)
    BY <2>9, <2>10, VisitStep
  <2> QED BY <2>7, <2>11
<1> QED BY <1>1, <1>2, <1>7, <1>8

\* The walk from the roots lists the nodes of a set, each once.
LEMMA VisitFromRoots ==
    ASSUME CacheDescends, NEW S \in SUBSET DOMAIN objects, NEW s, s = Visit(S, NoNode)
    PROVE  ListsOnce(s, S) /\ InOrder(ParentNow, s)
<1>1. Visited(S, s, NoNode)
  BY VisitFindsAll
<1>2. PICK up : up = ParentNow
  OBVIOUS
<1>3. DOMAIN up = DOMAIN objects
  BY <1>2 DEF ParentNow
<1>4. s \in Seq(Nat) /\ InOrder(up, s) /\ Elements(s) = S
  <2>1. \A e \in S : e \in Under(up, NoNode)
    BY <1>3 DEF Under
  <2> QED BY <1>1, <1>2, <2>1 DEF Visited
<1>5. PICK m \in Nat : DOMAIN s = 1..m
  BY <1>4
<1>6. (\A i \in 1..m : s[i] \in S) /\ \A e \in S : \E i \in 1..m : s[i] = e
  BY <1>4, <1>5 DEF Elements
<1>7. s \in Seq(S)
  BY <1>4, <1>5, <1>6
<1>8. ASSUME NEW i \in 1..m, NEW j \in 1..m, s[i] = s[j], i < j
      PROVE  FALSE
  <2>1. PICK a : a = s[i]
    OBVIOUS
  <2>2. Precedes(up, a, a)
    BY <1>4, <1>5, <1>8, <2>1 DEF InOrder
  <2>3. a \in DOMAIN up
    BY <1>3, <1>6, <2>1
  <2> QED BY <2>2, <2>3, PathContains DEF Precedes
<1>9. \A i, j \in 1..m : s[i] = s[j] => i = j
  <2>1. \A i, j \in 1..m : i < j \/ j < i \/ i = j
    OBVIOUS
  <2> QED BY <1>8, <2>1
<1> QED BY <1>2, <1>4, <1>5, <1>6, <1>7, <1>9 DEF ListsOnce

\* A vector that lists a set once is a bijection.
LEMMA ListIsBijection ==
    ASSUME NEW S, NEW s, ListsOnce(s, S)
    PROVE  /\ Len(s) \in Nat /\ DOMAIN s = 1..Len(s)
           /\ s \in Bijection(1..Len(s), S) /\ Cardinality(S) = Len(s)
<1>1. s \in Seq(S)
  BY DEF ListsOnce
<1>2. PICK m \in Nat : m = Len(s) /\ DOMAIN s = 1..m
  BY <1>1
<1>3. s \in [1..m -> S]
  BY <1>1, <1>2
<1>4. (\A i, j \in 1..m : s[i] = s[j] => i = j) /\ \A x \in S : \E i \in 1..m : s[i] = x
  BY <1>2 DEF ListsOnce
<1>5. s \in Bijection(1..m, S)
  BY <1>3, <1>4 DEF Bijection, Injection, Surjection, IsInjective
<1>6. Cardinality(S) = m
  <2>1. ExistsBijection(1..m, S)
    BY <1>5 DEF ExistsBijection
  <2> QED BY <2>1, FS_CountingElements
<1> QED BY <1>2, <1>5, <1>6

\* A synchronisation leaves nobody out and sends nothing twice: the walk from
\* roots_ comes to every live node, and to each once.
THEOREM WalkIsComplete == Spec => []WalkVisitsEachNodeOnce
<1>1. ASSUME CallsInv, AtomicInv
      PROVE  WalkVisitsEachNodeOnce
  <2>1. Idle => CacheDescends
    BY <1>1, CacheBetweenCalls
  <2>2. ASSUME CacheDescends, NEW visited, visited = Visit(DOMAIN objects, NoNode)
        PROVE  Len(visited) = Len(objects) /\ Seqs!ToSet(visited) = DOMAIN objects
    <3>1. PICK S : S = DOMAIN objects
      OBVIOUS
    <3>2. ListsOnce(visited, S)
      BY <2>2, <3>1, VisitFromRoots
    <3>3. PICK n \in Nat : n = Len(objects) /\ S = 1..n
      BY <2>2, <3>1 DEF CacheDescends
    <3>4. Cardinality(1..n) = n
      <4>1. n - 1 + 1 = n /\ 1 <= n + 1
        OBVIOUS
      <4> QED BY <4>1, FS_Interval
    <3>5. Cardinality(S) = Len(visited)
      BY <3>2, ListIsBijection
    <3>6. Seqs!ToSet(visited) = S
      <4>1. visited \in Seq(S) /\ \A x \in S : \E i \in DOMAIN visited : visited[i] = x
        BY <3>2 DEF ListsOnce
      <4>2. \A i \in DOMAIN visited : visited[i] \in S
        BY <4>1
      <4> QED BY <4>1, <4>2 DEF Seqs!ToSet
    <3> QED BY <3>1, <3>3, <3>4, <3>5, <3>6
  <2> QED BY <2>1, <2>2 DEF WalkVisitsEachNodeOnce
<1> QED BY <1>1, CallsStayConsistent, CallsKeepTrack, PTL

\* Two lists of the same nodes, both in the order of the walk, are the same.
LEMMA OneOrder ==
    ASSUME NEW up, NEW depth, Rooted(up, depth), DOMAIN up \subseteq Nat,
           NEW S \in SUBSET DOMAIN up, NEW n \in Nat,
           NEW s \in Bijection(1..n, S), InOrder(up, s),
           NEW t \in Bijection(1..n, S), InOrder(up, t)
    PROVE  s = t
<1>1. ASSUME NEW f \in Bijection(1..n, S)
      PROVE  /\ f = [i \in 1..n |-> f[i]]
             /\ \A i \in 1..n : f[i] \in S
             /\ \A i, j \in 1..n : f[i] = f[j] => i = j
             /\ \A x \in S : \E i \in 1..n : f[i] = x
  BY DEF Bijection, Injection, Surjection, IsInjective
<1>2. PICK T : T = {i \in 1..n : s[i] # t[i]}
  OBVIOUS
<1>3. T = {}
  <2>1. SUFFICES ASSUME T # {}
                 PROVE  FALSE
    OBVIOUS
  <2>2. T \in SUBSET Nat /\ T # {}
    BY <1>2, <2>1
  <2>3. PICK i \in T : \A k \in T : i <= k
    BY <2>2, LeastElement
  <2>4. i \in 1..n /\ s[i] # t[i] /\ DOMAIN s = 1..n /\ DOMAIN t = 1..n
    BY <1>1, <1>2
  <2>5. \A k \in 1..n : k < i => s[k] = t[k]
    <3>1. \A k \in 1..n : k < i => ~(i <= k)
      BY <2>4
    <3> QED BY <1>2, <2>3, <3>1
  <2>6. PICK j \in 1..n : t[j] = s[i]
    BY <1>1, <2>4
  <2>7. PICK k \in 1..n : s[k] = t[i]
    BY <1>1, <2>4
  <2>8. i < j
    <3>1. j # i
      BY <2>4, <2>6
    <3>2. ASSUME j < i
          PROVE  FALSE
      <4>1. s[j] = s[i]
        BY <2>5, <2>6, <3>2
      <4> QED BY <1>1, <2>4, <3>1, <4>1
    <3> QED BY <2>4, <3>1, <3>2
  <2>9. i < k
    <3>1. k # i
      BY <2>4, <2>7
    <3>2. ASSUME k < i
          PROVE  FALSE
      <4>1. t[k] = t[i]
        BY <2>5, <2>7, <3>2
      <4> QED BY <1>1, <2>4, <3>1, <4>1
    <3> QED BY <2>4, <3>1, <3>2
  <2>10. PICK a, b : a = s[i] /\ b = t[i]
    OBVIOUS
  <2>11. Precedes(up, b, a)
    BY <2>4, <2>6, <2>8, <2>10 DEF InOrder
  <2>12. Precedes(up, a, b)
    BY <2>4, <2>7, <2>9, <2>10 DEF InOrder
  <2>13. a \in DOMAIN up /\ b \in DOMAIN up
    BY <1>1, <2>4, <2>10
  <2> QED BY <2>11, <2>12, <2>13, PrecedesOneWay
<1>4. s = [i \in 1..n |-> s[i]] /\ t = [i \in 1..n |-> t[i]]
  BY <1>1
<1> QED BY <1>2, <1>3, <1>4

\* The orders TreeCache allows for the creations.
LEMMA OrdersOfCreation ==
    ASSUME CacheDescends, Seen.nodes = Outside(objects),
           NEW S, S = Atomic!NodesIn("New"), NEW n, n = Cardinality(S)
    PROVE  /\ S \in SUBSET DOMAIN objects
           /\ Atomic!CreationOrders = {o \in Bijection(1..n, S) : InOrder(ParentNow, o)}
<1>1. PICK up : up = ParentNow
  OBVIOUS
<1>2. /\ DOMAIN Seen.nodes = DOMAIN objects /\ DOMAIN up = DOMAIN objects
      /\ \A h \in DOMAIN objects : Seen.nodes[h].parent = up[h]
  <2>1. /\ DOMAIN Outside(objects) = DOMAIN objects
        /\ \A h \in DOMAIN objects : SameFields(Outside(objects)[h], objects[h])
    BY OutsideFields DEF CacheDescends
  <2> QED BY <1>1, <2>1 DEF SameFields, ParentNow
<1>3. Atomic!Up = up
  BY <1>1, <1>2 DEF Atomic!Up, ParentNow
<1>4. S \in SUBSET DOMAIN objects
  BY <1>2 DEF Atomic!NodesIn
<1>5. \A x : Atomic!Path(up, x) = Path(up, x)
  BY DEF Atomic!Path, Path
<1>6. ASSUME NEW a, NEW b
      PROVE  Atomic!VisitedBefore(a, b) <=> Precedes(up, a, b)
  <2>1. \A x, y : /\ x \in Path(up, a) => Seen.nodes[x].parent = up[x]
                  /\ y \in Path(up, b) => Seen.nodes[y].parent = up[y]
    BY <1>2 DEF Path
  <2> QED BY <1>3, <1>5, <2>1 DEF Atomic!VisitedBefore, Precedes
<1>7. Atomic!Bijection(1..n, S) = Bijection(1..n, S)
  BY DEF Atomic!Bijection, Atomic!Injection, Atomic!Surjection, Atomic!IsInjective,
         Bijection, Injection, Surjection, IsInjective
<1>8. Atomic!Cardinality(S) = n
  BY SameCardinality
<1>9. Atomic!CreationOrders =
          {o \in Bijection(1..n, S) :
              \A i, j \in DOMAIN o : i < j => Atomic!VisitedBefore(o[i], o[j])}
  BY <1>7, <1>8 DEF Atomic!CreationOrders
<1>10. \A o : (\A i, j \in DOMAIN o : i < j => Atomic!VisitedBefore(o[i], o[j])) <=> InOrder(up, o)
  BY <1>6 DEF InOrder
<1>11. Atomic!CreationOrders = {o \in Bijection(1..n, S) : InOrder(up, o)}
  BY <1>9, <1>10
<1> QED BY <1>1, <1>4, <1>11

\* What TreeCache says of the order in which new nodes are sent leaves exactly
\* one order, and it is the one collectChanges finds on its way down.
THEOREM CreationIsTheWalk == Spec => []CreationFollowsWalk
<1>1. ASSUME CallsInv, AtomicInv
      PROVE  CreationFollowsWalk
  <2>1. SUFFICES ASSUME Idle
                 PROVE  Atomic!CreationOrders = {Visit(Atomic!NodesIn("New"), NoNode)}
    BY DEF CreationFollowsWalk
  <2>2. CacheDescends
    BY <1>1, <2>1, CacheBetweenCalls
  <2>3. Seen.nodes = Outside(objects)
    BY <2>1, SeenOutside, NowOutside
  <2>4. PICK S : S = Atomic!NodesIn("New")
    OBVIOUS
  <2>5. PICK n : n = Cardinality(S)
    OBVIOUS
  <2>6. PICK up : up = ParentNow
    OBVIOUS
  <2>7. /\ S \in SUBSET DOMAIN objects
        /\ Atomic!CreationOrders = {o \in Bijection(1..n, S) : InOrder(up, o)}
    BY <2>2, <2>3, <2>4, <2>5, <2>6, OrdersOfCreation
  <2>8. PICK s : s = Visit(S, NoNode)
    OBVIOUS
  <2>9. ListsOnce(s, S) /\ InOrder(up, s)
    BY <2>2, <2>6, <2>7, <2>8, VisitFromRoots
  <2>10. n \in Nat /\ s \in Bijection(1..n, S)
    BY <2>5, <2>9, ListIsBijection
  <2>11. Rooted(up, IdNow) /\ DOMAIN up \subseteq Nat /\ S \in SUBSET DOMAIN up
    BY <2>2, <2>6, <2>7, NodesAreRooted DEF ParentNow
  <2>12. \A o \in Bijection(1..n, S) : InOrder(up, o) => o = s
    BY <2>9, <2>10, <2>11, OneOrder
  <2>13. {o \in Bijection(1..n, S) : InOrder(up, o)} = {s}
    BY <2>9, <2>10, <2>12
  <2> QED BY <2>4, <2>7, <2>8, <2>13
<1> QED BY <1>1, CallsStayConsistent, CallsKeepTrack, PTL

=============================================================================
